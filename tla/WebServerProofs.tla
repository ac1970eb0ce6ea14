--------------------------- MODULE WebServerProofs ---------------------------
(***************************************************************************)
(* Proofs about WebServer, for any clients, requests and addresses: its    *)
(* descriptors, and what the clients are sent.                             *)
(***************************************************************************)
EXTENDS WebServer, FiniteSetTheorems, SequenceTheorems, WellFoundedInduction, TLAPS

Idle    == {"open", "listen", "accept", "exit", "ended"}
Serving == {"line", "header", "body", "route", "send", "close", "drop"}

(* The state has its types, and a connection is handled where the code     *)
(* handles one.                                                            *)
Types ==
  /\ pc \in Idle \cup Serving \cup {"terminated"}
  /\ addresses \in 0 .. Addresses
  /\ backlog \in Seq(Clients) /\ Len(backlog) <= Backlog
  /\ client \in {None} \cup {<<c>> : c \in Clients}
  /\ pc \in Serving => client # None
  /\ pc \in Idle => client = None
  /\ length \in Nat \cup {NoLength, BadLength} /\ body \in Nat
  /\ request \in [Clients -> Requests]
  /\ peer \in [Clients -> {"away", "open", "shut", "reset"}]
  /\ whole \in [Clients -> BOOLEAN] /\ served \subseteq Clients

(* The descriptors that are open at each step                              *)
OpenFiles ==
  /\ listener \in {Closed, 3} /\ file \in {Closed, 4}
  /\ pc = "open" => open = {}
  /\ pc \in {"listen", "accept"} => listener = 3 /\ open = {3}
  /\ pc = "exit" => open = {} \/ (listener = 3 /\ open = {3})
  /\ pc \in Idle => file = Closed
  /\ pc \in Serving => /\ listener = 3
                       /\ file = 4 => open = {3, 4}
                       /\ file = Closed => pc = "drop" /\ open = {3}
  /\ Down => open = {}

(* The inductive invariant of the descriptors *)
FilesInv == Types /\ OpenFiles
-----------------------------------------------------------------------------
USE DEF None, Closed, NoLength, BadLength

(* The lowest free descriptor, with none open and with the listener        *)
LEMMA NewFileIs == (open = {} => NewFile = 3) /\ (open = {3} => NewFile = 4)
<1>1. ASSUME open = {} PROVE NewFile = 3
  <2>1. Cardinality(open) = 0
    BY <1>1, FS_EmptySet
  <2> QED BY <1>1, <2>1 DEF NewFile
<1>2. ASSUME open = {3} PROVE NewFile = 4
  <2>1. Cardinality(open) = 1
    BY <1>2, FS_Singleton
  <2>2. \A f \in 3 .. 4 : (f \notin {3} /\ \A g \in 3 .. f - 1 : g \in {3}) <=> f = 4
    OBVIOUS
  <2> QED BY <1>2, <2>1, <2>2 DEF NewFile
<1> QED BY <1>1, <1>2

(* The client being served *)
LEMMA ClientIs ==
  ASSUME Types, client # None
  PROVE  C \in Clients /\ client = <<C>>
BY DEF Types, C

(* At the start nothing is open. *)
LEMMA InitFiles == Init => FilesInv
<1> SUFFICES ASSUME Init PROVE FilesInv
  OBVIOUS
<1>1. backlog \in Seq(Clients) /\ Len(backlog) <= Backlog
  BY ServerAssumption DEF Init
<1> QED BY <1>1, ServerAssumption DEF Init, FilesInv, Types, OpenFiles, Idle, Serving, Down

(* The steps before the first connection and after the last *)
LEMMA ListenFiles ==
  ASSUME FilesInv, TryAddress \/ Listen \/ Exit
  PROVE  FilesInv'
<1>1. UNCHANGED <<backlog, connection, network>>
  BY DEF TryAddress, Listen, Exit
<1>2. Types'
  BY <1>1, ServerAssumption
     DEF FilesInv, Types, TryAddress, Listen, Exit, Idle, Serving, connection, network
<1>3. CASE TryAddress
  BY <1>1, <1>2, <1>3, NewFileIs
     DEF FilesInv, OpenFiles, TryAddress, Idle, Serving, Down, connection
<1>4. CASE Listen
  BY <1>1, <1>2, <1>4 DEF FilesInv, OpenFiles, Listen, Idle, Serving, Down, connection
<1>5. CASE Exit
  BY <1>1, <1>2, <1>5 DEF FilesInv, OpenFiles, Exit, Idle, Serving, Down, connection
<1> QED BY <1>2, <1>3, <1>4, <1>5 DEF FilesInv

(* A connection is accepted, or the loop ends. *)
LEMMA AcceptFiles == ASSUME FilesInv, Accept PROVE FilesInv'
<1>1. pc = "accept" /\ listener = 3 /\ open = {3} /\ backlog \in Seq(Clients)
      /\ client = None /\ file = Closed /\ Len(backlog) \in Nat /\ Len(backlog) <= Backlog
  BY LenProperties DEF FilesInv, Types, OpenFiles, Accept, Idle
<1>2. backlog # << >> => /\ Head(backlog) \in Clients /\ Tail(backlog) \in Seq(Clients)
                         /\ Len(Tail(backlog)) <= Backlog
  BY <1>1, ServerAssumption, HeadTailProperties
<1>3. UNCHANGED <<addresses, listener, length, body, network>>
  BY DEF Accept
<1>4. \/ /\ client' = <<Head(backlog)>> /\ file' = 4 /\ open' = {3, 4} /\ backlog' = Tail(backlog)
         /\ pc' = "line" /\ backlog # << >>
      \/ pc' = "exit" /\ UNCHANGED <<client, file, open, backlog>>
  BY <1>1, NewFileIs DEF Accept
<1>5. Types'
  <2>1. /\ client' \in {None} \cup {<<c>> : c \in Clients}
        /\ client' = None => pc' = "exit"
        /\ pc' = "exit" => client' = None
    <3>1. <<Head(backlog)>> # << >>
      OBVIOUS
    <3>2. CASE backlog # << >> /\ client' = <<Head(backlog)>> /\ pc' = "line"
      BY <1>2, <3>1, <3>2
    <3>3. CASE client' = client /\ pc' = "exit"
      BY <1>1, <3>3
    <3> QED BY <1>4, <3>2, <3>3
  <2>2. backlog' \in Seq(Clients) /\ Len(backlog') <= Backlog
    BY <1>1, <1>2, <1>4
  <2> QED BY <1>1, <1>3, <1>4, <2>1, <2>2 DEF FilesInv, Types, Idle, Serving, network
<1>6. OpenFiles'
  BY <1>1, <1>3, <1>4 DEF OpenFiles, Idle, Serving, Down
<1> QED BY <1>5, <1>6 DEF FilesInv

(* The steps that read and parse *)
LEMMA ReadFiles ==
  ASSUME FilesInv, Receive \/ RequestLine \/ HeaderLine \/ Body
  PROVE  FilesInv'
<1>1. /\ UNCHANGED <<addresses, listener, open, backlog, client, file, request, peer, served>>
      /\ pc \in {"line", "header", "body"} /\ pc' \in {"line", "header", "body", "route", "drop"}
  <2>1. CASE Receive
    BY <2>1 DEF Receive, Reading
  <2>2. CASE RequestLine \/ HeaderLine
    BY <2>2 DEF RequestLine, HeaderLine, network
  <2>3. CASE Body
    BY <2>3 DEF Body
  <2> QED BY <2>1, <2>2, <2>3
<1>2. C \in Clients
  BY <1>1, ClientIs DEF FilesInv, Types, Serving
<1>3. length' \in Nat \cup {NoLength, BadLength} /\ body' \in Nat
  <2>1. CASE Receive \/ RequestLine
    BY <2>1 DEF Receive, RequestLine, FilesInv, Types
  <2>2. CASE HeaderLine
    BY <1>2, <2>2 DEF HeaderLine, FilesInv, Types, Requests
  <2>3. CASE Body
    <3>1. length' = length /\ (body' = body \/ \E n \in 1 .. length - body : body' = body + n)
      BY <2>3 DEF Body
    <3> QED BY <3>1 DEF FilesInv, Types
  <2> QED BY <2>1, <2>2, <2>3
<1>4. whole' \in [Clients -> BOOLEAN]
  <2>1. whole' = whole \/ \E b \in BOOLEAN : whole' = [whole EXCEPT ![C] = @ /\ b]
    BY DEF Receive, RequestLine, HeaderLine, Body, network
  <2> QED BY <1>2, <2>1 DEF FilesInv, Types
<1>5. Types'
  BY <1>1, <1>3, <1>4 DEF FilesInv, Types, Idle, Serving
<1>6. OpenFiles'
  BY <1>1 DEF FilesInv, OpenFiles, Idle, Serving, Down
<1> QED BY <1>5, <1>6 DEF FilesInv

(* The steps that answer and close *)
LEMMA AnswerFiles ==
  ASSUME FilesInv, Route \/ Send \/ Close \/ Drop \/ CloseThrows
  PROVE  FilesInv'
<1>1. /\ pc \in Serving /\ UNCHANGED <<addresses, listener, backlog, request, peer, whole>>
      /\ pc' \in {"terminated", "send", "close", "drop", "accept"}
  BY DEF Route, Send, Close, Drop, CloseThrows, Serving, network
<1>2. C \in Clients
  BY <1>1, ClientIs DEF FilesInv, Types
<1>3. Types'
  BY <1>1, <1>2 DEF FilesInv, Types, Idle, Serving, Route, Send, Close, Drop, CloseThrows, network
<1>4. CASE Route \/ Send \/ CloseThrows
  BY <1>1, <1>3, <1>4 DEF FilesInv, OpenFiles, Idle, Serving, Down, Route, Send, CloseThrows
<1>5. CASE Close \/ Drop
  BY <1>1, <1>3, <1>5 DEF FilesInv, OpenFiles, Idle, Serving, Down, Close, Drop, CloseFile
<1> QED BY <1>3, <1>4, <1>5 DEF FilesInv

(* The clients open and close nothing of the server's. *)
LEMMA ClientFiles ==
  ASSUME FilesInv, NEW c \in Clients, Connect(c) \/ Leave(c)
  PROVE  FilesInv'
<1>1. UNCHANGED <<pc, addresses, listener, open, connection, request, whole, served>>
  BY DEF Connect, Leave
<1>2. backlog' \in Seq(Clients) /\ Len(backlog') <= Backlog
  <2>1. CASE Connect(c)
    <3>1. backlog' = Append(backlog, c) /\ Len(backlog) < Backlog /\ backlog \in Seq(Clients)
      BY <2>1 DEF Connect, FilesInv, Types
    <3> QED BY <3>1, ServerAssumption, AppendProperties, LenProperties
  <2>2. CASE Leave(c)
    BY <2>2 DEF Leave, FilesInv, Types
  <2> QED BY <2>1, <2>2
<1>3. peer' \in [Clients -> {"away", "open", "shut", "reset"}]
  BY DEF Connect, Leave, FilesInv, Types
<1>4. Types'
  BY <1>1, <1>2, <1>3 DEF FilesInv, Types, connection
<1>5. OpenFiles'
  BY <1>1 DEF FilesInv, OpenFiles, connection, Down
<1> QED BY <1>4, <1>5 DEF FilesInv

(* Every step keeps the invariant. *)
LEMMA NextFiles == FilesInv /\ [Next]_vars => FilesInv'
<1> SUFFICES ASSUME FilesInv, [Next]_vars PROVE FilesInv'
  OBVIOUS
<1>1. CASE ServerStep
  BY <1>1, ListenFiles, AcceptFiles, ReadFiles, AnswerFiles DEF ServerStep
<1>2. CASE UNCHANGED vars
  BY <1>2 DEF vars, connection, network, FilesInv, Types, OpenFiles, Down
<1> QED BY <1>1, <1>2, ClientFiles DEF Next

(* The invariant holds in every state. *)
LEMMA FilesInvariance == Spec => []FilesInv
BY InitFiles, NextFiles, PTL DEF Spec

(* The state of the web server keeps its types, for any clients and        *)
(* requests, and wherever their segments are cut.                          *)
THEOREM TypeCorrect == Spec => []TypeOK
<1>1. FilesInv => TypeOK
  <2> SUFFICES ASSUME FilesInv PROVE TypeOK
    OBVIOUS
  <2>1. Range(backlog) \subseteq Clients
    BY ElementOfSeq DEF FilesInv, Types, Range
  <2>2. open \subseteq {3, 4}
    BY DEF FilesInv, Types, OpenFiles, Idle, Serving, Down
  <2> QED BY <2>1, <2>2 DEF FilesInv, Types, OpenFiles, TypeOK, Idle, Serving
<1> QED BY <1>1, FilesInvariance, PTL

(* No descriptor is lost and none is kept after its close.                 *)
THEOREM FilesAreBalanced == Spec => []DescriptorsAreBalanced
<1>1. FilesInv => DescriptorsAreBalanced
  BY DEF FilesInv, Types, OpenFiles, DescriptorsAreBalanced, Idle, Serving, Down
<1> QED BY <1>1, FilesInvariance, PTL
-----------------------------------------------------------------------------
(* What a client is sent.  The parts of a request's text *)
Symbols == {"method", "uri", "HTTP/1.0", "HTTP/1.1", "\r", "\n", "Host:", ":port",
            "Content-Length:", "digits", "byte"}
Bytes(r) == [i \in 1 .. IF r.length > 0 THEN r.length ELSE 0 |-> "byte"]

(* Two texts joined, a name that the provers need not expand; a line       *)
Joined(s, t)       == s \o t
OnLine(line, rest) == Joined(line, Joined(<<"\n">>, rest))

(* What a sequence has behind its first k elements; a line has no end      *)
Behind(a, s, k) == k <= Len(s) /\ Len(a) = Len(s) - k /\ \A i \in 1 .. Len(a) : a[i] = s[k + i]
OneLine(line)   == \A i \in 1 .. Len(line) : line[i] # "\n"

AfterHeader(r) == OnLine(<<"\r">>, Bytes(r))
AfterHost(r)   == IF r.length = NoLength THEN AfterHeader(r)
                  ELSE OnLine(<<"Content-Length:", "digits", "\r">>, AfterHeader(r))
AfterFirst(r)  == IF ~r.host THEN AfterHost(r)
                  ELSE OnLine(<<"Host:", ":port", "\r">>, AfterHost(r))
FirstOf(r)     == <<"method", "uri", r.version, "\r">>

(* What may be left to read when the parser is at a line of the header *)
HeaderTexts(r) == {AfterFirst(r), AfterHost(r), AfterHeader(r)}

Answer(c) == Response(request[c].target)
Pieces(c) == {Answer(c)[i] : i \in 1 .. 4}

(* A client that waits, with a request that the server can parse and whose *)
(* segments were whole lines                                               *)
Good(c) == /\ peer[c] = "open" /\ whole[c] /\ request[c].target # "malformed"
           /\ request[c].length \notin {0, BadLength}

TextTypes == input \in Seq(Symbols) /\ wire \in [Clients -> Seq(Symbols)]

(* A client is queued once; before its turn nothing of its request has     *)
(* been read, and nothing was sent to it.                                  *)
TurnsInOrder ==
  /\ client = None => input = << >> /\ length = NoLength
  /\ \A c \in Clients :
       /\ client # <<c>> /\ c \notin served =>
            /\ sent[c] = << >> /\ whole[c]
            /\ peer[c] \in {"away", "open"} => wire[c] = RequestText(request[c])
       /\ peer[c] = "away" => c \notin served /\ client # <<c>>
                              /\ \A i \in 1 .. Len(backlog) : backlog[i] # c
       /\ client = <<c>> => c \notin served /\ \A i \in 1 .. Len(backlog) : backlog[i] # c
       /\ c \in served => \A i \in 1 .. Len(backlog) : backlog[i] # c
  /\ \A i, j \in 1 .. Len(backlog) : backlog[i] = backlog[j] => i = j

(* The parser is at the beginning of a line of the request, and what was   *)
(* received are whole lines.                                               *)
ParserInOrder ==
  /\ pc = "line" => length = NoLength
  /\ pc \in Serving /\ Good(C) =>
       /\ pc \in {"line", "header"} => input = << >> \/ Last(input) = "\n"
       /\ pc = "line" => Joined(input, wire[C]) = RequestText(request[C])
       /\ pc = "header" => Joined(input, wire[C]) \in HeaderTexts(request[C])
       /\ pc \in {"header", "body"} => length \in {NoLength, request[C].length}

(* What was sent to the client being served, and what is still to send     *)
SendsInOrder ==
  /\ pc \in {"line", "header", "body", "route"} => sent[C] = << >>
  /\ pc = "send" => output \in Seq(Pieces(C)) /\ Joined(sent[C], output) = Answer(C)
  /\ pc \in {"close", "drop"} /\ Good(C) => sent[C] = Answer(C)

(* What was sent to any client                                             *)
AnswersInOrder ==
  /\ DOMAIN sent = Clients
  /\ \A c \in Clients : sent[c] \in Seq(Pieces(c)) /\ IsPrefix(sent[c], Answer(c))
  /\ \A c \in served : Good(c) => sent[c] = Answer(c)

(* The inductive invariant of the answers *)
AnswerInv == /\ FilesInv /\ TextTypes /\ TurnsInOrder
             /\ ParserInOrder /\ SendsInOrder /\ AnswersInOrder
-----------------------------------------------------------------------------
(* The elements of a concatenation are those of its parts. *)
LEMMA ConcatParts ==
  \A s, t \in Seq(Symbols) :
    /\ Joined(s, t) \in Seq(Symbols) /\ Len(Joined(s, t)) = Len(s) + Len(t)
    /\ \A i \in 1 .. Len(s) : Joined(s, t)[i] = s[i]
    /\ \A i \in 1 .. Len(t) : Joined(s, t)[Len(s) + i] = t[i]
<1> TAKE s, t \in Seq(Symbols)
<1>1. Len(s) \in Nat /\ Len(t) \in Nat
  BY LenProperties
<1>2. /\ Joined(s, t) \in Seq(Symbols) /\ Len(Joined(s, t)) = Len(s) + Len(t)
      /\ \A i \in 1 .. Len(s) + Len(t) : Joined(s, t)[i] = IF i <= Len(s) THEN s[i] ELSE t[i - Len(s)]
  BY ConcatProperties DEF Joined
<1>3. ASSUME NEW i \in 1 .. Len(s) PROVE Joined(s, t)[i] = s[i]
  <2>1. i \in 1 .. Len(s) + Len(t) /\ i <= Len(s)
    BY <1>1
  <2> QED BY <1>2, <2>1
<1>4. ASSUME NEW i \in 1 .. Len(t) PROVE Joined(s, t)[Len(s) + i] = t[i]
  <2>1. Len(s) + i \in 1 .. Len(s) + Len(t) /\ ~(Len(s) + i <= Len(s)) /\ (Len(s) + i) - Len(s) = i
    BY <1>1
  <2> QED BY <1>2, <2>1
<1> QED BY <1>2, <1>3, <1>4

(* A sequence cut in two                                                   *)
LEMMA CutInTwo ==
  ASSUME NEW S, NEW s \in Seq(S), NEW k \in 0 .. Len(s)
  PROVE  /\ SubSeq(s, 1, k) \in Seq(S) /\ Len(SubSeq(s, 1, k)) = k
         /\ \A i \in 1 .. k : SubSeq(s, 1, k)[i] = s[i]
         /\ SubSeq(s, k + 1, Len(s)) \in Seq(S) /\ Len(SubSeq(s, k + 1, Len(s))) = Len(s) - k
         /\ \A i \in 1 .. Len(s) - k : SubSeq(s, k + 1, Len(s))[i] = s[k + i]
         /\ Joined(SubSeq(s, 1, k), SubSeq(s, k + 1, Len(s))) = s
<1>1. Len(s) \in Nat /\ k \in Nat /\ k <= Len(s) /\ \A i \in 1 .. Len(s) : s[i] \in S
  BY LenProperties, ElementOfSeq
<1>2. /\ SubSeq(s, 1, k) \in Seq(S) /\ Len(SubSeq(s, 1, k)) = k
      /\ \A i \in 1 .. k : SubSeq(s, 1, k)[i] = s[i]
  <2>1. \A i \in 1 .. k : s[i] \in S
    BY <1>1
  <2>2. /\ SubSeq(s, 1, k) \in Seq(S) /\ Len(SubSeq(s, 1, k)) = IF 1 <= k THEN k - 1 + 1 ELSE 0
        /\ \A i \in 1 .. k - 1 + 1 : SubSeq(s, 1, k)[i] = s[1 + i - 1]
    BY <1>1, <2>1, SubSeqProperties
  <2> QED BY <1>1, <2>2
<1>3. /\ SubSeq(s, k + 1, Len(s)) \in Seq(S) /\ Len(SubSeq(s, k + 1, Len(s))) = Len(s) - k
      /\ \A i \in 1 .. Len(s) - k : SubSeq(s, k + 1, Len(s))[i] = s[k + i]
  <2>1. PICK m \in Nat : m = k + 1
    BY <1>1
  <2>2. \A i \in m .. Len(s) : s[i] \in S
    BY <1>1, <2>1
  <2>3. /\ SubSeq(s, m, Len(s)) \in Seq(S)
        /\ Len(SubSeq(s, m, Len(s))) = IF m <= Len(s) THEN Len(s) - m + 1 ELSE 0
        /\ \A i \in 1 .. Len(s) - m + 1 : SubSeq(s, m, Len(s))[i] = s[m + i - 1]
    BY <1>1, <2>2, SubSeqProperties
  <2>4. Len(SubSeq(s, m, Len(s))) = Len(s) - k /\ Len(s) - m + 1 = Len(s) - k
    BY <1>1, <2>1, <2>3
  <2>5. ASSUME NEW i \in 1 .. Len(s) - k PROVE SubSeq(s, m, Len(s))[i] = s[k + i]
    <3>1. i \in 1 .. Len(s) - m + 1 /\ m + i - 1 = k + i
      BY <1>1, <2>1
    <3> QED BY <2>3, <3>1
  <2> QED BY <2>1, <2>3, <2>4, <2>5
<1>4. SubSeq(s, 1, k) \o SubSeq(s, k + 1, Len(s)) = s
  <2>1. 1 \in 1 .. Len(s) + 1 /\ k \in 1 - 1 .. Len(s) /\ Len(s) \in k .. Len(s)
    BY <1>1
  <2>2. SubSeq(s, 1, k) \o SubSeq(s, k + 1, Len(s)) = SubSeq(s, 1, Len(s))
    BY <2>1, ConcatAdjacentSubSeq
  <2> QED BY <2>2, SubSeqFull
<1> QED BY <1>2, <1>3, <1>4 DEF Joined

(* What is left of a joined sequence behind its first elements             *)
LEMMA RestIs ==
  ASSUME NEW a \in Seq(Symbols), NEW b \in Seq(Symbols), NEW w \in Seq(Symbols), NEW R \in Seq(Symbols),
         NEW k \in Nat, Behind(a, b, k), Behind(R, Joined(b, w), k)
  PROVE  Joined(a, w) = R
<1>1. /\ Len(a) \in Nat /\ Len(b) \in Nat /\ Len(w) \in Nat /\ Len(R) \in Nat
      /\ Len(Joined(b, w)) = Len(b) + Len(w)
  BY LenProperties, ConcatParts
<1>2. Len(R) = Len(a) + Len(w) /\ Len(b) = Len(a) + k
  BY <1>1 DEF Behind
<1>3. Joined(a, w) \in Seq(Symbols) /\ Len(Joined(a, w)) = Len(R)
  <2>1. Joined(a, w) \in Seq(Symbols) /\ Len(Joined(a, w)) = Len(a) + Len(w)
    BY ConcatParts
  <2> QED BY <1>2, <2>1
<1>4. ASSUME NEW i \in 1 .. Len(R) PROVE Joined(a, w)[i] = R[i]
  <2>1. Joined(b, w)[k + i] = R[i]
    BY <1>4 DEF Behind
  <2>2. CASE i \in 1 .. Len(a)
    <3>1. k + i \in 1 .. Len(b)
      BY <1>1, <1>2, <2>2
    <3>2. Joined(b, w)[k + i] = b[k + i] /\ Joined(a, w)[i] = a[i] /\ a[i] = b[k + i]
      <4>1. \A m \in 1 .. Len(b) : Joined(b, w)[m] = b[m]
        BY ConcatParts, Zenon
      <4>2. \A m \in 1 .. Len(a) : Joined(a, w)[m] = a[m]
        BY ConcatParts, Zenon
      <4>3. \A m \in 1 .. Len(a) : a[m] = b[k + m]
        BY Zenon DEF Behind
      <4> QED BY <2>2, <3>1, <4>1, <4>2, <4>3, Zenon
    <3> QED BY <2>1, <2>2, <3>2, Zenon
  <2>3. CASE i > Len(a)
    <3>1. PICK j \in 1 .. Len(w) : Len(a) + j = i
      <4>1. i - Len(a) \in 1 .. Len(w) /\ Len(a) + (i - Len(a)) = i
        BY <1>1, <1>2, <2>3
      <4> QED BY <4>1
    <3>2. Len(b) + j = k + i
      <4>1. PICK la, lb, x, y \in Int : la = Len(a) /\ lb = Len(b) /\ x = i /\ y = j
        BY <1>1
      <4>2. lb = la + k /\ la + y = x
        BY <1>2, <3>1, <4>1, Zenon
      <4>3. la \in Int /\ lb \in Int /\ x \in Int /\ y \in Int /\ k \in Int
        OBVIOUS
      <4>4. lb + y = k + x
        BY ONLY <4>2, <4>3
      <4> QED BY <4>1, <4>4, Zenon
    <3>3. Joined(b, w)[Len(b) + j] = w[j] /\ Joined(a, w)[Len(a) + j] = w[j]
      <4>1. \A x \in Seq(Symbols) : \A m \in 1 .. Len(w) : Joined(x, w)[Len(x) + m] = w[m]
        BY ConcatParts, Zenon
      <4> QED BY <4>1, Zenon
    <3> QED BY <2>1, <3>1, <3>2, <3>3
  <2> QED BY <1>1, <2>2, <2>3
<1> QED BY <1>3, <1>4, SeqEqual

(* getline on a buffer of whole lines gives the first line of the text,    *)
(* and leaves whole lines.                                                 *)
LEMMA FirstLine ==
  ASSUME NEW b \in Seq(Symbols), NEW w \in Seq(Symbols), b # << >>, Last(b) = "\n",
         NEW L \in Seq(Symbols), OneLine(L),
         NEW R \in Seq(Symbols), Joined(b, w) = OnLine(L, R)
  PROVE  /\ Line(b) = L /\ AfterLine(b) \in Seq(Symbols) /\ Joined(AfterLine(b), w) = R
         /\ AfterLine(b) = << >> \/ Last(AfterLine(b)) = "\n"
<1>1. /\ Len(b) \in Nat /\ Len(L) \in Nat /\ Len(R) \in Nat /\ Len(w) \in Nat /\ Len(b) > 0
      /\ b[Len(b)] = "\n" /\ \A i \in 1 .. Len(L) : L[i] # "\n"
  BY EmptySeq, LenProperties DEF Last, OneLine
<1>k. PICK k \in Nat : k = Len(L) + 1
  BY <1>1
<1>2. PICK N \in Seq(Symbols) :
        /\ N = Joined(<<"\n">>, R) /\ Len(N) = 1 + Len(R) /\ N[1] = "\n"
        /\ \A i \in 1 .. Len(R) : N[1 + i] = R[i]
  <2>1. PICK n \in Seq(Symbols) : n = <<"\n">> /\ Len(n) = 1 /\ n[1] = "\n"
    <3>1. <<"\n">> \in Seq(Symbols) /\ Len(<<"\n">>) = 1 /\ <<"\n">>[1] = "\n"
      BY DEF Symbols
    <3> QED BY <3>1, Zenon
  <2>2. /\ Joined(n, R) \in Seq(Symbols) /\ Len(Joined(n, R)) = Len(n) + Len(R)
        /\ \A i \in 1 .. Len(n) : Joined(n, R)[i] = n[i]
        /\ \A i \in 1 .. Len(R) : Joined(n, R)[Len(n) + i] = R[i]
    BY ConcatParts
  <2>3. 1 \in 1 .. Len(n)
    BY <2>1
  <2>4. /\ Joined(n, R) \in Seq(Symbols) /\ Len(Joined(n, R)) = 1 + Len(R)
        /\ Joined(n, R)[1] = "\n" /\ \A i \in 1 .. Len(R) : Joined(n, R)[1 + i] = R[i]
    BY ONLY <2>1, <2>2, <2>3, Zenon
  <2> QED BY ONLY <2>1, <2>4, Zenon
<1>3. /\ Len(b) + Len(w) = k + Len(R)
      /\ \A i \in 1 .. Len(b) : Joined(b, w)[i] = b[i]
      /\ \A i \in 1 .. Len(L) : Joined(b, w)[i] = L[i]
      /\ Joined(b, w)[k] = "\n"
      /\ \A i \in 1 .. Len(R) : Joined(b, w)[k + i] = R[i]
  <2>0. Joined(b, w) = Joined(L, N)
    BY <1>2 DEF OnLine
  <2>1. /\ Len(Joined(b, w)) = Len(b) + Len(w)
        /\ \A i \in 1 .. Len(b) : Joined(b, w)[i] = b[i]
    BY ConcatParts
  <2>2. /\ Len(Joined(L, N)) = Len(L) + Len(N)
        /\ \A i \in 1 .. Len(L) : Joined(L, N)[i] = L[i]
        /\ \A i \in 1 .. Len(N) : Joined(L, N)[Len(L) + i] = N[i]
    BY ConcatParts
  <2>3. Len(b) + Len(w) = k + Len(R)
    <3>1. Len(b) + Len(w) = Len(L) + (1 + Len(R))
      BY ONLY <1>2, <2>0, <2>1, <2>2, Zenon
    <3> QED BY <1>1, <1>k, <3>1
  <2>4. Joined(L, N)[k] = "\n"
    <3>1. 1 \in 1 .. Len(N) /\ k = Len(L) + 1
      BY <1>1, <1>2, <1>k
    <3> QED BY <1>2, <2>2, <3>1
  <2>5. ASSUME NEW i \in 1 .. Len(R) PROVE Joined(L, N)[k + i] = R[i]
    <3>1. 1 + i \in 1 .. Len(N) /\ Len(L) + (1 + i) = k + i
      BY <1>1, <1>2, <1>k
    <3> QED BY <1>2, <2>2, <3>1
  <2> QED BY <2>0, <2>1, <2>2, <2>3, <2>4, <2>5
<1>4. Len(b) >= k
  <2> SUFFICES ASSUME Len(b) < k PROVE FALSE
    BY <1>1
  <2>1. Len(b) \in 1 .. Len(L) /\ Len(b) \in 1 .. Len(b)
    BY <1>1, <1>k
  <2>2. Joined(b, w)[Len(b)] = b[Len(b)] /\ Joined(b, w)[Len(b)] = L[Len(b)]
    BY <1>3, <2>1
  <2> QED BY <1>1, <2>1, <2>2
<1>5. k \in 1 .. Len(b) /\ b[k] = "\n" /\ \A i \in 1 .. Len(L) : b[i] = L[i]
  <2>1. k \in 1 .. Len(b) /\ \A i \in 1 .. Len(L) : i \in 1 .. Len(b)
    BY <1>1, <1>4, <1>k
  <2> QED BY <1>3, <2>1
<1>6. LineEnd(b) = k
  <2> DEFINE I == {i \in 1 .. Len(b) : b[i] = "\n"}
  <2>1. k \in I /\ I # {}
    BY <1>5
  <2>2. \A i \in I : k <= i
    <3> SUFFICES ASSUME NEW i \in I, i < k PROVE FALSE
      BY <1>1
    <3>1. i \in 1 .. Len(L) /\ b[i] = "\n"
      BY <1>1, <1>k
    <3> QED BY <1>1, <1>5, <3>1
  <2>3. Min(I) = k
    <3>1. \A x \in I : (\A y \in I : x <= y) => x = k
      BY <1>1, <2>1, <2>2
    <3> HIDE DEF I
    <3> QED BY <2>1, <2>2, <3>1 DEF Min
  <2>4. SelectInSeq(b, LAMBDA x : x = "\n") = Min(I)
    BY <2>1 DEF SelectInSeq
  <2>5. Contains(b, "\n")
    BY <2>1 DEF Contains
  <2> HIDE DEF I
  <2> QED BY <2>3, <2>4, <2>5 DEF LineEnd
<1>7. Line(b) = L
  <2> DEFINE l == SubSeq(b, 1, k - 1)
  <2>1. l \in Seq(Symbols) /\ Len(l) = Len(L) /\ \A i \in 1 .. Len(L) : l[i] = b[i]
    BY <1>1, <1>4, <1>k, SubSeqProperties
  <2>2. l = L
    <3> HIDE DEF l
    <3> QED BY <1>5, <2>1, SeqEqual
  <2> QED BY <1>6, <2>2 DEF Line
<1>8. /\ AfterLine(b) = SubSeq(b, k + 1, Len(b)) /\ AfterLine(b) \in Seq(Symbols)
      /\ Len(AfterLine(b)) = Len(b) - k
      /\ \A i \in 1 .. Len(b) - k : AfterLine(b)[i] = b[k + i]
  <2>1. AfterLine(b) = SubSeq(b, k + 1, Len(b))
    BY <1>6 DEF AfterLine
  <2>3. /\ SubSeq(b, k + 1, Len(b)) \in Seq(Symbols)
        /\ Len(SubSeq(b, k + 1, Len(b))) = Len(b) - k
        /\ \A i \in 1 .. Len(b) - k : SubSeq(b, k + 1, Len(b))[i] = b[k + i]
    BY <1>1, <1>4, CutInTwo
  <2> QED BY <2>1, <2>3
<1>9. Joined(AfterLine(b), w) = R
  <2>1. PICK a \in Seq(Symbols) : a = AfterLine(b)
    BY <1>8
  <2>2. Behind(a, b, k)
    BY <1>1, <1>4, <1>8, <2>1 DEF Behind
  <2>3. Behind(R, Joined(b, w), k)
    <3>1. Len(Joined(b, w)) = Len(b) + Len(w)
      BY ConcatParts
    <3> QED BY <1>1, <1>3, <3>1 DEF Behind
  <2> QED BY <2>1, <2>2, <2>3, RestIs
<1>10. AfterLine(b) = << >> \/ Last(AfterLine(b)) = "\n"
  <2>1. CASE Len(b) = k
    BY <1>1, <1>8, <2>1, EmptySeq
  <2>2. CASE Len(b) > k
    <3>1. Len(b) - k \in 1 .. Len(b) - k /\ k + (Len(b) - k) = Len(b)
      BY <1>1, <2>2
    <3> QED BY <1>1, <1>8, <3>1 DEF Last
  <2> QED BY <1>1, <1>4, <2>1, <2>2
<1> QED BY <1>7, <1>8, <1>9, <1>10

(* Joining                                                                 *)
LEMMA Joining ==
  ASSUME NEW S
  PROVE  /\ \A s, t \in Seq(S) : Joined(s, t) \in Seq(S)
         /\ \A s, t, u \in Seq(S) : Joined(Joined(s, t), u) = Joined(s, Joined(t, u))
         /\ \A s \in Seq(S) : Joined(s, << >>) = s /\ Joined(<< >>, s) = s
<1>1. \A s, t \in Seq(S) : Joined(s, t) \in Seq(S)
  BY ConcatProperties DEF Joined
<1>2. ASSUME NEW s \in Seq(S), NEW t \in Seq(S), NEW u \in Seq(S)
      PROVE  Joined(Joined(s, t), u) = Joined(s, Joined(t, u))
  <2>1. (s \o t) \o u = s \o (t \o u)
    BY ConcatAssociative
  <2> QED BY <2>1, Zenon DEF Joined
<1>3. \A s \in Seq(S) : Joined(s, << >>) = s /\ Joined(<< >>, s) = s
  BY ConcatEmptySeq, Zenon DEF Joined
<1> QED BY <1>1, <1>2, <1>3

(* Tuples of symbols joined                                                *)
LEMMA ThreeJoin ==
  ASSUME NEW a \in Symbols, NEW b \in Symbols, NEW c \in Symbols
  PROVE  /\ <<a>> \in Seq(Symbols) /\ <<a, b>> \in Seq(Symbols) /\ <<a, b, c>> \in Seq(Symbols)
         /\ Joined(<<a>>, <<b>>) = <<a, b>>
         /\ Joined(<<a, b>>, <<c>>) = <<a, b, c>>
         /\ SubSeq(<<a, b, c>>, 1, 2) = <<a, b>>
<1>1. /\ <<a>> \in Seq(Symbols) /\ <<b>> \in Seq(Symbols) /\ <<c>> \in Seq(Symbols)
      /\ <<a, b>> \in Seq(Symbols) /\ <<a, b, c>> \in Seq(Symbols)
      /\ Len(<<a>>) = 1 /\ Len(<<b>>) = 1 /\ Len(<<c>>) = 1
      /\ Len(<<a, b>>) = 2 /\ Len(<<a, b, c>>) = 3
  OBVIOUS
<1>2. Joined(<<a>>, <<b>>) = <<a, b>>
  <2>1. /\ Joined(<<a>>, <<b>>) \in Seq(Symbols) /\ Len(Joined(<<a>>, <<b>>)) = 2
        /\ \A i \in 1 .. 2 : Joined(<<a>>, <<b>>)[i] = IF i <= 1 THEN <<a>>[i] ELSE <<b>>[i - 1]
    BY <1>1, ConcatProperties DEF Joined
  <2>2. \A i \in 1 .. 2 : Joined(<<a>>, <<b>>)[i] = <<a, b>>[i]
    BY <2>1
  <2> QED BY <1>1, <2>1, <2>2, SeqEqual
<1>3. Joined(<<a, b>>, <<c>>) = <<a, b, c>>
  <2>1. /\ Joined(<<a, b>>, <<c>>) \in Seq(Symbols) /\ Len(Joined(<<a, b>>, <<c>>)) = 3
        /\ \A i \in 1 .. 3 : Joined(<<a, b>>, <<c>>)[i] = IF i <= 2 THEN <<a, b>>[i] ELSE <<c>>[i - 2]
    BY <1>1, ConcatProperties DEF Joined
  <2>2. \A i \in 1 .. 3 : Joined(<<a, b>>, <<c>>)[i] = <<a, b, c>>[i]
    BY <2>1
  <2> QED BY <1>1, <2>1, <2>2, SeqEqual
<1>4. SubSeq(<<a, b, c>>, 1, 2) = <<a, b>>
  <2>1. /\ SubSeq(<<a, b, c>>, 1, 2) \in Seq(Symbols) /\ Len(SubSeq(<<a, b, c>>, 1, 2)) = 2
        /\ \A i \in 1 .. 2 : SubSeq(<<a, b, c>>, 1, 2)[i] = <<a, b, c>>[i]
    <3>1. 2 \in 0 .. Len(<<a, b, c>>)
      BY <1>1
    <3> QED BY <1>1, <3>1, CutInTwo
  <2>2. \A i \in 1 .. 2 : SubSeq(<<a, b, c>>, 1, 2)[i] = <<a, b>>[i]
    BY <2>1
  <2> QED BY <1>1, <2>1, <2>2, SeqEqual
<1> QED BY ONLY <1>1, <1>2, <1>3, <1>4, Zenon

(* The parts of a request's first line                                     *)
LEMMA FirstJoin ==
  ASSUME NEW v \in Symbols
  PROVE  /\ <<"method", "uri", v>> \in Seq(Symbols) /\ <<"method", "uri", v, "\r">> \in Seq(Symbols)
         /\ Joined(<<"method", "uri", v>>, <<"\r">>) = <<"method", "uri", v, "\r">>
         /\ SubSeq(<<"method", "uri", v, "\r">>, 1, 3) = <<"method", "uri", v>>
<1>1. /\ <<"method", "uri", v>> \in Seq(Symbols) /\ <<"\r">> \in Seq(Symbols) /\ <<"method", "uri", v, "\r">> \in Seq(Symbols)
      /\ Len(<<"method", "uri", v>>) = 3 /\ Len(<<"\r">>) = 1 /\ Len(<<"method", "uri", v, "\r">>) = 4
  BY DEF Symbols
<1>2. Joined(<<"method", "uri", v>>, <<"\r">>) = <<"method", "uri", v, "\r">>
  <2>1. /\ Joined(<<"method", "uri", v>>, <<"\r">>) \in Seq(Symbols) /\ Len(Joined(<<"method", "uri", v>>, <<"\r">>)) = 4
        /\ \A i \in 1 .. 4 : Joined(<<"method", "uri", v>>, <<"\r">>)[i] = IF i <= 3 THEN <<"method", "uri", v>>[i] ELSE <<"\r">>[i - 3]
    BY <1>1, ConcatProperties DEF Joined
  <2>2. \A i \in 1 .. 4 : Joined(<<"method", "uri", v>>, <<"\r">>)[i] = <<"method", "uri", v, "\r">>[i]
    BY <2>1
  <2> QED BY <1>1, <2>1, <2>2, SeqEqual
<1>3. SubSeq(<<"method", "uri", v, "\r">>, 1, 3) = <<"method", "uri", v>>
  <2>1. /\ SubSeq(<<"method", "uri", v, "\r">>, 1, 3) \in Seq(Symbols) /\ Len(SubSeq(<<"method", "uri", v, "\r">>, 1, 3)) = 3
        /\ \A i \in 1 .. 3 : SubSeq(<<"method", "uri", v, "\r">>, 1, 3)[i] = <<"method", "uri", v, "\r">>[i]
    <3>1. 3 \in 0 .. Len(<<"method", "uri", v, "\r">>)
      BY <1>1
    <3> QED BY <1>1, <3>1, CutInTwo
  <2>2. \A i \in 1 .. 3 : SubSeq(<<"method", "uri", v, "\r">>, 1, 3)[i] = <<"method", "uri", v>>[i]
    BY <2>1
  <2> QED BY <1>1, <2>1, <2>2, SeqEqual
<1> QED BY ONLY <1>1, <1>2, <1>3, Zenon

(* The symbols of the texts                                                *)
LEMMA SymbolsAre ==
  /\ {"method", "uri", "HTTP/1.0", "HTTP/1.1", "\r", "\n", "Host:", ":port",
      "Content-Length:", "digits", "byte"} \subseteq Symbols
  /\ EndOfLine = <<"\r", "\n">> /\ EndOfLine \in Seq(Symbols)
  /\ <<"\r">> \in Seq(Symbols) /\ <<"\n">> \in Seq(Symbols) /\ << >> \in Seq(Symbols)
  /\ EndOfLine = Joined(<<"\r">>, <<"\n">>)
<1>1. {"method", "uri", "HTTP/1.0", "HTTP/1.1", "\r", "\n", "Host:", ":port",
       "Content-Length:", "digits", "byte"} \subseteq Symbols
  BY DEF Symbols
<1>2. EndOfLine = <<"\r", "\n">>
  BY DEF EndOfLine
<1>3. /\ <<"\r">> \in Seq(Symbols) /\ <<"\n">> \in Seq(Symbols)
      /\ <<"\r", "\n">> \in Seq(Symbols) /\ Joined(<<"\r">>, <<"\n">>) = <<"\r", "\n">>
  <2>1. "\r" \in Symbols /\ "\n" \in Symbols
    BY <1>1
  <2> QED BY <2>1, ThreeJoin, Zenon
<1> QED BY <1>1, <1>2, <1>3, EmptySeq, Zenon

(* A line's end, moved to the line and to what follows it                  *)
LEMMA LineAndRest ==
  ASSUME NEW a \in Seq(Symbols), NEW R \in Seq(Symbols)
  PROVE  /\ Joined(a, <<"\r">>) \in Seq(Symbols) /\ OnLine(a, R) \in Seq(Symbols)
         /\ Joined(EndOfLine, R) = OnLine(<<"\r">>, R)
         /\ Joined(Joined(a, EndOfLine), R) = OnLine(Joined(a, <<"\r">>), R)
<1>1. PICK cr, lf, e \in Seq(Symbols) :
        cr = <<"\r">> /\ lf = <<"\n">> /\ e = EndOfLine /\ e = Joined(cr, lf)
  BY SymbolsAre, Zenon
<1>2. /\ \A s, t \in Seq(Symbols) : Joined(s, t) \in Seq(Symbols)
      /\ \A s, t, u \in Seq(Symbols) : Joined(Joined(s, t), u) = Joined(s, Joined(t, u))
  BY Joining
<1>3. Joined(a, cr) \in Seq(Symbols) /\ Joined(lf, R) \in Seq(Symbols) /\ Joined(a, Joined(lf, R)) \in Seq(Symbols)
  BY <1>2
<1>e. e = Joined(cr, lf)
  BY <1>1
<1>4. Joined(e, R) = Joined(cr, Joined(lf, R))
  BY <1>2, <1>e
<1>5. Joined(Joined(a, e), R) = Joined(Joined(a, cr), Joined(lf, R))
  <2>1. Joined(a, e) = Joined(Joined(a, cr), lf)
    BY <1>2, <1>e
  <2> QED BY <1>2, <1>3, <2>1
<1> QED BY <1>1, <1>3, <1>4, <1>5, Zenon DEF OnLine

(* The texts that may be left to read                                      *)
LEMMA TextsAre ==
  ASSUME NEW r \in Requests
  PROVE  /\ Bytes(r) \in Seq(Symbols) /\ AfterHeader(r) \in Seq(Symbols)
         /\ AfterHost(r) \in Seq(Symbols) /\ AfterFirst(r) \in Seq(Symbols)
         /\ r.version \in Symbols /\ r.version # "\n"
<1>1. Bytes(r) \in Seq(Symbols)
  <2> DEFINE n == IF r.length > 0 THEN r.length ELSE 0
  <2>1. n \in Nat
    BY DEF Requests, NoLength, BadLength
  <2>2. Bytes(r) \in [1 .. n -> Symbols]
    BY DEF Bytes, Symbols
  <2> QED BY <2>1, <2>2
<1>2. <<"Host:", ":port", "\r">> \in Seq(Symbols) /\ <<"Content-Length:", "digits", "\r">> \in Seq(Symbols)
  BY DEF Symbols
<1>3. AfterHeader(r) \in Seq(Symbols)
  BY <1>1, SymbolsAre, LineAndRest DEF AfterHeader
<1>4. AfterHost(r) \in Seq(Symbols)
  BY <1>2, <1>3, LineAndRest DEF AfterHost
<1>5. AfterFirst(r) \in Seq(Symbols)
  BY <1>2, <1>4, LineAndRest DEF AfterFirst
<1>6. r.version \in Symbols /\ r.version # "\n"
  BY DEF Requests, Symbols
<1> QED BY <1>1, <1>3, <1>4, <1>5, <1>6

(* The text of a request: its first line and the rest                      *)
LEMMA RequestIs ==
  ASSUME NEW r \in Requests
  PROVE  /\ RequestText(r) \in Seq(Symbols)
         /\ r.target # "malformed" => RequestText(r) = OnLine(FirstOf(r), AfterFirst(r))
<1>0. /\ "method" \in Symbols /\ "uri" \in Symbols /\ r.version \in Symbols /\ "\r" \in Symbols
      /\ "Host:" \in Symbols /\ ":port" \in Symbols
      /\ "Content-Length:" \in Symbols /\ "digits" \in Symbols
      /\ Bytes(r) \in Seq(Symbols) /\ AfterHeader(r) \in Seq(Symbols)
      /\ AfterHost(r) \in Seq(Symbols) /\ AfterFirst(r) \in Seq(Symbols)
  BY SymbolsAre, TextsAre
<1>1. PICK A \in Seq(Symbols) :
        /\ A = IF r.target = "malformed" THEN <<"method", "uri">> ELSE <<"method", "uri", r.version>>
        /\ r.target # "malformed" => Joined(A, <<"\r">>) = FirstOf(r)
  <2>1. /\ <<"method", "uri">> \in Seq(Symbols) /\ <<"method", "uri", r.version>> \in Seq(Symbols)
        /\ Joined(<<"method", "uri", r.version>>, <<"\r">>) = <<"method", "uri", r.version, "\r">>
    <3>1. "method" \in Symbols /\ "uri" \in Symbols /\ r.version \in Symbols /\ "\r" \in Symbols
      BY <1>0
    <3>2. PICK v \in Symbols : v = r.version
      BY <3>1
    <3>3. /\ <<"method", "uri">> \in Seq(Symbols) /\ <<"method", "uri", v>> \in Seq(Symbols)
          /\ Joined(<<"method", "uri", v>>, <<"\r">>) = <<"method", "uri", v, "\r">>
      <4>1. "method" \in Symbols /\ "uri" \in Symbols /\ "\r" \in Symbols
        BY <3>1
      <4>2. <<"method", "uri">> \in Seq(Symbols)
        BY <4>1
      <4>3. /\ <<"method", "uri", v>> \in Seq(Symbols)
            /\ Joined(<<"method", "uri", v>>, <<"\r">>) = <<"method", "uri", v, "\r">>
        BY FirstJoin
      <4> QED BY <4>2, <4>3, Zenon
    <3> QED BY <3>2, <3>3, Zenon
  <2> QED BY <2>1, Zenon DEF FirstOf
<1>2. PICK h \in Seq(Symbols) :
        h = <<"Host:", ":port">> /\ Joined(h, <<"\r">>) = <<"Host:", ":port", "\r">>
  <2>1. /\ <<"Host:", ":port">> \in Seq(Symbols)
        /\ Joined(<<"Host:", ":port">>, <<"\r">>) = <<"Host:", ":port", "\r">>
    <3>1. "Host:" \in Symbols /\ ":port" \in Symbols /\ "\r" \in Symbols
      BY <1>0
    <3> QED BY <3>1, ThreeJoin, Zenon
  <2> QED BY <2>1, Zenon
<1>3. PICK l \in Seq(Symbols) :
        l = <<"Content-Length:", "digits">> /\ Joined(l, <<"\r">>) = <<"Content-Length:", "digits", "\r">>
  <2>1. /\ <<"Content-Length:", "digits">> \in Seq(Symbols)
        /\ Joined(<<"Content-Length:", "digits">>, <<"\r">>) = <<"Content-Length:", "digits", "\r">>
    <3>1. "Content-Length:" \in Symbols /\ "digits" \in Symbols /\ "\r" \in Symbols
      BY <1>0
    <3> QED BY <3>1, ThreeJoin, Zenon
  <2> QED BY <2>1, Zenon
<1>4. /\ \A s, t \in Seq(Symbols) : Joined(s, t) \in Seq(Symbols)
      /\ \A s, t, u \in Seq(Symbols) : Joined(Joined(s, t), u) = Joined(s, Joined(t, u))
      /\ \A s \in Seq(Symbols) : Joined(<< >>, s) = s
      /\ << >> \in Seq(Symbols) /\ EndOfLine \in Seq(Symbols)
  BY Joining, SymbolsAre
<1>5. PICK H \in Seq(Symbols) : H = IF r.host THEN Joined(h, EndOfLine) ELSE << >>
  BY <1>4
<1>6. PICK T \in Seq(Symbols) : T = IF r.length = NoLength THEN << >> ELSE Joined(l, EndOfLine)
  BY <1>4
<1>7. AfterHeader(r) = Joined(EndOfLine, Bytes(r))
  BY <1>0, <1>4, LineAndRest DEF AfterHeader
<1>8. AfterHost(r) = Joined(T, AfterHeader(r))
  <2>1. Joined(Joined(l, EndOfLine), AfterHeader(r)) = OnLine(Joined(l, <<"\r">>), AfterHeader(r))
    BY <1>0, LineAndRest
  <2>2. Joined(Joined(l, EndOfLine), AfterHeader(r))
          = OnLine(<<"Content-Length:", "digits", "\r">>, AfterHeader(r))
    BY <1>3, <2>1, Zenon
  <2> QED BY <1>0, <1>4, <1>6, <2>2, Zenon DEF AfterHost
<1>9. AfterFirst(r) = Joined(H, AfterHost(r))
  <2>1. Joined(Joined(h, EndOfLine), AfterHost(r)) = OnLine(Joined(h, <<"\r">>), AfterHost(r))
    BY <1>0, LineAndRest
  <2>2. Joined(Joined(h, EndOfLine), AfterHost(r)) = OnLine(<<"Host:", ":port", "\r">>, AfterHost(r))
    BY <1>2, <2>1, Zenon
  <2> QED BY <1>0, <1>4, <1>5, <2>2, Zenon DEF AfterFirst
<1>10. RequestText(r) = Joined(Joined(Joined(Joined(Joined(A, EndOfLine), H), T), EndOfLine), Bytes(r))
  BY <1>1, <1>2, <1>3, <1>5, <1>6, Zenon DEF RequestText, Joined, Bytes
<1>11. RequestText(r) = Joined(Joined(A, EndOfLine), AfterFirst(r))
  <2>1. PICK x, e, b \in Seq(Symbols) : x = Joined(A, EndOfLine) /\ e = EndOfLine /\ b = Bytes(r)
    BY <1>0, <1>4
  <2>2. Joined(x, H) \in Seq(Symbols) /\ Joined(Joined(x, H), T) \in Seq(Symbols)
    BY <1>4
  <2>3. Joined(Joined(Joined(Joined(x, H), T), e), b) = Joined(Joined(Joined(x, H), T), Joined(e, b))
    BY <1>4, <2>2
  <2>4. Joined(Joined(Joined(x, H), T), Joined(e, b)) = Joined(Joined(x, H), Joined(T, Joined(e, b)))
    BY <1>4, <2>2
  <2>5. Joined(Joined(x, H), Joined(T, Joined(e, b))) = Joined(x, Joined(H, Joined(T, Joined(e, b))))
    BY <1>4
  <2> QED BY <1>7, <1>8, <1>9, <1>10, <2>1, <2>3, <2>4, <2>5, Zenon
<1>12. RequestText(r) \in Seq(Symbols)
  BY <1>0, <1>4, <1>11
<1>13. Joined(Joined(A, EndOfLine), AfterFirst(r)) = OnLine(Joined(A, <<"\r">>), AfterFirst(r))
  BY <1>0, LineAndRest
<1> QED BY <1>1, <1>11, <1>12, <1>13, Zenon

(* The line before the version and the end of a request's first line       *)
LEMMA FirstLineIs ==
  ASSUME NEW r \in Requests
  PROVE  /\ FirstOf(r) \in Seq(Symbols) /\ OneLine(FirstOf(r))
         /\ Len(Words(FirstOf(r))) = 3
<1>1. {"method", "uri", r.version, "\r"} \subseteq Symbols /\ r.version # "\n"
  BY SymbolsAre, TextsAre
<1>2. /\ FirstOf(r) \in Seq(Symbols) /\ Len(FirstOf(r)) = 4
      /\ \A i \in 1 .. 4 : FirstOf(r)[i] # "\n" /\ FirstOf(r)[4] = "\r"
  BY <1>1 DEF FirstOf
<1>3. SubSeq(FirstOf(r), 1, 3) = <<"method", "uri", r.version>>
  <2>1. "method" \in Symbols /\ "uri" \in Symbols /\ r.version \in Symbols /\ "\r" \in Symbols
    BY <1>1
  <2>2. PICK v \in Symbols : v = r.version
    BY <2>1
  <2>3. SubSeq(<<"method", "uri", v, "\r">>, 1, 3) = <<"method", "uri", v>>
    BY FirstJoin
  <2> QED BY <2>2, <2>3, Zenon DEF FirstOf
<1>4. FirstOf(r) # << >> /\ Last(FirstOf(r)) = "\r" /\ Front(FirstOf(r)) = <<"method", "uri", r.version>>
  BY <1>2, <1>3, EmptySeq DEF Last, Front
<1> QED BY <1>2, <1>4 DEF Words, Chomp, OneLine

(* What may be left of a header is a line and the rest: the empty line, or *)
(* a field with what may be left after it.                                 *)
LEMMA HeaderIs ==
  ASSUME NEW r \in Requests, NEW t \in HeaderTexts(r)
  PROVE  /\ t \in Seq(Symbols)
         /\ \E L, R \in Seq(Symbols) :
              /\ OneLine(L)
              /\ t = OnLine(L, R)
              /\ Chomp(L) = << >> \/ (HasColon(Chomp(L)) /\ R \in HeaderTexts(r))
<1>1. /\ Bytes(r) \in Seq(Symbols) /\ AfterHeader(r) \in Seq(Symbols)
      /\ AfterHost(r) \in Seq(Symbols) /\ AfterFirst(r) \in Seq(Symbols)
      /\ {"\r", "Host:", ":port", "Content-Length:", "digits"} \subseteq Symbols
  BY TextsAre, SymbolsAre
<1>2. PICK l \in Seq(Symbols) :
        l = <<"\r">> /\ OneLine(l) /\ Chomp(l) = << >>
  <2>1. <<"\r">> \in Seq(Symbols) /\ OneLine(<<"\r">>)
    BY <1>1 DEF OneLine
  <2>2. <<"\r">> # << >> /\ Last(<<"\r">>) = "\r" /\ Len(<<"\r">>) = 1
    BY DEF Last
  <2>3. Front(<<"\r">>) = << >>
    <3>1. SubSeq(<<"\r">>, 1, 1 - 1) = << >>
      BY SubSeqEmpty
    <3> QED BY <2>2, <3>1 DEF Front
  <2> QED BY <2>1, <2>2, <2>3, Zenon DEF Chomp
<1>3. ASSUME NEW a \in {"Host:", "Content-Length:"}, NEW b \in {":port", "digits"}
      PROVE  /\ <<a, b, "\r">> \in Seq(Symbols)
             /\ OneLine(<<a, b, "\r">>)
             /\ HasColon(Chomp(<<a, b, "\r">>))
  <2>1. a \in Symbols /\ b \in Symbols /\ "\r" \in Symbols /\ a # "\n" /\ b # "\n"
    BY <1>1
  <2>2. <<a, b, "\r">> \in Seq(Symbols) /\ OneLine(<<a, b, "\r">>)
    BY <2>1 DEF OneLine
  <2>3. Len(<<a, b, "\r">>) = 3 /\ <<a, b, "\r">>[3] = "\r" /\ <<a, b, "\r">> # << >>
    OBVIOUS
  <2>4. SubSeq(<<a, b, "\r">>, 1, 2) = <<a, b>>
    BY <2>1, ThreeJoin, Zenon
  <2>5. Chomp(<<a, b, "\r">>) = <<a, b>>
    <3>1. Last(<<a, b, "\r">>) = "\r"
      BY <2>3 DEF Last
    <3>2. Front(<<a, b, "\r">>) = <<a, b>>
      <4>1. 3 - 1 = 2
        OBVIOUS
      <4> QED BY <2>3, <2>4, <4>1, Zenon DEF Front
    <3> QED BY <2>3, <3>1, <3>2, Zenon DEF Chomp
  <2>6. Contains(<<a, b>>, a)
    BY DEF Contains
  <2>7. HasColon(<<a, b>>)
    BY <2>6 DEF HasColon
  <2> QED BY <2>2, <2>5, <2>7, Zenon
<1>4. PICK f \in Seq(Symbols) :
        f = <<"Host:", ":port", "\r">> /\ OneLine(f) /\ HasColon(Chomp(f))
  BY <1>3, Zenon
<1>5. PICK g \in Seq(Symbols) :
        g = <<"Content-Length:", "digits", "\r">> /\ OneLine(g) /\ HasColon(Chomp(g))
  BY <1>3, Zenon
<1>6. AfterHeader(r) = OnLine(l, Bytes(r))
  BY <1>2 DEF AfterHeader
<1>7. AfterHost(r) = AfterHeader(r) \/ AfterHost(r) = OnLine(g, AfterHeader(r))
  BY <1>5 DEF AfterHost
<1>8. AfterFirst(r) = AfterHost(r) \/ AfterFirst(r) = OnLine(f, AfterHost(r))
  BY <1>4 DEF AfterFirst
<1>9. t \in {AfterFirst(r), AfterHost(r), AfterHeader(r)}
  BY DEF HeaderTexts
<1>10. t \in Seq(Symbols)
  BY <1>1, <1>9
<1>11. \/ t = OnLine(l, Bytes(r))
       \/ t = OnLine(g, AfterHeader(r))
       \/ t = OnLine(f, AfterHost(r))
  BY <1>6, <1>7, <1>8, <1>9, Zenon
<1>12. AfterHeader(r) \in HeaderTexts(r) /\ AfterHost(r) \in HeaderTexts(r)
  BY DEF HeaderTexts
<1> QED BY <1>1, <1>2, <1>4, <1>5, <1>10, <1>11, <1>12, Zenon
-----------------------------------------------------------------------------
(* The response, and the beginnings of it                                  *)
LEMMA AnswerIs ==
  ASSUME NEW c \in Clients
  PROVE  Answer(c) \in Seq(Pieces(c)) /\ << >> \in Seq(Pieces(c))
<1>1. DOMAIN Answer(c) = 1 .. 4 /\ Answer(c) \in [1 .. 4 -> Pieces(c)]
  BY DEF Answer, Response, Pieces
<1>2. ASSUME NEW P, NEW f \in [1 .. 4 -> P] PROVE f \in Seq(P)
  <2>1. 4 \in Nat
    OBVIOUS
  <2> QED BY <2>1, SeqDef, Zenon
<1>3. \A P : << >> \in Seq(P)
  BY EmptySeq
<1> QED BY ONLY <1>1, <1>2, <1>3, Zenon

(* The first part of a joined sequence is a prefix of it.                  *)
LEMMA PrefixIs ==
  ASSUME NEW S, NEW s \in Seq(S), NEW t \in Seq(S)
  PROVE  IsPrefix(s, Joined(s, t)) /\ IsPrefix(<< >>, s)
<1>1. Len(s) \in Nat /\ Len(t) \in Nat /\ Len(s \o t) = Len(s) + Len(t)
  BY LenProperties, ConcatProperties
<1>2. SubSeq(s \o t, 1, Len(s)) = SubSeq(s, 1, Len(s))
  <2>1. CASE Len(s) = 0
    <3>1. SubSeq(s \o t, 1, 0) = << >> /\ SubSeq(s, 1, 0) = << >>
      BY SubSeqEmpty
    <3> QED BY <2>1, <3>1, Zenon
  <2>2. CASE Len(s) # 0
    <3>1. 1 \in 1 .. Len(s) /\ Len(s) \in 1 .. Len(s)
      BY <1>1, <2>2
    <3> QED BY <3>1, SubSeqOfConcat1, Zenon
  <2> QED BY <2>1, <2>2
<1>3. Len(s) <= Len(s \o t)
  BY <1>1
<1>4. IsPrefix(<< >>, s)
  <2>1. SubSeq(<< >>, 1, 0) = << >> /\ SubSeq(s, 1, 0) = << >>
    BY SubSeqEmpty
  <2>2. Len(<< >>) = 0 /\ 0 <= Len(s)
    BY <1>1, EmptySeq
  <2> QED BY <2>1, <2>2, Zenon DEF IsPrefix
<1> QED BY <1>2, <1>3, <1>4, Zenon DEF IsPrefix, Joined

(* The first states *)
LEMMA InitAnswers == Init => AnswerInv
<1> SUFFICES ASSUME Init PROVE AnswerInv
  OBVIOUS
<1>1. FilesInv /\ request \in [Clients -> Requests]
  BY InitFiles DEF FilesInv, Types
<1>2. TextTypes
  BY <1>1, RequestIs, EmptySeq DEF Init, TextTypes
<1>3. TurnsInOrder
  BY <1>1, EmptySeq DEF Init, TurnsInOrder
<1>4. ParserInOrder /\ SendsInOrder
  BY DEF Init, ParserInOrder, SendsInOrder, Serving
<1>5. AnswersInOrder
  <2>1. ASSUME NEW c \in Clients PROVE sent[c] \in Seq(Pieces(c)) /\ IsPrefix(sent[c], Answer(c))
    <3>1. sent[c] = << >>
      BY DEF Init
    <3> QED BY <3>1, AnswerIs, PrefixIs, Zenon
  <2> QED BY <2>1 DEF Init, AnswersInOrder
<1> QED BY <1>1, <1>2, <1>3, <1>4, <1>5 DEF AnswerInv

(* What does not change when the connection and the network do not         *)
LEMMA NothingRead ==
  ASSUME AnswerInv, UNCHANGED <<client, input, length, backlog, network>>
  PROVE  /\ TextTypes' /\ TurnsInOrder' /\ AnswersInOrder'
         /\ C' = C /\ (Good(C)' <=> Good(C)) /\ Answer(C)' = Answer(C) /\ Pieces(C)' = Pieces(C)
         /\ pc' \notin Serving => ParserInOrder' /\ SendsInOrder'
<1>1. UNCHANGED <<request, peer, wire, sent, whole, served>>
  BY DEF network
<1>2. C' = C
  BY DEF C
<1>3. \A c : /\ Good(c)' <=> Good(c)
             /\ Answer(c)' = Answer(c) /\ Pieces(c)' = Pieces(c)
  BY <1>1 DEF Good, Answer, Pieces
<1>4. TextTypes'
  BY <1>1 DEF AnswerInv, TextTypes
<1>5. TurnsInOrder'
  BY <1>1 DEF AnswerInv, TurnsInOrder
<1>6. AnswersInOrder'
  BY <1>1, <1>3 DEF AnswerInv, AnswersInOrder
<1>7. ASSUME pc' \notin Serving PROVE ParserInOrder' /\ SendsInOrder'
  BY <1>7 DEF ParserInOrder, SendsInOrder, Serving
<1>8. /\ Good(C)' <=> Good(C)
      /\ Answer(C)' = Answer(C) /\ Pieces(C)' = Pieces(C)
  BY <1>1, <1>2 DEF Good, Answer, Pieces
<1> QED BY <1>2, <1>4, <1>5, <1>6, <1>7, <1>8

(* What does not change when only the connection being served does         *)
LEMMA OneServed ==
  ASSUME AnswerInv, pc \in Serving, UNCHANGED <<client, backlog, request, peer, served>>,
         input' \in Seq(Symbols), wire' \in [Clients -> Seq(Symbols)],
         \A c \in Clients \ {C} : wire'[c] = wire[c] /\ sent'[c] = sent[c] /\ whole'[c] = whole[c],
         DOMAIN sent' = Clients, sent'[C] \in Seq(Pieces(C)), IsPrefix(sent'[C], Answer(C))
  PROVE  /\ TextTypes' /\ TurnsInOrder' /\ AnswersInOrder'
         /\ C \in Clients /\ C' = C /\ Answer(C)' = Answer(C) /\ Pieces(C)' = Pieces(C)
         /\ Good(C)' <=> /\ peer[C] = "open" /\ whole'[C] /\ request[C].target # "malformed"
                         /\ request[C].length \notin {0, BadLength}
<1>1. C \in Clients /\ client = <<C>> /\ client # None /\ C' = C
  <2>1. client # None
    BY DEF AnswerInv, FilesInv, Types
  <2> QED BY <2>1, ClientIs DEF AnswerInv, FilesInv, C
<1>2. TextTypes'
  BY DEF TextTypes
<1>3. \A c \in Clients : client = <<c>> <=> c = C
  BY <1>1
<1>4. TurnsInOrder'
  <2>1. TurnsInOrder
    BY DEF AnswerInv
  <2>2. client' = None => input' = << >> /\ length' = NoLength
    BY <1>1
  <2>3. ASSUME NEW c \in Clients
        PROVE  /\ client' # <<c>> /\ c \notin served' =>
                    /\ sent'[c] = << >> /\ whole'[c]
                    /\ peer'[c] \in {"away", "open"} => wire'[c] = RequestText(request'[c])
               /\ peer'[c] = "away" => c \notin served' /\ client' # <<c>>
                                       /\ \A i \in 1 .. Len(backlog') : backlog'[i] # c
               /\ client' = <<c>> => c \notin served' /\ \A i \in 1 .. Len(backlog') : backlog'[i] # c
               /\ c \in served' => \A i \in 1 .. Len(backlog') : backlog'[i] # c
    <3>1. CASE c = C
      BY <1>1, <2>1, <3>1 DEF TurnsInOrder
    <3>2. CASE c # C
      <4>1. wire'[c] = wire[c] /\ sent'[c] = sent[c] /\ whole'[c] = whole[c]
        BY <3>2
      <4> QED BY <2>1, <4>1 DEF TurnsInOrder
    <3> QED BY <3>1, <3>2
  <2> QED BY <2>1, <2>2, <2>3 DEF TurnsInOrder
<1>5. \A c : Answer(c)' = Answer(c) /\ Pieces(c)' = Pieces(c)
  BY DEF Answer, Pieces
<1>6. C \notin served /\ served \subseteq Clients
  BY <1>1 DEF AnswerInv, TurnsInOrder, FilesInv, Types
<1>7. \A c \in Clients \ {C} : Good(c)' <=> Good(c)
  BY DEF Good
<1>8. AnswersInOrder'
  BY <1>1, <1>5, <1>6, <1>7 DEF AnswerInv, AnswersInOrder
<1>9. /\ Good(C)' <=> /\ peer[C] = "open" /\ whole'[C] /\ request[C].target # "malformed"
                      /\ request[C].length \notin {0, BadLength}
      /\ Answer(C)' = Answer(C) /\ Pieces(C)' = Pieces(C)
  BY <1>1 DEF Good, Answer, Pieces
<1> QED BY <1>1, <1>2, <1>4, <1>8, <1>9

(* A connection is accepted: the parser is at the beginning of the text.   *)
LEMMA AcceptAnswers == ASSUME AnswerInv, Accept PROVE AnswerInv'
<1>1. FilesInv' /\ FilesInv /\ pc = "accept" /\ client = None /\ backlog \in Seq(Clients)
      /\ input = << >> /\ length = NoLength
  BY AcceptFiles DEF AnswerInv, FilesInv, Types, Accept, Idle, TurnsInOrder
<1>2. UNCHANGED <<input, length, network>>
  BY DEF Accept
<1>3. CASE pc' = "exit" /\ UNCHANGED <<client, backlog>>
  BY <1>1, <1>2, <1>3, NothingRead DEF AnswerInv, Serving
<1>4. CASE backlog # << >> /\ client' = <<Head(backlog)>> /\ backlog' = Tail(backlog) /\ pc' = "line"
  <2>1. /\ Head(backlog) \in Clients /\ Head(backlog) = backlog[1] /\ 1 \in 1 .. Len(backlog)
        /\ Len(backlog') = Len(backlog) - 1 /\ Len(backlog) \in Nat
        /\ \A i \in 1 .. Len(backlog') : backlog'[i] = backlog[i + 1]
    BY <1>1, <1>4, HeadTailProperties, EmptySeq
  <2>2. PICK h \in Clients : h = Head(backlog) /\ h = backlog[1] /\ client' = <<h>> /\ C' = h
    BY <1>4, <2>1 DEF C
  <2>3. \A i \in 1 .. Len(backlog') : i + 1 \in 1 .. Len(backlog) /\ i + 1 # 1
    BY <2>1
  <2>4. /\ h \notin served /\ peer[h] # "away" /\ client # <<h>>
        /\ \A i \in 1 .. Len(backlog') : backlog'[i] # h
    <3>1. h \notin served /\ peer[h] # "away"
      BY <2>1, <2>2 DEF AnswerInv, TurnsInOrder
    <3>2. ASSUME NEW i \in 1 .. Len(backlog') PROVE backlog'[i] # h
      BY <2>1, <2>2, <2>3 DEF AnswerInv, TurnsInOrder
    <3> QED BY <1>1, <3>1, <3>2
  <2>5. UNCHANGED <<request, peer, wire, sent, whole, served>>
    BY <1>2 DEF network
  <2>6. /\ sent[h] = << >> /\ whole[h]
        /\ peer[h] \in {"away", "open"} => wire[h] = RequestText(request[h])
    BY <2>4 DEF AnswerInv, TurnsInOrder
  <2>7. TurnsInOrder'
    <3>1. client' # None /\ \A c : client' = <<c>> <=> c = h
      BY <2>2
    <3>2. ASSUME NEW c \in Clients, NEW i \in 1 .. Len(backlog'), \A j \in 1 .. Len(backlog) : backlog[j] # c
          PROVE  backlog'[i] # c
      BY <2>1, <2>3, <3>2
    <3>3. ASSUME NEW i \in 1 .. Len(backlog'), NEW j \in 1 .. Len(backlog'), backlog'[i] = backlog'[j] PROVE i = j
      <4>1. i + 1 = j + 1
        BY <2>1, <2>3, <3>3 DEF AnswerInv, TurnsInOrder
      <4> QED BY <2>1, <4>1
    <3>4. ASSUME NEW c \in Clients
          PROVE  /\ client' # <<c>> /\ c \notin served' =>
                      /\ sent'[c] = << >> /\ whole'[c]
                      /\ peer'[c] \in {"away", "open"} => wire'[c] = RequestText(request'[c])
                 /\ peer'[c] = "away" => c \notin served' /\ client' # <<c>>
                                         /\ \A i \in 1 .. Len(backlog') : backlog'[i] # c
                 /\ client' = <<c>> => c \notin served' /\ \A i \in 1 .. Len(backlog') : backlog'[i] # c
                 /\ c \in served' => \A i \in 1 .. Len(backlog') : backlog'[i] # c
      <4>1. client # <<c>>
        BY <1>1
      <4> QED BY <2>4, <2>5, <3>1, <3>2, <4>1 DEF AnswerInv, TurnsInOrder
    <3> QED BY <3>1, <3>3, <3>4 DEF TurnsInOrder
  <2>8. TextTypes'
    BY <1>2, <2>5 DEF AnswerInv, TextTypes
  <2>9. ParserInOrder'
    <3>1. wire[h] \in Seq(Symbols) /\ Joined(<< >>, wire[h]) = wire[h]
      BY Joining DEF AnswerInv, TextTypes
    <3>2. Good(C)' => Joined(input', wire'[h]) = RequestText(request'[h])
      BY <1>1, <1>2, <2>2, <2>5, <2>6, <3>1 DEF Good
    <3> QED BY <1>1, <1>2, <1>4, <2>2, <3>2 DEF ParserInOrder
  <2>10. SendsInOrder'
    BY <1>4, <2>2, <2>5, <2>6 DEF SendsInOrder
  <2>11. AnswersInOrder'
    BY <2>5 DEF AnswerInv, AnswersInOrder, Good, Answer, Pieces
  <2> QED BY <1>1, <2>7, <2>8, <2>9, <2>10, <2>11 DEF AnswerInv
<1> QED BY <1>3, <1>4 DEF Accept

(* Before the first connection and after the last nothing is read.         *)
LEMMA ListenAnswers ==
  ASSUME AnswerInv, TryAddress \/ Listen \/ Exit \/ CloseThrows
  PROVE  AnswerInv'
<1>1. FilesInv'
  BY ListenFiles, AnswerFiles DEF AnswerInv
<1>2. UNCHANGED <<client, input, length, backlog, network>>
  BY DEF TryAddress, Listen, Exit, CloseThrows, connection
<1>3. pc' \notin Serving
  BY DEF TryAddress, Listen, Exit, CloseThrows, Serving
<1> QED BY <1>1, <1>2, <1>3, NothingRead DEF AnswerInv

(* The connection being served *)
LEMMA ServedIs ==
  ASSUME AnswerInv, pc \in Serving
  PROVE  /\ FilesInv /\ C \in Clients /\ client = <<C>> /\ client # None
         /\ request[C] \in Requests /\ wire[C] \in Seq(Symbols) /\ input \in Seq(Symbols)
         /\ sent[C] \in Seq(Pieces(C)) /\ IsPrefix(sent[C], Answer(C)) /\ DOMAIN sent = Clients
         /\ wire \in [Clients -> Seq(Symbols)] /\ C \notin served
<1>1. FilesInv /\ client # None
  BY DEF AnswerInv, FilesInv, Types
<1>2. C \in Clients /\ client = <<C>>
  BY <1>1, ClientIs DEF FilesInv
<1>3. request[C] \in Requests
  BY <1>1, <1>2 DEF FilesInv, Types
<1>4. wire \in [Clients -> Seq(Symbols)] /\ wire[C] \in Seq(Symbols) /\ input \in Seq(Symbols)
  BY <1>2 DEF AnswerInv, TextTypes
<1>5. sent[C] \in Seq(Pieces(C)) /\ IsPrefix(sent[C], Answer(C)) /\ DOMAIN sent = Clients
  BY <1>2 DEF AnswerInv, AnswersInOrder
<1>6. C \notin served
  BY <1>2 DEF AnswerInv, TurnsInOrder
<1> QED BY <1>1, <1>2, <1>3, <1>4, <1>5, <1>6

(* Received: the next segment of the request, or the end of the connection *)
LEMMA ReceiveAnswers == ASSUME AnswerInv, Receive PROVE AnswerInv'
<1>1. /\ pc \in {"line", "header"} /\ pc \in Serving /\ input = << >>
      /\ UNCHANGED <<backlog, client, length, output, request, peer, sent, served>>
  BY DEF Receive, Reading, Serving
<1>2. /\ FilesInv' /\ C \in Clients /\ wire[C] \in Seq(Symbols) /\ sent[C] = << >>
      /\ wire \in [Clients -> Seq(Symbols)] /\ whole \in [Clients -> BOOLEAN]
      /\ sent[C] \in Seq(Pieces(C)) /\ IsPrefix(sent[C], Answer(C)) /\ DOMAIN sent = Clients
  <2>1. FilesInv' /\ sent[C] = << >> /\ whole \in [Clients -> BOOLEAN]
    BY <1>1, ReadFiles DEF AnswerInv, FilesInv, Types, SendsInOrder
  <2> QED BY <1>1, <2>1, ServedIs
<1>3. CASE peer[C] # "open" /\ pc' = "drop" /\ UNCHANGED <<input, wire, whole>>
  <2>1. ~Good(C) /\ UNCHANGED network
    BY <1>1, <1>3 DEF Good, network
  <2>2. TextTypes' /\ TurnsInOrder' /\ AnswersInOrder' /\ ~Good(C)' /\ C' = C
    BY <1>1, <1>3, <2>1, NothingRead
  <2>3. ParserInOrder' /\ SendsInOrder'
    BY <1>3, <2>2 DEF ParserInOrder, SendsInOrder
  <2> QED BY <1>2, <2>2, <2>3 DEF AnswerInv
<1>4. ASSUME NEW n \in 1 .. Len(wire[C]),
             input' = SubSeq(wire[C], 1, n),
             wire' = [wire EXCEPT ![C] = SubSeq(@, n + 1, Len(@))],
             whole' = [whole EXCEPT ![C] = @ /\ Last(SubSeq(wire[C], 1, n)) = "\n"],
             pc' = pc
      PROVE  AnswerInv'
  <2>1. PICK w, i, r \in Seq(Symbols) :
          /\ w = wire[C] /\ i = input' /\ r = wire'[C] /\ Joined(i, r) = w /\ i # << >>
    <3>1. n \in 0 .. Len(wire[C])
      OBVIOUS
    <3>2. wire'[C] = SubSeq(wire[C], n + 1, Len(wire[C]))
      BY <1>2, <1>4
    <3>3. /\ SubSeq(wire[C], 1, n) \in Seq(Symbols) /\ Len(SubSeq(wire[C], 1, n)) = n
          /\ SubSeq(wire[C], n + 1, Len(wire[C])) \in Seq(Symbols)
          /\ Joined(SubSeq(wire[C], 1, n), SubSeq(wire[C], n + 1, Len(wire[C]))) = wire[C]
      BY <1>2, <3>1, CutInTwo
    <3>4. SubSeq(wire[C], 1, n) # << >>
      BY <3>3, EmptySeq
    <3> QED BY <1>2, <1>4, <3>2, <3>3, <3>4, Zenon
  <2>2. /\ whole'[C] <=> whole[C] /\ Last(i) = "\n"
        /\ \A c \in Clients \ {C} : whole'[c] = whole[c]
    BY <1>2, <1>4, <2>1
  <2>3. wire' \in [Clients -> Seq(Symbols)] /\ \A c \in Clients \ {C} : wire'[c] = wire[c]
    <3>1. PICK v \in Seq(Symbols) : wire' = [wire EXCEPT ![C] = v]
      <4>1. wire' = [wire EXCEPT ![C] = wire'[C]]
        BY <1>2, <1>4
      <4> QED BY <2>1, <4>1
    <3> QED BY <1>2, <3>1
  <2>4. /\ TextTypes' /\ TurnsInOrder' /\ AnswersInOrder' /\ C' = C
        /\ Good(C)' => Good(C) /\ Last(i) = "\n"
    <3>1. sent' = sent /\ input' \in Seq(Symbols)
      BY <1>1, <2>1
    <3> QED BY <1>1, <1>2, <2>2, <2>3, <3>1, OneServed DEF Good
  <2>5. Joined(<< >>, w) = w
    BY Joining
  <2>6. ParserInOrder'
    <3>1. pc = "line" => length = NoLength
      BY DEF AnswerInv, ParserInOrder
    <3>2. ASSUME Good(C)'
          PROVE  /\ pc = "line" => Joined(i, r) = RequestText(request[C])
                 /\ pc = "header" => Joined(i, r) \in HeaderTexts(request[C])
                 /\ pc \in {"header", "body"} => length \in {NoLength, request[C].length}
      <4>1. Good(C)
        BY <2>4, <3>2
      <4> QED BY <1>1, <2>1, <2>5, <4>1 DEF AnswerInv, ParserInOrder
    <3> QED BY <1>1, <1>4, <2>1, <2>4, <3>1, <3>2 DEF ParserInOrder, HeaderTexts
  <2>7. SendsInOrder'
    BY <1>1, <1>2, <1>4, <2>4 DEF SendsInOrder
  <2> QED BY <1>2, <2>4, <2>6, <2>7 DEF AnswerInv
<1> QED BY <1>3, <1>4 DEF Receive

(* What getline leaves in the buffer is text too.                          *)
LEMMA AfterLineIs ==
  ASSUME NEW b \in Seq(Symbols)
  PROVE  AfterLine(b) \in Seq(Symbols)
<1>1. Len(b) \in Nat
  BY LenProperties
<1>2. PICK k \in Nat : k = LineEnd(b) /\ k <= Len(b) + 1
  <2>1. CASE Contains(b, "\n")
    <3> DEFINE I == {i \in 1 .. Len(b) : b[i] = "\n"}
    <3>1. I # {} /\ I \subseteq 1 .. Len(b) /\ I \in SUBSET Nat
      BY <1>1, <2>1 DEF Contains
    <3>2. SelectInSeq(b, LAMBDA x : x = "\n") = Min(I)
      BY <3>1 DEF SelectInSeq
    <3>3. LineEnd(b) = Min(I)
      BY <2>1, <3>2 DEF LineEnd
    <3> HIDE DEF I
    <3>4. \E n \in I : \A m \in I : n <= m
      <4> DEFINE R == {p \in Nat \X Nat : p[1] < p[2]}
      <4>1. IsWellFoundedOn(R, Nat)
        BY NatLessThanWellFounded DEF OpToRel
      <4>2. \A m, n \in Nat : m < n => <<m, n>> \in R
        OBVIOUS
      <4> HIDE DEF R
      <4>3. PICK n \in I : \A m \in I : ~(<<m, n>> \in R)
        BY <3>1, <4>1, WFMin
      <4>4. ASSUME NEW m \in I PROVE n <= m
        <5>1. m \in Nat /\ n \in Nat
          BY <3>1
        <5>2. ~(m < n)
          BY <4>2, <4>3, <5>1
        <5> QED BY <5>1, <5>2
      <4> QED BY <4>4
    <3>5. Min(I) \in I
      BY <3>4 DEF Min
    <3>6. PICK k \in 1 .. Len(b) : k = Min(I)
      BY <3>1, <3>5
    <3>7. k \in Nat /\ k <= Len(b) + 1
      BY <1>1
    <3> QED BY <3>3, <3>6, <3>7
  <2>2. CASE ~Contains(b, "\n")
    BY <1>1, <2>2 DEF LineEnd
  <2> QED BY <2>1, <2>2
<1>3. PICK m \in Nat : m = k + 1
  BY <1>2
<1>4. \A i \in m .. Len(b) : b[i] \in Symbols
  BY <1>1, <1>3, ElementOfSeq
<1>5. SubSeq(b, m, Len(b)) \in Seq(Symbols)
  BY <1>1, <1>3, <1>4, SubSeqProperties
<1> QED BY <1>2, <1>3, <1>5 DEF AfterLine

(* The request line: the whole first line is parsed.                       *)
LEMMA RequestLineAnswers == ASSUME AnswerInv, RequestLine PROVE AnswerInv'
<1>1. /\ pc = "line" /\ pc \in Serving /\ input # << >> /\ pc' \in {"drop", "header"}
      /\ input' = AfterLine(input) /\ UNCHANGED <<client, length, backlog, output, network>>
      /\ pc' = "drop" => Len(Words(Line(input))) < 3
      /\ length = NoLength /\ sent[C] = << >>
  BY DEF RequestLine, Serving, AnswerInv, ParserInOrder, SendsInOrder
<1>2. UNCHANGED <<request, peer, wire, sent, whole, served>>
  BY <1>1 DEF network
<1>3. /\ FilesInv' /\ C \in Clients /\ wire[C] \in Seq(Symbols) /\ input \in Seq(Symbols)
      /\ wire \in [Clients -> Seq(Symbols)] /\ request[C] \in Requests
      /\ sent[C] \in Seq(Pieces(C)) /\ IsPrefix(sent[C], Answer(C)) /\ DOMAIN sent = Clients
  BY <1>1, ServedIs, ReadFiles DEF AnswerInv
<1>4. input' \in Seq(Symbols)
  BY <1>1, <1>3, AfterLineIs
<1>5. /\ TextTypes' /\ TurnsInOrder' /\ AnswersInOrder' /\ C' = C /\ (Good(C)' <=> Good(C))
  BY <1>1, <1>2, <1>3, <1>4, OneServed DEF Good
<1>6. ASSUME Good(C)
      PROVE  /\ pc' = "header" /\ Joined(input', wire[C]) \in HeaderTexts(request[C])
             /\ input' = << >> \/ Last(input') = "\n"
  <2>1. PICK r \in Requests : r = request[C]
    BY <1>3
  <2>2. PICK L, R, w, b \in Seq(Symbols) :
          L = FirstOf(r) /\ R = AfterFirst(r) /\ w = wire[C] /\ b = input
    BY <1>3, FirstLineIs, TextsAre
  <2>3. b # << >> /\ Last(b) = "\n" /\ Joined(b, w) = RequestText(r)
    BY <1>1, <1>6, <2>1, <2>2 DEF AnswerInv, ParserInOrder
  <2>4. Joined(b, w) = OnLine(L, R)
    BY <1>6, <2>1, <2>2, <2>3, RequestIs DEF Good
  <2>5. OneLine(L) /\ Len(Words(L)) = 3
    BY <2>2, FirstLineIs
  <2>6. /\ Line(b) = L /\ Joined(AfterLine(b), w) = R
        /\ AfterLine(b) = << >> \/ Last(AfterLine(b)) = "\n"
    <3>1. Joined(b, w) = OnLine(L, R) /\ Last(b) = "\n" /\ b # << >>
      BY <2>3, <2>4
    <3>2. OneLine(L)
      BY <2>5
    <3> QED BY <3>1, <3>2, FirstLine
  <2>7. R \in HeaderTexts(r)
    BY <2>2 DEF HeaderTexts
  <2>8. pc' = "header"
    <3>1. Len(Words(Line(input))) = 3
      BY <2>2, <2>5, <2>6, Zenon
    <3> QED BY <1>1, <3>1
  <2> QED BY <1>1, <2>1, <2>2, <2>6, <2>7, <2>8, Zenon
<1>7. ParserInOrder'
  BY <1>1, <1>2, <1>5, <1>6 DEF ParserInOrder, HeaderTexts
<1>8. SendsInOrder'
  BY <1>1, <1>2, <1>5, <1>6 DEF SendsInOrder
<1> QED BY <1>3, <1>5, <1>7, <1>8 DEF AnswerInv

(* A line of the header: a field, and there is more, or the empty line     *)
LEMMA HeaderLineAnswers == ASSUME AnswerInv, HeaderLine PROVE AnswerInv'
<1>1. /\ pc = "header" /\ pc \in Serving /\ input # << >> /\ pc' \in {"drop", "header", "body"}
      /\ input' = AfterLine(input) /\ UNCHANGED <<client, backlog, output, network>>
      /\ pc' = "drop" => Chomp(Line(input)) # << >> /\ ~HasColon(Chomp(Line(input)))
      /\ pc' = "header" => HasColon(Chomp(Line(input)))
      /\ length' \in {length, request[C].length}
      /\ sent[C] = << >>
  BY DEF HeaderLine, Serving, AnswerInv, SendsInOrder
<1>2. UNCHANGED <<request, peer, wire, sent, whole, served>>
  BY <1>1 DEF network
<1>3. /\ FilesInv' /\ C \in Clients /\ wire[C] \in Seq(Symbols) /\ input \in Seq(Symbols)
      /\ wire \in [Clients -> Seq(Symbols)] /\ request[C] \in Requests
      /\ sent[C] \in Seq(Pieces(C)) /\ IsPrefix(sent[C], Answer(C)) /\ DOMAIN sent = Clients
  BY <1>1, ServedIs, ReadFiles DEF AnswerInv
<1>4. input' \in Seq(Symbols)
  BY <1>1, <1>3, AfterLineIs
<1>5. /\ TextTypes' /\ TurnsInOrder' /\ AnswersInOrder' /\ C' = C /\ (Good(C)' <=> Good(C))
  BY <1>1, <1>2, <1>3, <1>4, OneServed DEF Good
<1>6. ASSUME Good(C)
      PROVE  /\ pc' # "drop" /\ length' \in {NoLength, request[C].length}
             /\ pc' = "header" => Joined(input', wire[C]) \in HeaderTexts(request[C])
             /\ input' = << >> \/ Last(input') = "\n"
  <2>1. PICK r \in Requests : r = request[C]
    BY <1>3
  <2>2. PICK w, b \in Seq(Symbols) : w = wire[C] /\ b = input
    BY <1>3
  <2>3. /\ b # << >> /\ Last(b) = "\n" /\ Joined(b, w) \in HeaderTexts(r)
        /\ length \in {NoLength, request[C].length}
    BY <1>1, <1>6, <2>1, <2>2 DEF AnswerInv, ParserInOrder
  <2>4. PICK L, R \in Seq(Symbols) :
          /\ OneLine(L)
          /\ Joined(b, w) = OnLine(L, R)
          /\ Chomp(L) = << >> \/ (HasColon(Chomp(L)) /\ R \in HeaderTexts(r))
    BY <2>3, HeaderIs
  <2>5. /\ Line(b) = L /\ Joined(AfterLine(b), w) = R
        /\ AfterLine(b) = << >> \/ Last(AfterLine(b)) = "\n"
    <3>1. Joined(b, w) = OnLine(L, R) /\ Last(b) = "\n" /\ b # << >>
      BY <2>3, <2>4
    <3>2. OneLine(L)
      BY <2>4
    <3> QED BY <3>1, <3>2, FirstLine
  <2>6. ~HasColon(<< >>)
    BY DEF HasColon, Contains
  <2>7. Line(input) = L /\ input' = AfterLine(b)
    BY <1>1, <2>2, <2>5
  <2>8. pc' # "drop"
    BY <1>1, <2>4, <2>7, Zenon
  <2>9. pc' = "header" => R \in HeaderTexts(r)
    BY <1>1, <2>4, <2>6, <2>7, Zenon
  <2>10. length' \in {NoLength, request[C].length}
    BY <1>1, <2>3
  <2> QED BY <2>1, <2>2, <2>5, <2>7, <2>8, <2>9, <2>10, Zenon
<1>7. ParserInOrder'
  BY <1>1, <1>2, <1>5, <1>6 DEF ParserInOrder, HeaderTexts
<1>8. SendsInOrder'
  BY <1>1, <1>2, <1>5, <1>6 DEF SendsInOrder
<1> QED BY <1>3, <1>5, <1>7, <1>8 DEF AnswerInv

(* The body, which comes past the input buffer                             *)
LEMMA BodyAnswers == ASSUME AnswerInv, Body PROVE AnswerInv'
<1>1. /\ pc = "body" /\ pc \in Serving /\ pc' \in {"drop", "body", "route"}
      /\ UNCHANGED <<client, backlog, length, input, output, request, peer, sent, whole, served>>
      /\ pc' = "drop" => length \in {BadLength, 0} \/ peer[C] = "shut"
      /\ sent[C] = << >>
  BY DEF Body, Serving, AnswerInv, SendsInOrder
<1>2. /\ FilesInv' /\ C \in Clients /\ wire[C] \in Seq(Symbols) /\ input \in Seq(Symbols)
      /\ wire \in [Clients -> Seq(Symbols)] /\ length \in Nat \cup {NoLength, BadLength}
      /\ body \in Nat
      /\ sent[C] \in Seq(Pieces(C)) /\ IsPrefix(sent[C], Answer(C)) /\ DOMAIN sent = Clients
  BY <1>1, ServedIs, ReadFiles DEF AnswerInv, FilesInv, Types
<1>3. wire' \in [Clients -> Seq(Symbols)] /\ \A c \in Clients \ {C} : wire'[c] = wire[c]
  <2>1. CASE wire' = wire
    BY <1>2, <2>1
  <2>2. ASSUME NEW n \in 1 .. length - body, n <= Len(wire[C]),
               wire' = [wire EXCEPT ![C] = SubSeq(@, n + 1, Len(@))]
        PROVE  wire' \in [Clients -> Seq(Symbols)] /\ \A c \in Clients \ {C} : wire'[c] = wire[c]
    <3>1. n \in 0 .. Len(wire[C])
      BY <1>2, <2>2
    <3>2. SubSeq(wire[C], n + 1, Len(wire[C])) \in Seq(Symbols)
      BY <1>2, <3>1, CutInTwo
    <3>3. PICK v \in Seq(Symbols) : wire' = [wire EXCEPT ![C] = v]
      BY <1>2, <2>2, <3>2
    <3> QED BY <1>2, <3>3
  <2> QED BY <2>1, <2>2 DEF Body
<1>4. /\ TextTypes' /\ TurnsInOrder' /\ AnswersInOrder' /\ C' = C /\ (Good(C)' <=> Good(C))
  BY <1>1, <1>2, <1>3, OneServed DEF Good
<1>5. ASSUME Good(C) PROVE pc' # "drop" /\ length \in {NoLength, request[C].length}
  BY <1>1, <1>5 DEF AnswerInv, ParserInOrder, Good
<1>6. ParserInOrder'
  BY <1>1, <1>4, <1>5 DEF ParserInOrder
<1>7. SendsInOrder'
  BY <1>1, <1>4, <1>5 DEF SendsInOrder
<1> QED BY <1>2, <1>4, <1>6, <1>7 DEF AnswerInv

(* The response to the request goes to the buffer, or the process ends.    *)
LEMMA RouteAnswers == ASSUME AnswerInv, Route PROVE AnswerInv'
<1>1. /\ pc \in Serving /\ UNCHANGED <<client, input, length, backlog, network>>
      /\ sent[C] = << >> /\ sent' = sent
      /\ pc' = "terminated" \/ (pc' = "send" /\ output' = Answer(C))
  BY DEF Route, Serving, AnswerInv, SendsInOrder, Answer, network
<1>2. FilesInv' /\ C \in Clients
  BY <1>1, ServedIs, AnswerFiles DEF AnswerInv
<1>3. /\ TextTypes' /\ TurnsInOrder' /\ AnswersInOrder' /\ C' = C
      /\ Answer(C)' = Answer(C) /\ Pieces(C)' = Pieces(C)
      /\ pc' \notin Serving => ParserInOrder' /\ SendsInOrder'
  BY <1>1, NothingRead
<1>4. CASE pc' = "terminated"
  BY <1>2, <1>3, <1>4 DEF AnswerInv, Serving
<1>5. CASE pc' = "send" /\ output' = Answer(C)
  <2>1. PICK P, a : P = Pieces(C) /\ a = Answer(C) /\ a \in Seq(P) /\ Joined(<< >>, a) = a
    <3>1. Answer(C) \in Seq(Pieces(C))
      BY <1>2, AnswerIs
    <3>2. \A S : \A x \in Seq(S) : Joined(<< >>, x) = x
      BY Joining, Zenon
    <3> QED BY <3>1, <3>2, Zenon
  <2>2. ParserInOrder'
    BY <1>5 DEF ParserInOrder
  <2>3. SendsInOrder'
    BY <1>1, <1>3, <1>5, <2>1 DEF SendsInOrder
  <2> QED BY <1>2, <1>3, <2>2, <2>3 DEF AnswerInv
<1> QED BY <1>1, <1>4, <1>5

(* Sent: the next part of the response.  An error comes back only when the *)
(* client has gone.                                                        *)
LEMMA SendAnswers == ASSUME AnswerInv, Send PROVE AnswerInv'
<1>1. /\ pc = "send" /\ pc \in Serving
      /\ UNCHANGED <<client, input, length, backlog, request, peer, wire, whole, served>>
      /\ output \in Seq(Pieces(C)) /\ Joined(sent[C], output) = Answer(C)
  BY DEF Send, Serving, AnswerInv, SendsInOrder
<1>2. /\ FilesInv' /\ C \in Clients /\ sent[C] \in Seq(Pieces(C)) /\ DOMAIN sent = Clients
      /\ input \in Seq(Symbols) /\ wire \in [Clients -> Seq(Symbols)]
  BY <1>1, ServedIs, AnswerFiles DEF AnswerInv
<1>3. CASE peer[C] \in {"shut", "reset"} /\ pc' \in {"close", "terminated"} /\ UNCHANGED sent
  <2>1. ~Good(C) /\ UNCHANGED network
    BY <1>1, <1>3 DEF Good, network
  <2>2. TextTypes' /\ TurnsInOrder' /\ AnswersInOrder' /\ C' = C /\ ~Good(C)'
    BY <1>1, <2>1, NothingRead
  <2>3. ParserInOrder' /\ SendsInOrder'
    BY <1>3, <2>2 DEF ParserInOrder, SendsInOrder
  <2> QED BY <1>2, <2>2, <2>3 DEF AnswerInv
<1>4. ASSUME NEW n \in 1 .. Len(output),
             sent' = [sent EXCEPT ![C] = @ \o SubSeq(output, 1, n)],
             output' = SubSeq(output, n + 1, Len(output)),
             pc' = IF n < Len(output) THEN "send"
                   ELSE IF version = "HTTP/1.0" THEN "close" ELSE "drop"
      PROVE  AnswerInv'
  <2>1. PICK P, s, a, b :
          /\ P = Pieces(C) /\ s = sent[C] /\ s \in Seq(P)
          /\ a = SubSeq(output, 1, n) /\ a \in Seq(P)
          /\ b = output' /\ b \in Seq(P) /\ Joined(a, b) = output
          /\ n = Len(output) => b = << >>
    <3>1. n \in 0 .. Len(output) /\ Len(output) \in Nat
      BY <1>1, LenProperties
    <3>2. /\ SubSeq(output, 1, n) \in Seq(Pieces(C))
          /\ SubSeq(output, n + 1, Len(output)) \in Seq(Pieces(C))
          /\ Len(SubSeq(output, n + 1, Len(output))) = Len(output) - n
          /\ Joined(SubSeq(output, 1, n), SubSeq(output, n + 1, Len(output))) = output
      BY <1>1, <3>1, CutInTwo
    <3>3. n = Len(output) => SubSeq(output, n + 1, Len(output)) = << >>
      BY <3>1, <3>2, EmptySeq
    <3> QED BY <1>2, <1>4, <3>2, <3>3, Zenon
  <2>2. PICK t : t = Joined(s, a) /\ t \in Seq(P) /\ Joined(t, b) = Answer(C) /\ IsPrefix(t, Answer(C))
    <3>1. Joined(s, a) \in Seq(P) /\ Joined(Joined(s, a), b) = Joined(s, Joined(a, b))
      BY <2>1, Joining
    <3>2. Joined(Joined(s, a), b) = Answer(C)
      BY <1>1, <2>1, <3>1, Zenon
    <3>3. IsPrefix(Joined(s, a), Joined(Joined(s, a), b))
      BY <2>1, <3>1, PrefixIs, Zenon
    <3> QED BY <3>1, <3>2, <3>3, Zenon
  <2>3. sent' = [sent EXCEPT ![C] = t]
    <3>1. sent' = [sent EXCEPT ![C] = sent[C] \o SubSeq(output, 1, n)]
      BY <1>4
    <3> QED BY <2>1, <2>2, <3>1, Zenon DEF Joined
  <2>4. sent'[C] = t /\ DOMAIN sent' = Clients /\ \A c \in Clients \ {C} : sent'[c] = sent[c]
    BY <1>2, <2>3, Zenon
  <2>5. /\ TextTypes' /\ TurnsInOrder' /\ AnswersInOrder' /\ C' = C
        /\ Answer(C)' = Answer(C) /\ Pieces(C)' = Pieces(C)
    <3>1. sent'[C] \in Seq(Pieces(C)) /\ IsPrefix(sent'[C], Answer(C))
      BY <2>1, <2>2, <2>4, Zenon
    <3> QED BY <1>1, <1>2, <2>4, <3>1, OneServed
  <2>6. ParserInOrder'
    BY <1>4 DEF ParserInOrder
  <2>7. pc' # "send" => t = Answer(C)
    <3>1. Len(output) \in Nat
      BY <1>1, LenProperties
    <3>2. pc' # "send" => n = Len(output)
      BY <1>4, <3>1
    <3>3. Joined(t, << >>) = t
      BY <2>2, Joining, Zenon
    <3> QED BY <2>1, <2>2, <3>2, <3>3, Zenon
  <2>8. SendsInOrder'
    <3>1. pc' \in {"send", "close", "drop"}
      BY <1>4
    <3>2. output' \in Seq(Pieces(C)') /\ Joined(sent'[C], output') = Answer(C)'
      BY <2>1, <2>2, <2>4, <2>5, Zenon
    <3>3. pc' # "send" => sent'[C] = Answer(C)'
      BY <2>4, <2>5, <2>7, Zenon
    <3> QED BY <2>5, <3>1, <3>2, <3>3 DEF SendsInOrder
  <2> QED BY <1>2, <2>5, <2>6, <2>8 DEF AnswerInv
<1> QED BY <1>3, <1>4 DEF Send

(* close changes nothing that was read or sent.                            *)
LEMMA CloseAnswers == ASSUME AnswerInv, Close PROVE AnswerInv'
<1>1. /\ pc = "close" /\ pc' = "drop" /\ UNCHANGED <<client, input, length, backlog, network>>
      /\ FilesInv' /\ sent' = sent
  BY AnswerFiles DEF Close, AnswerInv, network
<1>2. /\ TextTypes' /\ TurnsInOrder' /\ AnswersInOrder' /\ C' = C
      /\ Answer(C)' = Answer(C) /\ (Good(C)' <=> Good(C))
  BY <1>1, NothingRead
<1>3. ParserInOrder'
  BY <1>1 DEF ParserInOrder
<1>4. SendsInOrder'
  BY <1>1, <1>2 DEF SendsInOrder, AnswerInv
<1> QED BY <1>1, <1>2, <1>3, <1>4 DEF AnswerInv

(* The connection has ended, with all of the response sent.                *)
LEMMA DropAnswers == ASSUME AnswerInv, Drop PROVE AnswerInv'
<1>1. /\ pc = "drop" /\ pc \in Serving /\ pc' = "accept" /\ client' = None /\ input' = << >>
      /\ length' = NoLength /\ wire' = [wire EXCEPT ![C] = << >>] /\ served' = served \cup {C}
      /\ UNCHANGED <<backlog, request, peer, sent, whole>>
  BY DEF Drop, Serving
<1>2. /\ FilesInv' /\ C \in Clients /\ client = <<C>> /\ wire \in [Clients -> Seq(Symbols)]
  BY <1>1, ServedIs, AnswerFiles DEF AnswerInv
<1>3. \A c : (Good(c)' <=> Good(c)) /\ Answer(c)' = Answer(c) /\ Pieces(c)' = Pieces(c)
  BY <1>1 DEF Good, Answer, Pieces
<1>4. TextTypes'
  BY <1>1, <1>2, EmptySeq DEF TextTypes
<1>5. TurnsInOrder'
  <2>1. \A c \in Clients : client = <<c>> <=> c = C
    BY <1>2
  <2>2. \A c \in Clients : client' # <<c>> /\ (c # C => wire'[c] = wire[c])
    BY <1>1, <1>2
  <2> QED BY <1>1, <1>2, <2>1, <2>2 DEF AnswerInv, TurnsInOrder
<1>6. ParserInOrder' /\ SendsInOrder'
  BY <1>1 DEF ParserInOrder, SendsInOrder, Serving
<1>7. AnswersInOrder'
  <2>1. Good(C) => sent[C] = Answer(C)
    BY <1>1 DEF AnswerInv, SendsInOrder
  <2> QED BY <1>1, <1>3, <2>1 DEF AnswerInv, AnswersInOrder
<1> QED BY <1>2, <1>4, <1>5, <1>6, <1>7 DEF AnswerInv

(* A client that connects was neither queued nor served.                   *)
LEMMA ConnectAnswers == ASSUME AnswerInv, NEW c \in Clients, Connect(c) PROVE AnswerInv'
<1>1. /\ peer[c] = "away" /\ backlog' = Append(backlog, c) /\ peer' = [peer EXCEPT ![c] = "open"]
      /\ UNCHANGED <<pc, client, input, length, output, request, wire, sent, whole, served>>
      /\ FilesInv'
  BY ClientFiles DEF Connect, connection, AnswerInv
<1>2. /\ backlog \in Seq(Clients) /\ Len(backlog) \in Nat
      /\ peer \in [Clients -> {"away", "open", "shut", "reset"}] /\ Types
  BY LenProperties DEF AnswerInv, FilesInv, Types
<1>3. /\ Len(backlog') = Len(backlog) + 1 /\ backlog'[Len(backlog) + 1] = c
      /\ \A i \in 1 .. Len(backlog) : backlog'[i] = backlog[i]
  BY <1>1, <1>2, AppendProperties
<1>4. /\ c \notin served /\ client # <<c>> /\ \A i \in 1 .. Len(backlog) : backlog[i] # c
  BY <1>1 DEF AnswerInv, TurnsInOrder
<1>5. /\ peer'[c] = "open" /\ \A d \in Clients \ {c} : peer'[d] = peer[d]
  BY <1>1, <1>2
<1>6. \A i \in 1 .. Len(backlog') : i \in 1 .. Len(backlog) \/ i = Len(backlog) + 1
  BY <1>2, <1>3
<1>7. TextTypes'
  BY <1>1 DEF AnswerInv, TextTypes
<1>8. TurnsInOrder'
  <2>1. ASSUME NEW d \in Clients \ {c}, \A i \in 1 .. Len(backlog) : backlog[i] # d,
               NEW i \in 1 .. Len(backlog')
        PROVE  backlog'[i] # d
    BY <1>3, <1>6, <2>1
  <2>2. ASSUME NEW i \in 1 .. Len(backlog'), NEW j \in 1 .. Len(backlog'), backlog'[i] = backlog'[j]
        PROVE  i = j
    <3>1. CASE i \in 1 .. Len(backlog) /\ j \in 1 .. Len(backlog)
      BY <1>3, <2>2, <3>1 DEF AnswerInv, TurnsInOrder
    <3>2. CASE ~(i \in 1 .. Len(backlog) /\ j \in 1 .. Len(backlog))
      BY <1>3, <1>4, <1>6, <2>2, <3>2
    <3> QED BY <3>1, <3>2
  <2>3. ASSUME NEW d \in Clients
        PROVE  /\ client' # <<d>> /\ d \notin served' =>
                    /\ sent'[d] = << >> /\ whole'[d]
                    /\ peer'[d] \in {"away", "open"} => wire'[d] = RequestText(request'[d])
               /\ peer'[d] = "away" => d \notin served' /\ client' # <<d>>
                                       /\ \A i \in 1 .. Len(backlog') : backlog'[i] # d
               /\ client' = <<d>> => d \notin served' /\ \A i \in 1 .. Len(backlog') : backlog'[i] # d
               /\ d \in served' => \A i \in 1 .. Len(backlog') : backlog'[i] # d
    <3>1. CASE d = c
      BY <1>1, <1>4, <1>5, <3>1 DEF AnswerInv, TurnsInOrder
    <3>2. CASE d # c
      BY <1>1, <1>5, <2>1, <3>2 DEF AnswerInv, TurnsInOrder
    <3> QED BY <3>1, <3>2
  <2> QED BY <1>1, <2>2, <2>3 DEF AnswerInv, TurnsInOrder
<1>9. \A d : Answer(d)' = Answer(d) /\ Pieces(d)' = Pieces(d)
  BY <1>1 DEF Answer, Pieces
<1>10. \A d \in Clients \ {c} : Good(d)' <=> Good(d)
  BY <1>1, <1>5 DEF Good
<1>11. pc \in Serving => C \in Clients \ {c} /\ C' = C
  <2>1. pc \in Serving => C \in Clients /\ client = <<C>>
    BY ServedIs
  <2> QED BY <1>1, <1>4, <2>1 DEF C
<1>12. ParserInOrder'
  BY <1>1, <1>10, <1>11 DEF AnswerInv, ParserInOrder, HeaderTexts
<1>13. SendsInOrder'
  BY <1>1, <1>9, <1>10, <1>11 DEF AnswerInv, SendsInOrder, Serving
<1>14. AnswersInOrder'
  <2>1. DOMAIN sent' = Clients
    BY <1>1 DEF AnswerInv, AnswersInOrder
  <2>2. ASSUME NEW d \in Clients PROVE sent'[d] \in Seq(Pieces(d)') /\ IsPrefix(sent'[d], Answer(d)')
    <3>1. sent[d] \in Seq(Pieces(d)) /\ IsPrefix(sent[d], Answer(d))
      BY DEF AnswerInv, AnswersInOrder
    <3> QED BY <1>1, <1>9, <3>1, Zenon
  <2>3. ASSUME NEW d \in served', Good(d)' PROVE sent'[d] = Answer(d)'
    <3>1. d \in served /\ d \in Clients \ {c}
      BY <1>1, <1>4 DEF AnswerInv, FilesInv, Types
    <3>2. sent[d] = Answer(d)
      BY <1>10, <2>3, <3>1 DEF AnswerInv, AnswersInOrder
    <3> QED BY <1>1, <1>9, <3>2, Zenon
  <2> QED BY <2>1, <2>2, <2>3 DEF AnswersInOrder
<1> QED BY <1>1, <1>7, <1>8, <1>12, <1>13, <1>14 DEF AnswerInv

(* Nothing is promised to a client that leaves.                            *)
LEMMA LeaveAnswers == ASSUME AnswerInv, NEW c \in Clients, Leave(c) PROVE AnswerInv'
<1>1. /\ peer[c] = "open" /\ c \notin served /\ peer' \in {[peer EXCEPT ![c] = v] : v \in {"shut", "reset"}}
      /\ UNCHANGED <<pc, backlog, client, input, length, output, request, sent, whole, served>>
      /\ FilesInv'
  BY ClientFiles DEF Leave, connection, AnswerInv
<1>2. peer \in [Clients -> {"away", "open", "shut", "reset"}] /\ wire \in [Clients -> Seq(Symbols)]
  BY DEF AnswerInv, FilesInv, Types, TextTypes
<1>3. peer'[c] \in {"shut", "reset"} /\ \A d \in Clients \ {c} : peer'[d] = peer[d]
  BY <1>1, <1>2
<1>4. wire' \in [Clients -> Seq(Symbols)] /\ \A d \in Clients \ {c} : wire'[d] = wire[d]
  <2>1. PICK v : wire' = [wire EXCEPT ![c] = v] /\ (v = << >> \/ \E n \in 0 .. Len(wire[c]) : v = SubSeq(wire[c], 1, n))
    BY <1>2 DEF Leave
  <2>2. v \in Seq(Symbols)
    <3>1. ASSUME NEW n \in 0 .. Len(wire[c]) PROVE SubSeq(wire[c], 1, n) \in Seq(Symbols)
      BY <1>2, CutInTwo
    <3> QED BY <2>1, <3>1, EmptySeq
  <2> QED BY <1>2, <2>1, <2>2
<1>5. TextTypes'
  BY <1>1, <1>4 DEF AnswerInv, TextTypes
<1>6. TurnsInOrder'
  BY <1>1, <1>3, <1>4 DEF AnswerInv, TurnsInOrder
<1>7. ~Good(c)' /\ \A d \in Clients \ {c} : Good(d)' <=> Good(d)
  BY <1>1, <1>3 DEF Good
<1>8. \A d : Answer(d)' = Answer(d) /\ Pieces(d)' = Pieces(d)
  BY <1>1 DEF Answer, Pieces
<1>9. pc \in Serving => C \in Clients /\ C' = C
  BY <1>1, ServedIs DEF C
<1>10. ParserInOrder'
  BY <1>1, <1>4, <1>7, <1>9 DEF AnswerInv, ParserInOrder, HeaderTexts
<1>11. SendsInOrder'
  BY <1>1, <1>7, <1>8, <1>9 DEF AnswerInv, SendsInOrder, Serving
<1>12. AnswersInOrder'
  <2>1. DOMAIN sent' = Clients
    BY <1>1 DEF AnswerInv, AnswersInOrder
  <2>2. ASSUME NEW d \in Clients PROVE sent'[d] \in Seq(Pieces(d)') /\ IsPrefix(sent'[d], Answer(d)')
    <3>1. sent[d] \in Seq(Pieces(d)) /\ IsPrefix(sent[d], Answer(d))
      BY DEF AnswerInv, AnswersInOrder
    <3> QED BY <1>1, <1>8, <3>1, Zenon
  <2>3. ASSUME NEW d \in served', Good(d)' PROVE sent'[d] = Answer(d)'
    <3>1. d \in served /\ d \in Clients \ {c}
      BY <1>1, <1>1 DEF AnswerInv, FilesInv, Types
    <3>2. sent[d] = Answer(d)
      BY <1>7, <2>3, <3>1 DEF AnswerInv, AnswersInOrder
    <3> QED BY <1>1, <1>8, <3>2, Zenon
  <2> QED BY <2>1, <2>2, <2>3 DEF AnswersInOrder
<1> QED BY <1>1, <1>5, <1>6, <1>10, <1>11, <1>12 DEF AnswerInv

(* Every step keeps the invariant. *)
LEMMA NextAnswers == AnswerInv /\ [Next]_vars => AnswerInv'
<1> SUFFICES ASSUME AnswerInv, [Next]_vars PROVE AnswerInv'
  OBVIOUS
<1>1. CASE ServerStep
  BY <1>1, ListenAnswers, AcceptAnswers, ReceiveAnswers, RequestLineAnswers, HeaderLineAnswers,
     BodyAnswers, RouteAnswers, SendAnswers, CloseAnswers, DropAnswers DEF ServerStep
<1>2. CASE UNCHANGED vars
  <2>1. FilesInv'
    BY NextFiles DEF AnswerInv
  <2>2. UNCHANGED <<client, input, length, backlog, network>> /\ pc' = pc /\ output' = output
    BY <1>2 DEF vars, connection
  <2>3. UNCHANGED <<request, wire, sent>>
    BY <2>2 DEF network
  <2>4. /\ TextTypes' /\ TurnsInOrder' /\ AnswersInOrder' /\ C' = C /\ (Good(C)' <=> Good(C))
        /\ Answer(C)' = Answer(C) /\ Pieces(C)' = Pieces(C)
    BY <2>2, NothingRead
  <2>5. ParserInOrder' /\ SendsInOrder'
    BY <2>2, <2>3, <2>4 DEF AnswerInv, ParserInOrder, SendsInOrder, HeaderTexts
  <2> QED BY <2>1, <2>4, <2>5 DEF AnswerInv
<1> QED BY <1>1, <1>2, ConnectAnswers, LeaveAnswers DEF Next

(* What a client is sent is the beginning of the response to its own       *)
(* request, and all of it when the client waited and its request came in   *)
(* whole lines and is one that the server can parse.                       *)
THEOREM EachGetsItsResponse == Spec => []GetsItsResponse
<1>1. AnswerInv => GetsItsResponse
  <2> SUFFICES ASSUME AnswerInv, NEW c \in Clients
               PROVE  /\ IsPrefix(sent[c], Answer(c))
                      /\ c \in served /\ Good(c) => sent[c] = Answer(c)
    BY DEF GetsItsResponse, Good, Answer
  <2> QED BY DEF AnswerInv, AnswersInOrder
<1> QED BY <1>1, InitAnswers, NextAnswers, PTL DEF Spec
=============================================================================
