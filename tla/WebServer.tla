----------------------------- MODULE WebServer -----------------------------
(***************************************************************************)
(* The web server: TcpServer's search for an address and its accept loop,  *)
(* HttpServer's connection handling, HttpRequest's parsing from Socket's   *)
(* stream, WebServer's routing and HttpResponse's sending.  One thread     *)
(* serves one connection after the other; clients connect, send, wait and  *)
(* leave when they like.                                                   *)
(***************************************************************************)
EXTENDS HttpText, FiniteSets

CONSTANTS Clients,    \* the clients, one connection each
          Demands,    \* functions from clients to requests: what they may ask
          Addresses,  \* the number of addresses getaddrinfo may return
          Backlog     \* connectionQueueCapacity

ASSUME ServerAssumption == /\ Addresses \in Nat /\ Backlog \in Nat \ {0}
                           /\ Demands \subseteq [Clients -> Requests]

VARIABLES pc,         \* the server's next step
          addresses,  \* the addresses it has not tried yet
          listener,   \* connectionRequestSocket
          open,       \* the process's open socket descriptors
          backlog,    \* connections the system has queued
          client,     \* the connection being handled: none or << a client >>
          file,       \* its socketFileDescriptor
          input,      \* its input buffer, from the read position on
          version,    \* HttpRequest's httpVersion
          length,     \* its Content-Length header
          body,       \* the bytes of the body that were read
          output,     \* what Socket::send has still to send
          request,    \* what each client asks
          peer,       \* each client's end of the connection
          wire,       \* what the server has not received of each request
          sent,       \* history: what was sent to each client
          whole,      \* history: no segment ended inside a line or held a
                      \* byte of the body together with the header
          served      \* history: the clients whose connection has ended

connection == <<client, file, input, version, length, body, output>>
network    == <<request, peer, wire, sent, whole, served>>
vars       == <<pc, addresses, listener, open, backlog, connection, network>>

None      == << >>
Closed    == -1
C         == Head(client)
Down      == pc \in {"ended", "terminated"}
Listening == pc \notin {"open", "listen", "exit", "ended", "terminated"}

Init ==
  /\ pc = "open" /\ addresses \in 0 .. Addresses
  /\ listener = Closed /\ open = {} /\ backlog = << >>
  /\ client = None /\ file = Closed /\ input = << >>
  /\ version = "HTTP/1.0" /\ length = NoLength /\ body = 0 /\ output = << >>
  /\ request \in Demands
  /\ peer = [c \in Clients |-> "away"]
  /\ wire = [c \in Clients |-> RequestText(request[c])]
  /\ sent = [c \in Clients |-> << >>]
  /\ whole = [c \in Clients |-> TRUE]
  /\ served = {}

-----------------------------------------------------------------------------
(* The system gives the lowest descriptor that is free *)
NewFile == CHOOSE f \in 3 .. 3 + Cardinality(open) :
             f \notin open /\ \A g \in 3 .. f - 1 : g \in open

(* Fault: the descriptor that could not be bound is not closed *)
TryAddressLeak ==
  /\ pc = "open" /\ addresses > 0
  /\ addresses' = addresses - 1
  /\ listener' = NewFile /\ open' = open \cup {NewFile}
  /\ pc' \in {"open", "listen"}
  /\ UNCHANGED <<backlog, connection, network>>

(* openConnectionRequestSocket: one address.  After a failed bind the      *)
(* descriptor is closed but its number stays in connectionRequestSocket.   *)
TryAddress ==
  /\ pc = "open"
  /\ \/ addresses = 0 /\ pc' = "exit" /\ UNCHANGED <<addresses, listener, open>>
     \/ /\ addresses > 0
        /\ addresses' = addresses - 1
        /\ \/ listener' = Closed /\ UNCHANGED <<pc, open>>
           \/ /\ listener' = NewFile
              /\ \/ pc' = "listen" /\ open' = open \cup {NewFile}
                 \/ pc' = "exit"   /\ open' = open \cup {NewFile}
                 \/ UNCHANGED <<pc, open>>
  /\ UNCHANGED <<backlog, connection, network>>

Listen ==
  /\ pc = "listen"
  /\ pc' \in {"accept", "exit"}
  /\ UNCHANGED <<addresses, listener, open, backlog, connection, network>>

(* acceptConnectionRequest: a new Socket and HttpRequest, or an exception, *)
(* which needs no connection in the queue                                  *)
Accept ==
  /\ pc = "accept"
  /\ \/ /\ backlog # << >>
        /\ client' = <<Head(backlog)>>
        /\ file' = NewFile /\ open' = open \cup {NewFile}
        /\ backlog' = Tail(backlog)
        /\ pc' = "line"
     \/ pc' = "exit" /\ UNCHANGED <<client, file, open, backlog>>
  /\ UNCHANGED <<addresses, listener, input, version, length, body, output, network>>

(* start catches the exception; ~TcpServer calls stopListening *)
Exit ==
  /\ pc = "exit"
  /\ open' = IF listener >= 0 THEN open \ {listener} ELSE open
  /\ pc' = "ended"
  /\ UNCHANGED <<addresses, listener, backlog, connection, network>>

-----------------------------------------------------------------------------
Reading == pc \in {"line", "header"}

(* Fault: readLine tries again when receive fails *)
ReceiveRetry ==
  /\ Reading /\ input = << >>
  /\ \E n \in 1 .. Len(wire[C]) :
       /\ input' = SubSeq(wire[C], 1, n)
       /\ wire' = [wire EXCEPT ![C] = SubSeq(@, n + 1, Len(@))]
       /\ whole' = [whole EXCEPT ![C] = @ /\ wire[C][n] = "\n"]
  /\ UNCHANGED <<pc, addresses, listener, open, backlog, client, file, version, length, body,
                 output, request, peer, sent, served>>

(* readLine: nothing is left in the buffer, so receive.  A failure makes   *)
(* parse fail, and the connection is dropped.                              *)
Receive ==
  /\ Reading /\ input = << >>
  /\ \/ \E n \in 1 .. Len(wire[C]) :
          LET segment == SubSeq(wire[C], 1, n) IN
          /\ input' = segment
          /\ wire' = [wire EXCEPT ![C] = SubSeq(@, n + 1, Len(@))]
          /\ whole' = [whole EXCEPT ![C] = @ /\ Last(segment) = "\n"]
          /\ UNCHANGED pc
     \/ /\ (peer[C] = "shut" /\ wire[C] = << >>) \/ peer[C] = "reset"
        /\ pc' = "drop"
        /\ UNCHANGED <<input, wire, whole>>
  /\ UNCHANGED <<addresses, listener, open, backlog, client, file, version, length, body,
                 output, request, peer, sent, served>>

(* parseRequestLine with the line that getline found *)
RequestLine ==
  /\ pc = "line" /\ input # << >>
  /\ LET words == Words(Line(input)) IN
     IF Len(words) < 3 THEN pc' = "drop" /\ UNCHANGED version
                       ELSE pc' = "header" /\ version' = words[3]
  /\ input' = AfterLine(input)
  /\ UNCHANGED <<addresses, listener, open, backlog, client, file, length, body, output, network>>

(* parseHeader, one field *)
HeaderLine ==
  /\ pc = "header" /\ input # << >>
  /\ LET line == Chomp(Line(input)) IN
     \/ line = << >> /\ pc' = "body" /\ UNCHANGED length
     \/ line # << >> /\ ~HasColon(line) /\ pc' = "drop" /\ UNCHANGED length
     \/ /\ HasColon(line)
        /\ length' = IF Contains(line, "digits") THEN request[C].length ELSE length
        /\ UNCHANGED pc
  /\ input' = AfterLine(input)
  /\ UNCHANGED <<addresses, listener, open, backlog, client, file, version, body, output, network>>

(* parseBody: one recv of Socket::read, past the input buffer.  An error   *)
(* (-1) is not 0, and passes for success.                                  *)
Body ==
  /\ pc = "body"
  /\ \/ /\ length = NoLength \/ (body > 0 /\ body = length)
        /\ pc' = "route" /\ UNCHANGED <<body, wire>>
     \/ length \in {BadLength, 0} /\ pc' = "drop" /\ UNCHANGED <<body, wire>>
     \/ /\ length > body
        /\ \E n \in 1 .. length - body :
             /\ n <= Len(wire[C])
             /\ body' = body + n
             /\ wire' = [wire EXCEPT ![C] = SubSeq(@, n + 1, Len(@))]
        /\ UNCHANGED pc
     \/ /\ length > body /\ peer[C] = "shut" /\ wire[C] = << >>
        /\ pc' = "drop" /\ UNCHANGED <<body, wire>>
     \/ /\ length > body /\ peer[C] = "reset"
        /\ pc' = "route" /\ UNCHANGED <<body, wire>>
  /\ UNCHANGED <<addresses, listener, open, backlog, client, file, input, version, length,
                 output, request, peer, sent, whole, served>>

-----------------------------------------------------------------------------
(* route and serve...: the response goes to the output buffer.  A number    *)
(* that stoll cannot convert is an exception that nothing catches.         *)
Route ==
  /\ pc = "route"
  /\ IF request[C].target = "huge"
     THEN pc' = "terminated" /\ open' = {} /\ UNCHANGED output
     ELSE pc' = "send" /\ output' = Response(request[C].target) /\ UNCHANGED open
  /\ UNCHANGED <<addresses, listener, backlog, client, file, input, version, length, body,
                 network>>

(* Fault: what one call of ::send took is taken for all *)
SendOnce ==
  /\ pc = "send"
  /\ \E n \in 1 .. Len(output) :
       /\ sent' = [sent EXCEPT ![C] = @ \o SubSeq(output, 1, n)]
       /\ output' = SubSeq(output, n + 1, Len(output))
  /\ pc' = IF version = "HTTP/1.0" THEN "close" ELSE "drop"
  /\ UNCHANGED <<addresses, listener, open, backlog, client, file, input, version, length, body,
                 request, peer, wire, whole, served>>

(* Socket::send, one call of ::send, and what handleClientConnection does  *)
(* when all was sent, or an error came back; a signal ends the process.    *)
Send ==
  /\ pc = "send"
  /\ \/ \E n \in 1 .. Len(output) :
          /\ sent' = [sent EXCEPT ![C] = @ \o SubSeq(output, 1, n)]
          /\ output' = SubSeq(output, n + 1, Len(output))
          /\ pc' = IF n < Len(output) THEN "send"
                   ELSE IF version = "HTTP/1.0" THEN "close" ELSE "drop"
          /\ UNCHANGED open
     \/ /\ peer[C] \in {"shut", "reset"}
        /\ pc' = "close"
        /\ UNCHANGED <<sent, output, open>>
     \/ /\ peer[C] \in {"shut", "reset"}
        /\ pc' = "terminated" /\ open' = {}
        /\ UNCHANGED <<sent, output>>
  /\ UNCHANGED <<addresses, listener, backlog, client, file, input, version, length, body,
                 request, peer, wire, whole, served>>

(* Fault: the descriptor is kept after it was closed *)
CloseFileStale == open' = open \ {file} /\ UNCHANGED file

(* SharedSocket::close *)
CloseFile ==
  IF file >= 0 THEN open' = open \ {file} /\ file' = Closed ELSE UNCHANGED <<open, file>>

(* The record of SharedSocket::close cannot be written in the log: the     *)
(* exception comes out of a destructor, at once or when the stack unwinds  *)
CloseThrows ==
  /\ pc \in {"close", "drop"} /\ file # Closed
  /\ pc' = "terminated" /\ open' = {}
  /\ UNCHANGED <<addresses, listener, backlog, client, file, input, version, length, body,
                 output, network>>

Close ==
  /\ pc = "close"
  /\ CloseFile
  /\ pc' = "drop"
  /\ UNCHANGED <<addresses, listener, backlog, client, input, version, length, body, output,
                 network>>

(* The last copy of the Socket is destroyed with its buffers, the system   *)
(* drops what was not received, and the loop goes on to the next one       *)
Drop ==
  /\ pc = "drop"
  /\ CloseFile
  /\ pc' = "accept"
  /\ client' = None /\ input' = << >> /\ output' = << >>
  /\ version' = "HTTP/1.0" /\ length' = NoLength /\ body' = 0
  /\ wire' = [wire EXCEPT ![C] = << >>]
  /\ served' = served \cup {C}
  /\ UNCHANGED <<addresses, listener, backlog, request, peer, sent, whole>>

ServerStep == \/ TryAddress \/ Listen \/ Accept \/ Exit
              \/ Receive \/ RequestLine \/ HeaderLine \/ Body
              \/ Route \/ Send \/ Close \/ Drop \/ CloseThrows

-----------------------------------------------------------------------------
(* The clients *)
Connect(c) ==
  /\ peer[c] = "away" /\ Listening /\ Len(backlog) < Backlog
  /\ backlog' = Append(backlog, c)
  /\ peer' = [peer EXCEPT ![c] = "open"]
  /\ UNCHANGED <<pc, addresses, listener, open, connection, request, wire, sent, whole, served>>

(* While its connection lasts a client closes its end, perhaps before it   *)
(* has sent all of its request, or resets the connection                   *)
Leave(c) ==
  /\ peer[c] = "open" /\ c \notin served
  /\ \/ /\ peer' = [peer EXCEPT ![c] = "shut"]
        /\ \E n \in 0 .. Len(wire[c]) : wire' = [wire EXCEPT ![c] = SubSeq(@, 1, n)]
     \/ /\ peer' = [peer EXCEPT ![c] = "reset"]
        /\ wire' = [wire EXCEPT ![c] = << >>]
  /\ UNCHANGED <<pc, addresses, listener, open, backlog, connection, request, sent, whole, served>>

Next == ServerStep \/ \E c \in Clients : Connect(c) \/ Leave(c)

(* The server is in a recv, and client c has not ended the connection: it  *)
(* is up to the client when the call returns, and whether it does          *)
WaitsFor(c) == /\ client = <<c>> /\ peer[c] = "open"
               /\ (Reading /\ input = << >>) \/ (pc = "body" /\ length > body)

(* The server's one thread waits for somebody, here or in accept *)
Blocked == (pc = "accept" /\ backlog = << >>) \/ \E c \in Clients : WaitsFor(c)

(* The server's thread is scheduled while it does not wait.  Nothing obliges *)
(* a client to connect, to send or to leave, and no call has a timeout.      *)
Fairness == WF_vars(~Blocked /\ ServerStep)

Spec == Init /\ [][Next]_vars /\ Fairness
-----------------------------------------------------------------------------
TypeOK ==
  /\ pc \in {"open", "listen", "accept", "line", "header", "body", "route", "send", "close",
             "drop", "exit", "ended", "terminated"}
  /\ addresses \in 0 .. Addresses
  /\ listener \in {Closed, 3} /\ file \in {Closed, 4} /\ open \subseteq {3, 4}
  /\ Range(backlog) \subseteq Clients /\ Len(backlog) <= Backlog
  /\ client \in {None} \cup {<<c>> : c \in Clients}
  /\ length \in Nat \cup {NoLength, BadLength} /\ body \in Nat
  /\ peer \in [Clients -> {"away", "open", "shut", "reset"}]
  /\ whole \in [Clients -> BOOLEAN] /\ served \subseteq Clients

(* No descriptor is lost and none is kept after its close: between         *)
(* connections only the listening socket is open, at the end none is, and  *)
(* a Socket that has a descriptor has an open one of its own.              *)
DescriptorsAreBalanced ==
  /\ pc = "accept" => open = {listener}
  /\ Down => open = {}
  /\ file # Closed /\ ~Down => file \in open \ {listener}

(* What a client is sent is the beginning of the response to its own       *)
(* request; it is all of it when the client waited and its request came in *)
(* whole lines with the body apart, and is one the server can parse.       *)
GetsItsResponse ==
  \A c \in Clients :
    /\ IsPrefix(sent[c], Response(request[c].target))
    /\ c \in served /\ peer[c] = "open" /\ whole[c] /\ request[c].target # "malformed"
         /\ request[c].length \notin {0, BadLength}
       => sent[c] = Response(request[c].target)

(* A client at which the server waits has bytes of its request to send *)
Silent(c) == WaitsFor(c) /\ wire[c] # << >>

(* The server waits for bytes of a body that came with its header: they    *)
(* are in the input buffer, where parseBody does not look for them         *)
BodyMissed(c) == WaitsFor(c) /\ pc = "body" /\ Contains(input, "byte")

(* Each connection that the system queued is ended by the server, unless   *)
(* the server stops, if no client is silent for ever when it should send,  *)
(* and none waits for ever for the response when its body came with its    *)
(* header: one client that does stops the only thread.  No other client    *)
(* can; one that has sent its request need not leave.                      *)
ConnectionsEnd ==
  (\A c \in Clients : []<>~Silent(c) /\ []<>~BodyMissed(c))
    => \A c \in Clients : peer[c] # "away" ~> c \in served \/ Down

(* "A complete HTTP client request was received": the whole request has    *)
(* been read when it is routed.                                            *)
CompleteRequestReceived ==
  pc = "route" => /\ length = request[C].length
                  /\ length > 0 => body = length
=============================================================================
