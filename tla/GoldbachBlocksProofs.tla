------------------------ MODULE GoldbachBlocksProofs ------------------------
(***************************************************************************)
(* Proofs about GoldbachBlocks, for every number of rows, of threads and   *)
(* of values of size_t: the blocks of the threads are a partition of the   *)
(* rows, so that no row needs a lock, none is indexed out of bounds and    *)
(* none is left out.                                                       *)
(***************************************************************************)
EXTENDS GoldbachBlocks, SequenceTheorems, TLAPS

Asked == 0 .. asked - 1

(* The rows of a thread's block *)
Block(t) == First(t) .. Last(t)

(* The threads that have been created, until main returns *)
Started == IF main = "create" THEN 0 .. index - 1
           ELSE IF main \in {"join", "print"} THEN 0 .. thread_count - 1
           ELSE {}

(* What main has done before each of its phases: no thread before the      *)
(* loop that creates them, none that the joins have passed, none after.    *)
MainInOrder ==
  /\ crash = "none"
  /\ main = "analyze" => index = 0 /\ thread_count = asked /\ running = {}
  /\ main = "create" => index <= thread_count
  /\ main = "join" => \A t \in running : index <= t
  /\ main \in {"print", "exit"} => running = {}
  /\ running \subseteq Started

(* A created thread is within its block, and at its end when it has ended. *)
InBlock ==
  \A t \in Started :
    /\ final[t] = Last(t)
    /\ inicio[t] \in First(t) .. Last(t) + 1
    /\ t \in writing => inicio[t] <= Last(t)
    /\ t \notin running => inicio[t] = Last(t) + 1

(* In the block of a created thread the rows below its index are complete, *)
(* the one at its index has its number while the thread is writing it, and *)
(* the others are empty.                                                   *)
RowOf(t, r) == IF r < inicio[t] THEN Done
               ELSE IF r = inicio[t] /\ t \in writing THEN <<"number">> ELSE << >>
RowsOfStarted == \A t \in Started : \A r \in Block(t) : rows[r] = RowOf(t, r)

(* The block of a thread that was not created is empty until main returns. *)
RowsOfOthers ==
  main # "exit" => \A t \in Asked \ Started : \A r \in Block(t) : rows[r] = << >>

RowTexts == \A r \in Rows : rows[r] \in {<< >>, <<"number">>, Done}

(* The inductive invariant *)
BlockInv == WellUsed =>
  MainInOrder /\ InBlock /\ RowsOfStarted /\ RowsOfOthers /\ RowTexts
IInv == TypeOK /\ BlockInv
-----------------------------------------------------------------------------
(* A product grows with its second factor. *)
LEMMA ProductGrows ==
  ASSUME NEW q \in Nat, NEW x \in Nat, NEW y \in Nat, x <= y
  PROVE  /\ q * x \in Nat /\ q * y \in Nat /\ q * x <= q * y
<1>1. PICK d \in Nat : y = x + d
  <2>1. y - x \in Nat /\ y = x + (y - x)
    OBVIOUS
  <2> QED BY <2>1
<1>2. q * d \in Nat /\ q * y = q * x + q * d /\ q * x \in Nat
  BY <1>1, SMT
<1> QED BY <1>2

(* The quotient of a division that is not below one. *)
LEMMA Quotient ==
  ASSUME NEW n \in Nat, NEW a \in 1 .. n
  PROVE  /\ n \div a \in Nat /\ n \div a >= 1
         /\ (n \div a) * a <= n /\ n < (n \div a) * a + a
  OBVIOUS

(* The number and then the sums are a complete row. *)
LEMMA RowIsDone == Append(<<"number">>, "sums") = Done
<1> DEFINE s == <<"number">>
<1>1. s \in Seq({"number", "sums"}) /\ Len(s) = 1 /\ s[1] = "number"
  OBVIOUS
<1>2. Append(s, "sums") \in Seq({"number", "sums"}) /\ Len(Append(s, "sums")) = 2
  BY <1>1
<1>3. Append(s, "sums")[1] = "number" /\ Append(s, "sums")[2] = "sums"
  BY <1>1
<1>4. /\ Done \in Seq({"number", "sums"}) /\ Len(Done) = 2
      /\ Done[1] = "number" /\ Done[2] = "sums"
  BY DEF Done
<1> QED BY <1>2, <1>3, <1>4, SeqEqual

(* The sizes of the program are sizes. *)
LEMMA Sizes0 ==
  /\ SizeT \in Nat /\ SizeT > 0 /\ \A n \in Int : n % SizeT \in Sizes
  /\ \A n \in 0 .. MaxNumbers : n % SizeT = n
<1>1. SizeT \in Nat /\ MaxNumbers \in Nat /\ MaxNumbers < SizeT
  BY SizeAssumption
<1> QED BY <1>1 DEF Sizes

(* The blocks do not overlap and cover the rows, and their arithmetic does *)
(* not wrap.                                                               *)
LEMMA Blocks ==
  ASSUME TypeOK, WellUsed
  PROVE  /\ \A t \in Asked : First(t) \in Nat /\ Last(t) \in Nat
                             /\ First(t) <= Last(t) /\ Last(t) < total_num
         /\ \A t, u \in Asked : t < u => Last(t) < First(u)
         /\ \A r \in Rows : \E t \in Asked : r \in Block(t)
<1> DEFINE b == tam_bloque
<1>1. total_num \in Nat /\ total_num <= MaxNumbers /\ asked \in 1 .. total_num
  BY SizeAssumption DEF TypeOK, WellUsed
<1>2. b \in Nat /\ b >= 1 /\ b * asked <= total_num /\ total_num < b * asked + asked
  BY <1>1, Quotient DEF tam_bloque
<1> HIDE DEF b
<1>3. ASSUME NEW t \in Asked
      PROVE  /\ b * t \in Nat /\ b * (t + 1) \in Nat /\ b * (t + 1) = b * t + b
             /\ b * (t + 1) <= b * asked
  <2>1. t \in Nat /\ t + 1 \in Nat /\ t + 1 <= asked /\ asked \in Nat
    BY <1>1 DEF Asked
  <2>2. b * (t + 1) \in Nat /\ b * (t + 1) <= b * asked /\ b * t \in Nat
    BY <2>1, <1>2, ProductGrows
  <2>3. b * (t + 1) = b * t + b
    BY <2>1, <1>2
  <2> QED BY <2>2, <2>3
<1>4. ASSUME NEW t \in Asked
      PROVE  /\ First(t) = b * t
             /\ Last(t) = IF t + 1 = asked THEN total_num - 1 ELSE b * (t + 1) - 1
  <2>1. b * t \in 0 .. MaxNumbers /\ b * (t + 1) - 1 \in 0 .. MaxNumbers
        /\ total_num - 1 \in 0 .. MaxNumbers
    BY <1>1, <1>2, <1>3, SizeAssumption
  <2> QED BY <2>1, Sizes0 DEF First, Last, b
<1>5. ASSUME NEW t \in Asked
      PROVE  /\ First(t) \in Nat /\ Last(t) \in Nat
             /\ First(t) <= Last(t) /\ Last(t) < total_num
  BY <1>1, <1>2, <1>3, <1>4 DEF Asked
<1>6. ASSUME NEW t \in Asked, NEW u \in Asked, t < u
      PROVE  Last(t) < First(u)
  <2>1. t + 1 \in Nat /\ u \in Nat /\ t + 1 <= u /\ t + 1 # asked
    BY <1>1, <1>6 DEF Asked
  <2>2. b * (t + 1) <= b * u
    BY <2>1, <1>2, ProductGrows
  <2>3. b * (t + 1) \in Nat /\ b * u \in Nat
    BY <1>3
  <2> QED BY <2>1, <2>2, <2>3, <1>4
<1>7. ASSUME NEW r \in Rows
      PROVE  \E t \in Asked : r \in Block(t)
  <2>0. r \in Nat /\ r <= total_num - 1
    BY <1>1 DEF Rows
  <2>1. CASE b * (asked - 1) <= r
    <3>1. asked - 1 \in Asked
      BY <1>1 DEF Asked
    <3>2. r \in Block(asked - 1)
      BY <2>0, <2>1, <3>1, <1>1, <1>4, <1>5 DEF Block
    <3> QED BY <3>1, <3>2
  <2>2. CASE r < b * (asked - 1)
    <3> DEFINE t == r \div b
    <3>1. t \in Nat /\ b * t <= r /\ r < b * t + b
      BY <2>0, <1>2
    <3> HIDE DEF t
    <3>2. t < asked - 1
      <4>1. SUFFICES ASSUME t >= asked - 1 PROVE FALSE
        BY <3>1, <1>1
      <4>2. b * (asked - 1) <= b * t
        BY <4>1, <3>1, <1>1, <1>2, ProductGrows
      <4> QED BY <4>2, <3>1, <2>2, <2>0, <1>1, <1>2
    <3>3. t \in Asked /\ t + 1 # asked
      BY <3>1, <3>2, <1>1 DEF Asked
    <3>4. r \in Block(t)
      BY <3>1, <3>3, <2>0, <1>3, <1>4, <1>5 DEF Block
    <3> QED BY <3>3, <3>4
  <2>3. b * (asked - 1) \in Nat
    BY <1>1, <1>2, ProductGrows
  <2> QED BY <2>0, <2>1, <2>2, <2>3
<1> QED BY <1>5, <1>6, <1>7
-----------------------------------------------------------------------------
(* The initial states have the types of the state. *)
LEMMA InitTypeOK == Init => TypeOK
<1> SUFFICES ASSUME Init PROVE TypeOK
  OBVIOUS
<1>1. MaxNumbers \in Nat /\ MaxThreads \in Nat /\ 0 \in Sizes
  BY SizeAssumption DEF Sizes
<1>2. asked \in Nat /\ thread_count \in 0 .. asked /\ index \in 0 .. asked
  BY <1>1 DEF Init
<1>3. inicio \in [Threads -> Sizes] /\ final \in [Threads -> Sizes]
  BY <1>1 DEF Init
<1>4. rows \in [Rows -> Seq({"number", "sums"})]
  <2>1. << >> \in Seq({"number", "sums"})
    OBVIOUS
  <2> QED BY <2>1 DEF Init
<1> QED BY <1>2, <1>3, <1>4 DEF Init, TypeOK

(* The arithmetic of a block ends in a size, wrapped or not. *)
LEMMA BlockType ==
  ASSUME TypeOK, NEW t \in Nat, t < asked
  PROVE  First(t) \in Sizes /\ Last(t) \in Sizes
<1>1. total_num \in Nat /\ asked \in Nat /\ asked > 0
  BY SizeAssumption DEF TypeOK
<1>2. tam_bloque \in Nat
  BY <1>1 DEF tam_bloque
<1>3. tam_bloque * t \in Int /\ tam_bloque * (t + 1) - 1 \in Int /\ total_num - 1 \in Int
  BY <1>1, <1>2
<1> QED BY <1>3, Sizes0 DEF First, Last

(* Every step keeps the types. *)
LEMMA NextTypeOK == TypeOK /\ [Next]_vars => TypeOK'
<1> SUFFICES ASSUME TypeOK, [Next]_vars PROVE TypeOK'
  OBVIOUS
<1> USE DEF TypeOK, input
<1>0. MaxNumbers \in Nat /\ MaxThreads \in Nat /\ asked \in Nat /\ thread_count \in Nat
  BY SizeAssumption
<1>1. CASE Analyze
  BY <1>1 DEF Analyze, Rows
<1>2. CASE CreateThread
  <2>1. index \in Nat /\ index < asked /\ index \in Threads
    BY <1>0, <1>2 DEF CreateThread, Threads
  <2>2. First(index) \in Sizes /\ Last(index) \in Sizes
    BY <2>1, BlockType
  <2>3. inicio' \in [Threads -> Sizes] /\ final' \in [Threads -> Sizes]
    BY <1>2, <2>1, <2>2 DEF CreateThread
  <2>4. running' \subseteq Threads /\ writing' \subseteq running'
    BY <1>2, <2>1 DEF CreateThread
  <2>5. index' \in 0 .. asked' /\ crash' \in {"none", "division", "null", "bounds"}
    BY <1>2, <2>1 DEF CreateThread
  <2> QED BY <1>2, <2>3, <2>4, <2>5 DEF CreateThread, Rows
<1>3. CASE CreateFails
  BY <1>0, <1>3 DEF CreateFails, Rows
<1>4. CASE CreateEnds
  BY <1>0, <1>4 DEF CreateEnds, Rows
<1>5. CASE Join
  BY <1>0, <1>5 DEF Join, Rows
<1>6. CASE PrintRows
  BY <1>6 DEF PrintRows, Rows
<1>7. ASSUME NEW t \in Threads, StartRow(t) PROVE TypeOK'
  <2>1. rows' \in [Rows -> Seq({"number", "sums"})]
    <3>1. <<"number">> \in Seq({"number", "sums"})
      OBVIOUS
    <3> QED BY <1>7, <3>1 DEF StartRow
  <2>2. writing' \subseteq running' /\ crash' \in {"none", "division", "null", "bounds"}
    BY <1>7 DEF StartRow
  <2> QED BY <1>7, <2>1, <2>2 DEF StartRow, Rows
<1>8. ASSUME NEW t \in Threads, FinishRow(t) PROVE TypeOK'
  <2>1. rows' \in [Rows -> Seq({"number", "sums"})]
    <3>1. \A s \in Seq({"number", "sums"}) : Append(s, "sums") \in Seq({"number", "sums"})
      OBVIOUS
    <3> QED BY <1>8, <3>1 DEF FinishRow
  <2>2. inicio' \in [Threads -> Sizes]
    <3>1. inicio[t] \in Int /\ (inicio[t] + 1) % SizeT \in Sizes
      BY Sizes0 DEF Sizes
    <3> QED BY <1>8, <3>1 DEF FinishRow
  <2>3. writing' \subseteq running'
    BY <1>8 DEF FinishRow
  <2> QED BY <1>8, <2>1, <2>2, <2>3 DEF FinishRow, Rows
<1>9. ASSUME NEW t \in Threads, EndThread(t) PROVE TypeOK'
  BY <1>9 DEF EndThread, Rows
<1>10. CASE UNCHANGED vars
  BY <1>10 DEF vars, Rows
<1> QED
  BY <1>1, <1>2, <1>3, <1>4, <1>5, <1>6, <1>7, <1>8, <1>9, <1>10
  DEF Next, MainStep, ThreadStep

(* The state of GoldbachBlocks keeps its types, whatever fails. *)
THEOREM TypeCorrect == Spec => []TypeOK
BY InitTypeOK, NextTypeOK, PTL DEF Spec
-----------------------------------------------------------------------------
(* Nothing changes the input, and so nothing moves the blocks. *)
LEMMA BlocksStay ==
  ASSUME [Next]_vars
  PROVE  /\ total_num' = total_num /\ Asked' = Asked /\ Rows' = Rows /\ asked' = asked
         /\ WellUsed' <=> WellUsed
         /\ \A t : First(t)' = First(t) /\ Last(t)' = Last(t) /\ Block(t)' = Block(t)
<1>1. total_num' = total_num /\ asked' = asked /\ failing' = failing
  BY DEF Next, MainStep, ThreadStep, Analyze, CreateThread, CreateFails, CreateEnds, Join,
         PrintRows, StartRow, FinishRow, EndThread, input, vars
<1> QED BY <1>1 DEF Asked, Rows, WellUsed, First, Last, Block, tam_bloque

(* A thread that was created is one of those that were asked for, and its  *)
(* block is within the rows.                                               *)
LEMMA StartedAsked ==
  ASSUME TypeOK, WellUsed, MainInOrder
  PROVE  /\ Started \subseteq Asked /\ Started \subseteq Threads
         /\ \A t \in Asked : Block(t) \subseteq Rows
         /\ \A t, u \in Asked : t # u => Block(t) \cap Block(u) = {}
<1>0. total_num \in Nat /\ asked \in Nat /\ asked <= MaxThreads /\ MaxThreads \in Nat
  BY SizeAssumption DEF TypeOK
<1>1. Started \subseteq Asked /\ Asked \subseteq Threads
  <2>1. index \in Nat /\ thread_count \in Nat /\ thread_count <= asked
    BY <1>0 DEF TypeOK
  <2>2. main = "create" => index <= asked
    BY <2>1, <1>0 DEF MainInOrder
  <2> QED BY <2>1, <2>2, <1>0 DEF Started, Asked, Threads
<1>2. \A t \in Asked : Block(t) \subseteq Rows
  BY Blocks, <1>0 DEF Block, Rows
<1>3. ASSUME NEW t \in Asked, NEW u \in Asked, t # u
      PROVE  Block(t) \cap Block(u) = {}
  <2>1. t < u \/ u < t
    BY <1>3, <1>0 DEF Asked
  <2> QED BY <2>1, Blocks DEF Block
<1> QED BY <1>1, <1>2, <1>3

(* The initial states satisfy the invariant. *)
LEMMA InitBlockInv == Init => BlockInv
<1> SUFFICES ASSUME Init, WellUsed
             PROVE  MainInOrder /\ InBlock /\ RowsOfStarted /\ RowsOfOthers /\ RowTexts
  BY DEF BlockInv
<1>1. Started = {}
  BY DEF Init, Started
<1>2. MainInOrder /\ InBlock /\ RowsOfStarted
  BY <1>1 DEF Init, MainInOrder, InBlock, RowsOfStarted
<1>3. \A r \in Rows : rows[r] = << >>
  BY DEF Init
<1>4. \A t \in Asked : Block(t) \subseteq Rows
  BY InitTypeOK, <1>1, <1>2, StartedAsked
<1> QED BY <1>1, <1>2, <1>3, <1>4 DEF RowsOfOthers, RowTexts

(* Every step keeps the invariant. *)
LEMMA NextBlockInv == TypeOK /\ BlockInv /\ [Next]_vars => BlockInv'
<1> SUFFICES ASSUME TypeOK, BlockInv, [Next]_vars, WellUsed
             PROVE  MainInOrder' /\ InBlock' /\ RowsOfStarted' /\ RowsOfOthers' /\ RowTexts'
  BY BlocksStay DEF BlockInv
<1>0. MainInOrder /\ InBlock /\ RowsOfStarted /\ RowsOfOthers /\ RowTexts
  BY DEF BlockInv
<1>a. index \in Nat /\ thread_count \in Nat /\ asked \in Nat /\ total_num \in Nat
      /\ asked > 0 /\ failing = {} /\ index <= asked /\ thread_count <= asked
  BY SizeAssumption DEF TypeOK, WellUsed
<1>b. /\ Started \subseteq Asked /\ Started \subseteq Threads
      /\ \A t \in Asked : Block(t) \subseteq Rows
      /\ \A t, u \in Asked : t # u => Block(t) \cap Block(u) = {}
  BY <1>0, StartedAsked
<1>c. \A t \in Asked : First(t) \in Nat /\ Last(t) \in Nat
                       /\ First(t) <= Last(t) /\ Last(t) < total_num
  BY Blocks
<1>d. /\ rows \in [Rows -> Seq({"number", "sums"})]
      /\ inicio \in [Threads -> Sizes] /\ final \in [Threads -> Sizes]
      /\ running \subseteq Threads /\ writing \subseteq running
  BY DEF TypeOK
<1> DEFINE Keeps == MainInOrder' /\ InBlock' /\ RowsOfStarted' /\ RowsOfOthers' /\ RowTexts'
<1>1. CASE Analyze
  <2>1. main = "analyze" /\ running' = {} /\ Started' = {} /\ crash' = "none" /\ writing' = {}
        /\ main' \in {"create", "exit"} /\ index' = 0 /\ rows' = rows /\ Started = {}
        /\ thread_count' = thread_count
    BY <1>0, <1>1, <1>a, <1>d DEF Analyze, MainInOrder, Started
  <2> QED BY <1>0, <1>a, <2>1, BlocksStay
          DEF MainInOrder, InBlock, RowsOfStarted, RowsOfOthers, RowTexts
<1>2. CASE CreateThread
  <2>1. /\ main = "create" /\ index < thread_count /\ Started = 0 .. index - 1
        /\ Started' = Started \cup {index} /\ index \in Asked /\ index \notin Started
        /\ index \in Threads
    BY <1>0, <1>2, <1>a, SizeAssumption DEF CreateThread, Started, Asked, Threads, TypeOK
  <2>2. /\ inicio' = [inicio EXCEPT ![index] = First(index)]
        /\ final' = [final EXCEPT ![index] = Last(index)]
        /\ running' = running \cup {index} /\ index' = index + 1
        /\ UNCHANGED <<crash, main, writing, rows, thread_count>>
    BY <1>2, <1>a DEF CreateThread
  <2>3. index \notin writing
    BY <1>0, <1>d, <2>1 DEF MainInOrder
  <2>4. MainInOrder'
    BY <1>0, <1>a, <2>1, <2>2, BlocksStay DEF MainInOrder
  <2>5. InBlock'
    BY <1>0, <1>b, <1>c, <1>d, <2>1, <2>2, <2>3, BlocksStay, SMTT(20) DEF InBlock
  <2>6. RowsOfStarted'
    <3>1. ASSUME NEW t \in Started', NEW r \in Block(t) PROVE rows[r] = RowOf(t, r)'
      <4>1. CASE t = index
        <5>1. rows[r] = << >>
          BY <4>1, <1>0, <2>1 DEF RowsOfOthers
        <5>2. r \in Nat /\ First(index) <= r /\ inicio'[index] = First(index)
          BY <4>1, <1>c, <1>d, <2>1, <2>2 DEF Block
        <5> QED BY <4>1, <5>1, <5>2, <1>c, <2>1, <2>2, <2>3 DEF RowOf
      <4>2. CASE t \in Started
        BY <4>2, <1>0, <1>b, <1>d, <2>1, <2>2 DEF RowsOfStarted, RowOf
      <4> QED BY <2>1, <4>1, <4>2
    <3> QED BY <3>1, <2>2, BlocksStay DEF RowsOfStarted
  <2>7. RowsOfOthers' /\ RowTexts'
    BY <1>0, <2>1, <2>2, BlocksStay DEF RowsOfOthers, RowTexts
  <2> QED BY <2>4, <2>5, <2>6, <2>7
<1>3. CASE CreateFails
  <2>1. Started' = Started /\ UNCHANGED <<main, index, running, inicio, final, writing, rows, crash>>
        /\ thread_count' = index /\ main = "create"
    BY <1>3 DEF CreateFails, Started
  <2> QED BY <1>0, <1>a, <2>1, BlocksStay
          DEF MainInOrder, InBlock, RowsOfStarted, RowsOfOthers, RowTexts, RowOf
<1>4. CASE CreateEnds
  <2>1. Started' = Started /\ UNCHANGED <<running, inicio, final, writing, rows, crash>>
        /\ main' = "join" /\ main = "create" /\ index' = 0 /\ Started = 0 .. index - 1
    BY <1>4 DEF CreateEnds, Started
  <2>2. \A t \in running : 0 <= t
    BY <1>0, <1>a, <2>1 DEF MainInOrder
  <2> QED BY <1>0, <1>a, <2>1, <2>2, BlocksStay
          DEF MainInOrder, InBlock, RowsOfStarted, RowsOfOthers, RowTexts, RowOf
<1>5. CASE Join
  <2>1. Started' = Started /\ UNCHANGED <<running, inicio, final, writing, rows, crash>>
        /\ main = "join" /\ main' \in {"join", "print"} /\ Started = 0 .. thread_count - 1
    BY <1>5 DEF Join, Started
  <2>2. MainInOrder'
    <3>1. \A t \in running : t \in 0 .. thread_count - 1 /\ index <= t
      BY <1>0, <2>1 DEF MainInOrder
    <3>2. CASE index < thread_count
      BY <1>0, <1>5, <1>a, <2>1, <3>1, <3>2 DEF MainInOrder, Join
    <3>3. CASE ~(index < thread_count)
      <4>1. running = {}
        BY <3>1, <3>3, <1>a
      <4> QED BY <1>0, <1>5, <2>1, <3>3, <4>1 DEF MainInOrder, Join
    <3> QED BY <3>2, <3>3
  <2> QED BY <1>0, <2>1, <2>2, BlocksStay
          DEF InBlock, RowsOfStarted, RowsOfOthers, RowTexts, RowOf
<1>6. CASE PrintRows
  <2>1. Started' = {} /\ UNCHANGED <<running, rows, crash>> /\ main = "print" /\ main' = "exit"
        /\ running = {}
    BY <1>0, <1>6, <1>a DEF PrintRows, Started, MainInOrder
  <2> QED BY <1>0, <2>1, BlocksStay
          DEF MainInOrder, InBlock, RowsOfStarted, RowsOfOthers, RowTexts
<1>7. ASSUME NEW t \in Threads, StartRow(t) PROVE Keeps
  <2>1. /\ t \in running /\ t \notin writing /\ t \in Started /\ t \in Asked
        /\ inicio[t] <= final[t] /\ final[t] = Last(t) /\ inicio[t] \in Block(t)
        /\ inicio[t] \in Rows
    BY <1>0, <1>7, <1>b, <1>c DEF StartRow, MainInOrder, InBlock, Block
  <2>2. /\ rows' = [rows EXCEPT ![inicio[t]] = <<"number">>]
        /\ writing' = writing \cup {t}
        /\ UNCHANGED <<thread_count, main, index, running, inicio, final, crash>>
        /\ Started' = Started
    BY <1>7, <1>a, <2>1 DEF StartRow, Started
  <2>3. MainInOrder'
    BY <1>0, <2>2, BlocksStay DEF MainInOrder
  <2>4. InBlock'
    BY <1>0, <2>1, <2>2, BlocksStay DEF InBlock
  <2>5. RowsOfStarted'
    <3>1. ASSUME NEW u \in Started, NEW r \in Block(u) PROVE rows'[r] = RowOf(u, r)'
      <4>1. CASE u = t
        <5>1. rows[r] = RowOf(t, r) /\ r \in Rows /\ r \in Nat /\ inicio[t] \in Nat
          BY <4>1, <1>0, <1>b, <1>c, <2>1 DEF RowsOfStarted, Block
        <5>2. inicio' = inicio /\ t \in writing'
          BY <2>2
        <5> QED BY <4>1, <5>1, <5>2, <1>d, <2>1, <2>2 DEF RowOf
      <4>2. CASE u # t
        <5>1. r # inicio[t] /\ r \in Rows
          BY <4>2, <1>b, <2>1
        <5> QED BY <4>2, <5>1, <1>0, <1>d, <2>2 DEF RowsOfStarted, RowOf
      <4> QED BY <4>1, <4>2
    <3> QED BY <3>1, <2>2, BlocksStay DEF RowsOfStarted
  <2>6. RowsOfOthers'
    <3>1. ASSUME NEW u \in Asked \ Started, NEW r \in Block(u) PROVE rows'[r] = rows[r]
      BY <1>b, <1>d, <2>1, <2>2
    <3> QED BY <3>1, <1>0, <2>2, BlocksStay DEF RowsOfOthers
  <2>7. RowTexts'
    BY <1>0, <1>d, <2>2, BlocksStay DEF RowTexts
  <2> QED BY <2>3, <2>4, <2>5, <2>6, <2>7
<1>8. ASSUME NEW t \in Threads, FinishRow(t) PROVE Keeps
  <2>1. /\ t \in running /\ t \in writing /\ t \in Started /\ t \in Asked
        /\ final[t] = Last(t) /\ inicio[t] \in Block(t) /\ inicio[t] \in Rows
    BY <1>0, <1>8, <1>b, <1>c, <1>d DEF FinishRow, MainInOrder, InBlock, Block
  <2>2. inicio[t] \in Nat /\ (inicio[t] + 1) % SizeT = inicio[t] + 1
    <3>1. inicio[t] \in Nat /\ inicio[t] + 1 \in 0 .. MaxNumbers
      BY <2>1, <1>a, SizeAssumption DEF Rows, TypeOK
    <3> QED BY <3>1, Sizes0
  <2>3. rows[inicio[t]] = <<"number">> /\ Append(<<"number">>, "sums") = Done
    <3>1. rows[inicio[t]] = RowOf(t, inicio[t])
      BY <1>0, <2>1 DEF RowsOfStarted
    <3>2. rows[inicio[t]] = <<"number">>
      BY <3>1, <2>1, <2>2 DEF RowOf
    <3>3. Append(<<"number">>, "sums") = Done
      BY RowIsDone
    <3> QED BY <3>2, <3>3
  <2>4. /\ rows' = [rows EXCEPT ![inicio[t]] = Done]
        /\ inicio' = [inicio EXCEPT ![t] = inicio[t] + 1]
        /\ writing' = writing \ {t}
        /\ UNCHANGED <<thread_count, main, index, running, final, crash>>
        /\ Started' = Started
    BY <1>8, <1>d, <2>1, <2>2, <2>3 DEF FinishRow, Started
  <2>5. MainInOrder'
    BY <1>0, <2>4, BlocksStay DEF MainInOrder
  <2>6. InBlock'
    BY <1>0, <1>b, <1>c, <1>d, <2>1, <2>2, <2>4, BlocksStay DEF InBlock, Block
  <2>7. RowsOfStarted'
    <3>1. ASSUME NEW u \in Started, NEW r \in Block(u) PROVE rows'[r] = RowOf(u, r)'
      <4>1. CASE u = t
        <5>1. rows[r] = RowOf(t, r) /\ r \in Rows /\ r \in Nat
          BY <4>1, <1>0, <1>b, <1>c, <2>1 DEF RowsOfStarted, Block
        <5>2. inicio'[t] = inicio[t] + 1 /\ t \notin writing'
          BY <1>d, <2>4
        <5> QED BY <4>1, <5>1, <5>2, <1>d, <2>1, <2>2, <2>4 DEF RowOf
      <4>2. CASE u # t
        <5>1. r # inicio[t] /\ r \in Rows
          BY <4>2, <1>b, <2>1
        <5> QED BY <4>2, <5>1, <1>0, <1>d, <2>4 DEF RowsOfStarted, RowOf
      <4> QED BY <4>1, <4>2
    <3> QED BY <3>1, <2>4, BlocksStay DEF RowsOfStarted
  <2>8. RowsOfOthers'
    <3>1. ASSUME NEW u \in Asked \ Started, NEW r \in Block(u) PROVE rows'[r] = rows[r]
      BY <1>b, <1>d, <2>1, <2>4
    <3> QED BY <3>1, <1>0, <2>4, BlocksStay DEF RowsOfOthers
  <2>9. RowTexts'
    BY <1>0, <1>d, <2>4, BlocksStay DEF RowTexts
  <2> QED BY <2>5, <2>6, <2>7, <2>8, <2>9
<1>9. ASSUME NEW t \in Threads, EndThread(t) PROVE Keeps
  <2>1. /\ t \in running /\ t \notin writing /\ t \in Started /\ inicio[t] > final[t]
        /\ running' = running \ {t} /\ Started' = Started
        /\ UNCHANGED <<thread_count, main, index, inicio, final, writing, rows, crash>>
    BY <1>0, <1>9 DEF EndThread, Started, MainInOrder
  <2>2. MainInOrder'
    BY <1>0, <2>1, BlocksStay DEF MainInOrder
  <2>3. InBlock'
    <3>1. inicio[t] = Last(t) + 1
      BY <1>0, <1>b, <1>c, <2>1 DEF InBlock
    <3> QED BY <1>0, <2>1, <3>1, BlocksStay DEF InBlock
  <2>4. RowsOfStarted' /\ RowsOfOthers' /\ RowTexts'
    BY <1>0, <2>1, BlocksStay DEF RowsOfStarted, RowsOfOthers, RowTexts, RowOf
  <2> QED BY <2>2, <2>3, <2>4
<1>10. CASE UNCHANGED vars
  <2>1. Started' = Started
    BY <1>10 DEF vars, Started
  <2> QED BY <1>0, <1>10, <2>1, BlocksStay
     DEF vars, MainInOrder, InBlock, RowsOfStarted, RowsOfOthers, RowTexts, RowOf
<1> QED
  BY <1>1, <1>2, <1>3, <1>4, <1>5, <1>6, <1>7, <1>8, <1>9, <1>10
  DEF Next, MainStep, ThreadStep

(* The invariant holds in every state. *)
LEMMA Invariance == Spec => []IInv
<1>1. Init => IInv
  BY InitTypeOK, InitBlockInv DEF IInv
<1>2. IInv /\ [Next]_vars => IInv'
  BY NextTypeOK, NextBlockInv DEF IInv
<1> QED BY <1>1, <1>2, PTL DEF Spec

(* With a number for every thread and memory for everything, nothing is    *)
(* undefined: no index passes the last row and no divisor is zero.         *)
THEOREM NothingUndefined == Spec => []NoCrash
<1>1. IInv => NoCrash
  BY DEF IInv, BlockInv, MainInOrder, NoCrash
<1> QED BY <1>1, Invariance, PTL

(* No two threads write one row at the same time, and no row is written    *)
(* twice, without any lock: the blocks do not overlap.                     *)
THEOREM RowsHaveOneOwner == Spec => []RowsAreOwned
<1>1. IInv => RowsAreOwned
  <2> SUFFICES ASSUME IInv, WellUsed
               PROVE  /\ \A t, u \in writing : t # u => inicio[t] # inicio[u]
                      /\ \A r \in Rows : rows[r] \in {<< >>, <<"number">>, Done}
    BY DEF RowsAreOwned
  <2>0. TypeOK /\ MainInOrder /\ InBlock /\ RowTexts
    BY DEF IInv, BlockInv
  <2>1. ASSUME NEW t \in writing PROVE t \in Asked /\ inicio[t] \in Block(t)
    <3>1. t \in Started /\ t \in Asked
      BY <2>0, StartedAsked DEF MainInOrder, TypeOK
    <3> QED BY <3>1, <2>0, Blocks DEF InBlock, Block
  <2>2. ASSUME NEW t \in writing, NEW u \in writing, t # u PROVE inicio[t] # inicio[u]
    BY <2>0, <2>1, <2>2, StartedAsked
  <2> QED BY <2>0, <2>2 DEF RowTexts
<1> QED BY <1>1, Invariance, PTL

(* When every thread could be created, main prints every row complete: the *)
(* blocks cover the rows, and the joins waited for all of them.            *)
THEOREM EveryRowIsPrinted == Spec => []PrintsCompleteRows
<1>1. IInv => PrintsCompleteRows
  <2> SUFFICES ASSUME IInv, WellUsed, main = "print", thread_count = asked, NEW r \in Rows
               PROVE  rows[r] = Done
    BY DEF PrintsCompleteRows
  <2>0. TypeOK /\ MainInOrder /\ InBlock /\ RowsOfStarted
    BY DEF IInv, BlockInv
  <2>1. PICK t \in Asked : r \in Block(t)
    BY <2>0, Blocks
  <2>2. t \in Started /\ t \notin running
    BY <2>0 DEF MainInOrder, Started, Asked
  <2>3. inicio[t] = Last(t) + 1 /\ r <= Last(t) /\ r \in Int /\ Last(t) \in Nat
    BY <2>0, <2>1, <2>2, Blocks DEF InBlock, Block
  <2>4. rows[r] = RowOf(t, r)
    BY <2>0, <2>1, <2>2 DEF RowsOfStarted
  <2> QED BY <2>3, <2>4 DEF RowOf
<1> QED BY <1>1, Invariance, PTL
=============================================================================
