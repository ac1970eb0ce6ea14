------------------------- MODULE HelloThreadsProofs -------------------------
(***************************************************************************)
(* Proofs about HelloThreads, for every number of threads: main outlives   *)
(* the threads that read its frame, and its status tells what they did.    *)
(***************************************************************************)
EXTENDS HelloThreads, TLAPS

(* Before the loop that creates, nothing has happened. *)
NothingStarted ==
  main \in {"arguments", "allocate"} =>
    index = 0 /\ error = 0 /\ \A t \in Threads : pc[t] = "new"

(* The threads created are those below index, and only below thread_count. *)
CreatedInOrder ==
  /\ main = "create" => error = 0 /\ \A t \in Threads : pc[t] = "new" <=> t >= index
  /\ \A t \in Threads : t >= thread_count => pc[t] = "new"

(* The joins have left no running thread below index; without an error     *)
(* every thread was created.                                               *)
JoinedInOrder ==
  /\ main = "join" => error \in {0, 21} /\ \A t \in Threads : t < index => pc[t] # "run"
  /\ (main \in {"join", "exit"} /\ error = 0) =>
       \A t \in Threads : t < thread_count => pc[t] # "new"

(* A thread greets once, on its way to its end. *)
GreetsOnce == \A t \in Threads : greetings[t] = IF pc[t] = "ended" THEN 1 ELSE 0

(* The inductive invariant *)
IInv == /\ TypeOK /\ NothingStarted /\ CreatedInOrder /\ JoinedInOrder /\ GreetsOnce
        /\ NoThreadOutlivesMain /\ (crashed => error = 21)
-----------------------------------------------------------------------------
(* The initial states satisfy the invariant. *)
LEMMA InitIInv == Init => IInv
<1> SUFFICES ASSUME Init PROVE IInv
  OBVIOUS
<1>1. TypeOK
  <2>1. thread_count \in Nat
    BY HelloAssumption DEF Init
  <2>2. index \in 0 .. thread_count
    BY <2>1 DEF Init
  <2>3. pc \in [Threads -> {"new", "run", "ended"}] /\ greetings \in [Threads -> 0 .. 1]
    BY DEF Init
  <2> QED BY <2>2, <2>3 DEF Init, TypeOK
<1>2. NothingStarted /\ CreatedInOrder /\ JoinedInOrder /\ NoThreadOutlivesMain
  BY DEF Init, NothingStarted, CreatedInOrder, JoinedInOrder, NoThreadOutlivesMain
<1>3. GreetsOnce
  BY DEF Init, GreetsOnce
<1> QED BY <1>1, <1>2, <1>3 DEF IInv, Init

(* Every step keeps it. *)

LEMMA NextIInv == IInv /\ [Next]_vars => IInv'
<1> SUFFICES ASSUME IInv, [Next]_vars PROVE IInv'
  OBVIOUS
<1> USE HelloAssumption DEF IInv, TypeOK, NothingStarted, CreatedInOrder, JoinedInOrder,
        GreetsOnce, NoThreadOutlivesMain, Threads, MainAt
<1>1. CASE Arguments
  BY <1>1 DEF Arguments
<1>2. CASE Allocate
  BY <1>2 DEF Allocate
<1>3. CASE CreateThread
  <2>1. index \in Threads /\ pc[index] = "new"
    BY <1>3 DEF CreateThread
  <2>2. TypeOK'
    BY <1>3, <2>1 DEF CreateThread
  <2>3. NothingStarted' /\ JoinedInOrder' /\ NoThreadOutlivesMain' /\ (crashed => error = 21)'
    BY <1>3 DEF CreateThread
  <2>4. CreatedInOrder'
    BY <1>3, <2>1 DEF CreateThread
  <2>5. GreetsOnce'
    BY <1>3, <2>1 DEF CreateThread
  <2> QED BY ONLY <2>2, <2>3, <2>4, <2>5 DEF IInv
<1>4. CASE CreateFails
  BY <1>4 DEF CreateFails
<1>5. CASE CreateEnds
  BY <1>5 DEF CreateEnds
<1>6. CASE Join
  <2>1. index \in Threads /\ (pc[index] = "new" => error = 21)
    BY <1>6 DEF Join
  <2>2. TypeOK'
    <3>1. index' \in 0 .. thread_count'
      BY <1>6 DEF Join
    <3>2. crashed' \in BOOLEAN
      BY <1>6, Zenon DEF Join
    <3> QED BY <1>6, <3>1, <3>2 DEF Join
  <2>5. NothingStarted' /\ CreatedInOrder' /\ GreetsOnce' /\ NoThreadOutlivesMain'
    BY <1>6, <2>1 DEF Join
  <2>3. JoinedInOrder'
    BY <1>6, <2>1 DEF Join
  <2>4. (crashed => error = 21)'
    BY <1>6, <2>1 DEF Join
  <2> QED BY ONLY <2>2, <2>3, <2>4, <2>5 DEF IInv
<1>7. CASE Return
  BY <1>7 DEF Return
<1>8. ASSUME NEW t \in Threads, Run(t) PROVE IInv'
  BY <1>8 DEF Run
<1>9. CASE UNCHANGED vars
  BY <1>9 DEF vars
<1> QED
  BY <1>1, <1>2, <1>3, <1>4, <1>5, <1>6, <1>7, <1>8, <1>9 DEF Next, MainStep, Over

(* The state of HelloThreads keeps its types. *)
THEOREM TypeCorrect == Spec => []TypeOK
<1>1. IInv => TypeOK
  BY DEF IInv
<1> QED BY <1>1, InitIInv, NextIInv, PTL DEF Spec

(* main returns only after every thread it created has ended, also when a  *)
(* creation failed: the frame the threads read is still there.             *)
THEOREM ThreadsEndFirst == Spec => []NoThreadOutlivesMain
<1>1. IInv => NoThreadOutlivesMain
  BY DEF IInv
<1> QED BY <1>1, InitIInv, NextIInv, PTL DEF Spec

(* The status 0 means that every thread asked for has greeted once, and    *)
(* the process dies only after a failed creation.                          *)
THEOREM StatusIsTrue == Spec => []StatusTellsTheTruth
<1>1. IInv => StatusTellsTheTruth
  BY HelloAssumption DEF IInv, TypeOK, CreatedInOrder, JoinedInOrder, GreetsOnce,
     NoThreadOutlivesMain, StatusTellsTheTruth, Threads
<1> QED BY <1>1, InitIInv, NextIInv, PTL DEF Spec
=============================================================================
