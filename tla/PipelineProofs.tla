--------------------------- MODULE PipelineProofs ---------------------------
(***************************************************************************)
(* Proofs about Pipeline, for every number of packages and consumers: the  *)
(* invariants of the simulation, and that it implements Delivery.          *)
(***************************************************************************)
EXTENDS Pipeline, FiniteSetTheorems, SequenceTheorems, TLAPS

-----------------------------------------------------------------------------
(* The inductive invariant.  A thread has left its loop *)
Left == {"log", "line", "ended", "joined"}

(* The producer has pushed the stop message *)
Closed == index = packageCount /\ pc[Producer] \in Left \cup {"signal"}

(* The dispatcher has taken it *)
Stopping == pc[Dispatcher] \in {"stop", "stopsignal", "ended", "joined"}

(* The dispatcher has pushed it to consumer c *)
StopSent(c) == \/ pc[Dispatcher] \in {"ended", "joined"}
               \/ pc[Dispatcher] = "stop" /\ c < key
               \/ pc[Dispatcher] = "stopsignal" /\ c <= key

(* Which steps each role takes, and how far the loops have come *)
RolesInOrder ==
  /\ pc[Producer] \in {"new", "produce", "signal"} \cup Left
  /\ pc[Dispatcher] \in {"new", "wait", "take", "push", "signal", "stop", "stopsignal",
                         "ended", "joined"}
  /\ \A t \in Threads : /\ t > Dispatcher => pc[t] \in {"new", "wait", "take"} \cup Left
                        /\ t > consumerCount => pc[t] = "new"
  /\ index <= packageCount
  /\ pc[Producer] = "new" => index = 0
  /\ pc[Producer] \in Left => index = packageCount
  /\ pc[Dispatcher] \in {"push", "signal", "stop", "stopsignal"} => key \in Consumers

(* What the phases of main have to do with the threads *)
MainInOrder ==
  /\ main.turn <= consumerCount
  /\ main.at \in {"args", "failure"} =>
       main.turn = Producer /\ alive = {} /\ \A t \in Threads : pc[t] = "new"
  /\ main.at \in {"start", "join"} => alive = 0 .. consumerCount
  /\ main.at = "start" => \A t \in Producer .. consumerCount :
       IF t < main.turn THEN pc[t] \notin {"new", "joined"} ELSE pc[t] = "new"
  /\ main.at = "join" => \A t \in Producer .. consumerCount :
       IF t < main.turn THEN pc[t] = "joined" ELSE pc[t] \notin {"new", "joined"}
  /\ main.at \in {"delete", "success"} =>
       aborted = "no" /\ \A t \in Producer .. consumerCount : pc[t] = "joined"

One(b) == IF b THEN 1 ELSE 0

(* A message is in its queue from before its signal until after its wait. *)
Signalled ==
  aborted = "no" =>
    /\ Len(queue[0]) = sem[0] + One(pc[Dispatcher] = "take") + One(pc[Producer] = "signal")
    /\ \A c \in Queues \ {0} :
         Len(queue[c]) = sem[c] + One(pc[c] = "take")
                           + One(pc[Dispatcher] \in {"signal", "stopsignal"} /\ key = c)

(* The producer's signals, of which each thread can have had at most one   *)
(* message                                                                 *)
Signals == index + One(pc[Producer] \in Left)
Busy(c) == One(\/ pc[Dispatcher] \in {"take", "push", "signal"}
               \/ pc[Dispatcher] \in {"stop", "stopsignal"} /\ key <= c)
SignalsBound ==
  /\ sem[0] + One(pc[Dispatcher] = "take") <= Signals
  /\ \A c \in Queues \ {0} :
       sem[0] + Busy(c) + sem[c] + One(pc[c] = "take") + Len(received[c])
         + One(pc[c] \in Left) <= Signals

(* The stop message *)
StopInOrder ==
  /\ \A q \in Queues : \A i \in 1 .. Len(queue[q]) :
       queue[q][i] = StopMessage => i = Len(queue[q])
  /\ \A i \in 1 .. Len(queue[0]) : queue[0][i] = StopMessage => Closed
  /\ Stopping => Closed /\ pc[Producer] # "signal" /\ queue[0] = << >>
  /\ \A c \in Consumers : \A i \in 1 .. Len(queue[c]) :
       queue[c][i] = StopMessage => StopSent(c)
  /\ \A c \in Consumers : pc[c] \in Left => StopSent(c) /\ queue[c] = << >>

(* The record of a thread that writes, and those written *)
Logged == {t \in {Producer} \cup Consumers : pc[t] \in {"ended", "joined"}}
LogInOrder ==
  /\ aborted = "no" => \A t \in Threads : pc[t] = "line" <=> writer = t
  /\ line = IF writer = NoThread THEN << >> ELSE <<writer>>
  /\ log = {<<<<t>>, IF t = Producer THEN packageCount ELSE Len(received[t])>> : t \in Logged}

(* Every target there can be has a consumer. *)
KeysRegistered ==
  consumerCount \in 1 .. UInt16 - 1 =>
    /\ aborted # "key"
    /\ \A i \in 1 .. Len(queue[0]) :
         queue[0][i] # StopMessage => queue[0][i].target \in Consumers

(* The packets sent are numbered, and each is of its target. *)
Produced == index + One(pc[Producer] = "signal" /\ index < packageCount)
SentInOrder ==
  /\ \A c \in Targeted : \A i \in 1 .. Len(sent[c]) :
       sent[c][i].target = c /\ sent[c][i].number < Produced
  /\ \A c \in Targeted : \A i, j \in 1 .. Len(sent[c]) :
       i < j => sent[c][i].number < sent[c][j].number
  /\ \A n \in 0 .. Produced - 1 :
       \E c \in Targeted : \E i \in 1 .. Len(sent[c]) : sent[c][i].number = n

(* How many messages have left the dispatcher's queue for consumer c *)
Holding(c) == pc[Dispatcher] = "push" /\ key = c
Handed(c) == Len(received[c]) + Len(queue[c]) + One(Holding(c))

(* Packet i of those for c waits in the dispatcher's queue *)
Waiting(c, i) == c \in Consumers => i > Handed(c)

(* The packets in the dispatcher's queue are those not handed on. *)
QueueInOrder ==
  /\ \A j \in 1 .. Len(queue[0]) : queue[0][j] # StopMessage =>
       \E i \in 1 .. Len(sent[queue[0][j].target]) :
         Waiting(queue[0][j].target, i) /\ sent[queue[0][j].target][i] = queue[0][j]
  /\ \A i, j \in 1 .. Len(queue[0]) :
       i < j => queue[0][i].number < queue[0][j].number \/ queue[0][j] = StopMessage
  /\ aborted = "no" => \A c \in Targeted : \A i \in 1 .. Len(sent[c]) :
       Waiting(c, i) => \E j \in 1 .. Len(queue[0]) : queue[0][j] = sent[c][i]

(* What each consumer has counted, or will, are the packets sent to it. *)
StreamInOrder ==
  \A c \in Consumers :
    /\ Len(received[c]) <= Len(sent[c])
    /\ \A i \in 1 .. Len(received[c]) : received[c][i] = sent[c][i]
    /\ \A i \in 1 .. Len(queue[c]) :
         queue[c][i] = IF Len(received[c]) + i <= Len(sent[c]) THEN sent[c][Len(received[c]) + i]
                                                               ELSE StopMessage
    /\ Holding(c) => Handed(c) <= Len(sent[c]) /\ holds = sent[c][Handed(c)]

IInv == /\ TypeOK /\ RolesInOrder /\ MainInOrder /\ Signalled /\ SignalsBound /\ StopInOrder
        /\ LogInOrder /\ KeysRegistered /\ SentInOrder /\ QueueInOrder /\ StreamInOrder
-----------------------------------------------------------------------------
USE DEF Producer, Dispatcher, NoThread

(* A finite set of numbers that is not empty has a greatest element. *)
LEMMA Greatest ==
  ASSUME NEW S \in SUBSET Nat, IsFiniteSet(S), S # {}
  PROVE  \E m \in S : \A n \in S : n <= m
<1> DEFINE Bad == {T \in SUBSET S : T # {} /\ ~\E m \in T : \A n \in T : n <= m}
<1>1. IsWellFoundedOn(StrictSubsetOrdering(S), SUBSET S)
  BY FS_StrictSubsetOrderingWellFounded, FS_FiniteSubsetsOfFinite
<1>2. SUFFICES ASSUME Bad # {} PROVE FALSE
  OBVIOUS
<1>3. PICK T \in Bad : \A U \in Bad : <<U, T>> \notin StrictSubsetOrdering(S)
  <2>1. Bad \subseteq SUBSET S
    OBVIOUS
  <2> HIDE DEF Bad
  <2> QED BY <1>1, <1>2, <2>1, WFMin
<1>4. PICK x \in T : TRUE
  OBVIOUS
<1>5. T \ {x} \in SUBSET S /\ T \ {x} \subseteq T /\ T \ {x} # T
  BY <1>4
<1>6. T \ {x} \notin Bad
  BY <1>3, <1>5 DEF StrictSubsetOrdering
<1>7. CASE T \ {x} = {}
  BY <1>4, <1>7
<1>8. CASE T \ {x} # {}
  <2>1. PICK m \in T \ {x} : \A n \in T \ {x} : n <= m
    BY <1>5, <1>6, <1>8
  <2>2. x \in Nat /\ m \in Nat /\ \A n \in T : n \in Nat
    BY <1>4
  <2> QED BY <1>4, <2>1, <2>2
<1> QED BY <1>7, <1>8

(* The command line is within the bounds. *)
LEMMA Bounds ==
  ASSUME <<packageCount, consumerCount>> \in Arguments
  PROVE  /\ packageCount \in Nat /\ MaxPackages \in Nat /\ packageCount <= MaxPackages
         /\ consumerCount \in Nat /\ MaxConsumers \in Nat /\ consumerCount <= MaxConsumers
         /\ UInt16 \in Nat /\ UInt16 > 1
<1> DEFINE P == {a[1] : a \in Arguments}
           C == {a[2] : a \in Arguments}
<1>1. P \in SUBSET Nat /\ C \in SUBSET Nat /\ packageCount \in P /\ consumerCount \in C
  BY ArgumentsAssumption
<1>2. IsFiniteSet(P) /\ IsFiniteSet(C)
  <2> DEFINE first == [a \in Arguments |-> a[1]]
             second == [a \in Arguments |-> a[2]]
  <2>1. first \in Surjection(Arguments, P) /\ second \in Surjection(Arguments, C)
    BY DEF Surjection
  <2> HIDE DEF first, second, P, C
  <2> QED BY <2>1, ArgumentsAssumption, FS_Surjection
<1>3. MaxPackages \in P /\ \A n \in P : n <= MaxPackages
  <2>1. \E m \in P : \A n \in P : n <= m
    BY <1>1, <1>2, Greatest
  <2> QED BY <2>1 DEF MaxPackages
<1>4. MaxConsumers \in C /\ \A n \in C : n <= MaxConsumers
  <2>1. \E m \in C : \A n \in C : n <= m
    BY <1>1, <1>2, Greatest
  <2> QED BY <2>1 DEF MaxConsumers
<1> QED BY <1>1, <1>3, <1>4, ArgumentsAssumption

(* What the types say of the threads and of the queues, for the provers *)
LEMMA Basics ==
  ASSUME TypeOK
  PROVE  /\ packageCount \in Nat /\ MaxPackages \in Nat /\ packageCount <= MaxPackages
         /\ consumerCount \in Nat /\ MaxConsumers \in Nat /\ consumerCount <= MaxConsumers
         /\ UInt16 \in Nat /\ UInt16 > 1
         /\ -1 \in Threads /\ 0 \in Threads /\ 0 \in Queues /\ -2 \notin Threads
         /\ Queues \subseteq Threads /\ Queues \subseteq Targeted
         /\ Consumers \subseteq Queues \ {0} /\ \A t \in Threads : t \in Int /\ t >= -1
         /\ \A q \in Queues : q \in Nat
         /\ \A q \in Queues : q # 0 => q > 0
         /\ StopMessage \notin Packets /\ StopMessage \in Messages /\ Packets \subseteq Messages
         /\ \A m \in Packets : m.target \in Targeted /\ m.number \in Nat /\ m # StopMessage
         /\ main.turn \in Threads /\ main.turn \in Int /\ key \in Nat /\ index \in Nat
         /\ pc \in [Threads -> {"new", "produce", "wait", "take", "push", "signal", "stop",
                                "stopsignal", "log", "line", "ended", "joined"}]
<1>1. <<packageCount, consumerCount>> \in Arguments
  BY DEF TypeOK
<1>2. /\ packageCount \in Nat /\ MaxPackages \in Nat /\ packageCount <= MaxPackages
      /\ consumerCount \in Nat /\ MaxConsumers \in Nat /\ consumerCount <= MaxConsumers
      /\ UInt16 \in Nat /\ UInt16 > 1
  BY <1>1, Bounds
<1>3. /\ -1 \in Threads /\ 0 \in Threads /\ 0 \in Queues /\ -2 \notin Threads
      /\ Queues \subseteq Threads /\ Queues \subseteq Targeted
      /\ Consumers \subseteq Queues \ {0} /\ \A t \in Threads : t \in Int /\ t >= -1
      /\ \A q \in Queues : q \in Nat
      /\ \A q \in Queues : q # 0 => q > 0
  BY <1>2 DEF Threads, Queues, Targeted, Consumers
<1>4. /\ StopMessage \notin Packets /\ StopMessage \in Messages /\ Packets \subseteq Messages
      /\ \A m \in Packets : m.target \in Targeted /\ m.number \in Nat
  BY <1>2 DEF Packets, Messages, StopMessage, NetworkMessage, Targeted
<1>5. main.turn \in Threads /\ key \in Nat /\ index \in Nat
  BY <1>2 DEF TypeOK, Threads
<1> QED BY <1>2, <1>3, <1>4, <1>5 DEF TypeOK

(* The content of a queue *)
LEMMA QueueTypes ==
  ASSUME TypeOK, NEW q \in Queues
  PROVE  /\ queue[q] \in Seq(Messages) /\ Len(queue[q]) \in Nat
         /\ \A i \in 1 .. Len(queue[q]) : queue[q][i] \in Messages
         /\ queue[q] = << >> <=> Len(queue[q]) = 0
         /\ sem[q] \in Nat
         /\ received[q] \in Seq(Packets) /\ Len(received[q]) \in Nat
         /\ \A i \in 1 .. Len(received[q]) : received[q][i] \in Packets
<1>1. queue[q] \in Seq(Messages) /\ received[q] \in Seq(Packets) /\ sem[q] \in Nat
  BY Basics DEF TypeOK
<1>2. queue[q] = << >> <=> Len(queue[q]) = 0
  BY <1>1, EmptySeq
<1> QED BY <1>1, <1>2, ElementOfSeq

(* The packets sent *)
LEMMA SentTypes ==
  ASSUME TypeOK, NEW c \in Targeted
  PROVE  /\ sent[c] \in Seq(Packets) /\ Len(sent[c]) \in Nat
         /\ \A i \in 1 .. Len(sent[c]) : sent[c][i] \in Packets
<1>1. sent[c] \in Seq(Packets)
  BY DEF TypeOK
<1> QED BY <1>1, ElementOfSeq

(* A message is pushed at the end of a queue. *)
LEMMA EnqueueEffect ==
  ASSUME TypeOK, NEW q \in Queues, NEW m \in Messages, Enqueue(q, m)
  PROVE  /\ queue' \in [Queues -> Seq(Messages)]
         /\ \A p \in Queues : p # q => queue'[p] = queue[p]
         /\ Len(queue'[q]) = Len(queue[q]) + 1
         /\ \A i \in 1 .. Len(queue[q]) : i \in 1 .. Len(queue'[q]) /\ queue'[q][i] = queue[q][i]
         /\ \A i \in 1 .. Len(queue'[q]) : \/ i = Len(queue[q]) + 1 /\ queue'[q][i] = m
                                           \/ i \in 1 .. Len(queue[q]) /\ queue'[q][i] = queue[q][i]
         /\ Len(queue'[q]) \in 1 .. Len(queue'[q]) /\ queue'[q][Len(queue'[q])] = m
         /\ queue'[q] # << >>
<1>1. queue \in [Queues -> Seq(Messages)] /\ queue[q] \in Seq(Messages) /\ Len(queue[q]) \in Nat
  BY QueueTypes DEF TypeOK
<1>2. queue'[q] = Append(queue[q], m) /\ \A p \in Queues : p # q => queue'[p] = queue[p]
  BY <1>1 DEF Enqueue
<1>3. /\ Append(queue[q], m) \in Seq(Messages) /\ Len(Append(queue[q], m)) = Len(queue[q]) + 1
      /\ \A i \in 1 .. Len(queue[q]) : Append(queue[q], m)[i] = queue[q][i]
      /\ Append(queue[q], m)[Len(queue[q]) + 1] = m
  BY <1>1, AppendProperties
<1>4. queue' \in [Queues -> Seq(Messages)]
  BY <1>1, <1>3 DEF Enqueue
<1>5. /\ \A i \in 1 .. Len(queue[q]) : i \in 1 .. Len(queue[q]) + 1
      /\ \A i \in 1 .. Len(queue[q]) + 1 : i = Len(queue[q]) + 1 \/ i \in 1 .. Len(queue[q])
      /\ Len(queue[q]) + 1 \in 1 .. Len(queue[q]) + 1 /\ Len(queue[q]) + 1 # 0
  BY <1>1
<1>6. queue'[q] # << >>
  BY <1>2, <1>3, <1>5, EmptySeq
<1> QED BY <1>2, <1>3, <1>4, <1>5, <1>6

(* The first message is taken out of a queue. *)
LEMMA DequeueEffect ==
  ASSUME TypeOK, NEW q \in Queues, Dequeue(q), Len(queue[q]) > 0
  PROVE  /\ queue' \in [Queues -> Seq(Messages)]
         /\ \A p \in Queues : p # q => queue'[p] = queue[p]
         /\ Front(q) = queue[q][1] /\ Front(q) \in Messages /\ 1 \in 1 .. Len(queue[q])
         /\ Len(queue'[q]) = Len(queue[q]) - 1
         /\ \A i \in 1 .. Len(queue'[q]) : i + 1 \in 1 .. Len(queue[q]) /\ queue'[q][i] = queue[q][i + 1]
         /\ \A i \in 1 .. Len(queue[q]) :
              i # 1 => i - 1 \in 1 .. Len(queue'[q]) /\ queue'[q][i - 1] = queue[q][i]
<1>1. queue \in [Queues -> Seq(Messages)] /\ queue[q] \in Seq(Messages) /\ Len(queue[q]) \in Nat
      /\ queue[q] # << >>
  BY QueueTypes DEF TypeOK
<1>2. queue'[q] = Tail(queue[q]) /\ \A p \in Queues : p # q => queue'[p] = queue[p]
  BY <1>1 DEF Dequeue
<1>3. /\ Tail(queue[q]) \in Seq(Messages) /\ Len(Tail(queue[q])) = Len(queue[q]) - 1
      /\ \A i \in 1 .. Len(Tail(queue[q])) : Tail(queue[q])[i] = queue[q][i + 1]
  BY <1>1, HeadTailProperties
<1>4. Front(q) = queue[q][1] /\ 1 \in 1 .. Len(queue[q]) /\ queue[q][1] \in Messages
  BY <1>1, QueueTypes DEF Front
<1>5. queue' \in [Queues -> Seq(Messages)]
  BY <1>1, <1>3 DEF Dequeue
<1>6. /\ \A i \in 1 .. Len(queue[q]) - 1 : i + 1 \in 1 .. Len(queue[q])
      /\ \A i \in 1 .. Len(queue[q]) :
           i # 1 => i - 1 \in 1 .. Len(queue[q]) - 1 /\ (i - 1) + 1 = i
  BY <1>1
<1> QED BY <1>2, <1>3, <1>4, <1>5, <1>6

(* What the producer makes is a packet of its target. *)
LEMMA ProducedIsPacket ==
  ASSUME TypeOK, index < packageCount, NEW target \in Targets
  PROVE  /\ NetworkMessage(target, 1, index) \in Packets
         /\ NetworkMessage(target, 1, index).target = target
         /\ NetworkMessage(target, 1, index).number = index
         /\ target \in Targeted /\ target \in 0 .. UInt16 - 1
<1>1. /\ index \in 0 .. MaxPackages - 1 /\ UInt16 \in Nat /\ UInt16 > 1 /\ consumerCount \in Nat
  BY Basics
<1>2. \A r \in Nat : (1 + r) % UInt16 \in 0 .. UInt16 - 1
  BY <1>1
<1>3. target \in 0 .. UInt16 - 1
  BY <1>1, <1>2 DEF Targets
<1> QED BY <1>1, <1>3 DEF NetworkMessage, Packets, Targeted

(* The roles and loops go on in their order. *)
LEMMA RolesNext ==
  ASSUME IInv, Next
  PROVE  RolesInOrder'
<1>1. /\ TypeOK /\ RolesInOrder /\ MainInOrder
      /\ packageCount \in Nat /\ consumerCount \in Nat /\ index \in Nat /\ key \in Nat
      /\ -1 \in Threads /\ 0 \in Threads /\ \A t \in Threads : t \in Int /\ t >= -1
      /\ Consumers \subseteq Queues \ {0} /\ Queues \subseteq Threads
      /\ \A c \in Consumers : c \in Threads /\ c > 0 /\ c <= consumerCount
      /\ main.turn \in Threads /\ main.turn <= consumerCount
      /\ pc \in [Threads -> {"new", "produce", "wait", "take", "push", "signal", "stop",
                             "stopsignal", "log", "line", "ended", "joined"}]
  BY Basics, SMTT(20) DEF IInv, MainInOrder, Consumers
<1>2. CASE AnalyzeArguments \/ Delete \/ Produce
  BY <1>1, <1>2 DEF AnalyzeArguments, Delete, Produce, Running, Goto, arguments, RolesInOrder,
                    Consumers, Left
<1>3. CASE StartThread
  BY <1>1, <1>3 DEF StartThread, Goto, arguments, RolesInOrder, Consumers, Left
<1>4. CASE WaitToFinish
  BY <1>1, <1>4 DEF WaitToFinish, Goto, arguments, RolesInOrder, Consumers, Left
<1>5. CASE ProduceSignal
  BY <1>1, <1>5 DEF ProduceSignal, Running, Goto, arguments, RolesInOrder, Consumers, Left
<1>6. ASSUME NEW t \in {0} \cup Consumers, PopWait(t) PROVE RolesInOrder'
  BY <1>1, <1>6 DEF PopWait, Running, Goto, arguments, RolesInOrder, Consumers, Left
<1>7. CASE Dispatch
  BY <1>1, <1>7 DEF Dispatch, Running, Goto, arguments, RolesInOrder, Consumers, Left
<1>8. CASE DispatchPush \/ DispatchSignal \/ StopPush \/ StopSignal
  BY <1>1, <1>8 DEF DispatchPush, DispatchSignal, StopPush, StopSignal, Running, Goto, arguments,
                    RolesInOrder, Consumers, Left
<1>9. ASSUME NEW c \in Consumers, Consume(c) PROVE RolesInOrder'
  BY <1>1, <1>9 DEF Consume, Running, Goto, arguments, RolesInOrder, Consumers, Left
<1>10. ASSUME NEW t \in {-1} \cup Consumers, LogLock(t) \/ LogUnlock(t) PROVE RolesInOrder'
  BY <1>1, <1>10 DEF LogLock, LogUnlock, Running, Goto, arguments, RolesInOrder, Consumers, Left
<1> QED BY <1>2, <1>3, <1>4, <1>5, <1>6, <1>7, <1>8, <1>9, <1>10
        DEF Next, MainStep, ProducerStep, DispatcherStep, ConsumerStep

(* A thread that takes a step has been started and has not ended. *)
LEMMA ThreadMoves ==
  ASSUME IInv, ProducerStep \/ DispatcherStep \/ \E c \in Consumers : ConsumerStep(c)
  PROVE  /\ UNCHANGED <<arguments, main, alive>> /\ aborted = "no"
         /\ \E t \in -1 .. consumerCount :
              /\ t \in Threads
              /\ pc[t] \notin {"new", "ended", "joined"} /\ pc'[t] \notin {"new", "joined"}
              /\ \A u \in Threads : u # t => pc'[u] = pc[u]
<1>1. /\ packageCount \in Nat /\ consumerCount \in Nat
      /\ -1 \in Threads /\ 0 \in Threads /\ \A c \in Consumers : c \in Threads
      /\ \A c \in Consumers : c \in -1 .. consumerCount
      /\ -1 \in -1 .. consumerCount /\ 0 \in -1 .. consumerCount
      /\ pc \in [Threads -> {"new", "produce", "wait", "take", "push", "signal", "stop",
                             "stopsignal", "log", "line", "ended", "joined"}]
  BY Basics DEF IInv, Consumers
<1>2. CASE Produce \/ ProduceSignal
  BY <1>1, <1>2 DEF Produce, ProduceSignal, Running, Goto, arguments
<1>3. ASSUME NEW t \in {0} \cup Consumers, PopWait(t) PROVE Running(t, "wait") /\ Goto(t, "take")
  BY <1>3 DEF PopWait
<1>4. CASE Dispatch \/ DispatchPush \/ DispatchSignal \/ StopPush \/ StopSignal
  BY <1>1, <1>4 DEF Dispatch, DispatchPush, DispatchSignal, StopPush, StopSignal, Running, Goto,
                    arguments
<1>5. ASSUME NEW c \in Consumers, Consume(c)
      PROVE  Running(c, "take") /\ \E to \in {"log", "wait"} : Goto(c, to)
  BY <1>5 DEF Consume
<1>6. ASSUME NEW t \in {-1} \cup Consumers, LogLock(t) \/ LogUnlock(t)
      PROVE  \/ Running(t, "log") /\ Goto(t, "line")
             \/ Running(t, "line") /\ (Goto(t, "ended") \/ UNCHANGED pc)
  BY <1>6 DEF LogLock, LogUnlock
<1>7. ASSUME NEW t \in {-1, 0} \cup Consumers,
             \/ Running(t, "wait") /\ Goto(t, "take")
             \/ Running(t, "take") /\ \E to \in {"log", "wait"} : Goto(t, to)
             \/ Running(t, "log") /\ Goto(t, "line")
             \/ Running(t, "line") /\ (Goto(t, "ended") \/ UNCHANGED pc)
      PROVE  /\ aborted = "no" /\ t \in Threads /\ t \in -1 .. consumerCount
             /\ pc[t] \notin {"new", "ended", "joined"} /\ pc'[t] \notin {"new", "joined"}
             /\ \A u \in Threads : u # t => pc'[u] = pc[u]
  BY <1>1, <1>7 DEF Running, Goto
<1>8. UNCHANGED <<arguments, main, alive>>
  BY DEF ProducerStep, DispatcherStep, ConsumerStep, Produce, ProduceSignal, PopWait, Dispatch,
         DispatchPush, DispatchSignal, StopPush, StopSignal, Consume, LogLock, LogUnlock
<1>9. CASE \E t \in {0} \cup Consumers : PopWait(t)
  BY <1>3, <1>7, <1>8, <1>9
<1>10. CASE \E c \in Consumers : Consume(c)
  BY <1>5, <1>7, <1>8, <1>10
<1>11. CASE \E t \in {-1} \cup Consumers : LogLock(t) \/ LogUnlock(t)
  BY <1>6, <1>7, <1>8, <1>11
<1> QED BY <1>2, <1>4, <1>8, <1>9, <1>10, <1>11 DEF ProducerStep, DispatcherStep, ConsumerStep

(* main starts, joins and deletes the threads in their order. *)
LEMMA MainNext ==
  ASSUME IInv, Next
  PROVE  MainInOrder'
<1>0. /\ TypeOK /\ MainInOrder /\ RolesInOrder
      /\ main \in [at : {"args", "start", "join", "delete", "success", "failure"},
                   turn : -1 .. MaxConsumers]
  BY DEF IInv, TypeOK
<1>1. /\ consumerCount \in Nat /\ -1 \in Threads
      /\ \A t \in -1 .. consumerCount : t \in Threads
      /\ main.turn \in Int /\ main.turn >= -1 /\ main.turn <= consumerCount
      /\ main.turn \in Threads
      /\ pc \in [Threads -> {"new", "produce", "wait", "take", "push", "signal", "stop",
                             "stopsignal", "log", "line", "ended", "joined"}]
  <2>1. main.turn <= consumerCount /\ consumerCount \in Nat /\ MaxConsumers \in Nat
        /\ consumerCount <= MaxConsumers
    BY <1>0, Basics DEF MainInOrder
  <2>2. \A t \in -1 .. consumerCount : t \in Threads
    BY <2>1 DEF Threads
  <2> QED BY <1>0, <2>1, <2>2, Basics
<1>2. CASE AnalyzeArguments
  BY <1>0, <1>1, <1>2 DEF AnalyzeArguments, Main, MainInOrder, arguments
<1>3. CASE StartThread
  <2>1. /\ main.at = "start" /\ alive' = alive /\ consumerCount' = consumerCount
        /\ main' = IF main.turn < consumerCount THEN [at |-> "start", turn |-> main.turn + 1]
                                                ELSE [at |-> "join", turn |-> -1]
        /\ pc'[main.turn] \notin {"new", "joined", "ended"}
        /\ \A u \in Threads : u # main.turn => pc'[u] = pc[u]
    BY <1>0, <1>1, <1>3 DEF StartThread, Main, NextTurn, Goto, arguments
  <2> QED BY <1>0, <1>1, <2>1 DEF MainInOrder
<1>4. CASE WaitToFinish
  <2>1. /\ main.at = "join" /\ alive' = alive /\ consumerCount' = consumerCount
        /\ aborted = "no" /\ aborted' = "no"
        /\ main' = IF main.turn < consumerCount THEN [at |-> "join", turn |-> main.turn + 1]
                                                ELSE [at |-> "delete", turn |-> -1]
        /\ pc'[main.turn] = "joined"
        /\ \A u \in Threads : u # main.turn => pc'[u] = pc[u]
    BY <1>0, <1>1, <1>4 DEF WaitToFinish, Main, NextTurn, Goto, arguments
  <2> QED BY <1>0, <1>1, <2>1 DEF MainInOrder
<1>5. CASE Delete
  BY <1>0, <1>1, <1>5 DEF Delete, Main, MainInOrder, NextTurn, arguments
<1>6. CASE ProducerStep \/ DispatcherStep \/ \E c \in Consumers : ConsumerStep(c)
  <2>1. PICK t \in -1 .. consumerCount :
          /\ t \in Threads
          /\ pc[t] \notin {"new", "ended", "joined"} /\ pc'[t] \notin {"new", "joined"}
          /\ \A u \in Threads : u # t => pc'[u] = pc[u]
    BY <1>6, ThreadMoves
  <2>2. UNCHANGED <<consumerCount, main, alive>>
    BY <1>6, ThreadMoves DEF arguments
  <2>3. main.at \in {"start", "join"}
    BY <1>0, <1>1, <2>1 DEF MainInOrder
  <2>4. main.at = "join" => t >= main.turn
    BY <1>0, <1>1, <2>1 DEF MainInOrder
  <2>5. main.at = "start" => t < main.turn
    BY <1>0, <1>1, <2>1 DEF MainInOrder
  <2> QED BY <1>0, <1>1, <2>1, <2>2, <2>3, <2>4, <2>5 DEF MainInOrder
<1> QED BY <1>2, <1>3, <1>4, <1>5, <1>6 DEF Next, MainStep

(* What main starts had not begun, and what it joins has ended. *)
LEMMA MainMoves ==
  ASSUME IInv, MainStep
  PROVE  /\ UNCHANGED <<arguments, index, holds, key, queue, sem, aborted, logVars, sent, received>>
         /\ aborted = "no"
         /\ \A t \in Threads : \/ pc'[t] = pc[t]
                               \/ pc[t] = "new" /\ pc'[t] = "produce" /\ t = -1
                               \/ pc[t] = "new" /\ pc'[t] = "wait" /\ t # -1
                               \/ pc[t] = "ended" /\ pc'[t] = "joined"
<1>1. UNCHANGED <<arguments, index, holds, key, queue, sem, aborted, logVars, sent, received>>
      /\ aborted = "no"
  BY DEF MainStep, AnalyzeArguments, StartThread, WaitToFinish, Delete, Main
<1>2. /\ main.turn \in Threads /\ main.turn \in -1 .. consumerCount
      /\ pc \in [Threads -> {"new", "produce", "wait", "take", "push", "signal", "stop",
                             "stopsignal", "log", "line", "ended", "joined"}]
  <2>1. TypeOK /\ main.turn <= consumerCount
    BY DEF IInv, MainInOrder
  <2>2. main.turn \in Threads /\ main.turn \in Int /\ main.turn >= -1 /\ consumerCount \in Nat
    BY <2>1, Basics
  <2> QED BY <2>1, <2>2, Basics
<1>3. CASE AnalyzeArguments \/ Delete
  BY <1>1, <1>3 DEF AnalyzeArguments, Delete
<1>4. CASE StartThread
  <2>1. pc[main.turn] = "new"
    BY <1>2, <1>4 DEF StartThread, Main, IInv, MainInOrder
  <2> QED BY <1>1, <1>2, <1>4, <2>1 DEF StartThread, Goto
<1>5. CASE WaitToFinish
  BY <1>1, <1>2, <1>5 DEF WaitToFinish, Goto
<1> QED BY <1>1, <1>3, <1>4, <1>5 DEF MainStep

(* The steps that push no message and take none, wait and signal nothing *)
LEMMA SignalledStays ==
  ASSUME IInv, UNCHANGED <<queue, sem, key>>, aborted' = "no" => aborted = "no",
         \A t \in Threads :
           /\ pc'[t] = "take" <=> pc[t] = "take"
           /\ (t = -1 => (pc'[t] = "signal" <=> pc[t] = "signal"))
           /\ (t = 0 => (pc'[t] \in {"signal", "stopsignal"} <=> pc[t] \in {"signal", "stopsignal"}))
  PROVE  Signalled'
<1>1. -1 \in Threads /\ 0 \in Threads /\ \A q \in Queues : q \in Threads
  BY Basics DEF IInv
<1> QED BY <1>1 DEF IInv, Signalled, One

(* A message counts in its queue from its push to its taking. *)
LEMMA SignalledNext ==
  ASSUME IInv, Next
  PROVE  Signalled'
<1>1. /\ TypeOK /\ Signalled /\ RolesInOrder
      /\ -1 \in Threads /\ 0 \in Threads /\ 0 \in Queues /\ \A q \in Queues : q \in Threads /\ q # -1
      /\ \A c \in Consumers : c \in Threads /\ c \in Queues /\ c # 0 /\ c # -1
      /\ \A q \in Queues : Len(queue[q]) \in Nat /\ sem[q] \in Nat
      /\ StopMessage \in Messages /\ index \in Nat /\ packageCount \in Nat
      /\ sem \in [Queues -> 0 .. MaxPackages + 1]
      /\ pc \in [Threads -> {"new", "produce", "wait", "take", "push", "signal", "stop",
                             "stopsignal", "log", "line", "ended", "joined"}]
  <2>1. TypeOK /\ Signalled /\ RolesInOrder
    BY DEF IInv
  <2>2. \A q \in Queues : Len(queue[q]) \in Nat /\ sem[q] \in Nat
    BY <2>1, QueueTypes
  <2>3. /\ -1 \in Threads /\ 0 \in Threads /\ 0 \in Queues /\ \A q \in Queues : q \in Threads /\ q # -1
        /\ \A c \in Consumers : c \in Threads /\ c \in Queues /\ c # 0 /\ c # -1
    BY <2>1, Basics
  <2> QED BY <2>1, <2>2, <2>3, Basics DEF TypeOK
<1>2. CASE MainStep
  BY <1>1, <1>2, MainMoves, SignalledStays
<1>3. CASE Produce
  <2>1. PICK m \in Messages : Enqueue(0, m)
    <3>1. CASE index < packageCount
      <4>1. \E target \in Targets : Enqueue(0, NetworkMessage(target, 1, index))
        BY <1>1, <1>3, <3>1 DEF Produce
      <4>2. \A target \in Targets : NetworkMessage(target, 1, index) \in Packets
        BY <3>1, <1>1, ProducedIsPacket
      <4> QED BY <1>1, <4>1, <4>2, Basics
    <3>2. CASE ~(index < packageCount)
      BY <1>1, <1>3, <3>2 DEF Produce
    <3> QED BY <3>1, <3>2
  <2>2. /\ pc[-1] = "produce" /\ pc' = [pc EXCEPT ![-1] = "signal"] /\ UNCHANGED <<sem, key, aborted>>
    BY <1>3 DEF Produce, Running, Goto
  <2>3. /\ \A p \in Queues : p # 0 => queue'[p] = queue[p]
        /\ Len(queue'[0]) = Len(queue[0]) + 1
    BY <1>1, <2>1, EnqueueEffect
  <2> QED BY <1>1, <2>2, <2>3 DEF Signalled, One
<1>4. CASE ProduceSignal
  <2>1. /\ pc[-1] = "signal" /\ \A t \in Threads : t # -1 => pc'[t] = pc[t]
        /\ pc'[-1] # "signal"
        /\ sem'[0] = sem[0] + 1 /\ \A q \in Queues : q # 0 => sem'[q] = sem[q]
        /\ UNCHANGED <<queue, key, aborted>>
    BY <1>1, <1>4 DEF ProduceSignal, Running, Goto, Signal
  <2> QED BY <1>1, <2>1 DEF Signalled, One
<1>5. ASSUME NEW t \in {0} \cup Consumers, PopWait(t) PROVE Signalled'
  <2>1. /\ pc[t] = "wait" /\ pc'[t] = "take" /\ \A u \in Threads : u # t => pc'[u] = pc[u]
        /\ sem'[t] = sem[t] - 1 /\ \A q \in Queues : q # t => sem'[q] = sem[q]
        /\ t \in Queues /\ UNCHANGED <<queue, key, aborted>> /\ aborted = "no"
    BY <1>1, <1>5 DEF PopWait, Running, Goto, Wait
  <2> QED
    <3>1. Len(queue'[0]) = sem'[0] + One(pc'[0] = "take") + One(pc'[-1] = "signal")
      BY <1>1, <2>1 DEF Signalled, One
    <3>2. ASSUME NEW p \in Queues \ {0}
          PROVE  Len(queue'[p]) = sem'[p] + One(pc'[p] = "take")
                         + One(pc'[0] \in {"signal", "stopsignal"} /\ key' = p)
      <4>1. Len(queue[p]) = sem[p] + One(pc[p] = "take") + One(pc[0] \in {"signal", "stopsignal"} /\ key = p)
        BY <1>1, <2>1 DEF Signalled
      <4>2. pc'[0] \in {"signal", "stopsignal"} <=> pc[0] \in {"signal", "stopsignal"}
        BY <1>1, <2>1
      <4>3. CASE p = t
        BY <1>1, <2>1, <4>1, <4>2, <4>3 DEF One
      <4>4. CASE p # t
        BY <1>1, <2>1, <4>1, <4>2, <4>4 DEF One
      <4> QED BY <4>3, <4>4
    <3> QED BY <3>1, <3>2 DEF Signalled
<1>6. CASE Dispatch
  <2>1. CASE aborted' # "no"
    BY <2>1 DEF Signalled
  <2>2. CASE aborted' = "no"
    <3>1. /\ pc[0] = "take" /\ pc'[0] \notin {"take", "signal", "stopsignal"}
          /\ \A u \in Threads : u # 0 => pc'[u] = pc[u]
          /\ Dequeue(0) /\ UNCHANGED sem /\ aborted = "no"
      BY <1>1, <1>6, <2>2 DEF Dispatch, Running, Goto
    <3>2. Len(queue[0]) > 0
      BY <1>1, <3>1 DEF Signalled, One
    <3>3. /\ \A p \in Queues : p # 0 => queue'[p] = queue[p]
          /\ Len(queue'[0]) = Len(queue[0]) - 1
      BY <1>1, <3>1, <3>2, DequeueEffect
    <3> QED
      <4>1. Len(queue'[0]) = sem'[0] + One(pc'[0] = "take") + One(pc'[-1] = "signal")
        BY <1>1, <3>1, <3>3 DEF Signalled, One
      <4>2. ASSUME NEW p \in Queues \ {0}
            PROVE  Len(queue'[p]) = sem'[p] + One(pc'[p] = "take")
                           + One(pc'[0] \in {"signal", "stopsignal"} /\ key' = p)
        BY <1>1, <3>1, <3>3 DEF Signalled, One
      <4> QED BY <4>1, <4>2 DEF Signalled
  <2> QED BY <2>1, <2>2
<1>7. CASE DispatchPush \/ StopPush
  <2>1. PICK m \in Messages : Enqueue(key, m)
    BY <1>1, <1>7 DEF DispatchPush, StopPush, TypeOK
  <2>2. /\ pc[0] \in {"push", "stop"} /\ pc'[0] \in {"signal", "stopsignal"}
        /\ \A u \in Threads : u # 0 => pc'[u] = pc[u]
        /\ UNCHANGED <<sem, key, aborted>> /\ aborted = "no"
    BY <1>1, <1>7 DEF DispatchPush, StopPush, Running, Goto
  <2>3. key \in Consumers
    BY <1>1, <2>2 DEF RolesInOrder
  <2>4. /\ \A p \in Queues : p # key => queue'[p] = queue[p]
        /\ Len(queue'[key]) = Len(queue[key]) + 1
    BY <1>1, <2>1, <2>3, EnqueueEffect
  <2> QED
    <3>1. Len(queue'[0]) = sem'[0] + One(pc'[0] = "take") + One(pc'[-1] = "signal")
      BY <1>1, <2>2, <2>3, <2>4 DEF Signalled, One
    <3>2. ASSUME NEW p \in Queues \ {0}
          PROVE  Len(queue'[p]) = sem'[p] + One(pc'[p] = "take")
                         + One(pc'[0] \in {"signal", "stopsignal"} /\ key' = p)
      BY <1>1, <2>2, <2>3, <2>4, SMTT(20) DEF Signalled, One
    <3> QED BY <3>1, <3>2 DEF Signalled
<1>8. CASE DispatchSignal \/ StopSignal
  <2>1. /\ pc[0] \in {"signal", "stopsignal"} /\ pc'[0] \notin {"take", "signal", "stopsignal"}
        /\ \A u \in Threads : u # 0 => pc'[u] = pc[u]
        /\ Signal(key) /\ UNCHANGED <<queue, aborted>>
    BY <1>1, <1>8 DEF DispatchSignal, StopSignal, Running, Goto
  <2>2. key \in Consumers
    BY <1>1, <2>1 DEF RolesInOrder
  <2>3. sem'[key] = sem[key] + 1 /\ \A q \in Queues : q # key => sem'[q] = sem[q]
    BY <1>1, <2>1, <2>2 DEF Signal
  <2> QED BY <1>1, <2>1, <2>2, <2>3 DEF Signalled, One
<1>9. ASSUME NEW c \in Consumers, Consume(c) PROVE Signalled'
  <2>1. /\ pc[c] = "take" /\ pc'[c] # "take" /\ \A u \in Threads : u # c => pc'[u] = pc[u]
        /\ Dequeue(c) /\ UNCHANGED <<sem, key, aborted>> /\ aborted = "no"
    BY <1>1, <1>9 DEF Consume, Running, Goto
  <2>2. Len(queue[c]) > 0
    BY <1>1, <2>1 DEF Signalled, One
  <2>3. /\ \A p \in Queues : p # c => queue'[p] = queue[p]
        /\ Len(queue'[c]) = Len(queue[c]) - 1
    BY <1>1, <2>1, <2>2, DequeueEffect
  <2> QED BY <1>1, <2>1, <2>3, SMTT(20) DEF Signalled, One
<1>10. ASSUME NEW t \in {-1} \cup Consumers, LogLock(t) \/ LogUnlock(t) PROVE Signalled'
  <2>1. /\ UNCHANGED <<queue, sem, key>> /\ (aborted' = "no" => aborted = "no") /\ t # 0
        /\ pc[t] \in {"log", "line"} /\ pc'[t] \in {"line", "ended"}
        /\ \A u \in Threads : u # t => pc'[u] = pc[u]
    BY <1>1, <1>10 DEF LogLock, LogUnlock, Running, Goto
  <2> QED BY <2>1, SignalledStays
<1> QED BY <1>2, <1>3, <1>4, <1>5, <1>6, <1>7, <1>8, <1>9, <1>10
        DEF Next, ProducerStep, DispatcherStep, ConsumerStep

(* A thread whose wait has succeeded finds a message in its queue. *)
LEMMA TakerHasMessage ==
  ASSUME IInv, NEW t \in {0} \cup Consumers, pc[t] = "take", aborted = "no"
  PROVE  t \in Queues /\ Len(queue[t]) > 0
<1>1. TypeOK /\ Signalled
  BY DEF IInv
<1>2. 0 \in Queues /\ t \in Queues /\ 0 \in Threads /\ (t # 0 => t \in Queues \ {0})
  BY <1>1, Basics
<1>3. sem[t] \in Nat
  BY <1>2, <1>1, QueueTypes
<1>4. CASE t = 0
  <2>1. Len(queue[0]) = sem[0] + One(pc[0] = "take") + One(pc[-1] = "signal")
    BY <1>1 DEF Signalled
  <2> QED BY <1>2, <1>3, <1>4, <2>1 DEF One
<1>5. CASE t # 0
  <2>1. Len(queue[t]) = sem[t] + One(pc[t] = "take")
                          + One(pc[0] \in {"signal", "stopsignal"} /\ key = t)
    BY <1>1, <1>2, <1>5 DEF Signalled
  <2> QED BY <1>2, <1>3, <2>1 DEF One
<1> QED BY <1>4, <1>5

(* The signals and waits of the semaphores, and the packets counted: a     *)
(* consumer has no more messages than the producer has signalled.          *)
LEMMA BoundNext ==
  ASSUME IInv, Next
  PROVE  SignalsBound'
<1>1. /\ TypeOK /\ SignalsBound /\ Signalled /\ RolesInOrder
      /\ -1 \in Threads /\ 0 \in Threads /\ 0 \in Queues /\ \A q \in Queues : q \in Threads /\ q # -1
      /\ \A c \in Consumers : c \in Threads /\ c \in Queues /\ c # 0 /\ c # -1
      /\ \A q \in Queues : Len(queue[q]) \in Nat /\ sem[q] \in Nat /\ Len(received[q]) \in Nat
      /\ \A q \in Queues : q \in Int
      /\ index \in Nat /\ packageCount \in Nat /\ key \in Nat
      /\ sem \in [Queues -> 0 .. MaxPackages + 1] /\ received \in [Queues -> Seq(Packets)]
      /\ pc \in [Threads -> {"new", "produce", "wait", "take", "push", "signal", "stop",
                             "stopsignal", "log", "line", "ended", "joined"}]
  <2>1. TypeOK /\ SignalsBound /\ Signalled /\ RolesInOrder
    BY DEF IInv
  <2>2. \A q \in Queues : Len(queue[q]) \in Nat /\ sem[q] \in Nat /\ Len(received[q]) \in Nat
    BY <2>1, QueueTypes
  <2>3. /\ -1 \in Threads /\ 0 \in Threads /\ 0 \in Queues
        /\ \A q \in Queues : q \in Threads /\ q # -1 /\ q \in Int
        /\ \A c \in Consumers : c \in Threads /\ c \in Queues /\ c # 0 /\ c # -1
    BY <2>1, Basics
  <2> QED BY <2>1, <2>2, <2>3, Basics DEF TypeOK
<1>0. /\ -1 \in Threads /\ 0 \in Threads /\ 0 \in Queues /\ \A q \in Queues : q \in Threads /\ q # -1
      /\ \A c \in Consumers : c \in Threads /\ c \in Queues /\ c # 0 /\ c # -1
      /\ index \in Nat
  BY <1>1
<1> DEFINE T(t) == One(pc[t] = "take")
           L(t) == One(pc[t] \in Left)
           N(c) == Len(received[c])
<1>2. /\ \A t \in Threads : T(t) \in 0 .. 1 /\ L(t) \in 0 .. 1 /\ T(t)' \in 0 .. 1 /\ L(t)' \in 0 .. 1
      /\ \A c : Busy(c) \in 0 .. 1 /\ Busy(c)' \in 0 .. 1
      /\ \A c \in Queues : N(c) \in Nat /\ sem[c] \in Nat
  BY <1>1 DEF One, Busy
<1>3. /\ sem[0] + T(0) <= index + L(-1)
      /\ \A c \in Queues \ {0} : sem[0] + Busy(c) + sem[c] + T(c) + N(c) + L(c) <= index + L(-1)
  BY <1>1 DEF SignalsBound, Signals
<1>4. SUFFICES /\ sem'[0] + T(0)' <= index' + L(-1)'
               /\ \A c \in Queues \ {0} :
                    sem'[0] + Busy(c)' + sem'[c] + T(c)' + N(c)' + L(c)' <= index' + L(-1)'
  BY DEF SignalsBound, Signals
<1>5. ASSUME UNCHANGED <<sem, index, received>>,
             \A t \in Threads : pc'[t] = "take" => pc[t] = "take",
             \A t \in Threads : pc[t] \in Left <=> pc'[t] \in Left,
             \A c \in Queues \ {0} : Busy(c)' <= Busy(c)
      PROVE  /\ sem'[0] + T(0)' <= index' + L(-1)'
             /\ \A c \in Queues \ {0} :
                    sem'[0] + Busy(c)' + sem'[c] + T(c)' + N(c)' + L(c)' <= index' + L(-1)'
  <2>1. \A t \in Threads : T(t)' <= T(t) /\ L(t)' = L(t)
    BY <1>5 DEF One
  <2>2. sem' = sem /\ index' = index /\ \A c : N(c)' = N(c)
    BY <1>5
  <2> HIDE DEF T, L, N
  <2> QED BY <1>0, <1>2, <1>3, <1>5, <2>1, <2>2
<1>6. CASE MainStep
  <2>1. /\ UNCHANGED <<sem, index, key, received>>
        /\ \A t \in Threads : pc'[t] = "take" => pc[t] = "take"
        /\ \A t \in Threads : pc[t] \in Left <=> pc'[t] \in Left
        /\ pc'[0] \notin {"take", "push", "signal", "stop", "stopsignal"} \/ pc'[0] = pc[0]
    BY <1>1, <1>6, MainMoves DEF Left
  <2>2. \A c : Busy(c)' <= Busy(c)
    BY <2>1, <1>2 DEF Busy, One
  <2> QED BY <1>5, <2>1, <2>2
<1>7. CASE Produce
  <2>1. /\ UNCHANGED <<sem, index, key, received>>
        /\ \A t \in Threads : pc'[t] = "take" => pc[t] = "take"
        /\ \A t \in Threads : pc[t] \in Left <=> pc'[t] \in Left
        /\ pc'[0] = pc[0]
    BY <1>1, <1>7 DEF Produce, Running, Goto, Left
  <2>2. \A c : Busy(c)' <= Busy(c)
    BY <2>1, <1>2 DEF Busy, One
  <2> QED BY <1>5, <2>1, <2>2
<1>8. CASE ProduceSignal
  <2>1. /\ sem'[0] = sem[0] + 1 /\ \A q \in Queues : q # 0 => sem'[q] = sem[q]
        /\ UNCHANGED <<key, received>> /\ \A t \in Threads : t # -1 => pc'[t] = pc[t]
        /\ index' + L(-1)' = index + L(-1) + 1
    BY <1>1, <1>8 DEF ProduceSignal, Running, Goto, Signal, Left, One
  <2>2. /\ \A t \in Threads : t # -1 => T(t)' = T(t) /\ L(t)' = L(t)
        /\ \A c : Busy(c)' = Busy(c) /\ N(c)' = N(c)
    BY <1>1, <2>1 DEF Busy
  <2> HIDE DEF T, L, N
  <2> QED BY <1>0, <1>2, <1>3, <2>1, <2>2
<1>9. CASE PopWait(0)
  <2>1. /\ sem'[0] = sem[0] - 1 /\ \A q \in Queues : q # 0 => sem'[q] = sem[q]
        /\ UNCHANGED <<index, key, received>> /\ \A t \in Threads : t # 0 => pc'[t] = pc[t]
        /\ pc[0] = "wait" /\ pc'[0] = "take"
    BY <1>1, <1>9 DEF PopWait, Running, Goto, Wait
  <2>2. /\ \A t \in Threads : t # 0 => T(t)' = T(t) /\ L(t)' = L(t)
        /\ T(0) = 0 /\ T(0)' = 1
        /\ \A c : Busy(c) = 0 /\ Busy(c)' = 1 /\ N(c)' = N(c)
    BY <1>1, <2>1 DEF Busy, One
  <2> HIDE DEF T, L, N
  <2> QED BY <1>0, <1>2, <1>3, <2>1, <2>2
<1>10. ASSUME NEW k \in Consumers, PopWait(k)
       PROVE  /\ sem'[0] + T(0)' <= index' + L(-1)'
              /\ \A c \in Queues \ {0} :
                    sem'[0] + Busy(c)' + sem'[c] + T(c)' + N(c)' + L(c)' <= index' + L(-1)'
  <2>1. /\ sem'[k] = sem[k] - 1 /\ \A q \in Queues : q # k => sem'[q] = sem[q]
        /\ UNCHANGED <<index, key, received>> /\ \A t \in Threads : t # k => pc'[t] = pc[t]
        /\ pc[k] = "wait" /\ pc'[k] = "take"
    BY <1>1, <1>10 DEF PopWait, Running, Goto, Wait
  <2>2. /\ \A t \in Threads : t # k => T(t)' = T(t)
        /\ \A t \in Threads : L(t)' = L(t)
        /\ T(k) = 0 /\ T(k)' = 1
        /\ \A c : Busy(c)' = Busy(c) /\ N(c)' = N(c)
    BY <1>1, <2>1 DEF Busy, One, Left
  <2> HIDE DEF T, L, N
  <2> QED BY <1>0, <1>2, <1>3, <2>1, <2>2
<1>11. CASE Dispatch
  <2>1. /\ UNCHANGED <<sem, index, received>> /\ \A t \in Threads : t # 0 => pc'[t] = pc[t]
        /\ pc[0] = "take"
    BY <1>1, <1>11 DEF Dispatch, Running, Goto
  <2>2. \A c : Busy(c) = 1
    BY <2>1 DEF Busy, One
  <2>3. /\ \A t \in Threads : T(t)' <= T(t) /\ (t # 0 => L(t)' = L(t))
        /\ \A c : N(c)' = N(c)
    BY <1>1, <2>1 DEF One
  <2> HIDE DEF T, L, N
  <2> QED BY <1>0, <1>2, <1>3, <2>1, <2>2, <2>3
<1>12. CASE DispatchPush \/ StopPush
  <2>1. /\ UNCHANGED <<sem, index, key, received>> /\ \A t \in Threads : t # 0 => pc'[t] = pc[t]
        /\ \/ pc[0] = "push" /\ pc'[0] = "signal"
           \/ pc[0] = "stop" /\ pc'[0] = "stopsignal"
    BY <1>1, <1>12 DEF DispatchPush, StopPush, Running, Goto
  <2>2. \A c : Busy(c)' = Busy(c)
    BY <2>1 DEF Busy
  <2>3. /\ \A t \in Threads : pc'[t] = "take" => pc[t] = "take"
        /\ \A t \in Threads : pc[t] \in Left <=> pc'[t] \in Left
    BY <1>1, <2>1 DEF Left
  <2> QED BY <1>2, <1>5, <2>1, <2>2, <2>3
<1>13. CASE DispatchSignal \/ StopSignal
  <2>1. /\ Signal(key) /\ UNCHANGED <<index, received>> /\ \A t \in Threads : t # 0 => pc'[t] = pc[t]
        /\ \/ pc[0] = "signal" /\ pc'[0] = "wait"
           \/ pc[0] = "stopsignal" /\ pc'[0] = "stop" /\ key' = key + 1
           \/ pc[0] = "stopsignal" /\ pc'[0] = "ended"
    BY <1>1, <1>13 DEF DispatchSignal, StopSignal, Running, Goto
  <2>2. key \in Queues \ {0}
    BY <1>1, <2>1 DEF RolesInOrder
  <2>3. /\ sem'[key] = sem[key] + 1 /\ \A q \in Queues : q # key => sem'[q] = sem[q]
    BY <1>1, <2>1, <2>2 DEF Signal
  <2>4. /\ Busy(key) = 1 /\ \A c : c = key => Busy(c)' = 0
        /\ \A c \in Queues : Busy(c)' <= Busy(c)
    BY <1>1, <2>1, <2>2 DEF Busy, One
  <2>5. /\ \A t \in Threads : T(t)' <= T(t) /\ (t # 0 => L(t)' = L(t))
        /\ \A c : N(c)' = N(c)
    BY <1>1, <2>1 DEF One
  <2> HIDE DEF T, L, N
  <2> QED BY <1>0, <1>2, <1>3, <2>1, <2>2, <2>3, <2>4, <2>5
<1>14. ASSUME NEW k \in Consumers, Consume(k)
       PROVE  /\ sem'[0] + T(0)' <= index' + L(-1)'
              /\ \A c \in Queues \ {0} :
                    sem'[0] + Busy(c)' + sem'[c] + T(c)' + N(c)' + L(c)' <= index' + L(-1)'
  <2>1. /\ pc[k] = "take" /\ \A t \in Threads : t # k => pc'[t] = pc[t]
        /\ pc'[k] \in {"log", "wait"}
        /\ UNCHANGED <<sem, index, key>> /\ Dequeue(k) /\ aborted = "no"
        /\ \/ pc'[k] = "log" /\ received' = received
           \/ pc'[k] = "wait" /\ Front(k) # StopMessage
              /\ received' = [received EXCEPT ![k] = Append(@, Front(k))]
    BY <1>1, <1>14 DEF Consume, Running, Goto
  <2>2. /\ T(k) = 1 /\ T(k)' = 0 /\ L(k) = 0 /\ \A c : Busy(c)' = Busy(c)
        /\ \A t \in Threads : t # k => T(t)' = T(t) /\ L(t)' = L(t)
        /\ L(k)' = IF pc'[k] = "log" THEN 1 ELSE 0
    BY <1>1, <2>1 DEF One, Left, Busy
  <2>3. /\ \A c \in Queues : c # k => N(c)' = N(c)
        /\ N(k)' = IF pc'[k] = "log" THEN N(k) ELSE N(k) + 1
    <3>1. Len(queue[k]) > 0
      BY <2>1, TakerHasMessage
    <3>2. Front(k) \in Messages
      BY <1>1, <2>1, <3>1, DequeueEffect
    <3>3. CASE pc'[k] = "log"
      BY <2>1, <3>3
    <3>4. CASE pc'[k] = "wait"
      <4>1. received[k] \in Seq(Packets) /\ Front(k) \in Packets
        BY <1>1, <2>1, <3>2, <3>4 DEF Messages
      <4>2. Len(Append(received[k], Front(k))) = Len(received[k]) + 1
        BY <4>1, AppendProperties
      <4> QED BY <1>1, <2>1, <3>4, <4>2
    <3> QED BY <2>1, <3>3, <3>4
  <2> HIDE DEF T, L, N
  <2>4. L(k)' + N(k)' = N(k) + 1 /\ N(k)' \in Nat /\ L(k)' \in Nat
    BY <1>0, <1>2, <2>2, <2>3
  <2>5. sem' = sem /\ index' = index /\ k \in Queues \ {0} /\ k # -1 /\ k # 0
    BY <1>0, <2>1
  <2>6. sem'[0] + T(0)' <= index' + L(-1)'
    BY <1>0, <1>2, <1>3, <2>2, <2>5
  <2>7. sem[0] + Busy(k) + sem[k] + 0 + (N(k) + 1) <= index + L(-1)
    BY <1>0, <1>2, <1>3, <2>2, <2>5
  <2>8. sem'[0] + Busy(k)' + sem'[k] + T(k)' + N(k)' + L(k)' <= index' + L(-1)'
    BY <1>0, <1>2, <2>2, <2>4, <2>5, <2>7
  <2>9. ASSUME NEW c \in Queues \ {0}, c # k
        PROVE  sem'[0] + Busy(c)' + sem'[c] + T(c)' + N(c)' + L(c)' <= index' + L(-1)'
    BY <1>0, <1>2, <1>3, <2>2, <2>3, <2>5, <2>9
  <2> QED BY <2>6, <2>8, <2>9
<1>15. ASSUME NEW t \in {-1} \cup Consumers, LogLock(t) \/ LogUnlock(t)
       PROVE  /\ sem'[0] + T(0)' <= index' + L(-1)'
              /\ \A c \in Queues \ {0} :
                    sem'[0] + Busy(c)' + sem'[c] + T(c)' + N(c)' + L(c)' <= index' + L(-1)'
  <2>1. /\ UNCHANGED <<sem, index, key, received>>
        /\ \A u \in Threads : pc'[u] = "take" => pc[u] = "take"
        /\ \A u \in Threads : pc[u] \in Left <=> pc'[u] \in Left
        /\ pc'[0] = pc[0]
    BY <1>1, <1>15 DEF LogLock, LogUnlock, Running, Goto, Left
  <2>2. \A c : Busy(c)' <= Busy(c)
    BY <1>2, <2>1 DEF Busy, One
  <2> QED BY <1>5, <2>1, <2>2
<1> QED BY <1>6, <1>7, <1>8, <1>9, <1>10, <1>11, <1>12, <1>13, <1>14, <1>15
        DEF Next, ProducerStep, DispatcherStep, ConsumerStep

(* The parts of the invariant and the types, for the provers *)
LEMMA Facts ==
  ASSUME IInv
  PROVE  /\ TypeOK /\ RolesInOrder /\ MainInOrder /\ Signalled /\ SignalsBound /\ StopInOrder
         /\ LogInOrder /\ KeysRegistered /\ SentInOrder /\ QueueInOrder /\ StreamInOrder
         /\ -1 \in Threads /\ 0 \in Threads /\ 0 \in Queues
         /\ \A q \in Queues : q \in Threads /\ q # -1 /\ q \in Int /\ q \in Targeted
         /\ \A c \in Consumers : c \in Threads /\ c \in Queues /\ c # 0 /\ c # -1 /\ c \in Targeted
         /\ index \in Nat /\ packageCount \in Nat /\ key \in Nat /\ consumerCount \in Nat
         /\ StopMessage \in Messages /\ StopMessage \notin Packets
         /\ \A m \in Messages : m # StopMessage => m \in Packets
         /\ pc \in [Threads -> {"new", "produce", "wait", "take", "push", "signal", "stop",
                                "stopsignal", "log", "line", "ended", "joined"}]
<1>1. /\ TypeOK /\ RolesInOrder /\ MainInOrder /\ Signalled /\ SignalsBound /\ StopInOrder
      /\ LogInOrder /\ KeysRegistered /\ SentInOrder /\ QueueInOrder /\ StreamInOrder
  BY DEF IInv
<1>2. \A q \in Queues : q \in Threads /\ q # -1 /\ q \in Int /\ q \in Targeted
  BY <1>1, Basics
<1>3. \A c \in Consumers : c \in Threads /\ c \in Queues /\ c # 0 /\ c # -1 /\ c \in Targeted
  BY <1>1, <1>2, Basics
<1>4. \A m \in Messages : m # StopMessage => m \in Packets
  BY DEF Messages
<1> QED BY <1>1, <1>2, <1>3, <1>4, Basics

(* What the producer pushes *)
LEMMA ProduceEffect ==
  ASSUME IInv, Produce
  PROVE  /\ pc[-1] = "produce" /\ pc'[-1] = "signal"
         /\ \A t \in Threads : t # -1 => pc'[t] = pc[t]
         /\ UNCHANGED <<arguments, main, index, holds, key, sem, alive, aborted, logVars, received>>
         /\ \A q \in Queues : q # 0 => queue'[q] = queue[q]
         /\ \E m \in Messages :
              /\ Enqueue(0, m)
              /\ \/ /\ index < packageCount /\ m \in Packets /\ m.number = index
                    /\ m.target \in Targeted /\ m.target \in Targets
                    /\ sent' = [sent EXCEPT ![m.target] = Append(@, m)]
                 \/ index = packageCount /\ m = StopMessage /\ sent' = sent
<1>1. /\ pc[-1] = "produce" /\ pc'[-1] = "signal"
      /\ \A t \in Threads : t # -1 => pc'[t] = pc[t]
      /\ UNCHANGED <<arguments, main, index, holds, key, sem, alive, aborted, logVars, received>>
  BY Facts DEF Produce, Running, Goto
<1>2. CASE index < packageCount
  <2>1. PICK target \in Targets :
          /\ Enqueue(0, NetworkMessage(target, 1, index))
          /\ sent' = [sent EXCEPT ![target] = Append(@, NetworkMessage(target, 1, index))]
    <3>1. index # packageCount
      BY <1>2, Facts
    <3> QED BY <1>2, <3>1 DEF Produce
  <2>2. /\ NetworkMessage(target, 1, index) \in Packets
        /\ NetworkMessage(target, 1, index) \in Messages
        /\ NetworkMessage(target, 1, index).target = target
        /\ NetworkMessage(target, 1, index).number = index
        /\ target \in Targeted
    BY <1>2, Facts, ProducedIsPacket, Basics
  <2>3. \A q \in Queues : q # 0 => queue'[q] = queue[q]
    BY <2>1, <2>2, Facts, EnqueueEffect
  <2> QED BY <1>1, <1>2, <2>1, <2>2, <2>3
<1>3. CASE ~(index < packageCount)
  <2>1. index = packageCount /\ Enqueue(0, StopMessage) /\ sent' = sent
    BY <1>3 DEF Produce
  <2>2. \A q \in Queues : q # 0 => queue'[q] = queue[q]
    BY <2>1, Facts, EnqueueEffect
  <2> QED BY <1>1, <2>1, <2>2, Facts
<1> QED BY <1>2, <1>3

(* What the dispatcher takes *)
LEMMA DispatchEffect ==
  ASSUME IInv, Dispatch
  PROVE  /\ pc[0] = "take" /\ aborted = "no" /\ Dequeue(0) /\ Len(queue[0]) > 0 /\ 0 \in Queues
         /\ \A t \in Threads : t # 0 => pc'[t] = pc[t]
         /\ UNCHANGED <<arguments, main, index, sem, alive, logVars, sent, received>>
         /\ \A q \in Queues : q # 0 => queue'[q] = queue[q]
         /\ \/ /\ Front(0) = StopMessage /\ aborted' = "no" /\ holds' = holds
               /\ \/ pc'[0] = "ended" /\ Consumers = {}
                  \/ pc'[0] = "stop" /\ key' = 1
            \/ /\ Front(0) # StopMessage /\ Front(0).target \in Consumers /\ aborted' = "no"
               /\ pc'[0] = "push" /\ holds' = Front(0) /\ key' = Front(0).target
            \/ /\ Front(0) # StopMessage /\ Front(0).target \notin Consumers /\ aborted' = "key"
               /\ pc'[0] = "take" /\ UNCHANGED <<holds, key>>
<1>1. /\ pc[0] = "take" /\ aborted = "no" /\ Dequeue(0)
      /\ UNCHANGED <<arguments, main, index, sem, alive, logVars, sent, received>>
  BY DEF Dispatch, Running
<1>2. Len(queue[0]) > 0
  BY <1>1, TakerHasMessage
<1>3. \A q \in Queues : q # 0 => queue'[q] = queue[q]
  BY <1>1, <1>2, Facts, DequeueEffect
<1>4. \A t \in Threads : t # 0 => pc'[t] = pc[t]
  BY Facts DEF Dispatch, Goto
<1>5. \/ /\ Front(0) = StopMessage /\ aborted' = "no" /\ holds' = holds
         /\ \/ pc'[0] = "ended" /\ Consumers = {}
            \/ pc'[0] = "stop" /\ key' = 1
      \/ /\ Front(0) # StopMessage /\ Front(0).target \in Consumers /\ aborted' = "no"
         /\ pc'[0] = "push" /\ holds' = Front(0) /\ key' = Front(0).target
      \/ /\ Front(0) # StopMessage /\ Front(0).target \notin Consumers /\ aborted' = "key"
         /\ pc'[0] = "take" /\ UNCHANGED <<holds, key>>
  BY <1>1, Facts DEF Dispatch, Goto
<1> QED BY <1>1, <1>2, <1>3, <1>4, <1>5, Facts

(* What the dispatcher pushes *)
LEMMA PushEffect ==
  ASSUME IInv, DispatchPush \/ StopPush
  PROVE  /\ UNCHANGED <<arguments, main, index, holds, key, sem, alive, aborted, logVars, sent, received>>
         /\ \A t \in Threads : t # 0 => pc'[t] = pc[t]
         /\ key \in Consumers /\ key \in Queues /\ key # 0
         /\ \A q \in Queues : q # key => queue'[q] = queue[q]
         /\ \E m \in Messages :
              /\ Enqueue(key, m)
              /\ \/ pc[0] = "push" /\ pc'[0] = "signal" /\ m = holds /\ m \in Packets
                 \/ pc[0] = "stop" /\ pc'[0] = "stopsignal" /\ m = StopMessage
<1>1. /\ UNCHANGED <<arguments, main, index, holds, key, sem, alive, aborted, logVars, sent, received>>
      /\ \A t \in Threads : t # 0 => pc'[t] = pc[t]
      /\ \/ pc[0] = "push" /\ pc'[0] = "signal" /\ Enqueue(key, holds)
         \/ pc[0] = "stop" /\ pc'[0] = "stopsignal" /\ Enqueue(key, StopMessage)
  BY Facts DEF DispatchPush, StopPush, Running, Goto
<1>2. key \in Consumers /\ key \in Queues /\ key # 0
  BY <1>1, Facts DEF RolesInOrder
<1>3. pc[0] = "push" => holds \in Packets
  <2>1. ASSUME pc[0] = "push"
        PROVE  Handed(key) <= Len(sent[key]) /\ holds = sent[key][Handed(key)]
    BY <1>2, <2>1, Facts DEF StreamInOrder, Holding
  <2>2. pc[0] = "push" => Handed(key) \in Nat /\ Handed(key) >= 1
    <3>1. Len(received[key]) \in Nat /\ Len(queue[key]) \in Nat
      BY <1>2, Facts, QueueTypes
    <3>2. SUFFICES ASSUME pc[0] = "push" PROVE Handed(key) \in Nat /\ Handed(key) >= 1
      OBVIOUS
    <3>3. Handed(key) = Len(received[key]) + Len(queue[key]) + 1
      BY <3>2 DEF Handed, Holding, One
    <3>4. ASSUME NEW r \in Nat, NEW l \in Nat PROVE r + l + 1 \in Nat /\ r + l + 1 >= 1
      OBVIOUS
    <3> QED BY ONLY <3>1, <3>3, <3>4, Zenon
  <2> QED BY <1>2, <2>1, <2>2, Facts, SentTypes
<1>4. \E m \in Messages :
        /\ Enqueue(key, m)
        /\ \/ pc[0] = "push" /\ pc'[0] = "signal" /\ m = holds /\ m \in Packets
           \/ pc[0] = "stop" /\ pc'[0] = "stopsignal" /\ m = StopMessage
  BY <1>1, <1>3, Facts DEF Messages
<1>5. \A q \in Queues : q # key => queue'[q] = queue[q]
  BY <1>2, <1>4, Facts, EnqueueEffect
<1> QED BY <1>1, <1>2, <1>4, <1>5

(* What a consumer takes *)
LEMMA ConsumeEffect ==
  ASSUME IInv, NEW c \in Consumers, Consume(c)
  PROVE  /\ pc[c] = "take" /\ aborted = "no" /\ aborted' = "no" /\ Dequeue(c)
         /\ Len(queue[c]) > 0 /\ c \in Queues
         /\ \A t \in Threads : t # c => pc'[t] = pc[t]
         /\ UNCHANGED <<arguments, main, index, holds, key, sem, alive, logVars, sent>>
         /\ \A q \in Queues : q # c => queue'[q] = queue[q] /\ received'[q] = received[q]
         /\ \/ Front(c) = StopMessage /\ pc'[c] = "log" /\ received' = received
            \/ /\ Front(c) # StopMessage /\ Front(c) \in Packets /\ pc'[c] = "wait"
               /\ received'[c] = Append(received[c], Front(c))
               /\ received' \in [Queues -> Seq(Packets)]
<1>1. /\ pc[c] = "take" /\ aborted = "no" /\ aborted' = "no" /\ Dequeue(c)
      /\ \A t \in Threads : t # c => pc'[t] = pc[t]
      /\ UNCHANGED <<arguments, main, index, holds, key, sem, alive, logVars, sent>>
      /\ \/ Front(c) = StopMessage /\ pc'[c] = "log" /\ received' = received
         \/ /\ Front(c) # StopMessage /\ pc'[c] = "wait"
            /\ received' = [received EXCEPT ![c] = Append(@, Front(c))]
  BY Facts DEF Consume, Running, Goto
<1>2. Len(queue[c]) > 0 /\ c \in Queues
  BY <1>1, TakerHasMessage
<1>3. Front(c) \in Messages /\ \A q \in Queues : q # c => queue'[q] = queue[q]
  BY <1>1, <1>2, Facts, DequeueEffect
<1>4. received \in [Queues -> Seq(Packets)]
  BY Facts DEF TypeOK
<1>5. Front(c) # StopMessage => Front(c) \in Packets /\ Append(received[c], Front(c)) \in Seq(Packets)
  BY <1>2, <1>3, <1>4, Facts, AppendProperties
<1>6. \A q \in Queues : q # c => received'[q] = received[q]
  BY <1>1, <1>4
<1> QED BY <1>1, <1>2, <1>3, <1>4, <1>5, <1>6

(* The stop message and what it closes, when no queue changes *)
LEMMA StopStays ==
  ASSUME IInv, queue' = queue, Closed => Closed', Consumers' = Consumers,
         Stopping' => Stopping /\ pc'[-1] # "signal",
         \A c \in Consumers : StopSent(c) => StopSent(c)',
         \A c \in Consumers : pc'[c] \in Left => pc[c] \in Left
  PROVE  StopInOrder'
<1>1. StopInOrder
  BY DEF IInv
<1> QED BY <1>1 DEF StopInOrder

(* Nothing follows a stop message. *)
LEMMA StopNext ==
  ASSUME IInv, Next
  PROVE  StopInOrder'
<1>1. StopInOrder /\ Signalled /\ RolesInOrder /\ \A q \in Queues : Len(queue[q]) \in Nat /\ sem[q] \in Nat
  BY Facts, QueueTypes
<1>2. arguments' = arguments
  BY DEF Next, MainStep, ProducerStep, DispatcherStep, ConsumerStep, AnalyzeArguments, StartThread,
         WaitToFinish, Delete, Produce, ProduceSignal, PopWait, Dispatch, DispatchPush,
         DispatchSignal, StopPush, StopSignal, Consume, LogLock, LogUnlock
<1>3. Consumers' = Consumers /\ packageCount' = packageCount
  BY <1>2 DEF arguments, Consumers
<1>4. pc[-1] = "produce" \/ (pc[-1] = "signal" /\ index < packageCount) =>
        ~Closed /\ ~Stopping /\ \A i \in 1 .. Len(queue[0]) : queue[0][i] # StopMessage
  BY <1>1, Facts DEF StopInOrder, Closed, Left
<1>5. pc[0] \in {"wait", "take", "push", "signal"} =>
        /\ ~Stopping
        /\ \A c \in Consumers : /\ ~StopSent(c) /\ pc[c] \notin Left
                                /\ \A i \in 1 .. Len(queue[c]) : queue[c][i] # StopMessage
  BY <1>1 DEF StopInOrder, Stopping, StopSent
<1>6. CASE MainStep
  <2>1. queue' = queue /\ index' = index /\ key' = key
    BY <1>6, MainMoves
  <2>2. /\ \A t \in Threads : pc'[t] \in Left <=> pc[t] \in Left
        /\ pc'[-1] = "signal" <=> pc[-1] = "signal"
        /\ pc'[0] \in {"stop", "stopsignal"} \/ pc[0] \in {"stop", "stopsignal"} => pc'[0] = pc[0]
        /\ pc'[0] \in {"ended", "joined"} <=> pc[0] \in {"ended", "joined"}
    BY <1>6, MainMoves, Facts DEF Left
  <2>3. Closed' <=> Closed
    BY <1>3, <2>1, <2>2, Facts DEF Closed
  <2>4. (Stopping' <=> Stopping) /\ \A c : StopSent(c)' <=> StopSent(c)
    BY <2>1, <2>2 DEF Stopping, StopSent
  <2> QED BY <1>1, <1>3, <2>1, <2>2, <2>3, <2>4, Facts, StopStays DEF StopInOrder
<1>7. CASE Produce
  <2>1. /\ pc[-1] = "produce" /\ pc'[-1] = "signal"
        /\ \A t \in Threads : t # -1 => pc'[t] = pc[t]
        /\ UNCHANGED <<index, key>> /\ \A q \in Queues : q # 0 => queue'[q] = queue[q]
    BY <1>7, ProduceEffect
  <2>2. PICK m \in Messages : /\ Enqueue(0, m) /\ (m = StopMessage => index = packageCount)
    BY <1>7, ProduceEffect, Facts
  <2>3. /\ ~Closed /\ ~Stopping /\ ~Stopping'
        /\ (m = StopMessage => Closed')
        /\ \A c \in Consumers : (StopSent(c)' <=> StopSent(c)) /\ pc'[c] = pc[c]
    BY <1>3, <1>4, <2>1, <2>2, Facts DEF Closed, Stopping, StopSent
  <2>4. \A i \in 1 .. Len(queue'[0]) : queue'[0][i] = StopMessage => i = Len(queue'[0]) /\ m = StopMessage
    <3>1. \A i \in 1 .. Len(queue[0]) : queue[0][i] # StopMessage
      BY <1>4, <2>1
    <3>2. /\ Len(queue'[0]) = Len(queue[0]) + 1
          /\ \A i \in 1 .. Len(queue'[0]) : \/ i = Len(queue[0]) + 1 /\ queue'[0][i] = m
                                            \/ i \in 1 .. Len(queue[0]) /\ queue'[0][i] = queue[0][i]
      BY <2>2, Facts, EnqueueEffect
    <3> QED BY <3>1, <3>2
  <2>5. \A q \in Queues : \A i \in 1 .. Len(queue'[q]) :
          queue'[q][i] = StopMessage => i = Len(queue'[q])
    BY <1>1, <2>1, <2>4 DEF StopInOrder
  <2>6. \A c \in Consumers : queue'[c] = queue[c]
    BY <2>1, Facts
  <2> QED BY <1>1, <1>3, <2>3, <2>4, <2>5, <2>6 DEF StopInOrder
<1>8. CASE ProduceSignal
  <2>1. /\ pc[-1] = "signal" /\ queue' = queue /\ key' = key
        /\ \A t \in Threads : t # -1 => pc'[t] = pc[t]
        /\ \/ index < packageCount /\ index' = index + 1 /\ pc'[-1] = "produce"
           \/ index = packageCount /\ index' = index /\ pc'[-1] = "log"
    BY <1>8, Facts DEF ProduceSignal, Running, Goto
  <2>2. ~Stopping
    BY <1>1, <2>1 DEF StopInOrder
  <2>3. Closed => Closed'
    BY <1>3, <2>1, Facts DEF Closed, Left
  <2> QED BY <1>3, <2>1, <2>2, <2>3, Facts, StopStays DEF Stopping, StopSent
<1>9. ASSUME NEW t \in {0} \cup Consumers, PopWait(t) PROVE StopInOrder'
  <2>1. /\ queue' = queue /\ key' = key /\ index' = index
        /\ pc[t] = "wait" /\ pc'[t] = "take" /\ \A u \in Threads : u # t => pc'[u] = pc[u]
    BY <1>9, Facts DEF PopWait, Running, Goto
  <2>2. /\ pc'[-1] = pc[-1] /\ (Stopping' <=> Stopping) /\ \A c : StopSent(c)' <=> StopSent(c)
        /\ \A c \in Consumers : pc'[c] \in Left <=> pc[c] \in Left
    BY <2>1, Facts DEF Stopping, StopSent, Left
  <2> QED BY <1>1, <1>3, <2>1, <2>2, Facts, StopStays DEF StopInOrder, Closed
<1>10. CASE Dispatch
  <2>1. /\ pc[0] = "take" /\ aborted = "no" /\ Dequeue(0) /\ Len(queue[0]) > 0
        /\ \A t \in Threads : t # 0 => pc'[t] = pc[t]
        /\ UNCHANGED <<index, sem>>
        /\ \A q \in Queues : q # 0 => queue'[q] = queue[q]
        /\ Front(0) # StopMessage => pc'[0] \in {"push", "take"}
    BY <1>10, DispatchEffect
  <2>2. /\ Len(queue'[0]) = Len(queue[0]) - 1 /\ Len(queue'[0]) \in Nat /\ Front(0) = queue[0][1]
        /\ 1 \in 1 .. Len(queue[0])
        /\ \A i \in 1 .. Len(queue'[0]) : i + 1 \in 1 .. Len(queue[0]) /\ queue'[0][i] = queue[0][i + 1]
    BY <1>1, <2>1, Facts, DequeueEffect
  <2>3. /\ ~Stopping /\ (Closed' <=> Closed) /\ pc'[-1] = pc[-1]
        /\ \A c \in Consumers : /\ pc'[c] = pc[c] /\ pc[c] \notin Left
                                /\ \A i \in 1 .. Len(queue'[c]) : queue'[c][i] # StopMessage
    BY <1>3, <1>5, <2>1, Facts DEF Closed
  <2>4. \A i \in 1 .. Len(queue'[0]) :
          queue'[0][i] = StopMessage => i = Len(queue'[0]) /\ Closed
    BY <1>1, <2>2, Facts, SMTT(20) DEF StopInOrder
  <2>5. \A q \in Queues : \A i \in 1 .. Len(queue'[q]) :
          queue'[q][i] = StopMessage => i = Len(queue'[q])
    BY <1>1, <2>1, <2>4 DEF StopInOrder
  <2>6. Stopping' => Closed /\ pc[-1] # "signal" /\ queue'[0] = << >>
    <3>1. SUFFICES ASSUME Front(0) = StopMessage
                   PROVE  Closed /\ pc[-1] # "signal" /\ queue'[0] = << >>
      BY <2>1 DEF Stopping
    <3>2. Len(queue[0]) = 1 /\ Closed
      BY <1>1, <2>2, <3>1, Facts DEF StopInOrder
    <3>3. Len(queue[0]) = sem[0] + One(pc[0] = "take") + One(pc[-1] = "signal")
      BY <1>1, <2>1 DEF Signalled
    <3>4. pc[-1] # "signal"
      <4>1. sem[0] \in Nat
        BY <1>1, Facts
      <4>2. pc[-1] = "signal" => Len(queue[0]) = sem[0] + 1 + 1
        BY <2>1, <3>3 DEF One
      <4> QED BY <3>2, <4>1, <4>2
    <3>5. queue'[0] \in Seq(Messages) /\ Len(queue'[0]) = 0
      BY <2>1, <2>2, <3>2, Facts, DequeueEffect
    <3> QED BY <3>2, <3>4, <3>5, EmptySeq
  <2> QED BY <1>3, <2>3, <2>4, <2>5, <2>6 DEF StopInOrder
<1>11. CASE DispatchPush \/ StopPush
  <2>1. /\ UNCHANGED <<index, key>> /\ key \in Consumers /\ key \in Queues /\ key # 0
        /\ \A t \in Threads : t # 0 => pc'[t] = pc[t]
        /\ \A q \in Queues : q # key => queue'[q] = queue[q]
    BY <1>11, PushEffect
  <2>2. PICK m \in Messages :
          /\ Enqueue(key, m)
          /\ \/ pc[0] = "push" /\ pc'[0] = "signal" /\ m # StopMessage
             \/ pc[0] = "stop" /\ pc'[0] = "stopsignal" /\ m = StopMessage
    BY <1>11, PushEffect, Facts
  <2>3. /\ (Closed' <=> Closed) /\ pc'[-1] = pc[-1] /\ queue'[0] = queue[0]
        /\ (Stopping' <=> Stopping) /\ \A c \in Consumers : pc'[c] = pc[c]
    BY <1>3, <2>1, <2>2, Facts DEF Closed, Stopping
  <2>4. ~StopSent(key) /\ \A c \in Consumers : StopSent(c) => StopSent(c)'
    BY <2>1, <2>2, Facts DEF StopSent
  <2>5. /\ pc[key] \notin Left
        /\ \A i \in 1 .. Len(queue[key]) : queue[key][i] # StopMessage
    BY <1>1, <2>1, <2>4 DEF StopInOrder
  <2>6. \A i \in 1 .. Len(queue'[key]) :
          queue'[key][i] = StopMessage => i = Len(queue'[key]) /\ StopSent(key)'
    <3>1. m = StopMessage => StopSent(key)'
      BY <2>1, <2>2, Facts DEF StopSent
    <3>2. /\ Len(queue'[key]) = Len(queue[key]) + 1
          /\ \A i \in 1 .. Len(queue'[key]) : \/ i = Len(queue[key]) + 1 /\ queue'[key][i] = m
                                              \/ i \in 1 .. Len(queue[key]) /\ queue'[key][i] = queue[key][i]
      BY <2>1, <2>2, Facts, EnqueueEffect
    <3> QED BY <2>5, <3>1, <3>2
  <2>7. \A q \in Queues : \A i \in 1 .. Len(queue'[q]) :
          queue'[q][i] = StopMessage => i = Len(queue'[q])
    BY <1>1, <2>1, <2>6 DEF StopInOrder
  <2>8. \A c \in Consumers : \A i \in 1 .. Len(queue'[c]) : queue'[c][i] = StopMessage => StopSent(c)'
    BY <1>1, <2>1, <2>4, <2>6, Facts DEF StopInOrder
  <2>9. \A c \in Consumers : pc'[c] \in Left => StopSent(c)' /\ queue'[c] = << >>
    BY <1>1, <2>1, <2>3, <2>4, <2>5, Facts DEF StopInOrder
  <2> QED BY <1>1, <1>3, <2>3, <2>7, <2>8, <2>9 DEF StopInOrder
<1>12. CASE DispatchSignal \/ StopSignal
  <2>1. /\ queue' = queue /\ index' = index /\ \A t \in Threads : t # 0 => pc'[t] = pc[t]
        /\ \/ pc[0] = "signal" /\ pc'[0] = "wait" /\ key' = key
           \/ pc[0] = "stopsignal" /\ pc'[0] = "stop" /\ key' = key + 1
           \/ pc[0] = "stopsignal" /\ pc'[0] = "ended"
    BY <1>12, Facts DEF DispatchSignal, StopSignal, Running, Goto
  <2>2. /\ (Stopping' <=> Stopping) /\ \A c \in Consumers : StopSent(c) => StopSent(c)'
        /\ pc'[-1] = pc[-1] /\ \A c \in Consumers : pc'[c] = pc[c]
    BY <2>1, Facts DEF Stopping, StopSent
  <2> QED BY <1>1, <1>3, <2>1, <2>2, Facts, StopStays DEF StopInOrder, Closed
<1>13. ASSUME NEW k \in Consumers, Consume(k) PROVE StopInOrder'
  <2>1. /\ pc[k] = "take" /\ Dequeue(k) /\ Len(queue[k]) > 0 /\ k \in Queues
        /\ \A t \in Threads : t # k => pc'[t] = pc[t]
        /\ UNCHANGED <<index, key>>
        /\ \A q \in Queues : q # k => queue'[q] = queue[q]
        /\ \/ Front(k) = StopMessage /\ pc'[k] = "log"
           \/ pc'[k] = "wait"
    BY <1>13, ConsumeEffect
  <2>2. /\ Len(queue'[k]) = Len(queue[k]) - 1 /\ Len(queue'[k]) \in Nat /\ Front(k) = queue[k][1]
        /\ 1 \in 1 .. Len(queue[k])
        /\ \A i \in 1 .. Len(queue'[k]) : i + 1 \in 1 .. Len(queue[k]) /\ queue'[k][i] = queue[k][i + 1]
        /\ queue'[k] \in Seq(Messages)
    BY <1>1, <2>1, Facts, DequeueEffect, SMTT(20)
  <2>3. /\ (Closed' <=> Closed) /\ pc'[-1] = pc[-1] /\ queue'[0] = queue[0] /\ pc'[0] = pc[0]
        /\ (Stopping' <=> Stopping) /\ \A c \in Consumers : StopSent(c)' <=> StopSent(c)
    BY <1>3, <2>1, Facts DEF Closed, Stopping, StopSent
  <2>4. \A i \in 1 .. Len(queue'[k]) :
          queue'[k][i] = StopMessage => i = Len(queue'[k]) /\ StopSent(k)
    <3>1. \A i \in 1 .. Len(queue[k]) : queue[k][i] = StopMessage => i = Len(queue[k]) /\ StopSent(k)
      BY <1>1, <2>1 DEF StopInOrder
    <3>2. \A i \in 1 .. Len(queue'[k]) : queue'[k][i] = StopMessage => i + 1 = Len(queue[k]) /\ StopSent(k)
      BY <2>2, <3>1
    <3>3. Len(queue[k]) \in Nat
      BY <1>1, <2>1
    <3> QED BY <2>2, <3>2, <3>3
  <2>5. \A q \in Queues : \A i \in 1 .. Len(queue'[q]) :
          queue'[q][i] = StopMessage => i = Len(queue'[q])
    BY <1>1, <2>1, <2>4 DEF StopInOrder
  <2>6. pc'[k] \in Left => StopSent(k) /\ queue'[k] = << >>
    <3>1. SUFFICES ASSUME Front(k) = StopMessage PROVE StopSent(k) /\ queue'[k] = << >>
      BY <2>1 DEF Left
    <3>2. Len(queue[k]) = 1 /\ StopSent(k)
      BY <1>1, <2>1, <2>2, <3>1 DEF StopInOrder
    <3> QED BY <2>2, <3>2, EmptySeq
  <2>7. \A c \in Consumers : c # k => pc'[c] = pc[c] /\ queue'[c] = queue[c]
    BY <2>1, Facts
  <2> QED BY <1>1, <1>3, <2>3, <2>4, <2>5, <2>6, <2>7 DEF StopInOrder
<1>14. ASSUME NEW t \in {-1} \cup Consumers, LogLock(t) \/ LogUnlock(t) PROVE StopInOrder'
  <2>1. /\ queue' = queue /\ key' = key /\ index' = index
        /\ pc[t] \in Left /\ pc'[t] \in Left \ {"joined"} /\ \A u \in Threads : u # t => pc'[u] = pc[u]
    BY <1>14, Facts DEF LogLock, LogUnlock, Running, Goto, Left
  <2>2. /\ (pc'[-1] = "signal" <=> pc[-1] = "signal") /\ (Stopping' <=> Stopping)
        /\ (Closed' <=> Closed) /\ \A c : StopSent(c)' <=> StopSent(c)
        /\ \A c \in Consumers : pc'[c] \in Left <=> pc[c] \in Left
    BY <1>3, <2>1, Facts DEF Stopping, StopSent, Left, Closed
  <2> QED BY <1>1, <1>3, <2>1, <2>2, Facts, StopStays DEF StopInOrder
<1> QED BY <1>6, <1>7, <1>8, <1>9, <1>10, <1>11, <1>12, <1>13, <1>14
        DEF Next, ProducerStep, DispatcherStep, ConsumerStep

(* The command line does not change, nor does an exception go away. *)
LEMMA ArgumentsStay ==
  ASSUME Next
  PROVE  /\ argsOK' = argsOK /\ packageCount' = packageCount /\ consumerCount' = consumerCount
         /\ Consumers' = Consumers /\ (aborted' = "no" => aborted = "no")
<1>1. arguments' = arguments /\ (aborted' = "no" => aborted = "no")
  BY DEF Next, MainStep, ProducerStep, DispatcherStep, ConsumerStep, AnalyzeArguments, StartThread,
         WaitToFinish, Delete, Produce, ProduceSignal, PopWait, Dispatch, DispatchPush,
         DispatchSignal, StopPush, StopSignal, Consume, LogLock, LogUnlock, Running
<1> QED BY <1>1 DEF arguments, Consumers

(* The steps that write nothing in the log *)
LEMMA LogStays ==
  ASSUME IInv, Next, UNCHANGED logVars,
         \A t \in Threads : /\ pc'[t] = "line" <=> pc[t] = "line"
                            /\ pc'[t] \in {"ended", "joined"} <=> pc[t] \in {"ended", "joined"},
         \A t \in Consumers : pc[t] \in {"ended", "joined"} => received'[t] = received[t]
  PROVE  LogInOrder'
<1>1. LogInOrder /\ packageCount' = packageCount /\ Consumers' = Consumers
      /\ (aborted' = "no" => aborted = "no")
  BY Facts, ArgumentsStay
<1>2. Logged' = Logged
  BY <1>1, Facts DEF Logged
<1>3. \A t \in Logged : t = -1 \/ received'[t] = received[t]
  BY DEF Logged
<1>4. line' = line /\ log' = log /\ writer' = writer
  BY DEF logVars
<1> QED BY <1>1, <1>2, <1>3, <1>4 DEF LogInOrder

(* The log has a line of each thread that has written its record. *)
LEMMA LogNext ==
  ASSUME IInv, Next
  PROVE  LogInOrder'
<1>1. CASE MainStep
  BY <1>1, MainMoves, LogStays
<1>2. CASE Produce \/ ProduceSignal
  <2>1. /\ UNCHANGED logVars /\ received' = received /\ \A t \in Threads : t # -1 => pc'[t] = pc[t]
        /\ pc[-1] \in {"produce", "signal"} /\ pc'[-1] \in {"produce", "signal", "log"}
    BY <1>2, Facts DEF Produce, ProduceSignal, Running, Goto
  <2> QED BY <2>1, LogStays
<1>3. ASSUME NEW t \in {0} \cup Consumers, PopWait(t) PROVE LogInOrder'
  <2>1. /\ UNCHANGED logVars /\ received' = received /\ \A u \in Threads : u # t => pc'[u] = pc[u]
        /\ pc[t] = "wait" /\ pc'[t] = "take"
    BY <1>3, Facts DEF PopWait, Running, Goto
  <2> QED BY <2>1, LogStays
<1>4. CASE Dispatch \/ DispatchPush \/ DispatchSignal \/ StopPush \/ StopSignal
  <2>1. /\ UNCHANGED logVars /\ received' = received /\ \A t \in Threads : t # 0 => pc'[t] = pc[t]
        /\ pc[0] \in {"take", "push", "signal", "stop", "stopsignal"}
        /\ pc'[0] \in {"take", "push", "signal", "stop", "stopsignal", "wait", "ended"}
    BY <1>4, Facts DEF Dispatch, DispatchPush, DispatchSignal, StopPush, StopSignal, Running, Goto
  <2>2. LogInOrder /\ packageCount' = packageCount /\ Consumers' = Consumers
        /\ (aborted' = "no" => aborted = "no")
    BY Facts, ArgumentsStay
  <2>3. Logged' = Logged
    BY <2>1, <2>2, Facts DEF Logged
  <2>4. line' = line /\ log' = log /\ writer' = writer
    BY <2>1 DEF logVars
  <2> QED BY <2>1, <2>2, <2>3, <2>4, Facts DEF LogInOrder
<1>5. ASSUME NEW c \in Consumers, Consume(c) PROVE LogInOrder'
  <2>1. /\ UNCHANGED logVars /\ \A u \in Threads : u # c => pc'[u] = pc[u]
        /\ pc[c] = "take" /\ pc'[c] \in {"log", "wait"}
        /\ \A q \in Queues : q # c => received'[q] = received[q]
    BY <1>5, ConsumeEffect
  <2> QED BY <2>1, Facts, LogStays
<1>6. ASSUME NEW t \in {-1} \cup Consumers, LogLock(t) PROVE LogInOrder'
  <2>1. /\ pc[t] = "log" /\ pc'[t] = "line" /\ \A u \in Threads : u # t => pc'[u] = pc[u]
        /\ writer = -2 /\ writer' = t /\ line' = Append(line, t) /\ log' = log
        /\ received' = received /\ t \in Threads /\ aborted = "no"
    BY <1>6, Facts DEF LogLock, Running, Goto
  <2>2. LogInOrder /\ packageCount' = packageCount /\ Consumers' = Consumers
    BY Facts, ArgumentsStay
  <2>3. Logged' = Logged
    BY <2>1, <2>2, Facts DEF Logged
  <2>4. line' = <<t>>
    BY <2>1, <2>2 DEF LogInOrder
  <2>5. t # -2
    BY <2>1, Facts, Basics
  <2>6. \A u \in Threads : pc'[u] = "line" <=> u = t
    <3>1. \A u \in Threads : pc[u] # "line"
      BY <2>1, <2>2, Facts, Basics DEF LogInOrder
    <3> QED BY <2>1, <3>1
  <2> QED BY <2>1, <2>2, <2>3, <2>4, <2>5, <2>6 DEF LogInOrder
<1>7. ASSUME NEW t \in {-1} \cup Consumers, LogUnlock(t) PROVE LogInOrder'
  <2>1. /\ pc[t] = "line" /\ \A u \in Threads : u # t => pc'[u] = pc[u]
        /\ writer' = -2 /\ line' = << >> /\ received' = received /\ t \in Threads /\ aborted = "no"
        /\ \/ /\ log' = log \cup {<<line, IF t = -1 THEN packageCount ELSE Len(received[t])>>}
              /\ pc'[t] = "ended"
           \/ aborted' = "log" /\ log' = log /\ pc' = pc
    BY <1>7, Facts DEF LogUnlock, Running, Goto
  <2>2. LogInOrder /\ packageCount' = packageCount /\ Consumers' = Consumers
    BY Facts, ArgumentsStay
  <2>3. writer = t /\ t # -2 /\ line = <<t>> /\ -2 \notin Threads
    BY <2>1, <2>2, Facts, Basics DEF LogInOrder
  <2>4. CASE aborted' = "log" /\ log' = log /\ pc' = pc
    BY <2>1, <2>2, <2>4 DEF LogInOrder, Logged
  <2>5. CASE /\ log' = log \cup {<<line, IF t = -1 THEN packageCount ELSE Len(received[t])>>}
             /\ pc'[t] = "ended"
    <3>1. Logged' = Logged \cup {t}
      BY <2>1, <2>2, <2>5, Facts DEF Logged
    <3>2. \A u \in Threads : pc'[u] # "line"
      BY <2>1, <2>2, <2>3, <2>5 DEF LogInOrder
    <3>3. log' = {<<<<u>>, IF u = -1 THEN packageCount' ELSE Len(received'[u])>> : u \in Logged'}
      BY <2>1, <2>2, <2>3, <2>5, <3>1 DEF LogInOrder
    <3>4. \A u \in Threads : pc'[u] = "line" <=> writer' = u
      BY <2>1, <2>3, <3>2
    <3> QED BY <2>1, <3>3, <3>4 DEF LogInOrder
  <2> QED BY <2>1, <2>4, <2>5
<1> QED BY <1>1, <1>2, <1>3, <1>4, <1>5, <1>6, <1>7
        DEF Next, ProducerStep, DispatcherStep, ConsumerStep

(* The targets of the packets fit, so each has a queue. *)
LEMMA TargetsFit ==
  ASSUME IInv, consumerCount \in 1 .. UInt16 - 1, NEW target \in Targets
  PROVE  target \in Consumers
<1>1. consumerCount \in Nat /\ UInt16 \in Nat /\ consumerCount # 0 /\ consumerCount < UInt16
  BY Facts, Basics
<1>2. PICK r \in 0 .. consumerCount - 1 : target = (1 + r) % UInt16
  BY <1>1 DEF Targets
<1>3. (1 + r) % UInt16 = 1 + r
  <2>1. 1 + r \in 0 .. UInt16 - 1 /\ UInt16 \in Nat \ {0}
    BY <1>1, <1>2
  <2>2. ASSUME NEW a \in Nat, NEW b \in Nat \ {0}, a < b PROVE a % b = a
    BY <2>2
  <2> QED BY <2>1, <2>2
<1> QED BY <1>1, <1>2, <1>3 DEF Consumers

(* The dispatcher knows the target of every packet in its queue. *)
LEMMA KeysNext ==
  ASSUME IInv, Next
  PROVE  KeysRegistered'
<1>1. SUFFICES ASSUME consumerCount \in 1 .. UInt16 - 1
               PROVE  /\ aborted' # "key"
                      /\ \A i \in 1 .. Len(queue'[0]) :
                           queue'[0][i] # StopMessage => queue'[0][i].target \in Consumers
  BY ArgumentsStay DEF KeysRegistered
<1>2. /\ aborted # "key"
      /\ \A i \in 1 .. Len(queue[0]) : queue[0][i] # StopMessage => queue[0][i].target \in Consumers
  BY <1>1, Facts DEF KeysRegistered
<1>3. CASE queue'[0] = queue[0] /\ aborted' \in {aborted, "log"}
  BY <1>2, <1>3
<1>4. CASE MainStep
  BY <1>3, <1>4, MainMoves
<1>5. CASE Produce
  <2>1. PICK m \in Messages : Enqueue(0, m) /\ (m # StopMessage => m.target \in Consumers)
    BY <1>1, <1>5, ProduceEffect, TargetsFit
  <2>2. aborted' = aborted
    BY <1>5, ProduceEffect
  <2> QED BY <1>2, <2>1, <2>2, Facts, EnqueueEffect
<1>6. CASE ProduceSignal \/ DispatchSignal \/ StopSignal
  BY <1>3, <1>6 DEF ProduceSignal, DispatchSignal, StopSignal
<1>7. CASE Dispatch
  <2>1. /\ Dequeue(0) /\ Len(queue[0]) > 0
        /\ \/ aborted' = "no"
           \/ Front(0) # StopMessage /\ Front(0).target \notin Consumers
    BY <1>7, DispatchEffect
  <2>2. /\ Front(0) = queue[0][1] /\ 1 \in 1 .. Len(queue[0])
        /\ \A i \in 1 .. Len(queue'[0]) : i + 1 \in 1 .. Len(queue[0]) /\ queue'[0][i] = queue[0][i + 1]
    BY <2>1, Facts, DequeueEffect
  <2> QED BY <1>2, <2>1, <2>2
<1>8. CASE DispatchPush \/ StopPush
  BY <1>3, <1>8, PushEffect, Facts
<1>9. ASSUME NEW t \in {0} \cup Consumers, PopWait(t) PROVE queue'[0] = queue[0] /\ aborted' = aborted
  BY <1>9 DEF PopWait
<1>10. ASSUME NEW c \in Consumers, Consume(c) PROVE queue'[0] = queue[0] /\ aborted' = aborted
  BY <1>10, ConsumeEffect, Facts
<1>11. ASSUME NEW t \in {-1} \cup Consumers, LogLock(t) \/ LogUnlock(t)
       PROVE  queue'[0] = queue[0] /\ aborted' \in {aborted, "log"}
  BY <1>11 DEF LogLock, LogUnlock
<1> QED BY <1>3, <1>4, <1>5, <1>6, <1>7, <1>8, <1>9, <1>10, <1>11
        DEF Next, ProducerStep, DispatcherStep, ConsumerStep

(* A packet is sent at the end of its stream. *)
LEMMA SendEffect ==
  ASSUME TypeOK, NEW m \in Packets, sent' = [sent EXCEPT ![m.target] = Append(@, m)]
  PROVE  /\ sent' \in [Targeted -> Seq(Packets)] /\ m.target \in Targeted
         /\ \A c \in Targeted : c # m.target => sent'[c] = sent[c]
         /\ sent'[m.target] = Append(sent[m.target], m)
         /\ Len(sent'[m.target]) = Len(sent[m.target]) + 1
         /\ \A i \in 1 .. Len(sent[m.target]) :
              i \in 1 .. Len(sent'[m.target]) /\ sent'[m.target][i] = sent[m.target][i]
         /\ \A i \in 1 .. Len(sent'[m.target]) :
              \/ i = Len(sent[m.target]) + 1 /\ sent'[m.target][i] = m
              \/ i \in 1 .. Len(sent[m.target]) /\ sent'[m.target][i] = sent[m.target][i]
         /\ Len(sent'[m.target]) \in 1 .. Len(sent'[m.target])
         /\ sent'[m.target][Len(sent'[m.target])] = m
<1>1. m.target \in Targeted
  BY Basics
<1>2. sent \in [Targeted -> Seq(Packets)] /\ sent[m.target] \in Seq(Packets) /\ Len(sent[m.target]) \in Nat
  BY <1>1, SentTypes DEF TypeOK
<1>3. sent'[m.target] = Append(sent[m.target], m) /\ \A c \in Targeted : c # m.target => sent'[c] = sent[c]
  BY <1>1, <1>2
<1>4. /\ Append(sent[m.target], m) \in Seq(Packets)
      /\ Len(Append(sent[m.target], m)) = Len(sent[m.target]) + 1
      /\ \A i \in 1 .. Len(sent[m.target]) : Append(sent[m.target], m)[i] = sent[m.target][i]
      /\ Append(sent[m.target], m)[Len(sent[m.target]) + 1] = m
  BY <1>2, AppendProperties
<1>5. sent' \in [Targeted -> Seq(Packets)]
  BY <1>2, <1>4
<1>6. /\ \A i \in 1 .. Len(sent[m.target]) : i \in 1 .. Len(sent[m.target]) + 1
      /\ \A i \in 1 .. Len(sent[m.target]) + 1 :
           i = Len(sent[m.target]) + 1 \/ i \in 1 .. Len(sent[m.target])
      /\ Len(sent[m.target]) + 1 \in 1 .. Len(sent[m.target]) + 1
  BY <1>2
<1> QED BY <1>1, <1>3, <1>4, <1>5, <1>6

(* The steps that send nothing *)
LEMMA SentStays ==
  ASSUME IInv, sent' = sent, Produced' = Produced
  PROVE  SentInOrder'
BY Facts DEF SentInOrder

(* The packets are sent in the order of their numbers, and none is left out. *)
LEMMA SentNext ==
  ASSUME IInv, Next
  PROVE  SentInOrder'
<1>1. SentInOrder /\ packageCount' = packageCount /\ index \in Nat /\ packageCount \in Nat
  BY Facts, ArgumentsStay
<1>2. CASE sent' = sent /\ index' = index /\ (pc'[-1] = "signal" <=> pc[-1] = "signal")
  <2>1. Produced' = Produced
    BY <1>1, <1>2 DEF Produced, One
  <2> QED BY <1>2, <2>1, SentStays
<1>3. CASE MainStep
  BY <1>2, <1>3, MainMoves, Facts
<1>4. CASE Produce
  <2>1. /\ pc[-1] = "produce" /\ pc'[-1] = "signal" /\ index' = index
        /\ \E m \in Messages :
             \/ /\ index < packageCount /\ m \in Packets /\ m.number = index
                /\ sent' = [sent EXCEPT ![m.target] = Append(@, m)]
             \/ index = packageCount /\ sent' = sent
    BY <1>4, ProduceEffect
  <2>2. CASE index = packageCount /\ sent' = sent
    <3>1. Produced' = Produced
      BY <1>1, <2>1, <2>2 DEF Produced, One
    <3> QED BY <2>2, <3>1, SentStays
  <2>3. ASSUME index < packageCount, NEW m \in Packets, m.number = index,
               sent' = [sent EXCEPT ![m.target] = Append(@, m)]
        PROVE  SentInOrder'
    <3>1. Produced = index /\ Produced' = index + 1
      BY <1>1, <2>1, <2>3 DEF Produced, One
    <3>2. /\ m.target \in Targeted
          /\ \A c \in Targeted : c # m.target => sent'[c] = sent[c]
          /\ Len(sent'[m.target]) = Len(sent[m.target]) + 1
          /\ \A i \in 1 .. Len(sent[m.target]) :
               i \in 1 .. Len(sent'[m.target]) /\ sent'[m.target][i] = sent[m.target][i]
          /\ \A i \in 1 .. Len(sent'[m.target]) :
               \/ i = Len(sent[m.target]) + 1 /\ sent'[m.target][i] = m
               \/ i \in 1 .. Len(sent[m.target]) /\ sent'[m.target][i] = sent[m.target][i]
          /\ Len(sent'[m.target]) \in 1 .. Len(sent'[m.target])
          /\ sent'[m.target][Len(sent'[m.target])] = m
      BY <2>3, Facts, SendEffect
    <3>3. \A c \in Targeted : Len(sent[c]) \in Nat /\ \A i \in 1 .. Len(sent[c]) :
            sent[c][i].number \in Nat /\ sent[c][i].target = c /\ sent[c][i].number < index
      BY <1>1, <3>1, Facts, SentTypes, Basics DEF SentInOrder
    <3>4. ASSUME NEW c \in Targeted, NEW i \in 1 .. Len(sent'[c])
          PROVE  sent'[c][i].target = c /\ sent'[c][i].number < index + 1
      BY <1>1, <2>3, <3>2, <3>3
    <3>5. ASSUME NEW c \in Targeted, NEW i \in 1 .. Len(sent'[c]), NEW j \in 1 .. Len(sent'[c]), i < j
          PROVE  sent'[c][i].number < sent'[c][j].number
      <4>1. CASE c # m.target
        BY <1>1, <3>2, <3>5, <4>1 DEF SentInOrder
      <4>2. CASE c = m.target
        <5>1. i \in 1 .. Len(sent[c]) /\ sent'[c][i] = sent[c][i]
          BY <3>2, <3>3, <3>5, <4>2
        <5>2. CASE j \in 1 .. Len(sent[c]) /\ sent'[c][j] = sent[c][j]
          BY <1>1, <3>5, <5>1, <5>2 DEF SentInOrder
        <5>3. CASE sent'[c][j] = m
          BY <2>3, <3>3, <5>1, <5>3
        <5> QED BY <3>2, <4>2, <5>2, <5>3
      <4> QED BY <4>1, <4>2
    <3>6. ASSUME NEW n \in 0 .. index
          PROVE  \E c \in Targeted : \E i \in 1 .. Len(sent'[c]) : sent'[c][i].number = n
      <4>1. CASE n = index
        BY <2>3, <3>2, <4>1
      <4>2. CASE n # index
        <5>1. n \in 0 .. Produced - 1
          BY <1>1, <3>1, <4>2
        <5>2. PICK c \in Targeted : \E i \in 1 .. Len(sent[c]) : sent[c][i].number = n
          BY <1>1, <5>1 DEF SentInOrder
        <5> QED BY <3>2, <5>2
      <4> QED BY <4>1, <4>2
    <3>7. Produced' - 1 = index
      BY <1>1, <3>1
    <3> QED BY <3>1, <3>4, <3>5, <3>6, <3>7 DEF SentInOrder
  <2> QED BY <2>1, <2>2, <2>3
<1>5. CASE ProduceSignal
  <2>1. /\ pc[-1] = "signal" /\ sent' = sent
        /\ \/ index < packageCount /\ index' = index + 1 /\ pc'[-1] = "produce"
           \/ index = packageCount /\ index' = index /\ pc'[-1] = "log"
    BY <1>5, Facts DEF ProduceSignal, Running, Goto
  <2>2. Produced' = Produced
    BY <1>1, <2>1 DEF Produced, One
  <2> QED BY <2>1, <2>2, SentStays
<1>6. ASSUME NEW t \in {0} \cup Consumers, PopWait(t) PROVE sent' = sent /\ index' = index /\ pc'[-1] = pc[-1]
  BY <1>6, Facts DEF PopWait, Goto
<1>7. CASE DispatcherStep \/ \E c \in Consumers : Consume(c)
  <2>1. sent' = sent /\ index' = index
    BY <1>7 DEF DispatcherStep, PopWait, Dispatch, DispatchPush, DispatchSignal, StopPush, StopSignal, Consume
  <2>2. pc'[-1] = pc[-1]
    BY <1>7, Facts DEF DispatcherStep, PopWait, Dispatch, DispatchPush, DispatchSignal, StopPush,
                       StopSignal, Consume, Goto
  <2> QED BY <1>2, <2>1, <2>2
<1>8. ASSUME NEW t \in {-1} \cup Consumers, LogLock(t) \/ LogUnlock(t)
      PROVE  sent' = sent /\ index' = index /\ (pc'[-1] = "signal" <=> pc[-1] = "signal")
  BY <1>8, Facts DEF LogLock, LogUnlock, Running, Goto
<1> QED BY <1>2, <1>3, <1>4, <1>5, <1>6, <1>7, <1>8 DEF Next, ProducerStep, ConsumerStep

(* How many messages have been handed on, before and after a step *)
LEMMA HandedIs ==
  ASSUME NEW c
  PROVE  /\ (pc[0] = "push" /\ key = c) => Handed(c) = Len(received[c]) + Len(queue[c]) + 1
         /\ ~(pc[0] = "push" /\ key = c) => Handed(c) = Len(received[c]) + Len(queue[c]) + 0
         /\ (pc'[0] = "push" /\ key' = c) => Handed(c)' = Len(received'[c]) + Len(queue'[c]) + 1
         /\ ~(pc'[0] = "push" /\ key' = c) => Handed(c)' = Len(received'[c]) + Len(queue'[c]) + 0
BY DEF Handed, Holding, One

(* The number of messages handed on is a natural number, and as long as no *)
(* stop message was sent, all of them are packets.                         *)
LEMMA HandedBound ==
  ASSUME IInv, NEW c \in Consumers
  PROVE  /\ Handed(c) \in Nat /\ Len(received[c]) \in Nat /\ Len(queue[c]) \in Nat /\ Len(sent[c]) \in Nat
         /\ Handed(c) >= Len(received[c]) + Len(queue[c])
         /\ ~StopSent(c) => Handed(c) <= Len(sent[c])
<1>1. Len(received[c]) \in Nat /\ Len(queue[c]) \in Nat /\ Len(sent[c]) \in Nat
  BY Facts, QueueTypes, SentTypes
<1>2. Handed(c) \in Nat /\ Handed(c) >= Len(received[c]) + Len(queue[c])
  <2>1. \/ Handed(c) = Len(received[c]) + Len(queue[c]) + 1
        \/ Handed(c) = Len(received[c]) + Len(queue[c]) + 0
    BY HandedIs
  <2>2. ASSUME NEW r \in Nat, NEW q \in Nat
        PROVE  r + q + 0 \in Nat /\ r + q + 0 >= r + q /\ r + q + 1 \in Nat /\ r + q + 1 >= r + q
    OBVIOUS
  <2> QED BY ONLY <1>1, <2>1, <2>2, Zenon
<1>3. ASSUME ~StopSent(c) PROVE Handed(c) <= Len(sent[c])
  <2>1. CASE Holding(c)
    BY <2>1, Facts DEF StreamInOrder
  <2>2. CASE ~Holding(c)
    <3>1. Handed(c) = Len(received[c]) + Len(queue[c])
      <4>1. Handed(c) = Len(received[c]) + Len(queue[c]) + 0
        BY <2>2, HandedIs DEF Holding
      <4>2. ASSUME NEW r \in Nat, NEW q \in Nat PROVE r + q + 0 = r + q
        OBVIOUS
      <4> QED BY ONLY <1>1, <4>1, <4>2, Zenon
    <3>2. CASE Len(queue[c]) = 0
      BY <1>1, <3>1, <3>2, Facts DEF StreamInOrder
    <3>3. CASE Len(queue[c]) # 0
      <4>1. Len(queue[c]) \in 1 .. Len(queue[c])
        BY <1>1, <3>3
      <4>2. queue[c][Len(queue[c])] # StopMessage
        BY <1>3, <4>1, Facts DEF StopInOrder
      <4> QED BY <1>1, <3>1, <4>1, <4>2, Facts DEF StreamInOrder
    <3> QED BY <3>2, <3>3
  <2> QED BY <2>1, <2>2
<1> QED BY <1>1, <1>2, <1>3

(* What the dispatcher's queue says of the packets in it *)
LEMMA QueueFacts ==
  ASSUME IInv
  PROVE  /\ Len(queue[0]) \in Nat
         /\ \A j \in 1 .. Len(queue[0]) : queue[0][j] # StopMessage =>
              /\ queue[0][j] \in Packets /\ queue[0][j].number \in Nat
              /\ queue[0][j].target \in Targeted
              /\ \E i \in 1 .. Len(sent[queue[0][j].target]) :
                   /\ sent[queue[0][j].target][i] = queue[0][j]
                   /\ queue[0][j].target \in Consumers => i > Handed(queue[0][j].target)
         /\ \A i, j \in 1 .. Len(queue[0]) :
              i < j => queue[0][i].number < queue[0][j].number \/ queue[0][j] = StopMessage
         /\ aborted = "no" => \A c \in Targeted : \A i \in 1 .. Len(sent[c]) :
              (c \in Consumers => i > Handed(c)) => \E j \in 1 .. Len(queue[0]) : queue[0][j] = sent[c][i]
         /\ \A c \in Targeted : /\ Len(sent[c]) \in Nat
                                /\ \A i \in 1 .. Len(sent[c]) :
                                     /\ sent[c][i] \in Packets /\ sent[c][i] # StopMessage
                                     /\ sent[c][i].number \in Nat /\ sent[c][i].target = c
         /\ \A c \in Targeted : \A i, j \in 1 .. Len(sent[c]) :
              i < j => sent[c][i].number < sent[c][j].number
<1>1. TypeOK /\ QueueInOrder /\ SentInOrder
  BY Facts
<1>2. Len(queue[0]) \in Nat /\ \A j \in 1 .. Len(queue[0]) : queue[0][j] \in Messages
  BY Facts, QueueTypes
<1>3. \A m \in Packets : m.target \in Targeted /\ m.number \in Nat /\ m # StopMessage
  BY <1>1, Basics
<1>4. \A j \in 1 .. Len(queue[0]) : queue[0][j] # StopMessage => queue[0][j] \in Packets
  BY <1>2, Facts
<1>5. \A c \in Targeted : /\ Len(sent[c]) \in Nat
                          /\ \A i \in 1 .. Len(sent[c]) : sent[c][i] \in Packets
  BY <1>1, SentTypes
<1>6. \A c \in Targeted : \A i \in 1 .. Len(sent[c]) : sent[c][i].target = c
  BY <1>1 DEF SentInOrder
<1>7. \A c \in Targeted : \A i, j \in 1 .. Len(sent[c]) :
        i < j => sent[c][i].number < sent[c][j].number
  BY <1>1 DEF SentInOrder
<1>8. /\ \A j \in 1 .. Len(queue[0]) : queue[0][j] # StopMessage =>
           \E i \in 1 .. Len(sent[queue[0][j].target]) :
                   /\ sent[queue[0][j].target][i] = queue[0][j]
                   /\ queue[0][j].target \in Consumers => i > Handed(queue[0][j].target)
      /\ \A i, j \in 1 .. Len(queue[0]) :
              i < j => queue[0][i].number < queue[0][j].number \/ queue[0][j] = StopMessage
      /\ aborted = "no" => \A c \in Targeted : \A i \in 1 .. Len(sent[c]) :
              (c \in Consumers => i > Handed(c)) => \E j \in 1 .. Len(queue[0]) : queue[0][j] = sent[c][i]
  BY <1>1 DEF QueueInOrder, Waiting
<1> QED BY <1>2, <1>3, <1>4, <1>5, <1>6, <1>7, <1>8

(* The steps that move no message *)
LEMMA OrderStays ==
  ASSUME IInv, Next, UNCHANGED <<queue, holds, sent, received>>,
         pc'[0] = "push" <=> pc[0] = "push", pc[0] = "push" => key' = key
  PROVE  QueueInOrder' /\ StreamInOrder'
<1>1. Consumers' = Consumers /\ (aborted' = "no" => aborted = "no") /\ QueueInOrder /\ StreamInOrder
  BY ArgumentsStay, Facts
<1>2. \A c : Holding(c)' <=> Holding(c)
  BY DEF Holding
<1>3. \A c : Handed(c)' = Handed(c)
  BY HandedIs
<1>4. \A c, i : Waiting(c, i)' <=> Waiting(c, i)
  BY <1>1, <1>3 DEF Waiting
<1>5. QueueInOrder'
  BY <1>1, <1>4 DEF QueueInOrder
<1>6. StreamInOrder'
  BY <1>1, <1>2, <1>3 DEF StreamInOrder
<1> QED BY <1>5, <1>6

(* A packet is produced after all those sent before it. *)
LEMMA ProduceOrder ==
  ASSUME IInv, Produce
  PROVE  QueueInOrder' /\ StreamInOrder'
<1>1. /\ pc[-1] = "produce" /\ pc'[0] = pc[0] /\ aborted' = aborted
      /\ UNCHANGED <<holds, key, received>> /\ Consumers' = Consumers
      /\ \A c \in Consumers : queue'[c] = queue[c]
  BY ProduceEffect, Facts DEF arguments, Consumers
<1>2. PICK m \in Messages :
        /\ Enqueue(0, m)
        /\ \/ /\ index < packageCount /\ m \in Packets /\ m.number = index
              /\ sent' = [sent EXCEPT ![m.target] = Append(@, m)]
           \/ index = packageCount /\ m = StopMessage /\ sent' = sent
  BY ProduceEffect
<1>3. ~Closed /\ ~Stopping /\ \A c \in Consumers : ~StopSent(c)
  BY <1>1, Facts DEF StopInOrder, Closed, Left, Stopping, StopSent
<1>4. /\ \A i \in 1 .. Len(queue[0]) : queue[0][i] # StopMessage
      /\ \A c \in Consumers : \A i \in 1 .. Len(queue[c]) : queue[c][i] # StopMessage
  BY <1>3, Facts DEF StopInOrder
<1>5. \A c \in Consumers : /\ Handed(c)' = Handed(c) /\ (Holding(c)' <=> Holding(c))
                           /\ Handed(c) \in Nat /\ Handed(c) <= Len(sent[c]) /\ Len(sent[c]) \in Nat
  BY <1>1, <1>3, HandedIs, HandedBound DEF Holding
<1>6. /\ Len(queue'[0]) = Len(queue[0]) + 1 /\ Len(queue[0]) \in Nat
      /\ \A i \in 1 .. Len(queue[0]) : i \in 1 .. Len(queue'[0]) /\ queue'[0][i] = queue[0][i]
      /\ \A i \in 1 .. Len(queue'[0]) : \/ i = Len(queue[0]) + 1 /\ queue'[0][i] = m
                                        \/ i \in 1 .. Len(queue[0]) /\ queue'[0][i] = queue[0][i]
      /\ Len(queue'[0]) \in 1 .. Len(queue'[0]) /\ queue'[0][Len(queue'[0])] = m
  BY <1>2, Facts, QueueFacts, EnqueueEffect
<1>7. CASE index = packageCount /\ m = StopMessage /\ sent' = sent
  <2>1. StreamInOrder'
    BY <1>1, <1>5, <1>7, Facts, SMTT(20) DEF StreamInOrder
  <2>2. \A c, i : Waiting(c, i)' <=> Waiting(c, i)
    BY <1>1, <1>5 DEF Waiting
  <2>3. \A j \in 1 .. Len(queue'[0]) : queue'[0][j] # StopMessage =>
           \E i \in 1 .. Len(sent[queue'[0][j].target]) :
             Waiting(queue'[0][j].target, i) /\ sent[queue'[0][j].target][i] = queue'[0][j]
    <3>1. ASSUME NEW j \in 1 .. Len(queue'[0]), queue'[0][j] # StopMessage
          PROVE  \E i \in 1 .. Len(sent[queue'[0][j].target]) :
                   Waiting(queue'[0][j].target, i) /\ sent[queue'[0][j].target][i] = queue'[0][j]
      <4>1. j \in 1 .. Len(queue[0]) /\ queue'[0][j] = queue[0][j]
        BY <1>6, <1>7, <3>1
      <4>2. QueueInOrder
        BY Facts
      <4> QED BY <3>1, <4>1, <4>2, Zenon DEF QueueInOrder
    <3> QED BY <3>1, Zenon
  <2>4. \A i, j \in 1 .. Len(queue'[0]) :
           i < j => queue'[0][i].number < queue'[0][j].number \/ queue'[0][j] = StopMessage
    <3>1. ASSUME NEW i \in 1 .. Len(queue'[0]), NEW j \in 1 .. Len(queue'[0]), i < j,
                 queue'[0][j] # StopMessage
          PROVE  queue'[0][i].number < queue'[0][j].number
      <4>1. j \in 1 .. Len(queue[0]) /\ queue'[0][j] = queue[0][j]
        BY <1>6, <1>7, <3>1
      <4>2. i \in 1 .. Len(queue[0]) /\ queue'[0][i] = queue[0][i]
        BY <1>6, <3>1, <4>1
      <4> QED BY <3>1, <4>1, <4>2, QueueFacts
    <3> QED BY <3>1
  <2>5. aborted' = "no" => \A c \in Targeted : \A i \in 1 .. Len(sent[c]) :
           Waiting(c, i) => \E j \in 1 .. Len(queue'[0]) : queue'[0][j] = sent[c][i]
    BY <1>1, <1>6, Facts DEF QueueInOrder
  <2> QED BY <1>7, <2>1, <2>2, <2>3, <2>4, <2>5 DEF QueueInOrder
<1>8. CASE /\ index < packageCount /\ m \in Packets /\ m.number = index
           /\ sent' = [sent EXCEPT ![m.target] = Append(@, m)]
  <2>1. /\ m.target \in Targeted
        /\ \A c \in Targeted : c # m.target => sent'[c] = sent[c]
        /\ Len(sent'[m.target]) = Len(sent[m.target]) + 1
        /\ \A i \in 1 .. Len(sent[m.target]) :
             i \in 1 .. Len(sent'[m.target]) /\ sent'[m.target][i] = sent[m.target][i]
        /\ \A i \in 1 .. Len(sent'[m.target]) :
             \/ i = Len(sent[m.target]) + 1 /\ sent'[m.target][i] = m
             \/ i \in 1 .. Len(sent[m.target]) /\ sent'[m.target][i] = sent[m.target][i]
        /\ Len(sent'[m.target]) \in 1 .. Len(sent'[m.target])
        /\ sent'[m.target][Len(sent'[m.target])] = m
    BY <1>8, Facts, SendEffect
  <2>2. \A c \in Targeted : Len(sent[c]) \in Nat
    BY QueueFacts
  <2>3. \A c \in Targeted : /\ Len(sent[c]) <= Len(sent'[c])
                            /\ \A i \in 1 .. Len(sent[c]) : i \in 1 .. Len(sent'[c]) /\ sent'[c][i] = sent[c][i]
    BY <2>1, <2>2
  <2>4. StreamInOrder'
    <3>1. ASSUME NEW c \in Consumers
          PROVE  /\ Len(received'[c]) <= Len(sent'[c])
                 /\ \A i \in 1 .. Len(received'[c]) : received'[c][i] = sent'[c][i]
                 /\ \A i \in 1 .. Len(queue'[c]) :
                      queue'[c][i] = IF Len(received'[c]) + i <= Len(sent'[c])
                                     THEN sent'[c][Len(received'[c]) + i] ELSE StopMessage
                 /\ Holding(c)' => Handed(c)' <= Len(sent'[c]) /\ holds' = sent'[c][Handed(c)']
      <4>1. c \in Targeted /\ Len(received[c]) \in Nat /\ Len(queue[c]) \in Nat
        BY Facts, HandedBound
      <4>2. /\ Len(received[c]) <= Len(sent[c])
            /\ \A i \in 1 .. Len(received[c]) : received[c][i] = sent[c][i]
            /\ Holding(c) => Handed(c) <= Len(sent[c]) /\ holds = sent[c][Handed(c)]
        BY Facts DEF StreamInOrder
      <4>3. \A i \in 1 .. Len(queue[c]) :
              Len(received[c]) + i <= Len(sent[c]) /\ queue[c][i] = sent[c][Len(received[c]) + i]
        BY <1>4, Facts DEF StreamInOrder
      <4>4. received'[c] = received[c] /\ queue'[c] = queue[c] /\ holds' = holds
        BY <1>1
      <4>5. Len(received'[c]) <= Len(sent'[c]) /\ \A i \in 1 .. Len(received'[c]) : received'[c][i] = sent'[c][i]
        BY <2>2, <2>3, <4>1, <4>2, <4>4
      <4>6. \A i \in 1 .. Len(queue[c]) :
              Len(received[c]) + i <= Len(sent'[c]) /\ queue[c][i] = sent'[c][Len(received[c]) + i]
        BY <2>2, <2>3, <4>1, <4>3, SMTT(20)
      <4>7. ASSUME Holding(c) PROVE Handed(c) <= Len(sent'[c]) /\ holds = sent'[c][Handed(c)]
        <5>1. Handed(c) \in 1 .. Len(sent[c])
          <6>1. Handed(c) = Len(received[c]) + Len(queue[c]) + 1
            BY <4>7, HandedIs DEF Holding
          <6>2. ASSUME NEW r \in Nat, NEW q \in Nat PROVE r + q + 1 >= 1
            OBVIOUS
          <6>3. Handed(c) >= 1
            BY ONLY <4>1, <6>1, <6>2, Zenon
          <6> QED BY <1>5, <6>3
        <5>2. holds = sent[c][Handed(c)]
          BY <4>2, <4>7
        <5>3. sent'[c][Handed(c)] = sent[c][Handed(c)] /\ Handed(c) \in 1 .. Len(sent'[c])
          BY <2>3, <4>1, <5>1
        <5> QED BY <5>2, <5>3
      <4>8. Handed(c)' = Handed(c) /\ (Holding(c)' <=> Holding(c))
        BY <1>5
      <4> QED BY <4>4, <4>5, <4>6, <4>7, <4>8
    <3> QED BY <1>1, <3>1 DEF StreamInOrder
  <2>5. \A c, i : Waiting(c, i)' <=> Waiting(c, i)
    BY <1>1, <1>5 DEF Waiting
  <2>6. \A i \in 1 .. Len(queue[0]) : queue[0][i].number \in Nat /\ queue[0][i].number < index
    <3>1. Produced = index
      <4>1. One(FALSE) = 0 /\ (pc[-1] = "signal" /\ index < packageCount <=> FALSE)
        BY <1>1 DEF One
      <4> QED BY <1>1, Facts DEF Produced, One
    <3>2. \A c \in Targeted : \A i \in 1 .. Len(sent[c]) : sent[c][i].number < index
      BY <3>1, Facts DEF SentInOrder
    <3> QED BY <1>4, <3>2, QueueFacts, SMTT(20)
  <2>7. \A j \in 1 .. Len(queue'[0]) : queue'[0][j] # StopMessage =>
           \E i \in 1 .. Len(sent'[queue'[0][j].target]) :
             Waiting(queue'[0][j].target, i) /\ sent'[queue'[0][j].target][i] = queue'[0][j]
    <3>1. Waiting(m.target, Len(sent'[m.target]))
      BY <1>5, <2>1 DEF Waiting
    <3>2. ASSUME NEW j \in 1 .. Len(queue[0])
          PROVE  \E i \in 1 .. Len(sent'[queue[0][j].target]) :
                   Waiting(queue[0][j].target, i) /\ sent'[queue[0][j].target][i] = queue[0][j]
      <4>1. queue[0][j] # StopMessage /\ queue[0][j].target \in Targeted
        BY <1>4, QueueFacts
      <4>2. PICK i \in 1 .. Len(sent[queue[0][j].target]) :
              Waiting(queue[0][j].target, i) /\ sent[queue[0][j].target][i] = queue[0][j]
        BY <4>1, Facts DEF QueueInOrder
      <4> QED BY <2>3, <4>1, <4>2
    <3>3. \A j \in 1 .. Len(queue'[0]) : queue'[0][j] = m \/ \E k \in 1 .. Len(queue[0]) : queue'[0][j] = queue[0][k]
      BY <1>6
    <3>4. \E i \in 1 .. Len(sent'[m.target]) : Waiting(m.target, i) /\ sent'[m.target][i] = m
      BY <2>1, <3>1
    <3>5. ASSUME NEW j \in 1 .. Len(queue'[0])
          PROVE  \E i \in 1 .. Len(sent'[queue'[0][j].target]) :
                   Waiting(queue'[0][j].target, i) /\ sent'[queue'[0][j].target][i] = queue'[0][j]
      <4>1. CASE queue'[0][j] = m
        BY <3>4, <4>1, Zenon
      <4>2. ASSUME NEW k \in 1 .. Len(queue[0]), queue'[0][j] = queue[0][k]
            PROVE  \E i \in 1 .. Len(sent'[queue'[0][j].target]) :
                     Waiting(queue'[0][j].target, i) /\ sent'[queue'[0][j].target][i] = queue'[0][j]
        BY <3>2, <4>2, Zenon
      <4> QED BY <3>3, <4>1, <4>2
    <3> QED BY <3>5
  <2>8. \A i, j \in 1 .. Len(queue'[0]) :
           i < j => queue'[0][i].number < queue'[0][j].number \/ queue'[0][j] = StopMessage
    <3>1. ASSUME NEW i \in 1 .. Len(queue'[0]), NEW j \in 1 .. Len(queue'[0]), i < j,
                 queue'[0][j] # StopMessage
          PROVE  queue'[0][i].number < queue'[0][j].number
      <4>1. i \in 1 .. Len(queue[0]) /\ queue'[0][i] = queue[0][i]
        BY <1>6, <3>1
      <4>2. CASE j \in 1 .. Len(queue[0]) /\ queue'[0][j] = queue[0][j]
        BY <3>1, <4>1, <4>2, QueueFacts
      <4>3. CASE queue'[0][j] = m
        BY <1>8, <2>6, <4>1, <4>3
      <4> QED BY <1>6, <4>2, <4>3
    <3> QED BY <3>1
  <2>9. ASSUME aborted' = "no", NEW c \in Targeted, NEW i \in 1 .. Len(sent'[c]), Waiting(c, i)
        PROVE  \E j \in 1 .. Len(queue'[0]) : queue'[0][j] = sent'[c][i]
    <3>1. CASE i \in 1 .. Len(sent[c]) /\ sent'[c][i] = sent[c][i]
      BY <1>1, <1>6, <2>9, <3>1, Facts DEF QueueInOrder
    <3>2. CASE sent'[c][i] = m
      BY <1>6, <3>2
    <3> QED BY <2>1, <3>1, <3>2
  <2> QED BY <2>4, <2>5, <2>7, <2>8, <2>9 DEF QueueInOrder
<1> QED BY <1>2, <1>7, <1>8

(* The first packet of the dispatcher's queue is the next of its stream: an *)
(* earlier one that had not been handed on would be before it.              *)
LEMMA FrontIsNext ==
  ASSUME IInv, aborted = "no", ~(pc[0] = "push"), Len(queue[0]) > 0, NEW m \in Packets,
         queue[0][1] = m, m.target \in Consumers
  PROVE  /\ Handed(m.target) + 1 \in 1 .. Len(sent[m.target])
         /\ sent[m.target][Handed(m.target) + 1] = m
<1> DEFINE c == m.target
<1>1. m # StopMessage /\ m.number \in Nat /\ c \in Targeted /\ 1 \in 1 .. Len(queue[0])
  BY Facts, Basics, QueueFacts
<1>2. PICK i \in 1 .. Len(sent[c]) : sent[c][i] = m /\ i > Handed(c)
  BY <1>1, QueueFacts
<1>3. Handed(c) \in Nat /\ Len(sent[c]) \in Nat
  BY HandedBound
<1> HIDE DEF c
<1>4. Handed(c) + 1 \in 1 .. Len(sent[c])
  BY <1>2, <1>3
<1>5. ASSUME i # Handed(c) + 1 PROVE FALSE
  <2>1. Handed(c) + 1 < i /\ Handed(c) + 1 > Handed(c)
    BY <1>2, <1>3, <1>5
  <2>2. PICK k \in 1 .. Len(sent[c]) : k < i /\ k > Handed(c)
    BY <1>4, <2>1
  <2>3. /\ sent[c][k].number < sent[c][i].number /\ sent[c][k].number \in Nat
        /\ sent[c][k] # StopMessage
    BY <1>1, <2>2, QueueFacts
  <2>4. PICK j \in 1 .. Len(queue[0]) : queue[0][j] = sent[c][k]
    BY <1>1, <2>2, QueueFacts
  <2>5. 1 < j
    <3>1. sent[c][k] # m
      BY <1>1, <1>2, <2>3
    <3>2. j # 1
      BY <2>4, <3>1
    <3> QED BY <3>2, QueueFacts
  <2>6. queue[0][1].number < queue[0][j].number
    BY <1>1, <2>3, <2>4, <2>5, QueueFacts
  <2>7. m.number < sent[c][k].number
    BY <2>4, <2>6
  <2> QED BY <1>1, <1>2, <2>3, <2>7
<1> QED BY <1>2, <1>4, <1>5 DEF c

(* The dispatcher takes the next packet of a stream. *)
LEMMA DispatchOrder ==
  ASSUME IInv, Dispatch
  PROVE  QueueInOrder' /\ StreamInOrder'
<1>1. /\ pc[0] = "take" /\ aborted = "no" /\ Dequeue(0) /\ Len(queue[0]) > 0
      /\ UNCHANGED <<sent, received>> /\ Consumers' = Consumers
      /\ \A c \in Consumers : queue'[c] = queue[c]
      /\ \/ Front(0) = StopMessage /\ pc'[0] \in {"ended", "stop"}
         \/ /\ Front(0) # StopMessage /\ Front(0).target \in Consumers
            /\ pc'[0] = "push" /\ holds' = Front(0) /\ key' = Front(0).target
         \/ Front(0) # StopMessage /\ Front(0).target \notin Consumers /\ aborted' = "key" /\ pc'[0] = "take"
  BY DispatchEffect, Facts DEF arguments, Consumers
<1>2. /\ Front(0) = queue[0][1] /\ Front(0) \in Messages /\ 1 \in 1 .. Len(queue[0])
      /\ Len(queue[0]) \in Nat /\ Len(queue'[0]) = Len(queue[0]) - 1
      /\ \A i \in 1 .. Len(queue'[0]) : i + 1 \in 1 .. Len(queue[0]) /\ queue'[0][i] = queue[0][i + 1]
      /\ \A i \in 1 .. Len(queue[0]) : i # 1 => i - 1 \in 1 .. Len(queue'[0]) /\ queue'[0][i - 1] = queue[0][i]
  BY <1>1, Facts, QueueFacts, DequeueEffect
<1>3. \A i, j \in 1 .. Len(queue'[0]) :
        i < j => queue'[0][i].number < queue'[0][j].number \/ queue'[0][j] = StopMessage
  <2>1. ASSUME NEW i \in 1 .. Len(queue'[0]), NEW j \in 1 .. Len(queue'[0]), i < j
        PROVE  queue'[0][i].number < queue'[0][j].number \/ queue'[0][j] = StopMessage
    <3>1. PICK k \in 1 .. Len(queue[0]) : k = i + 1 /\ queue'[0][i] = queue[0][k]
      BY <1>2
    <3>2. PICK l \in 1 .. Len(queue[0]) : l = j + 1 /\ queue'[0][j] = queue[0][l]
      BY <1>2
    <3>3. k < l
      BY <2>1, <3>1, <3>2
    <3>4. queue[0][k].number < queue[0][l].number \/ queue[0][l] = StopMessage
      BY <3>3, QueueFacts
    <3> QED BY <3>1, <3>2, <3>4
  <2> QED BY <2>1
<1>0. \A j \in 1 .. Len(queue'[0]) : queue'[0][j] # StopMessage =>
        /\ queue'[0][j] \in Packets
        /\ \E i \in 1 .. Len(sent[queue'[0][j].target]) :
             Waiting(queue'[0][j].target, i) /\ sent[queue'[0][j].target][i] = queue'[0][j]
  <2>1. \A k \in 1 .. Len(queue[0]) : queue[0][k] # StopMessage =>
          /\ queue[0][k] \in Packets
          /\ \E i \in 1 .. Len(sent[queue[0][k].target]) :
               Waiting(queue[0][k].target, i) /\ sent[queue[0][k].target][i] = queue[0][k]
    BY QueueFacts, Facts DEF QueueInOrder
  <2>2. ASSUME NEW j \in 1 .. Len(queue'[0]), queue'[0][j] # StopMessage
        PROVE  /\ queue'[0][j] \in Packets
               /\ \E i \in 1 .. Len(sent[queue'[0][j].target]) :
                    Waiting(queue'[0][j].target, i) /\ sent[queue'[0][j].target][i] = queue'[0][j]
    <3>1. PICK k \in 1 .. Len(queue[0]) : queue'[0][j] = queue[0][k]
      BY <1>2
    <3> QED BY <2>1, <2>2, <3>1, Zenon
  <2> QED BY <2>2, Zenon
<1>4. \A c \in Consumers : /\ Handed(c) \in Nat /\ Len(received[c]) \in Nat /\ Len(queue[c]) \in Nat
                           /\ Handed(c) = Len(received[c]) + Len(queue[c]) + 0
  BY <1>1, HandedBound, HandedIs
<1>5. \A j \in 1 .. Len(queue'[0]) :
        /\ queue'[0][j] # StopMessage => queue[0][j + 1] # StopMessage
        /\ Front(0) # StopMessage /\ queue'[0][j] # StopMessage =>
             Front(0).number < queue'[0][j].number
  <2>1. ASSUME NEW j \in 1 .. Len(queue'[0])
        PROVE  /\ queue'[0][j] # StopMessage => queue[0][j + 1] # StopMessage
               /\ Front(0) # StopMessage /\ queue'[0][j] # StopMessage =>
                    Front(0).number < queue'[0][j].number
    <3>1. PICK k \in 1 .. Len(queue[0]) : k = j + 1 /\ queue'[0][j] = queue[0][k] /\ 1 < k
      BY <1>2
    <3>2. queue[0][1].number < queue[0][k].number \/ queue[0][k] = StopMessage
      BY <1>2, <3>1, QueueFacts
    <3> QED BY <1>2, <3>1, <3>2
  <2> QED BY <2>1
<1>6. CASE pc'[0] # "push"
  <2>1. \A c \in Consumers : Handed(c)' = Handed(c) /\ ~Holding(c)'
    BY <1>1, <1>4, <1>6, HandedIs DEF Holding
  <2>2. StreamInOrder'
    BY <1>1, <2>1, Facts DEF StreamInOrder
  <2>3. \A c, i : Waiting(c, i)' <=> Waiting(c, i)
    BY <1>1, <2>1 DEF Waiting
  <2>4. ASSUME NEW j \in 1 .. Len(queue'[0]), queue'[0][j] # StopMessage
        PROVE  \E i \in 1 .. Len(sent[queue'[0][j].target]) :
                 Waiting(queue'[0][j].target, i) /\ sent[queue'[0][j].target][i] = queue'[0][j]
    BY <1>0, <2>4
  <2>5. ASSUME aborted' = "no", NEW c \in Targeted, NEW i \in 1 .. Len(sent[c]), Waiting(c, i)
        PROVE  \E j \in 1 .. Len(queue'[0]) : queue'[0][j] = sent[c][i]
    <3>1. Front(0) = StopMessage
      BY <1>1, <1>6, <2>5
    <3>2. Len(queue[0]) = 1
      BY <1>2, <3>1, Facts DEF StopInOrder
    <3>3. PICK j \in 1 .. Len(queue[0]) : queue[0][j] = sent[c][i]
      BY <1>1, <2>5, Facts DEF QueueInOrder
    <3>4. j = 1
      BY <3>2, <3>3
    <3> QED BY <1>2, <3>1, <3>3, <3>4, QueueFacts
  <2> QED BY <1>1, <1>3, <2>2, <2>3, <2>4, <2>5 DEF QueueInOrder
<1>7. CASE pc'[0] = "push"
  <2>1. PICK m \in Packets : m = Front(0) /\ m.target \in Consumers /\ m # StopMessage
    BY <1>1, <1>2, <1>7, Facts
  <2>2. holds' = m /\ key' = m.target /\ queue[0][1] = m
    BY <1>1, <1>2, <1>7, <2>1
  <2>3. PICK c \in Consumers : c = m.target
    BY <2>1
  <2>4. /\ Handed(c) + 1 \in 1 .. Len(sent[c]) /\ sent[c][Handed(c) + 1] = m
        /\ c \in Targeted /\ m.number \in Nat
    BY <1>1, <2>1, <2>2, <2>3, FrontIsNext, Facts, Basics
  <2>5. /\ \A d : Holding(d)' <=> d = c
        /\ \A d : ~Holding(d)
    BY <1>1, <1>7, <2>2, <2>3 DEF Holding
  <2>6. Handed(c)' = Handed(c) + 1 /\ \A d \in Consumers : d # c => Handed(d)' = Handed(d)
    <3>1. Handed(c)' = Len(received[c]) + Len(queue[c]) + 1
      BY <1>1, <1>7, <2>2, <2>3, HandedIs
    <3>2. ASSUME NEW r \in Nat, NEW q \in Nat PROVE r + q + 1 = (r + q + 0) + 1
      OBVIOUS
    <3>3. Handed(c)' = Handed(c) + 1
      BY ONLY <1>4, <3>1, <3>2, Zenon
    <3>4. ASSUME NEW d \in Consumers, d # c PROVE Handed(d)' = Handed(d)
      BY <1>1, <1>4, <2>2, <2>3, <3>4, HandedIs, ZenonT(30)
    <3> QED BY <3>3, <3>4
  <2>7. StreamInOrder'
    <3>1. /\ Handed(c)' <= Len(sent[c]) /\ holds' = sent[c][Handed(c)']
      <4>1. Handed(c) + 1 <= Len(sent[c])
        BY <2>4, QueueFacts
      <4> QED BY <2>2, <2>4, <2>6, <4>1, Zenon
    <3>2. \A d \in Consumers : Holding(d)' => Handed(d)' <= Len(sent[d]) /\ holds' = sent[d][Handed(d)']
      BY <2>5, <3>1, Zenon
    <3>3. \A d \in Consumers :
            /\ Len(received[d]) <= Len(sent[d])
            /\ \A i \in 1 .. Len(received[d]) : received[d][i] = sent[d][i]
            /\ \A i \in 1 .. Len(queue[d]) :
                 queue[d][i] = IF Len(received[d]) + i <= Len(sent[d]) THEN sent[d][Len(received[d]) + i]
                                                                       ELSE StopMessage
      BY Facts DEF StreamInOrder
    <3> QED BY <1>1, <3>2, <3>3 DEF StreamInOrder
  <2>8. ASSUME NEW p \in Packets, NEW j \in 1 .. Len(queue'[0]), queue'[0][j] = p
        PROVE  \E i \in 1 .. Len(sent[p.target]) : Waiting(p.target, i)' /\ sent[p.target][i] = p
    <3>1. p # StopMessage
      BY Facts
    <3>2. PICK i \in 1 .. Len(sent[p.target]) : Waiting(p.target, i) /\ sent[p.target][i] = p
      BY <1>0, <2>8, <3>1, Zenon
    <3>3. p.number # m.number
      <4>1. m.number < p.number
        BY <1>5, <2>1, <2>8, <3>1, Zenon
      <4> QED BY <2>4, <4>1
    <3>4. p.target = c => i > Handed(c) /\ i # Handed(c) + 1
      BY <2>4, <3>2, <3>3 DEF Waiting
    <3>5. Waiting(p.target, i)'
      <4>1. CASE p.target = c
        <5>1. i > Handed(c) + 1
          <6>1. Handed(c) \in Nat
            BY <1>4, Zenon
          <6> QED BY <3>2, <3>4, <4>1, <6>1
        <5>2. i > Handed(c)'
          BY <2>6, <5>1, Zenon
        <5> QED BY <4>1, <5>2, Zenon DEF Waiting
      <4>2. CASE p.target # c
        BY <1>1, <2>6, <3>2, <4>2 DEF Waiting
      <4> QED BY <4>1, <4>2
    <3> QED BY <3>2, <3>5
  <2>9. ASSUME NEW d \in Targeted, NEW i \in 1 .. Len(sent[d]), Waiting(d, i)'
        PROVE  \E j \in 1 .. Len(queue'[0]) : queue'[0][j] = sent[d][i]
    <3>1. Waiting(d, i)
      <4>1. CASE d = c
        <5>1. i > Handed(c)'
          BY <1>1, <2>9, <4>1 DEF Waiting
        <5>2. i > Handed(c) + 1
          BY <2>6, <5>1, Zenon
        <5>3. Handed(c) \in Nat
          BY <1>4, Zenon
        <5>4. i > Handed(c)
          BY <5>2, <5>3
        <5> QED BY <4>1, <5>4, Zenon DEF Waiting
      <4>2. CASE d # c
        BY <1>1, <2>6, <2>9, <4>2 DEF Waiting
      <4> QED BY <4>1, <4>2
    <3>2. PICK j \in 1 .. Len(queue[0]) : queue[0][j] = sent[d][i]
      BY <1>1, <3>1, Facts DEF QueueInOrder
    <3>3. sent[d][i] # m
      <4>1. CASE d = c
        <5>1. i > Handed(c) + 1
          BY <1>1, <2>6, <2>9, <4>1 DEF Waiting
        <5>2. m.number < sent[d][i].number
          BY <2>4, <4>1, <5>1, QueueFacts
        <5> QED BY <2>4, <5>2
      <4>2. CASE d # c
        BY <2>3, <4>2, QueueFacts
      <4> QED BY <4>1, <4>2
    <3> QED BY <1>2, <2>2, <3>2, <3>3
  <2>10. \A j \in 1 .. Len(queue'[0]) : queue'[0][j] # StopMessage =>
           \E p \in Packets : p = queue'[0][j]
    BY <1>0
  <2>11. ASSUME NEW j \in 1 .. Len(queue'[0]), queue'[0][j] # StopMessage
         PROVE  (\E i \in 1 .. Len(sent[queue[0][j].target]) :
                   Waiting(queue[0][j].target, i) /\ sent[queue[0][j].target][i] = queue[0][j])'
    <3>1. PICK p \in Packets : p = queue'[0][j]
      BY <2>10, <2>11
    <3>2. PICK i \in 1 .. Len(sent[p.target]) : Waiting(p.target, i)' /\ sent[p.target][i] = p
      BY <2>8, <3>1
    <3> QED BY <1>1, <3>1, <3>2 DEF Waiting
  <2> QED BY <1>1, <1>3, <2>7, <2>9, <2>11 DEF QueueInOrder
<1> QED BY <1>6, <1>7

(* The packet is pushed to its place; the stop message after all of them. *)
LEMMA PushOrder ==
  ASSUME IInv, DispatchPush \/ StopPush
  PROVE  QueueInOrder' /\ StreamInOrder'
<1>1. /\ UNCHANGED <<holds, key, aborted, sent, received>> /\ Consumers' = Consumers
      /\ key \in Consumers /\ key \in Queues /\ aborted = "no"
      /\ \A q \in Queues : q # key => queue'[q] = queue[q]
  BY PushEffect DEF arguments, Consumers, DispatchPush, StopPush, Running
<1>2. PICK m \in Messages :
        /\ Enqueue(key, m)
        /\ \/ pc[0] = "push" /\ pc'[0] = "signal" /\ m = holds
           \/ pc[0] = "stop" /\ pc'[0] = "stopsignal" /\ m = StopMessage
  BY PushEffect
<1>3. PICK c \in Consumers : c = key
  BY <1>1
<1>4. c \in Queues /\ c # 0 /\ c \in Targeted /\ queue'[0] = queue[0]
  BY <1>1, <1>3, Facts
<1>5. /\ Len(queue'[c]) = Len(queue[c]) + 1
      /\ \A i \in 1 .. Len(queue'[c]) : \/ i = Len(queue[c]) + 1 /\ queue'[c][i] = m
                                        \/ i \in 1 .. Len(queue[c]) /\ queue'[c][i] = queue[c][i]
  BY <1>1, <1>2, <1>3, Facts, EnqueueEffect
<1>6. \A d \in Consumers : d # c => queue'[d] = queue[d]
  BY <1>1, <1>3, Facts
<1>7. \A d \in Consumers : /\ Len(received[d]) \in Nat /\ Len(queue[d]) \in Nat /\ Handed(d) \in Nat
                           /\ Len(sent[d]) \in Nat
  BY HandedBound
<1>8. \A d : Holding(d)' <=> FALSE
  BY <1>2 DEF Holding
<1>9. Len(received[c]) \in Nat /\ Len(queue[c]) \in Nat /\ Len(sent[c]) \in Nat
  BY <1>7
<1>10. Handed(c)' = Len(received[c]) + Len(queue[c]) + 1
  <2>1. Handed(c)' = Len(received[c]) + Len(queue'[c]) + 0
    BY <1>1, <1>2, HandedIs
  <2>2. ASSUME NEW r \in Nat, NEW q \in Nat PROVE r + (q + 1) + 0 = r + q + 1
    OBVIOUS
  <2> QED BY ONLY <1>5, <1>9, <2>1, <2>2, Zenon
<1>11. \A d \in Consumers : d # c => Handed(d)' = Handed(d)
  <2>1. ASSUME NEW d \in Consumers, d # c PROVE Handed(d)' = Handed(d)
    BY <1>1, <1>2, <1>3, <1>6, <2>1, HandedIs
  <2> QED BY <2>1, Zenon
<1>12. m = IF Len(received[c]) + Len(queue[c]) + 1 <= Len(sent[c])
           THEN sent[c][Len(received[c]) + Len(queue[c]) + 1] ELSE StopMessage
  <2>1. CASE pc[0] = "push" /\ m = holds
    <3>1. Handed(c) <= Len(sent[c]) /\ holds = sent[c][Handed(c)]
      BY <1>3, <2>1, Facts DEF StreamInOrder, Holding
    <3>2. Handed(c) = Len(received[c]) + Len(queue[c]) + 1
      BY <1>3, <2>1, HandedIs
    <3> QED BY <2>1, <3>1, <3>2, Zenon
  <2>2. CASE pc[0] = "stop" /\ m = StopMessage
    <3>1. queue[0] = << >> /\ Len(queue[0]) = 0
      BY <2>2, Facts, QueueTypes DEF StopInOrder, Stopping
    <3>2. ASSUME Len(received[c]) + Len(queue[c]) + 1 <= Len(sent[c]) PROVE FALSE
      <4>1. Handed(c) = Len(received[c]) + Len(queue[c]) + 0
        BY <2>2, HandedIs
      <4>2. ASSUME NEW r \in Nat, NEW q \in Nat, NEW s \in Nat, r + q + 1 <= s
            PROVE  s \in 1 .. s /\ s > r + q + 0
        BY <4>2
      <4>3. Len(sent[c]) \in 1 .. Len(sent[c]) /\ Len(sent[c]) > Handed(c)
        BY ONLY <1>9, <3>2, <4>1, <4>2, Zenon
      <4>4. \E j \in 1 .. Len(queue[0]) : queue[0][j] = sent[c][Len(sent[c])]
        <5>1. PICK k \in 1 .. Len(sent[c]) : k = Len(sent[c]) /\ k > Handed(c)
          BY <4>3
        <5>2. \E j \in 1 .. Len(queue[0]) : queue[0][j] = sent[c][k]
          BY <1>1, <1>4, <5>1, QueueFacts
        <5> QED BY <5>1, <5>2
      <4> QED BY <3>1, <4>4
    <3> QED BY <2>2, <3>2
  <2> QED BY <1>2, <2>1, <2>2
<1>13. StreamInOrder'
  <2>1. \A d \in Consumers :
          /\ Len(received[d]) <= Len(sent[d])
          /\ \A i \in 1 .. Len(received[d]) : received[d][i] = sent[d][i]
          /\ \A i \in 1 .. Len(queue[d]) :
               queue[d][i] = IF Len(received[d]) + i <= Len(sent[d]) THEN sent[d][Len(received[d]) + i]
                                                                     ELSE StopMessage
    BY Facts DEF StreamInOrder
  <2>2. ASSUME NEW i \in 1 .. Len(queue'[c])
        PROVE  queue'[c][i] = IF Len(received[c]) + i <= Len(sent[c]) THEN sent[c][Len(received[c]) + i]
                                                                     ELSE StopMessage
    <3>1. CASE i = Len(queue[c]) + 1 /\ queue'[c][i] = m
      <4>1. Len(received[c]) + i = Len(received[c]) + Len(queue[c]) + 1
        <5>1. ASSUME NEW r \in Nat, NEW q \in Nat PROVE r + (q + 1) = r + q + 1
          OBVIOUS
        <5> QED BY ONLY <1>9, <3>1, <5>1, Zenon
      <4> QED BY <1>12, <3>1, <4>1, Zenon
    <3>2. CASE i \in 1 .. Len(queue[c]) /\ queue'[c][i] = queue[c][i]
      BY <2>1, <3>2, Zenon
    <3> QED BY <1>5, <3>1, <3>2
  <2>3. ASSUME NEW d \in Consumers, NEW i \in 1 .. Len(queue'[d])
        PROVE  queue'[d][i] = IF Len(received[d]) + i <= Len(sent[d]) THEN sent[d][Len(received[d]) + i]
                                                                     ELSE StopMessage
    <3>1. CASE d = c
      BY <2>2, <2>3, <3>1, Zenon
    <3>2. CASE d # c
      <4>1. queue'[d] = queue[d]
        BY <1>6, <2>3, <3>2
      <4> QED BY <2>1, <2>3, <4>1, Zenon
    <3> QED BY <3>1, <3>2
  <2>4. \A d \in Consumers : Holding(d)' => Handed(d)' <= Len(sent[d]) /\ holds = sent[d][Handed(d)']
    BY <1>6, <1>8
  <2> QED BY <1>1, <2>1, <2>3, <2>4 DEF StreamInOrder
<1>14. QueueInOrder'
  <2>1. CASE pc[0] = "push"
    <3>1. Handed(c)' = Handed(c)
      BY <1>3, <1>10, <2>1, HandedIs
    <3>2. \A d \in Consumers : Handed(d)' = Handed(d)
      BY <1>11, <3>1, Zenon
    <3>3. \A d, i : Waiting(d, i)' <=> Waiting(d, i)
      BY <1>1, <3>2 DEF Waiting
    <3>4. QueueInOrder
      BY Facts
    <3> QED BY <1>1, <1>4, <3>3, <3>4 DEF QueueInOrder
  <2>2. CASE pc[0] = "stop"
    <3>1. queue[0] = << >> /\ Len(queue[0]) = 0
      BY <2>2, Facts, QueueTypes DEF StopInOrder, Stopping
    <3>2. ASSUME NEW d \in Targeted, NEW i \in 1 .. Len(sent[d]), Waiting(d, i)'
          PROVE  Waiting(d, i)
      <4>1. CASE d = c
        <5>1. i > Len(received[c]) + Len(queue[c]) + 1
          <6>1. i > Handed(c)'
            BY <1>1, <3>2, <4>1 DEF Waiting
          <6> QED BY <1>10, <6>1, Zenon
        <5>2. Handed(c) = Len(received[c]) + Len(queue[c]) + 0
          BY <2>2, HandedIs
        <5>3. ASSUME NEW r \in Nat, NEW q \in Nat, NEW k \in 1 .. Len(sent[d]), k > r + q + 1
              PROVE  k > r + q + 0
          BY <5>3
        <5>4. i > Handed(c)
          BY ONLY <1>9, <5>1, <5>2, <5>3, Zenon
        <5> QED BY <4>1, <5>4, Zenon DEF Waiting
      <4>2. CASE d # c
        BY <1>1, <1>11, <3>2, <4>2 DEF Waiting
      <4> QED BY <4>1, <4>2
    <3>3. aborted = "no" => \A d \in Targeted : \A i \in 1 .. Len(sent[d]) : ~Waiting(d, i)'
      <4>1. \A d \in Targeted : \A i \in 1 .. Len(sent[d]) :
              Waiting(d, i) => \E j \in 1 .. Len(queue[0]) : queue[0][j] = sent[d][i]
        BY <1>1, Facts DEF QueueInOrder
      <4> QED BY <3>1, <3>2, <4>1
    <3>4. \A j \in 1 .. Len(queue'[0]) : FALSE
      BY <1>4, <3>1
    <3> QED BY <1>1, <3>3, <3>4 DEF QueueInOrder
  <2> QED BY <1>2, <2>1, <2>2
<1> QED BY <1>13, <1>14

(* A consumer takes the next packet of its stream, or the stop message. *)
LEMMA ConsumeOrder ==
  ASSUME IInv, NEW c \in Consumers, Consume(c)
  PROVE  QueueInOrder' /\ StreamInOrder'
<1>1. /\ aborted = "no" /\ Dequeue(c) /\ Len(queue[c]) > 0 /\ c \in Queues /\ c # 0 /\ c \in Targeted
      /\ UNCHANGED <<holds, key, sent>> /\ Consumers' = Consumers /\ pc'[0] = pc[0]
      /\ queue'[0] = queue[0]
      /\ \A d \in Consumers : d # c => queue'[d] = queue[d] /\ received'[d] = received[d]
      /\ \/ Front(c) = StopMessage /\ received' = received
         \/ /\ Front(c) # StopMessage /\ Front(c) \in Packets
            /\ received'[c] = Append(received[c], Front(c))
  BY ConsumeEffect, Facts DEF arguments, Consumers
<1>2. /\ Front(c) = queue[c][1] /\ 1 \in 1 .. Len(queue[c])
      /\ Len(queue'[c]) = Len(queue[c]) - 1
      /\ \A i \in 1 .. Len(queue'[c]) : i + 1 \in 1 .. Len(queue[c]) /\ queue'[c][i] = queue[c][i + 1]
  BY <1>1, Facts, DequeueEffect
<1>3. /\ Len(received[c]) \in Nat /\ Len(queue[c]) \in Nat /\ Len(sent[c]) \in Nat
      /\ received[c] \in Seq(Packets)
  BY <1>1, HandedBound, Facts, QueueTypes
<1>4. \A d : Holding(d)' <=> Holding(d)
  BY <1>1 DEF Holding
<1>5. \A d \in Consumers :
        /\ Len(received[d]) <= Len(sent[d])
        /\ \A i \in 1 .. Len(received[d]) : received[d][i] = sent[d][i]
        /\ \A i \in 1 .. Len(queue[d]) :
             queue[d][i] = IF Len(received[d]) + i <= Len(sent[d]) THEN sent[d][Len(received[d]) + i]
                                                                   ELSE StopMessage
        /\ Holding(d) => Handed(d) <= Len(sent[d]) /\ holds = sent[d][Handed(d)]
  BY Facts DEF StreamInOrder
<1>6. \A d \in Consumers : d # c => Handed(d)' = Handed(d)
  <2>1. ASSUME NEW d \in Consumers, d # c PROVE Handed(d)' = Handed(d)
    BY <1>1, <2>1, HandedIs
  <2> QED BY <2>1, Zenon
<1>7. CASE Front(c) # StopMessage
  <2>1. /\ received'[c] = Append(received[c], Front(c)) /\ Len(received'[c]) = Len(received[c]) + 1
        /\ \A i \in 1 .. Len(received[c]) : received'[c][i] = received[c][i]
        /\ received'[c][Len(received[c]) + 1] = Front(c)
    BY <1>1, <1>3, <1>7, AppendProperties
  <2>2. Len(received[c]) + 1 <= Len(sent[c]) /\ Front(c) = sent[c][Len(received[c]) + 1]
    BY <1>2, <1>5, <1>7
  <2>3. \A i \in 1 .. Len(received'[c]) : received'[c][i] = sent[c][i]
    <3>1. \A i \in 1 .. Len(received'[c]) : i = Len(received[c]) + 1 \/ i \in 1 .. Len(received[c])
      BY <1>3, <2>1
    <3> QED BY <1>5, <2>1, <2>2, <3>1
  <2>4. ASSUME NEW i \in 1 .. Len(queue'[c])
        PROVE  queue'[c][i] = IF Len(received'[c]) + i <= Len(sent[c]) THEN sent[c][Len(received'[c]) + i]
                                                                      ELSE StopMessage
    <3>1. Len(received'[c]) + i = Len(received[c]) + (i + 1)
      <4>1. ASSUME NEW r \in Nat, NEW k \in Int PROVE (r + 1) + k = r + (k + 1)
        OBVIOUS
      <4>2. i \in Int
        OBVIOUS
      <4> QED BY ONLY <1>3, <2>1, <4>1, <4>2, Zenon
    <3>2. i + 1 \in 1 .. Len(queue[c]) /\ queue'[c][i] = queue[c][i + 1]
      BY <1>2
    <3> QED BY <1>5, <3>1, <3>2, Zenon
  <2>5. Handed(c)' = Handed(c)
    <3>1. ASSUME NEW r \in Nat, NEW q \in Nat
          PROVE  (r + 1) + (q - 1) + 0 = r + q + 0 /\ (r + 1) + (q - 1) + 1 = r + q + 1
      OBVIOUS
    <3>2. CASE pc[0] = "push" /\ key = c
      <4>1. /\ Handed(c) = Len(received[c]) + Len(queue[c]) + 1
            /\ Handed(c)' = Len(received'[c]) + Len(queue'[c]) + 1
        BY <1>1, <3>2, HandedIs
      <4> QED BY ONLY <1>2, <1>3, <2>1, <3>1, <4>1, ZenonT(30)
    <3>3. CASE ~(pc[0] = "push" /\ key = c)
      <4>1. /\ Handed(c) = Len(received[c]) + Len(queue[c]) + 0
            /\ Handed(c)' = Len(received'[c]) + Len(queue'[c]) + 0
        BY <1>1, <3>3, HandedIs
      <4> QED BY ONLY <1>2, <1>3, <2>1, <3>1, <4>1, ZenonT(30)
    <3> QED BY <3>2, <3>3
  <2>6. \A d \in Consumers : Handed(d)' = Handed(d)
    BY <1>6, <2>5, Zenon
  <2>7. StreamInOrder'
    <3>1. Len(received'[c]) <= Len(sent[c])
      BY <2>1, <2>2
    <3>2. \A d \in Consumers : Holding(d)' => Handed(d)' <= Len(sent[d]) /\ holds = sent[d][Handed(d)']
      BY <1>4, <1>5, <2>6, Zenon
    <3> DEFINE P(d) == /\ Len(received'[d]) <= Len(sent[d])
                       /\ \A i \in 1 .. Len(received'[d]) : received'[d][i] = sent[d][i]
                       /\ \A i \in 1 .. Len(queue'[d]) :
                            queue'[d][i] = IF Len(received'[d]) + i <= Len(sent[d])
                                           THEN sent[d][Len(received'[d]) + i] ELSE StopMessage
    <3>3. P(c)
      BY <2>3, <2>4, <3>1
    <3>4. ASSUME NEW d \in Consumers, d # c PROVE P(d)
      BY <1>1, <1>5, <3>4, ZenonT(30)
    <3>5. \A d \in Consumers : P(d)
      <4> HIDE DEF P
      <4> QED BY <3>3, <3>4
    <3> QED BY <1>1, <3>2, <3>5 DEF StreamInOrder
  <2>8. \A d, i : Waiting(d, i)' <=> Waiting(d, i)
    BY <1>1, <2>6 DEF Waiting
  <2>9. QueueInOrder /\ (aborted' = "no" => aborted = "no")
    BY <1>1, Facts
  <2> QED BY <1>1, <2>7, <2>8, <2>9 DEF QueueInOrder
<1>8. CASE Front(c) = StopMessage
  <2>1. received' = received
    BY <1>1, <1>8
  <2>2. Len(queue[c]) = 1
    BY <1>2, <1>1, <1>8, Facts DEF StopInOrder
  <2>3. ~(pc[0] = "push" /\ key = c)
    BY <1>1, <1>2, <1>8, Facts DEF StopInOrder, StopSent
  <2>4. Len(received[c]) = Len(sent[c])
    <3>1. sent[c] \in Seq(Packets) /\ StopMessage \notin Packets
      BY <1>1, Facts, SentTypes
    <3>2. Len(received[c]) <= Len(sent[c])
      BY <1>5
    <3>3. ~(Len(received[c]) + 1 <= Len(sent[c]))
      <4>1. ASSUME Len(received[c]) + 1 <= Len(sent[c]) PROVE FALSE
        <5>1. Len(received[c]) + 1 \in 1 .. Len(sent[c])
          BY <1>3, <4>1
        <5>2. sent[c][Len(received[c]) + 1] # StopMessage
          BY <1>1, <5>1, QueueFacts
        <5> QED BY <1>2, <1>5, <1>8, <4>1, <5>2
      <4> QED BY <4>1
    <3> QED BY <1>3, <3>2, <3>3
  <2>5. Handed(c) = Len(sent[c]) + 1 /\ Handed(c)' = Len(sent[c])
    <3>1. /\ Handed(c) = Len(received[c]) + Len(queue[c]) + 0
          /\ Handed(c)' = Len(received[c]) + Len(queue'[c]) + 0
      BY <1>1, <2>1, <2>3, HandedIs
    <3>2. ASSUME NEW s \in Nat PROVE s + 1 + 0 = s + 1 /\ s + (1 - 1) + 0 = s
      OBVIOUS
    <3> QED BY ONLY <1>2, <1>3, <2>2, <2>4, <3>1, <3>2, Zenon
  <2>6. \A j \in 1 .. Len(queue'[c]) : FALSE
    BY <1>2, <2>2
  <2>7. StreamInOrder'
    <3>1. \A d \in Consumers : Holding(d)' => Handed(d)' <= Len(sent[d]) /\ holds = sent[d][Handed(d)']
      <4>1. ~Holding(c)'
        BY <1>4, <2>3 DEF Holding
      <4> QED BY <1>4, <1>5, <1>6, <4>1, Zenon
    <3> QED BY <1>1, <1>5, <2>1, <2>6, <3>1, SMTT(20) DEF StreamInOrder
  <2>8. \A d \in Targeted : \A i \in 1 .. Len(sent[d]) : Waiting(d, i)' <=> Waiting(d, i)
    <3>1. ASSUME NEW d \in Targeted, NEW i \in 1 .. Len(sent[d]) PROVE Waiting(d, i)' <=> Waiting(d, i)
      <4>1. CASE d = c
        <5>1. i <= Len(sent[c]) /\ i \in Nat
          BY <1>3, <4>1
        <5>2. ~(i > Len(sent[c])) /\ ~(i > Len(sent[c]) + 1)
          BY <1>3, <5>1
        <5>3. ~Waiting(d, i) /\ ~Waiting(d, i)'
          BY <1>1, <2>5, <4>1, <5>2, Zenon DEF Waiting
        <5> QED BY <5>3
      <4>2. CASE d # c
        BY <1>1, <1>6, <4>2 DEF Waiting
      <4> QED BY <4>1, <4>2
    <3> QED BY <3>1
  <2>9. QueueInOrder /\ (aborted' = "no" => aborted = "no")
    BY <1>1, Facts
  <2>10. \A j \in 1 .. Len(queue[0]) : queue[0][j] # StopMessage => queue[0][j].target \in Targeted
    BY QueueFacts
  <2> QED BY <1>1, <2>7, <2>8, <2>9, <2>10 DEF QueueInOrder
<1> QED BY <1>7, <1>8

(* Every step keeps the order of the packets. *)
LEMMA OrderNext ==
  ASSUME IInv, Next
  PROVE  QueueInOrder' /\ StreamInOrder'
<1>1. CASE MainStep
  <2>1. /\ UNCHANGED <<queue, holds, sent, received, key>>
        /\ pc'[0] = "push" <=> pc[0] = "push"
    BY <1>1, MainMoves, Facts
  <2> QED BY <2>1, OrderStays
<1>2. CASE Produce
  BY <1>2, ProduceOrder
<1>3. CASE ProduceSignal
  <2>1. UNCHANGED <<queue, holds, sent, received, key>> /\ pc'[0] = pc[0]
    BY <1>3, Facts DEF ProduceSignal, Goto
  <2> QED BY <2>1, OrderStays
<1>4. ASSUME NEW t \in {0} \cup Consumers, PopWait(t) PROVE QueueInOrder' /\ StreamInOrder'
  <2>1. /\ UNCHANGED <<queue, holds, sent, received, key>>
        /\ pc'[0] = "push" <=> pc[0] = "push"
    BY <1>4, Facts DEF PopWait, Running, Goto
  <2> QED BY <2>1, OrderStays
<1>5. CASE Dispatch
  BY <1>5, DispatchOrder
<1>6. CASE DispatchPush \/ StopPush
  BY <1>6, PushOrder
<1>7. CASE DispatchSignal \/ StopSignal
  <2>1. /\ UNCHANGED <<queue, holds, sent, received>> /\ pc'[0] # "push" /\ pc[0] # "push"
    BY <1>7, Facts DEF DispatchSignal, StopSignal, Running, Goto
  <2> QED BY <2>1, OrderStays
<1>8. ASSUME NEW c \in Consumers, Consume(c) PROVE QueueInOrder' /\ StreamInOrder'
  BY <1>8, ConsumeOrder
<1>9. ASSUME NEW t \in {-1} \cup Consumers, LogLock(t) \/ LogUnlock(t)
      PROVE  QueueInOrder' /\ StreamInOrder'
  <2>1. UNCHANGED <<queue, holds, sent, received, key>> /\ pc'[0] = pc[0]
    BY <1>9, Facts DEF LogLock, LogUnlock, Goto
  <2> QED BY <2>1, OrderStays
<1> QED BY <1>1, <1>2, <1>3, <1>4, <1>5, <1>6, <1>7, <1>8, <1>9
        DEF Next, ProducerStep, DispatcherStep, ConsumerStep

-----------------------------------------------------------------------------
(* The types of what is neither an argument nor a semaphore *)
StepsTyped ==
  /\ main \in [at : {"args", "start", "join", "delete", "success", "failure"},
               turn : Producer .. MaxConsumers]
  /\ pc \in [Threads -> {"new", "produce", "wait", "take", "push", "signal", "stop", "stopsignal",
                         "log", "line", "ended", "joined"}]
  /\ index \in 0 .. MaxPackages /\ holds \in Messages /\ key \in 0 .. MaxConsumers
  /\ queue \in [Queues -> Seq(Messages)] /\ alive \subseteq Queues
  /\ aborted \in {"no", "key", "log"}
  /\ writer \in Threads \cup {NoThread} /\ line \in Seq(Threads)
  /\ log \subseteq Seq(Threads) \X (0 .. MaxPackages)
  /\ sent \in [Targeted -> Seq(Packets)] /\ received \in [Queues -> Seq(Packets)]

(* The steps keep these types. *)
LEMMA StepsTypedNext ==
  ASSUME IInv, Next
  PROVE  StepsTyped'
<1>1. StepsTyped
  BY Facts DEF TypeOK, StepsTyped
<1>2. /\ -1 \in Threads /\ 0 \in Threads /\ 0 \in Queues
      /\ \A c \in Consumers : c \in Threads /\ c \in Queues /\ c \in 1 .. MaxConsumers
      /\ consumerCount \in Nat /\ MaxConsumers \in Nat /\ consumerCount <= MaxConsumers
      /\ packageCount \in Nat /\ MaxPackages \in Nat /\ packageCount <= MaxPackages
      /\ index \in Nat /\ key \in Nat
      /\ main.turn \in Threads /\ main.turn \in Int /\ main.turn >= -1 /\ main.turn <= MaxConsumers
  <2>1. TypeOK /\ main.turn <= consumerCount
    BY Facts DEF MainInOrder
  <2>2. main.turn \in Threads /\ main.turn \in Int /\ main.turn >= -1
    BY <2>1, Basics
  <2>3. \A c \in Consumers : c \in Threads /\ c \in Queues
    BY Facts
  <2> QED BY <2>1, <2>2, <2>3, Facts, Basics DEF Consumers
<1>3. CASE AnalyzeArguments
  <2>1. 0 .. consumerCount \subseteq Queues
    BY <1>2 DEF Queues
  <2> QED BY <1>1, <1>3, <2>1 DEF AnalyzeArguments, StepsTyped, logVars
<1>4. CASE StartThread \/ WaitToFinish
  <2>1. main' \in [at : {"args", "start", "join", "delete", "success", "failure"},
                   turn : -1 .. MaxConsumers]
    BY <1>2, <1>4 DEF StartThread, WaitToFinish, NextTurn
  <2> QED BY <1>1, <1>2, <1>4, <2>1 DEF StartThread, WaitToFinish, Goto, StepsTyped, logVars
<1>5. CASE Delete
  <2>1. main' \in [at : {"args", "start", "join", "delete", "success", "failure"},
                   turn : -1 .. MaxConsumers]
    BY <1>2, <1>5 DEF Delete, NextTurn
  <2> QED BY <1>1, <1>2, <1>5, <2>1 DEF Delete, StepsTyped, logVars
<1>6. CASE Produce
  <2>1. pc' \in [Threads -> {"new", "produce", "wait", "take", "push", "signal", "stop", "stopsignal",
                         "log", "line", "ended", "joined"}]
    BY <1>1, <1>6 DEF Produce, Goto, StepsTyped
  <2>2. UNCHANGED <<main, index, holds, key, alive, aborted, logVars, received>>
    BY <1>6 DEF Produce
  <2>3. queue' \in [Queues -> Seq(Messages)] /\ sent' \in [Targeted -> Seq(Packets)]
    BY <1>1, <1>6, ProduceEffect, EnqueueEffect, SendEffect, Facts DEF StepsTyped
  <2> QED BY <1>1, <2>1, <2>2, <2>3 DEF StepsTyped, logVars
<1>7. CASE ProduceSignal
  <2>1. pc' \in [Threads -> {"new", "produce", "wait", "take", "push", "signal", "stop", "stopsignal",
                         "log", "line", "ended", "joined"}]
    BY <1>1, <1>7 DEF ProduceSignal, Goto, StepsTyped
  <2>2. UNCHANGED <<main, holds, key, queue, alive, aborted, logVars, sent, received>>
    BY <1>7 DEF ProduceSignal
  <2>3. index' \in 0 .. MaxPackages
    BY <1>2, <1>1, <1>7 DEF ProduceSignal, StepsTyped
  <2> QED BY <1>1, <2>1, <2>2, <2>3 DEF StepsTyped, logVars
<1>8. ASSUME NEW t \in {0} \cup Consumers, PopWait(t) PROVE StepsTyped'
  BY <1>1, <1>2, <1>8 DEF PopWait, Goto, StepsTyped, logVars
<1>9. CASE Dispatch
  <2>1. /\ Dequeue(0) /\ Len(queue[0]) > 0
        /\ UNCHANGED <<main, index, alive, logVars, sent, received>>
        /\ \/ /\ Front(0) = StopMessage /\ aborted' = "no" /\ holds' = holds
              /\ \/ pc'[0] = "ended" /\ Consumers = {}
                 \/ pc'[0] = "stop" /\ key' = 1
           \/ /\ Front(0) # StopMessage /\ Front(0).target \in Consumers /\ aborted' = "no"
              /\ pc'[0] = "push" /\ holds' = Front(0) /\ key' = Front(0).target
           \/ /\ Front(0) # StopMessage /\ Front(0).target \notin Consumers /\ aborted' = "key"
              /\ pc'[0] = "take" /\ UNCHANGED <<holds, key>>
    BY <1>9, DispatchEffect
  <2>2. queue' \in [Queues -> Seq(Messages)] /\ Front(0) \in Messages
    BY <2>1, Facts, DequeueEffect
  <2>3. pc' \in [Threads -> {"new", "produce", "wait", "take", "push", "signal", "stop", "stopsignal",
                         "log", "line", "ended", "joined"}]
    BY <1>1, <1>9 DEF Dispatch, Goto, StepsTyped
  <2>4. key' \in 0 .. MaxConsumers
    <3>1. key \in 0 .. MaxConsumers /\ \A c \in Consumers : c \in 0 .. MaxConsumers
      BY <1>1, <1>2 DEF StepsTyped
    <3>2. key' = key \/ (key' = 1 /\ Consumers # {}) \/ key' \in Consumers
      BY <1>9 DEF Dispatch
    <3>3. Consumers # {} => 1 \in Consumers
      BY <1>2 DEF Consumers
    <3> QED BY <3>1, <3>2, <3>3
  <2> QED BY <1>1, <2>1, <2>2, <2>3, <2>4 DEF StepsTyped, logVars
<1>10. CASE DispatchPush \/ StopPush
  <2>1. pc' \in [Threads -> {"new", "produce", "wait", "take", "push", "signal", "stop", "stopsignal",
                         "log", "line", "ended", "joined"}]
    BY <1>1, <1>10 DEF DispatchPush, StopPush, Goto, StepsTyped
  <2>2. queue' \in [Queues -> Seq(Messages)]
    BY <1>10, PushEffect, EnqueueEffect, Facts
  <2>3. UNCHANGED <<main, index, holds, key, alive, aborted, logVars, sent, received>>
    BY <1>10 DEF DispatchPush, StopPush
  <2> QED BY <1>1, <2>1, <2>2, <2>3 DEF StepsTyped, logVars
<1>11. CASE DispatchSignal \/ StopSignal
  <2>1. pc' \in [Threads -> {"new", "produce", "wait", "take", "push", "signal", "stop", "stopsignal",
                         "log", "line", "ended", "joined"}]
    BY <1>1, <1>11 DEF DispatchSignal, StopSignal, Goto, StepsTyped
  <2>2. UNCHANGED <<main, index, holds, queue, alive, aborted, logVars, sent, received>>
    BY <1>11 DEF DispatchSignal, StopSignal
  <2>3. key' \in 0 .. MaxConsumers
    BY <1>2, <1>1, <1>11 DEF DispatchSignal, StopSignal, StepsTyped
  <2> QED BY <1>1, <2>1, <2>2, <2>3 DEF StepsTyped, logVars
<1>12. ASSUME NEW c \in Consumers, Consume(c) PROVE StepsTyped'
  <2>1. pc' \in [Threads -> {"new", "produce", "wait", "take", "push", "signal", "stop", "stopsignal",
                         "log", "line", "ended", "joined"}]
    BY <1>1, <1>12 DEF Consume, Goto, StepsTyped
  <2>2. /\ Dequeue(c) /\ Len(queue[c]) > 0 /\ c \in Queues
        /\ UNCHANGED <<main, index, holds, key, alive, aborted, logVars, sent>>
        /\ received' = received \/ received' \in [Queues -> Seq(Packets)]
    BY <1>12, ConsumeEffect
  <2>3. queue' \in [Queues -> Seq(Messages)]
    BY <2>2, Facts, DequeueEffect
  <2> QED BY <1>1, <2>1, <2>2, <2>3 DEF StepsTyped, logVars
<1>13. ASSUME NEW t \in {-1} \cup Consumers, LogLock(t) PROVE StepsTyped'
  <2>1. t \in Threads /\ Append(line, t) \in Seq(Threads)
    BY <1>1, <1>2, AppendProperties DEF StepsTyped
  <2> QED BY <1>1, <1>13, <2>1 DEF LogLock, Goto, StepsTyped
<1>14. ASSUME NEW t \in {-1} \cup Consumers, LogUnlock(t) PROVE StepsTyped'
  <2>1. t \in Threads /\ << >> \in Seq(Threads)
    BY <1>2
  <2>2. (IF t = -1 THEN packageCount ELSE Len(received[t])) \in 0 .. MaxPackages
    <3>1. CASE t = -1
      BY <1>2, <3>1
    <3>2. CASE t # -1
      <4>1. /\ t \in Queues \ {0} /\ sem[0] \in Nat /\ sem[t] \in Nat /\ Len(received[t]) \in Nat
            /\ index <= packageCount
        BY <3>2, Facts, QueueTypes DEF RolesInOrder
      <4>2. /\ One(pc[t] \in Left) = 1 /\ One(pc[t] = "take") = 0 /\ Busy(t) \in {0, 1}
            /\ Signals \in {index, index + 1} /\ index + 0 = index
        BY <1>2, <1>14 DEF LogUnlock, Running, One, Left, Busy, Signals
      <4>3. sem[0] + Busy(t) + sem[t] + One(pc[t] = "take") + Len(received[t])
              + One(pc[t] \in Left) <= Signals
        BY <4>1, Facts DEF SignalsBound
      <4>4. Len(received[t]) <= packageCount
        <5> DEFINE a == sem[0]
                   b == Busy(t)
                   d == sem[t]
                   n == Len(received[t])
                   g == Signals
        <5>1. /\ a \in Nat /\ b \in {0, 1} /\ d \in Nat /\ n \in Nat /\ g \in {index, index + 1}
              /\ index \in Nat
          BY <1>2, <4>1, <4>2
        <5>2. a + b + d + 0 + n + 1 <= g
          BY <4>2, <4>3
        <5> HIDE DEF a, b, d, n, g
        <5>3. n <= index
          BY <5>1, <5>2
        <5> QED BY <1>2, <4>1, <5>3 DEF n
      <4> QED BY <1>2, <3>2, <4>1, <4>4
    <3> QED BY <3>1, <3>2
  <2> QED BY <1>1, <1>14, <2>1, <2>2 DEF LogUnlock, Goto, StepsTyped
<1> QED BY <1>3, <1>4, <1>5, <1>6, <1>7, <1>8, <1>9, <1>10, <1>11, <1>12, <1>13, <1>14
        DEF Next, MainStep, ProducerStep, DispatcherStep, ConsumerStep

(* No semaphore counts more than the messages of the producer. *)
LEMMA SemNext ==
  ASSUME IInv, Next
  PROVE  sem' \in [Queues -> 0 .. MaxPackages + 1]
<1>1. /\ sem \in [Queues -> 0 .. MaxPackages + 1] /\ \A q \in Queues : sem[q] \in Nat
      /\ 0 \in Queues /\ \A c \in Consumers : c \in Queues
      /\ MaxPackages \in Nat /\ packageCount \in Nat /\ packageCount <= MaxPackages
  <2>1. TypeOK
    BY Facts
  <2>2. \A q \in Queues : sem[q] \in Nat
    BY <2>1, QueueTypes
  <2> QED BY <2>1, <2>2, Facts, Basics DEF TypeOK
<1>2. sem' \in [Queues -> Nat]
  <2>1. \/ sem' = sem
        \/ \E q \in Queues : sem' = [sem EXCEPT ![q] = @ + 1]
        \/ \E q \in Queues : sem[q] > 0 /\ sem' = [sem EXCEPT ![q] = @ - 1]
    <3>1. CASE MainStep
      BY <3>1, MainMoves
    <3>2. CASE Produce \/ Dispatch \/ DispatchPush \/ StopPush
      BY <3>2 DEF Produce, Dispatch, DispatchPush, StopPush
    <3>3. CASE ProduceSignal
      BY <1>1, <3>3 DEF ProduceSignal, Signal
    <3>4. CASE DispatchSignal \/ StopSignal
      <4>1. key \in Consumers
        BY <3>4, Facts DEF DispatchSignal, StopSignal, Running, RolesInOrder
      <4> QED BY <1>1, <3>4, <4>1 DEF DispatchSignal, StopSignal, Signal
    <3>5. ASSUME NEW t \in {0} \cup Consumers, PopWait(t)
          PROVE  \E q \in Queues : sem[q] > 0 /\ sem' = [sem EXCEPT ![q] = @ - 1]
      BY <1>1, <3>5 DEF PopWait, Wait
    <3>6. ASSUME NEW c \in Consumers, Consume(c) PROVE sem' = sem
      BY <3>6 DEF Consume
    <3>7. ASSUME NEW t \in {-1} \cup Consumers, LogLock(t) \/ LogUnlock(t) PROVE sem' = sem
      BY <3>7 DEF LogLock, LogUnlock
    <3> QED BY <3>1, <3>2, <3>3, <3>4, <3>5, <3>6, <3>7
            DEF Next, ProducerStep, DispatcherStep, ConsumerStep
  <2> QED BY <1>1, <2>1
<1>3. /\ SignalsBound' /\ RolesInOrder' /\ StepsTyped' /\ packageCount' = packageCount
  BY BoundNext, RolesNext, StepsTypedNext, ArgumentsStay
<1>4. index' \in Nat /\ index' <= packageCount /\ \A q \in Queues : Len(received'[q]) \in Nat
  BY <1>1, <1>3 DEF StepsTyped, RolesInOrder
<1>5. Signals' \in Nat /\ Signals' <= MaxPackages + 1
  <2>1. Signals' \in {index' + 0, index' + 1}
    BY DEF Signals, One
  <2> DEFINE i == index'
             g == Signals'
  <2>2. /\ i \in Nat /\ i <= packageCount /\ g \in {i + 0, i + 1}
        /\ packageCount \in Nat /\ MaxPackages \in Nat /\ packageCount <= MaxPackages
    BY <1>1, <1>4, <2>1
  <2> HIDE DEF i, g
  <2>3. g \in Nat /\ g <= MaxPackages + 1
    BY <2>2
  <2> QED BY <2>3 DEF g
<1>6. ASSUME NEW q \in Queues PROVE sem'[q] <= MaxPackages + 1
  <2>1. /\ sem'[q] \in Nat /\ sem'[0] \in Nat /\ Busy(q)' \in {0, 1}
        /\ One(pc'[q] = "take") \in {0, 1} /\ One(pc'[q] \in Left) \in {0, 1}
        /\ Len(received'[q]) \in Nat
    BY <1>1, <1>2, <1>4 DEF Busy, One
  <2>2. CASE q = 0
    <3>1. sem'[0] + One(pc'[0] = "take") <= Signals'
      BY <1>3 DEF SignalsBound
    <3> DEFINE s == sem'[0]
               t == One(pc'[0] = "take")
               g == Signals'
    <3>2. s \in Nat /\ t \in {0, 1} /\ g \in Nat /\ g <= MaxPackages + 1 /\ s + t <= g
      BY <1>5, <2>1, <2>2, <3>1
    <3> HIDE DEF s, t, g
    <3>3. s <= MaxPackages + 1
      BY <1>1, <3>2
    <3> QED BY <2>2, <3>3 DEF s
  <2>3. CASE q # 0
    <3>1. sem'[0] + Busy(q)' + sem'[q] + One(pc'[q] = "take") + Len(received'[q])
            + One(pc'[q] \in Left) <= Signals'
      BY <1>3, <2>3 DEF SignalsBound
    <3> DEFINE s == sem'[0]
               b == Busy(q)'
               r == sem'[q]
               t == One(pc'[q] = "take")
               n == Len(received'[q])
               l == One(pc'[q] \in Left)
               g == Signals'
    <3>2. /\ s \in Nat /\ b \in {0, 1} /\ r \in Nat /\ t \in {0, 1} /\ n \in Nat /\ l \in {0, 1}
          /\ g \in Nat /\ g <= MaxPackages + 1 /\ s + b + r + t + n + l <= g
      BY <1>5, <2>1, <3>1
    <3> HIDE DEF s, b, r, t, n, l, g
    <3>3. r <= MaxPackages + 1
      BY <1>1, <3>2
    <3> QED BY <3>3 DEF r
  <2> QED BY <2>2, <2>3
<1> QED BY <1>1, <1>2, <1>6

(* Every step keeps the types. *)
LEMMA TypeNext ==
  ASSUME IInv, Next
  PROVE  TypeOK'
<1>1. StepsTyped' /\ sem' \in [Queues -> 0 .. MaxPackages + 1]
  BY StepsTypedNext, SemNext
<1>2. argsOK' \in BOOLEAN /\ <<packageCount', consumerCount'>> \in Arguments
  BY ArgumentsStay, Facts DEF TypeOK
<1> QED BY <1>1, <1>2 DEF TypeOK, StepsTyped

(* The inductive invariant holds at the start ... *)
LEMMA InvInit ==
  ASSUME Init
  PROVE  IInv
<1>1. <<packageCount, consumerCount>> \in Arguments /\ argsOK \in BOOLEAN
  BY ArgumentsAssumption DEF Init
<1>2. /\ packageCount \in Nat /\ MaxPackages \in Nat /\ packageCount <= MaxPackages
      /\ consumerCount \in Nat /\ MaxConsumers \in Nat /\ consumerCount <= MaxConsumers
      /\ UInt16 \in Nat /\ UInt16 > 1
  BY <1>1, Bounds
<1>3. /\ -1 \in Threads /\ 0 \in Threads /\ 0 \in Queues /\ Queues \subseteq Threads
      /\ Consumers \subseteq Queues /\ Queues \subseteq Targeted /\ Consumers \subseteq Threads
      /\ -2 \notin Threads
  BY <1>2 DEF Threads, Queues, Consumers, Targeted
<1>4. \A S : << >> \in Seq(S)
  OBVIOUS
<1>5. TypeOK
  <2>1. StopMessage \in Messages
    BY DEF Messages
  <2> QED BY <1>1, <1>2, <1>3, <1>4, <2>1 DEF Init, TypeOK
<1>6. \A t \in Threads : pc[t] = "new"
  BY DEF Init
<1>7. RolesInOrder
  BY <1>2, <1>3, <1>6 DEF Init, RolesInOrder, Left
<1>8. MainInOrder
  BY <1>2, <1>3, <1>6 DEF Init, MainInOrder
<1>9. /\ \A q \in Queues : queue[q] = << >> /\ sem[q] = 0 /\ received[q] = << >>
      /\ \A c \in Targeted : sent[c] = << >>
      /\ index = 0 /\ pc[0] = "new" /\ pc[-1] = "new" /\ Len(<< >>) = 0
  BY <1>3, <1>6 DEF Init
<1>10. Signalled
  BY <1>3, <1>6, <1>9 DEF Signalled, One
<1>11. SignalsBound
  BY <1>3, <1>6, <1>9 DEF SignalsBound, Signals, Busy, One, Left
<1>12. StopInOrder
  BY <1>3, <1>6, <1>9 DEF StopInOrder, Stopping, Left
<1>13. LogInOrder
  <2>1. Logged = {}
    BY <1>3, <1>6 DEF Logged
  <2> QED BY <1>3, <1>6, <2>1 DEF Init, LogInOrder
<1>14. KeysRegistered
  BY <1>3, <1>9 DEF Init, KeysRegistered
<1>15. SentInOrder
  <2>1. Produced = 0
    BY <1>9 DEF Produced, One
  <2> QED BY <1>9, <2>1 DEF SentInOrder
<1>16. QueueInOrder
  BY <1>3, <1>9 DEF QueueInOrder
<1>17. StreamInOrder
  BY <1>3, <1>9 DEF StreamInOrder, Holding
<1> QED BY <1>5, <1>7, <1>8, <1>10, <1>11, <1>12, <1>13, <1>14, <1>15, <1>16, <1>17 DEF IInv

(* ... and every step keeps it. *)
LEMMA InvNext ==
  ASSUME IInv, [Next]_vars
  PROVE  IInv'
<1>1. CASE Next
  BY <1>1, TypeNext, RolesNext, MainNext, SignalledNext, BoundNext, StopNext, LogNext, KeysNext,
     SentNext, OrderNext DEF IInv
<1>2. CASE UNCHANGED vars
  <2>1. /\ UNCHANGED <<argsOK, packageCount, consumerCount, main, pc, index, holds, key, queue, sem,
                       alive, aborted>>
        /\ UNCHANGED <<writer, line, log, sent, received>>
    BY <1>2 DEF vars, logVars
  <2>2. TypeOK' /\ RolesInOrder' /\ MainInOrder'
    BY <2>1 DEF IInv, TypeOK, RolesInOrder, MainInOrder, Consumers
  <2>3. Signalled' /\ SignalsBound'
    BY <2>1 DEF IInv, Signalled, SignalsBound, Signals, Busy
  <2>4. StopInOrder' /\ LogInOrder' /\ KeysRegistered'
    BY <2>1 DEF IInv, StopInOrder, Closed, Stopping, StopSent, LogInOrder, Logged, KeysRegistered, Consumers
  <2>5. SentInOrder'
    BY <2>1 DEF IInv, SentInOrder, Produced
  <2>6. QueueInOrder'
    <3>1. \A c, i : Waiting(c, i)' <=> Waiting(c, i)
      BY <2>1 DEF Waiting, Handed, Holding, Consumers
    <3> QED BY <2>1, <3>1 DEF IInv, QueueInOrder
  <2>7. StreamInOrder'
    BY <2>1 DEF IInv, StreamInOrder, Handed, Holding, Consumers
  <2> QED BY <2>2, <2>3, <2>4, <2>5, <2>6, <2>7 DEF IInv
<1> QED BY <1>1, <1>2

(* The simulation keeps its inductive invariant. *)
THEOREM Invariance == Spec => []IInv
<1>1. Init => IInv
  BY InvInit
<1>2. IInv /\ [Next]_vars => IInv'
  BY InvNext
<1> QED BY <1>1, <1>2, PTL DEF Spec

(* The variables have their types: no counter of a semaphore goes below    *)
(* zero or past the messages there are, and the producer counts its        *)
(* packages up to packageCount.                                            *)
THEOREM TypeCorrect == Spec => []TypeOK
<1>1. IInv => TypeOK
  BY DEF IInv
<1> QED BY <1>1, Invariance, PTL

(* Every target has a queue in toQueues as long as there is a consumer and *)
(* their number fits in target: the dispatcher does not throw.             *)
THEOREM KeysAreRegistered == Spec => []EveryKeyIsRegistered
<1>1. IInv => EveryKeyIsRegistered
  BY DEF IInv, KeysRegistered, EveryKeyIsRegistered
<1> QED BY <1>1, Invariance, PTL

(* Nothing follows a stop message, and a thread that has left its loop     *)
(* leaves no message behind.                                               *)
THEOREM NothingFollowsStop == Spec => []StopIsLast
<1>1. ASSUME IInv PROVE StopIsLast
  <2>1. ASSUME NEW q \in Queues
        PROVE  \A i \in 1 .. Len(queue[q]) : queue[q][i] = StopMessage => i = Len(queue[q])
    BY <1>1, Facts DEF StopInOrder
  <2>2. ASSUME NEW q \in Queues, pc[q] \in {"log", "line", "ended", "joined"}
        PROVE  queue[q] = << >>
    <3>1. CASE q = 0
      BY <1>1, <2>2, <3>1, Facts DEF StopInOrder, Stopping, RolesInOrder
    <3>2. CASE q # 0
      <4>1. q \in Consumers
        <5>1. q \in Threads /\ q \in Nat /\ q > 0 /\ consumerCount \in Nat
          BY <1>1, <3>2, Facts, Basics
        <5>2. ~(q > consumerCount)
          BY <1>1, <2>2, <5>1, Facts DEF RolesInOrder
        <5> QED BY <5>1, <5>2 DEF Consumers
      <4> QED BY <1>1, <2>2, <4>1, Facts DEF StopInOrder, Left
    <3> QED BY <3>1, <3>2
  <2> QED BY <2>1, <2>2 DEF StopIsLast
<1> QED BY <1>1, Invariance, PTL

(* No thread uses a queue that main has not created or has deleted: main   *)
(* deletes only when it has joined every thread.                           *)
THEOREM QueuesOutliveTheirUse == Spec => []NoUseAfterDelete
<1>1. ASSUME IInv PROVE NoUseAfterDelete
  <2>1. ASSUME NEW t \in Threads PROVE Uses(t) \subseteq alive
    <3>1. CASE pc[t] \in {"new", "joined"}
      BY <3>1 DEF Uses
    <3>2. CASE pc[t] \notin {"new", "joined"}
      <4>1. t \in Producer .. consumerCount
        <5>1. t \in Int /\ t >= -1 /\ consumerCount \in Nat
          BY <1>1, Facts, Basics
        <5>2. ~(t > consumerCount)
          BY <1>1, <3>2, Facts DEF RolesInOrder
        <5> QED BY <5>1, <5>2
      <4>2. alive = 0 .. consumerCount
        <5>1. main.at \in {"args", "start", "join", "delete", "success", "failure"}
          BY <1>1, Facts DEF TypeOK
        <5> QED BY <1>1, <3>2, <4>1, <5>1, Facts DEF MainInOrder
      <4>3. 0 \in alive /\ (t # -1 => t \in alive)
        BY <1>1, <4>1, <4>2, Facts
      <4>4. pc[t] \in {"push", "signal", "stop", "stopsignal"} /\ t # -1 => key \in alive
        <5>1. pc[t] \in {"push", "signal", "stop", "stopsignal"} /\ t # -1 => t = 0
          <6>1. t > 0 => pc[t] \in {"new", "wait", "take"} \cup Left
            BY <1>1, Facts DEF RolesInOrder
          <6> QED BY <4>1, <6>1 DEF Left
        <5>2. pc[0] \in {"push", "signal", "stop", "stopsignal"} => key \in Consumers
          BY <1>1, Facts DEF RolesInOrder
        <5> QED BY <1>1, <4>2, <5>1, <5>2, Facts DEF Consumers
      <4>5. t = -1 => pc[t] \notin {"push", "stop", "stopsignal"}
        BY <1>1, Facts DEF RolesInOrder, Left
      <4>6. CASE pc[t] \in {"produce", "wait", "take"}
        BY <4>3, <4>6 DEF Uses
      <4>7. CASE pc[t] = "signal" /\ t = -1
        BY <4>3, <4>7 DEF Uses
      <4>8. CASE pc[t] \in {"push", "signal", "stop", "stopsignal"} /\ t # -1
        <5>1. /\ pc[t] \notin {"produce", "wait", "take"}
              /\ ~(pc[t] = "signal" /\ t = Producer)
          BY <4>8
        <5>2. Uses(t) = {key}
          BY <4>8, <5>1 DEF Uses
        <5> QED BY <4>4, <4>8, <5>2
      <4>9. CASE pc[t] \in {"log", "line", "ended"}
        BY <4>9 DEF Uses
      <4> QED BY <1>1, <3>2, <4>5, <4>6, <4>7, <4>8, <4>9, Facts
    <3> QED BY <3>1, <3>2
  <2> QED BY <2>1 DEF NoUseAfterDelete
<1> QED BY <1>1, Invariance, PTL

(* The stream of a consumer is as long as what has been handed on to it,   *)
(* and at each position has what it received, its queue or the dispatcher  *)
(* has there.                                                              *)
LEMMA StreamIs ==
  ASSUME IInv, NEW c \in Consumers
  PROVE  /\ Len(received[c] \o queue[c] \o InDispatcher(c)) = Handed(c)
         /\ \A i \in 1 .. Handed(c) :
              (received[c] \o queue[c] \o InDispatcher(c))[i] =
                IF i <= Len(received[c]) THEN received[c][i]
                ELSE IF i <= Len(received[c]) + Len(queue[c]) THEN queue[c][i - Len(received[c])]
                ELSE holds
<1> DEFINE r == received[c]
           q == queue[c]
           d == InDispatcher(c)
<1>1. /\ r \in Seq(Messages) /\ q \in Seq(Messages) /\ holds \in Messages
      /\ Len(r) \in Nat /\ Len(q) \in Nat
  <2>1. received[c] \in Seq(Packets) /\ queue[c] \in Seq(Messages) /\ holds \in Messages
    BY Facts, QueueTypes DEF TypeOK
  <2>2. Packets \subseteq Messages
    BY DEF Messages
  <2> QED BY <2>1, <2>2, SeqMonotonic, HandedBound
<1>2. /\ d \in Seq(Messages) /\ (Holding(c) => Len(d) = 1 /\ d[1] = holds) /\ (~Holding(c) => Len(d) = 0)
  BY <1>1 DEF InDispatcher, Holding
<1>3. Handed(c) = Len(r) + Len(q) + Len(d)
  BY <1>2, HandedIs DEF Holding
<1> HIDE DEF r, q, d
<1>4. Len(d) \in Nat
  BY <1>2, LenProperties
<1>5. /\ r \o q \in Seq(Messages) /\ Len(r \o q) = Len(r) + Len(q)
      /\ \A i \in 1 .. Len(r) + Len(q) : (r \o q)[i] = IF i <= Len(r) THEN r[i] ELSE q[i - Len(r)]
  BY <1>1, ConcatProperties
<1>6. /\ Len(r \o q \o d) = Len(r \o q) + Len(d)
      /\ \A i \in 1 .. Len(r \o q) + Len(d) :
           (r \o q \o d)[i] = IF i <= Len(r \o q) THEN (r \o q)[i] ELSE d[i - Len(r \o q)]
  BY <1>2, <1>5, ConcatProperties
<1>7. Len(r \o q \o d) = Handed(c)
  BY <1>3, <1>5, <1>6
<1>8. ASSUME NEW i \in 1 .. Len(r) + Len(q) + Len(d)
      PROVE  (r \o q \o d)[i] = IF i <= Len(r) THEN r[i]
                                ELSE IF i <= Len(r) + Len(q) THEN q[i - Len(r)] ELSE holds
  <2>1. CASE i <= Len(r) + Len(q)
    <3>1. i \in 1 .. Len(r) + Len(q)
      BY <1>1, <1>4, <2>1
    <3> QED BY <1>5, <1>6, <2>1, <3>1
  <2>2. CASE ~(i <= Len(r) + Len(q))
    <3>1. Holding(c) /\ i - (Len(r) + Len(q)) = 1 /\ ~(i <= Len(r))
      <4> DEFINE a == Len(r)
                 b == Len(q)
                 e == Len(d)
                 h == Holding(c)
      <4>1. /\ a \in Nat /\ b \in Nat /\ e \in Nat /\ i \in 1 .. a + b + e /\ ~(i <= a + b)
            /\ (h => e = 1) /\ (~h => e = 0)
        BY <1>1, <1>2, <1>4, <2>2
      <4> HIDE DEF a, b, e, h
      <4>2. e # 0 /\ h
        BY <4>1
      <4>3. i - (a + b) = 1 /\ ~(i <= a)
        BY <4>1, <4>2
      <4> QED BY <4>2, <4>3 DEF a, b, e, h
    <3>2. (r \o q \o d)[i] = d[1]
      BY <1>5, <1>6, <2>2, <3>1
    <3> QED BY <1>2, <2>2, <3>1, <3>2
  <2> QED BY <2>1, <2>2
<1> QED BY <1>3, <1>7, <1>8 DEF r, q, d

(* What each consumer has counted, its queue and the hands of the          *)
(* dispatcher are the packets produced for it, in order and each once, and *)
(* at most the stop message after them; the others are in the dispatcher's *)
(* queue, in the order of their production.                                *)
THEOREM PacketsKeepTheirOrder == Spec => []InOrderExactlyOnce
<1>1. ASSUME IInv PROVE InOrderExactlyOnce
  <2>1. ASSUME aborted = "no", NEW c \in Consumers
        PROVE  LET stream == received[c] \o queue[c] \o InDispatcher(c) IN
               /\ Len(stream) <= Len(sent[c]) + 1
               /\ \A i \in 1 .. Len(stream) :
                    stream[i] = IF i <= Len(sent[c]) THEN sent[c][i] ELSE StopMessage
               /\ \A m \in Packets :
                    (m.target = c /\ \E j \in 1 .. Len(queue[0]) : queue[0][j] = m) <=>
                      \E i \in 1 .. Len(sent[c]) : i > Len(stream) /\ sent[c][i] = m
    <3> DEFINE stream == received[c] \o queue[c] \o InDispatcher(c)
    <3>1. /\ Len(stream) = Handed(c)
          /\ \A i \in 1 .. Handed(c) :
               stream[i] = IF i <= Len(received[c]) THEN received[c][i]
                           ELSE IF i <= Len(received[c]) + Len(queue[c]) THEN queue[c][i - Len(received[c])]
                           ELSE holds
      BY <1>1, StreamIs
    <3> HIDE DEF stream
    <3>2. /\ c \in Targeted /\ c \in Queues /\ Handed(c) \in Nat /\ Len(received[c]) \in Nat
          /\ Len(queue[c]) \in Nat /\ Len(sent[c]) \in Nat
      BY <1>1, Facts, HandedBound
    <3>3. /\ Len(received[c]) <= Len(sent[c])
          /\ \A i \in 1 .. Len(received[c]) : received[c][i] = sent[c][i]
          /\ \A i \in 1 .. Len(queue[c]) :
               queue[c][i] = IF Len(received[c]) + i <= Len(sent[c]) THEN sent[c][Len(received[c]) + i]
                                                                     ELSE StopMessage
          /\ Holding(c) => Handed(c) <= Len(sent[c]) /\ holds = sent[c][Handed(c)]
      BY <1>1, Facts DEF StreamInOrder
    <3>4. ~Holding(c) => Handed(c) = Len(received[c]) + Len(queue[c])
      <4>1. ~Holding(c) => Handed(c) = Len(received[c]) + Len(queue[c]) + 0
        BY HandedIs DEF Holding
      <4>2. ASSUME NEW r \in Nat, NEW q \in Nat PROVE r + q + 0 = r + q
        OBVIOUS
      <4> QED BY ONLY <3>2, <4>1, <4>2, Zenon
    <3>5. Holding(c) => Handed(c) = Len(received[c]) + Len(queue[c]) + 1
      BY HandedIs DEF Holding
    <3>6. Handed(c) <= Len(sent[c]) + 1
      <4> DEFINE R == Len(received[c])
                 Q == Len(queue[c])
                 S == Len(sent[c])
                 H == Handed(c)
      <4>1. R \in Nat /\ Q \in Nat /\ S \in Nat /\ H \in Nat /\ R <= S
        BY <3>2, <3>3
      <4>2. CASE Holding(c)
        <5>1. H <= S
          BY <3>3, <4>2
        <5> HIDE DEF R, Q, S, H
        <5>2. H <= S + 1
          BY <4>1, <5>1
        <5> QED BY <5>2 DEF H, S
      <4>3. CASE ~Holding(c)
        <5>1. H = R + Q
          BY <3>4, <4>3
        <5>2. \A k \in 1 .. Q : k # Q => R + k <= S
          BY <1>1, <3>2, <3>3, Facts DEF StopInOrder
        <5> HIDE DEF R, Q, S, H
        <5>3. ASSUME Q <= 1 PROVE H <= S + 1
          BY <4>1, <5>1, <5>3
        <5>4. ASSUME ~(Q <= 1) PROVE H <= S + 1
          <6>1. Q - 1 \in 1 .. Q /\ Q - 1 # Q
            BY <4>1, <5>4
          <6>2. R + (Q - 1) <= S
            BY <5>2, <6>1
          <6> QED BY <4>1, <5>1, <6>2
        <5>5. H <= S + 1
          BY <5>3, <5>4
        <5> QED BY <5>5 DEF H, S
      <4> QED BY <4>2, <4>3
    <3>7. ASSUME NEW i \in 1 .. Handed(c)
          PROVE  stream[i] = IF i <= Len(sent[c]) THEN sent[c][i] ELSE StopMessage
      <4>1. CASE i <= Len(received[c])
        <5>1. i \in 1 .. Len(received[c]) /\ i <= Len(sent[c])
          BY <3>2, <3>3, <4>1
        <5> QED BY <3>1, <3>3, <4>1, <5>1
      <4>2. CASE ~(i <= Len(received[c])) /\ i <= Len(received[c]) + Len(queue[c])
        <5>1. PICK k \in 1 .. Len(queue[c]) : k = i - Len(received[c]) /\ Len(received[c]) + k = i
          <6> DEFINE R == Len(received[c])
                     Q == Len(queue[c])
          <6>0. i \in Int
            OBVIOUS
          <6>1. R \in Nat /\ Q \in Nat /\ i \in Int /\ ~(i <= R) /\ i <= R + Q
            BY ONLY <3>2, <4>2, <6>0, Zenon
          <6> HIDE DEF R, Q
          <6>2. i - R \in 1 .. Q /\ R + (i - R) = i
            BY <6>1
          <6> QED BY <6>2 DEF R, Q
        <5>2. stream[i] = queue[c][k]
          BY <3>1, <4>2, <5>1
        <5> QED BY <3>3, <5>1, <5>2
      <4>3. CASE ~(i <= Len(received[c])) /\ ~(i <= Len(received[c]) + Len(queue[c]))
        <5> DEFINE R == Len(received[c])
                   Q == Len(queue[c])
                   H == Handed(c)
        <5>0. /\ R \in Nat /\ Q \in Nat /\ H \in Nat /\ i \in 1 .. H /\ ~(i <= R + Q)
              /\ (~Holding(c) => H = R + Q) /\ (Holding(c) => H = R + Q + 1)
          BY <3>2, <3>4, <3>5, <4>3
        <5>1. Holding(c)
          <6> HIDE DEF R, Q, H
          <6>1. H # R + Q
            BY <5>0
          <6> QED BY <5>0, <6>1
        <5>2. i = Handed(c)
          <6> HIDE DEF R, Q, H
          <6>1. H = R + Q + 1
            BY <5>0, <5>1
          <6>2. i = H
            BY <5>0, <6>1
          <6> QED BY <6>2 DEF H
        <5>3. stream[i] = holds
          BY <3>1, <4>3
        <5> QED BY <3>3, <5>1, <5>2, <5>3
      <4> QED BY <4>1, <4>2, <4>3
    <3>8. ASSUME NEW m \in Packets
          PROVE  (m.target = c /\ \E j \in 1 .. Len(queue[0]) : queue[0][j] = m) <=>
                   \E i \in 1 .. Len(sent[c]) : i > Handed(c) /\ sent[c][i] = m
      <4>1. ASSUME m.target = c, NEW j \in 1 .. Len(queue[0]), queue[0][j] = m
            PROVE  \E i \in 1 .. Len(sent[c]) : i > Handed(c) /\ sent[c][i] = m
        <5>1. queue[0][j] # StopMessage
          BY <1>1, <4>1, Facts
        <5>2. \E i \in 1 .. Len(sent[queue[0][j].target]) :
                   /\ sent[queue[0][j].target][i] = queue[0][j]
                   /\ queue[0][j].target \in Consumers => i > Handed(queue[0][j].target)
          BY <1>1, <5>1, QueueFacts
        <5> QED BY <4>1, <5>2, Zenon
      <4>2. ASSUME NEW i \in 1 .. Len(sent[c]), i > Handed(c), sent[c][i] = m
            PROVE  m.target = c /\ \E j \in 1 .. Len(queue[0]) : queue[0][j] = m
        BY <1>1, <2>1, <3>2, <4>2, QueueFacts
      <4> QED BY <4>1, <4>2
    <3> QED BY <3>1, <3>6, <3>7, <3>8 DEF stream
  <2>2. \A i, j \in 1 .. Len(queue[0]) :
          i < j => queue[0][i].number < queue[0][j].number \/ queue[0][j] = StopMessage
    BY <1>1, QueueFacts
  <2>3. \A c \in Targeted : \A i, j \in 1 .. Len(sent[c]) :
          i < j => sent[c][i].number < sent[c][j].number
    BY <1>1, QueueFacts
  <2> QED BY <2>1, <2>2, <2>3 DEF InOrderExactlyOnce
<1> QED BY <1>1, Invariance, PTL

(* When a consumer finds the stop message it has counted all its packets.  *)
LEMMA AllBeforeStop ==
  ASSUME IInv, NEW c \in Consumers, Len(queue[c]) > 0, queue[c][1] = StopMessage
  PROVE  received[c] = sent[c]
<1>1. /\ received[c] \in Seq(Packets) /\ sent[c] \in Seq(Packets) /\ c \in Targeted /\ c \in Queues
      /\ Len(received[c]) \in Nat /\ Len(sent[c]) \in Nat /\ Len(queue[c]) \in Nat
  BY Facts, QueueTypes, SentTypes
<1>2. /\ Len(received[c]) <= Len(sent[c])
      /\ \A i \in 1 .. Len(received[c]) : received[c][i] = sent[c][i]
      /\ \A i \in 1 .. Len(queue[c]) :
           queue[c][i] = IF Len(received[c]) + i <= Len(sent[c]) THEN sent[c][Len(received[c]) + i]
                                                                 ELSE StopMessage
  BY Facts DEF StreamInOrder
<1>3. ASSUME Len(received[c]) + 1 <= Len(sent[c]) PROVE FALSE
  <2>1. PICK k \in 1 .. Len(sent[c]) : k = Len(received[c]) + 1
    BY <1>1, <1>3
  <2>2. sent[c][k] # StopMessage
    BY <1>1, QueueFacts
  <2>3. 1 \in 1 .. Len(queue[c])
    BY <1>1
  <2> QED BY <1>2, <1>3, <2>1, <2>2, <2>3
<1>4. Len(received[c]) = Len(sent[c])
  BY <1>1, <1>2, <1>3
<1> QED BY <1>1, <1>2, <1>4, SeqEqual

(* When start() returns success every package was produced, each consumer  *)
(* has counted all those sent to it, and the log has one whole line of the *)
(* producer and of every consumer.                                         *)
THEOREM AllIsDelivered == Spec => []AllDeliveredAtExit
<1>1. ASSUME IInv, main.at = "success" PROVE AllDeliveredAtExit
  <2>1. /\ aborted = "no" /\ pc[-1] = "joined" /\ pc[0] = "joined"
        /\ \A c \in Consumers : pc[c] = "joined"
    BY <1>1, Facts DEF MainInOrder, Consumers
  <2>2. /\ queue[0] = << >> /\ Len(queue[0]) = 0 /\ index = packageCount
        /\ \A c \in Consumers : queue[c] = << >> /\ Len(queue[c]) = 0
    BY <1>1, <2>1, Facts, QueueTypes DEF StopInOrder, Stopping, Left, Closed
  <2>3. \A c \in Targeted : \A i \in 1 .. Len(sent[c]) : c \in Consumers /\ ~(i > Handed(c))
    BY <1>1, <2>1, <2>2, QueueFacts
  <2>4. ASSUME NEW c \in Consumers PROVE received[c] = sent[c]
    <3>1. /\ received[c] \in Seq(Packets) /\ sent[c] \in Seq(Packets) /\ c \in Targeted /\ c \in Queues
          /\ Len(received[c]) \in Nat /\ Len(sent[c]) \in Nat
      BY <1>1, Facts, QueueTypes, SentTypes
    <3>2. /\ Len(received[c]) <= Len(sent[c])
          /\ \A i \in 1 .. Len(received[c]) : received[c][i] = sent[c][i]
      BY <1>1, Facts DEF StreamInOrder
    <3>3. Handed(c) = Len(received[c])
      <4>1. Handed(c) = Len(received[c]) + Len(queue[c]) + 0
        BY <2>1, HandedIs
      <4>2. ASSUME NEW r \in Nat PROVE r + 0 + 0 = r
        OBVIOUS
      <4> QED BY ONLY <2>2, <3>1, <4>1, <4>2, Zenon
    <3>4. Len(received[c]) = Len(sent[c])
      <4>1. ASSUME Len(received[c]) < Len(sent[c]) PROVE FALSE
        <5>1. Len(sent[c]) \in 1 .. Len(sent[c])
          BY <3>1, <4>1
        <5> QED BY <2>3, <3>1, <3>3, <4>1, <5>1
      <4> QED BY <3>1, <3>2, <4>1
    <3> QED BY <3>1, <3>2, <3>4, SeqEqual
  <2>5. ASSUME NEW n \in 0 .. packageCount - 1
        PROVE  \E c \in Consumers : \E i \in 1 .. Len(received[c]) : received[c][i].number = n
    <3>1. Produced - 1 = packageCount - 1
      <4>1. One(pc[-1] = "signal" /\ index < packageCount) = 0
        BY <2>1 DEF One
      <4>2. Produced = packageCount + 0
        BY <2>2, <4>1 DEF Produced
      <4> QED BY <1>1, <4>2, Facts
    <3>2. PICK c \in Targeted : \E i \in 1 .. Len(sent[c]) : sent[c][i].number = n
      BY <1>1, <3>1, Facts DEF SentInOrder
    <3>3. c \in Consumers
      BY <2>3, <3>2
    <3> QED BY <2>4, <3>2, <3>3
  <2>6. log = {<<<<Producer>>, packageCount>>} \cup {<<<<c>>, Len(received[c])>> : c \in Consumers}
    <3>1. Logged = {-1} \cup Consumers
      BY <2>1 DEF Logged
    <3>2. \A c \in Consumers : c # -1
      BY <1>1, Facts
    <3> QED BY <1>1, <3>1, <3>2, Facts DEF LogInOrder
  <2> QED BY <2>4, <2>5, <2>6 DEF AllDeliveredAtExit
<1>2. IInv => AllDeliveredAtExit
  BY <1>1 DEF AllDeliveredAtExit
<1> QED BY <1>2, Invariance, PTL

-----------------------------------------------------------------------------
(* The consumers that have left their loops *)
Stopped == {c \in Queues \ {0} : pc[c] \in Left}

(* The steps that send and deliver nothing, and close and stop nobody *)
LEMMA DeliveryStays ==
  ASSUME UNCHANGED <<sent, received>>, Closed' <=> Closed, Stopped' = Stopped
  PROVE  UNCHANGED DeliverySpec!vars
<1>1. [c \in Queues \ {0} |-> sent[c]]' = [c \in Queues \ {0} |-> sent[c]]
  OBVIOUS
<1>2. [c \in Queues \ {0} |-> received[c]]' = [c \in Queues \ {0} |-> received[c]]
  OBVIOUS
<1>3. (index = packageCount /\ pc[-1] \in {"signal", "log", "line", "ended", "joined"})'
        = (index = packageCount /\ pc[-1] \in {"signal", "log", "line", "ended", "joined"})
  BY DEF Closed, Left
<1>4. {c \in Queues \ {0} : pc[c] \in {"log", "line", "ended", "joined"}}'
        = {c \in Queues \ {0} : pc[c] \in {"log", "line", "ended", "joined"}}
  BY DEF Stopped, Left
<1> QED BY <1>1, <1>2, <1>3, <1>4 DEF DeliverySpec!vars

(* The producer sends a packet, or closes the streams. *)
LEMMA ProduceDelivers ==
  ASSUME IInv, Produce
  PROVE  [DeliverySpec!Next]_(DeliverySpec!vars)
<1>1. /\ pc[-1] = "produce" /\ pc'[-1] = "signal" /\ \A t \in Threads : t # -1 => pc'[t] = pc[t]
      /\ index' = index /\ packageCount' = packageCount /\ received' = received
      /\ \E m \in Messages :
           \/ /\ index < packageCount /\ m \in Packets
              /\ m.target \in Targeted /\ sent' = [sent EXCEPT ![m.target] = Append(@, m)]
           \/ index = packageCount /\ sent' = sent
  BY ProduceEffect DEF arguments
<1>2. Stopped' = Stopped
  BY <1>1, Facts DEF Stopped
<1>3. ~Closed
  BY <1>1 DEF Closed, Left
<1>4. ASSUME index < packageCount, NEW m \in Packets, m.target \in Targeted,
             sent' = [sent EXCEPT ![m.target] = Append(@, m)]
      PROVE  [DeliverySpec!Next]_(DeliverySpec!vars)
  <2>1. ~Closed'
    BY <1>1, <1>4, Facts DEF Closed
  <2>2. CASE m.target \in Queues \ {0}
    <3>1. [c \in Queues \ {0} |-> sent[c]]'
            = [[c \in Queues \ {0} |-> sent[c]] EXCEPT ![m.target] = Append(@, m)]
      BY <1>4, <2>2, Facts DEF TypeOK
    <3>2. DeliverySpec!Send(m.target, m)
      BY <1>1, <1>2, <1>3, <2>1, <3>1 DEF DeliverySpec!Send, Closed, Stopped, Left
    <3> QED BY <2>2, <3>2 DEF DeliverySpec!Next
  <2>3. CASE m.target \notin Queues \ {0}
    <3>1. [c \in Queues \ {0} |-> sent[c]]' = [c \in Queues \ {0} |-> sent[c]]
      BY <1>4, <2>3, Facts DEF TypeOK
    <3> QED BY <1>1, <1>2, <1>3, <2>1, <3>1 DEF DeliverySpec!vars, Closed, Stopped, Left
  <2> QED BY <2>2, <2>3
<1>5. ASSUME index = packageCount, sent' = sent PROVE DeliverySpec!Close
  <2>1. Closed'
    BY <1>1, <1>5 DEF Closed
  <2> QED BY <1>1, <1>2, <1>3, <1>5, <2>1 DEF DeliverySpec!Close, Closed, Stopped, Left
<1> QED BY <1>1, <1>4, <1>5 DEF DeliverySpec!Next

(* A consumer counts the next packet of its stream, or stops at its end. *)
LEMMA ConsumeDelivers ==
  ASSUME IInv, NEW k \in Consumers, Consume(k)
  PROVE  DeliverySpec!Next
<1>1. /\ pc[k] = "take" /\ Dequeue(k) /\ Len(queue[k]) > 0 /\ k \in Queues /\ k # 0
      /\ \A t \in Threads : t # k => pc'[t] = pc[t]
      /\ index' = index /\ packageCount' = packageCount /\ sent' = sent
      /\ \A q \in Queues : q # k => received'[q] = received[q]
      /\ \/ Front(k) = StopMessage /\ pc'[k] = "log" /\ received' = received
         \/ /\ Front(k) # StopMessage /\ pc'[k] = "wait"
            /\ received'[k] = Append(received[k], Front(k))
  BY ConsumeEffect, Facts DEF arguments
<1>2. Closed' <=> Closed
  BY <1>1, Facts DEF Closed
<1>3. /\ Front(k) = queue[k][1] /\ 1 \in 1 .. Len(queue[k])
  BY <1>1, Facts, DequeueEffect
<1>4. CASE Front(k) = StopMessage
  <2>1. Stopped' = Stopped \cup {k}
    BY <1>1, <1>4, Facts DEF Stopped, Left
  <2>2. Closed
    BY <1>1, <1>3, <1>4, Facts DEF StopInOrder, StopSent, Stopping
  <2>3. received[k] = sent[k]
    BY <1>1, <1>3, <1>4, AllBeforeStop
  <2>4. DeliverySpec!Stop(k)
    BY <1>1, <1>2, <1>4, <2>1, <2>2, <2>3 DEF DeliverySpec!Stop, Closed, Stopped, Left
  <2> QED BY <1>1, <2>4 DEF DeliverySpec!Next
<1>5. CASE Front(k) # StopMessage
  <2>1. Stopped' = Stopped
    BY <1>1, <1>5, Facts DEF Stopped, Left
  <2>2. Len(received[k]) + 1 <= Len(sent[k]) /\ Front(k) = sent[k][Len(received[k]) + 1]
    BY <1>3, <1>5, Facts DEF StreamInOrder
  <2>3. Len(received[k]) < Len(sent[k])
    <3>1. Len(received[k]) \in Nat /\ Len(sent[k]) \in Nat
      BY HandedBound
    <3> QED BY <2>2, <3>1
  <2>4. [c \in Queues \ {0} |-> received[c]]'
          = [[c \in Queues \ {0} |-> received[c]] EXCEPT
               ![k] = Append(@, [c \in Queues \ {0} |-> sent[c]][k][Len(@) + 1])]
    BY <1>1, <1>5, <2>2
  <2>5. DeliverySpec!Deliver(k)
    BY <1>1, <1>2, <2>1, <2>3, <2>4 DEF DeliverySpec!Deliver, Closed, Stopped, Left
  <2> QED BY <1>1, <2>5 DEF DeliverySpec!Next
<1> QED BY <1>4, <1>5

(* Every step of the simulation sends, closes, delivers or stops, or does  *)
(* none of these.                                                          *)
LEMMA StepDelivers ==
  ASSUME IInv, Next
  PROVE  [DeliverySpec!Next]_(DeliverySpec!vars)
<1>1. packageCount' = packageCount
  BY ArgumentsStay
<1>2. CASE MainStep
  <2>1. UNCHANGED <<sent, received>> /\ index' = index
    BY <1>2, MainMoves
  <2>2. (Closed' <=> Closed) /\ Stopped' = Stopped
    BY <1>1, <1>2, <2>1, MainMoves, Facts DEF Closed, Stopped, Left
  <2> QED BY <2>1, <2>2, DeliveryStays
<1>3. CASE Produce
  BY <1>3, ProduceDelivers
<1>4. CASE ProduceSignal
  <2>1. /\ pc[-1] = "signal" /\ \A t \in Threads : t # -1 => pc'[t] = pc[t]
        /\ UNCHANGED <<sent, received>>
        /\ \/ index < packageCount /\ index' = index + 1 /\ pc'[-1] = "produce"
           \/ index = packageCount /\ index' = index /\ pc'[-1] = "log"
    BY <1>4, Facts DEF ProduceSignal, Running, Goto
  <2>2. (Closed' <=> Closed) /\ Stopped' = Stopped
    BY <1>1, <2>1, Facts DEF Closed, Stopped, Left
  <2> QED BY <2>1, <2>2, DeliveryStays
<1>5. ASSUME NEW t \in {0} \cup Consumers, PopWait(t) PROVE UNCHANGED DeliverySpec!vars
  <2>1. /\ pc[t] = "wait" /\ pc'[t] = "take" /\ \A u \in Threads : u # t => pc'[u] = pc[u]
        /\ UNCHANGED <<sent, received, index>>
    BY <1>5, Facts DEF PopWait, Running, Goto
  <2>2. (Closed' <=> Closed) /\ Stopped' = Stopped
    BY <1>1, <2>1, Facts DEF Closed, Stopped, Left
  <2> QED BY <2>1, <2>2, DeliveryStays
<1>6. CASE Dispatch \/ DispatchPush \/ DispatchSignal \/ StopPush \/ StopSignal
  <2>1. UNCHANGED <<sent, received, index>> /\ \A t \in Threads : t # 0 => pc'[t] = pc[t]
    BY <1>6, Facts DEF Dispatch, DispatchPush, DispatchSignal, StopPush, StopSignal, Goto
  <2>2. (Closed' <=> Closed) /\ Stopped' = Stopped
    BY <1>1, <2>1, Facts DEF Closed, Stopped
  <2> QED BY <2>1, <2>2, DeliveryStays
<1>7. ASSUME NEW c \in Consumers, Consume(c) PROVE DeliverySpec!Next
  BY <1>7, ConsumeDelivers
<1>8. ASSUME NEW t \in {-1} \cup Consumers, LogLock(t) \/ LogUnlock(t)
      PROVE  UNCHANGED DeliverySpec!vars
  <2>1. /\ pc[t] \in Left /\ pc'[t] \in Left /\ \A u \in Threads : u # t => pc'[u] = pc[u]
        /\ UNCHANGED <<sent, received, index>>
    BY <1>8, Facts DEF LogLock, LogUnlock, Running, Goto, Left
  <2>2. Closed' <=> Closed
    BY <1>1, <2>1, Facts DEF Closed, Left
  <2>3. Stopped' = Stopped
    BY <2>1, Facts DEF Stopped
  <2> QED BY <2>1, <2>2, <2>3, DeliveryStays
<1> QED BY <1>2, <1>3, <1>4, <1>5, <1>6, <1>7, <1>8
        DEF Next, ProducerStep, DispatcherStep, ConsumerStep

(* The whole simulation implements Delivery: a stream of packets to each   *)
(* consumer, in order and exactly once, whatever the threads interleave;   *)
(* and a consumer stops only at the end of its stream.                     *)
THEOREM DeliversEachOnce == Spec => ImplementsDelivery
<1>1. Init => DeliverySpec!Init
  <2>1. ASSUME Init PROVE DeliverySpec!Init
    <3>1. Queues \subseteq Targeted /\ Queues \ {0} \subseteq Threads /\ -1 \in Threads
      BY <2>1, InvInit, Facts, Basics
    <3>2. /\ \A c \in Queues \ {0} : sent[c] = << >> /\ received[c] = << >> /\ pc[c] = "new"
          /\ pc[-1] = "new"
      BY <2>1, <3>1 DEF Init
    <3> QED BY <3>2 DEF DeliverySpec!Init
  <2> QED BY <2>1
<1>2. IInv /\ [Next]_vars => [DeliverySpec!Next]_(DeliverySpec!vars)
  <2>1. ASSUME UNCHANGED vars PROVE UNCHANGED DeliverySpec!vars
    <3>1. /\ UNCHANGED <<sent, received, index, packageCount, pc>>
      BY <2>1 DEF vars
    <3> QED BY <3>1, DeliveryStays DEF Closed, Stopped
  <2> QED BY <2>1, StepDelivers
<1> QED BY <1>1, <1>2, Invariance, PTL DEF Spec, ImplementsDelivery, DeliverySpec!Spec
=============================================================================
