------------------------------ MODULE Pipeline ------------------------------
(***************************************************************************)
(* The simulation of prod_cons_pattern: main (ProducerConsumerTest) starts *)
(* a producer, a dispatcher and consumerCount consumers, joins them and    *)
(* deletes them.  Messages go producer -> queue 0 -> dispatcher -> queue c *)
(* -> consumer c; NetworkMessage() is the stop condition of every loop.    *)
(* At the end the producer and each consumer write a record in the Log.    *)
(*                                                                         *)
(* SemQueue shows that the locked part of push and pop is one atomic step  *)
(* of a FIFO, so here a push is Enqueue then Signal and a pop is Wait then *)
(* Take.  Thread t consumes from queue t, which it owns.                   *)
(***************************************************************************)
EXTENDS Integers, Sequences, FiniteSets

CONSTANTS Arguments,  \* the <<packageCount, consumerCount>> a user may give
          UInt16      \* number of values of uint16_t, the type of target

ASSUME ArgumentsAssumption ==
  /\ IsFiniteSet(Arguments) /\ Arguments \subseteq Nat \X Nat
  /\ UInt16 \in Nat /\ UInt16 > 1

MaxPackages  == CHOOSE m \in {a[1] : a \in Arguments} :
                  \A a \in Arguments : a[1] <= m
MaxConsumers == CHOOSE m \in {a[2] : a \in Arguments} :
                  \A a \in Arguments : a[2] <= m

Producer   == -1
Dispatcher == 0
Threads    == Producer .. MaxConsumers
NoThread   == -2
Queues     == Dispatcher .. MaxConsumers
Targeted   == Queues \cup 0 .. UInt16 - 1

NetworkMessage(target, source, number) ==
  [target |-> target, source |-> source, number |-> number]
StopMessage == NetworkMessage(0, 0, 0)
Packets == [target : 0 .. UInt16 - 1, source : {1}, number : 0 .. MaxPackages - 1]
Messages == Packets \cup {StopMessage}

VARIABLES argsOK, packageCount, consumerCount,  \* the command line
          main,       \* [at, turn]: what main does, and to which thread
          pc,         \* next step of each thread
          index,      \* ProducerTest::run's loop counter
          holds,      \* the packet the dispatcher has popped
          key,        \* the key of toQueues it is to push to
          queue, sem, \* content and semaphore of each queue
          alive,      \* the queues that have been created and not deleted
          aborted,    \* the exception that left a thread: std::terminate
          writer,     \* owner of the Log's mutex
          line,       \* the threads whose text is in the line being written
          log,        \* the lines written, each with the number that ends it
          sent,       \* history: the packets produced for each target
          received    \* history: the packets each consumer counted

logVars == <<writer, line, log>>
vars == <<argsOK, packageCount, consumerCount, main, pc, index, holds, key,
          queue, sem, alive, aborted, logVars, sent, received>>
arguments == <<argsOK, packageCount, consumerCount>>

Consumers == 1 .. consumerCount

TypeOK ==
  /\ argsOK \in BOOLEAN /\ <<packageCount, consumerCount>> \in Arguments
  /\ main \in [at : {"args", "start", "join", "delete", "success", "failure"},
               turn : Producer .. MaxConsumers]
  /\ pc \in [Threads -> {"new", "produce", "wait", "take", "push", "signal",
                         "stop", "stopsignal", "log", "line", "ended", "joined"}]
  /\ index \in 0 .. MaxPackages
  /\ holds \in Messages
  /\ key \in 0 .. MaxConsumers
  /\ queue \in [Queues -> Seq(Messages)]
  /\ sem \in [Queues -> 0 .. MaxPackages + 1]
  /\ alive \subseteq Queues
  /\ aborted \in {"no", "key", "log"}
  /\ writer \in Threads \cup {NoThread} /\ line \in Seq(Threads)
  /\ log \subseteq Seq(Threads) \X (0 .. MaxPackages)
  /\ sent \in [Targeted -> Seq(Packets)]
  /\ received \in [Queues -> Seq(Packets)]

Init == /\ argsOK \in BOOLEAN
        /\ \E a \in Arguments : packageCount = a[1] /\ consumerCount = a[2]
        /\ main = [at |-> "args", turn |-> Producer]
        /\ pc = [t \in Threads |-> "new"]
        /\ index = 0
        /\ holds = StopMessage
        /\ key = 0
        /\ queue = [q \in Queues |-> << >>]
        /\ sem = [q \in Queues |-> 0]
        /\ alive = {}
        /\ aborted = "no"
        /\ writer = NoThread /\ line = << >> /\ log = {}
        /\ sent = [c \in Targeted |-> << >>]
        /\ received = [q \in Queues |-> << >>]

-----------------------------------------------------------------------------
(* The queues, as SemQueue shows them to behave *)
Enqueue(q, m) == queue' = [queue EXCEPT ![q] = Append(@, m)]
Signal(q)     == sem' = [sem EXCEPT ![q] = @ + 1]
Wait(q)       == sem[q] > 0 /\ sem' = [sem EXCEPT ![q] = @ - 1]
Front(q)      == Head(queue[q])
Dequeue(q)    == queue' = [queue EXCEPT ![q] = Tail(@)]

Running(t, at) == aborted = "no" /\ pc[t] = at
Goto(t, to)    == pc' = [pc EXCEPT ![t] = to]

-----------------------------------------------------------------------------
(* main *)
Main(at) == aborted = "no" /\ main.at = at

(* main does what it does at "from" to each thread in the order producer,  *)
(* dispatcher, consumers, and goes on to "to" after the last consumer.     *)
NextTurn(from, to) ==
  main' = IF main.turn < consumerCount THEN [at |-> from, turn |-> main.turn + 1]
                                       ELSE [at |-> to, turn |-> Producer]

(* analyzeArguments, and the objects with their queues when it succeeds *)
AnalyzeArguments ==
  /\ Main("args")
  /\ main' = [main EXCEPT !.at = IF argsOK THEN "start" ELSE "failure"]
  /\ alive' = IF argsOK THEN 0 .. consumerCount ELSE {}
  /\ UNCHANGED <<arguments, pc, index, holds, key, queue, sem, aborted, logVars,
                 sent, received>>

StartThread ==
  /\ Main("start")
  /\ NextTurn("start", "join")
  /\ Goto(main.turn, IF main.turn = Producer THEN "produce" ELSE "wait")
  /\ UNCHANGED <<arguments, index, holds, key, queue, sem, alive, aborted, logVars,
                 sent, received>>

(* Fault: main does not join the consumers *)
WaitToFinishProducerOnly ==
  /\ Main("join")
  /\ pc[main.turn] = "ended"
  /\ main' = IF main.turn < Dispatcher THEN [main EXCEPT !.turn = @ + 1]
                                       ELSE [at |-> "delete", turn |-> Producer]
  /\ Goto(main.turn, "joined")
  /\ UNCHANGED <<arguments, index, holds, key, queue, sem, alive, aborted, logVars,
                 sent, received>>

WaitToFinish ==
  /\ Main("join")
  /\ pc[main.turn] = "ended"
  /\ NextTurn("join", "delete")
  /\ Goto(main.turn, "joined")
  /\ UNCHANGED <<arguments, index, holds, key, queue, sem, alive, aborted, logVars,
                 sent, received>>

(* ~ProducerConsumerTest: a consumer and the dispatcher delete their queue *)
Delete ==
  /\ Main("delete")
  /\ NextTurn("delete", "success")
  /\ alive' = alive \ {main.turn}
  /\ UNCHANGED <<arguments, pc, index, holds, key, queue, sem, aborted, logVars,
                 sent, received>>

-----------------------------------------------------------------------------
(* producer *)

(* Fault: a random target one past the last consumer *)
TargetsInclusive == {(1 + r) % UInt16 : r \in 0 .. consumerCount}

(* 1 + random(0, consumerCount), stored in a uint16_t; the distribution is *)
(* undefined for no consumers and may then return any int                  *)
Targets == IF consumerCount = 0
           THEN 0 .. UInt16 - 1
           ELSE {(1 + r) % UInt16 : r \in 0 .. consumerCount - 1}

(* Fault: the stop message goes out before the last packet *)
ProduceStopEarly ==
  /\ Running(Producer, "produce")
  /\ \/ /\ index + 1 # packageCount
        /\ \E target \in Targets :
             LET m == NetworkMessage(target, 1, index % MaxPackages)
             IN  Enqueue(0, m) /\ sent' = [sent EXCEPT ![target] = Append(@, m)]
     \/ index + 1 = packageCount /\ Enqueue(0, StopMessage) /\ UNCHANGED sent
  /\ Goto(Producer, "signal")
  /\ UNCHANGED <<arguments, main, index, holds, key, sem, alive, aborted,
                 logVars, received>>

(* run: createMessage and produce for each package, then the stop message *)
Produce ==
  /\ Running(Producer, "produce")
  /\ \/ /\ index < packageCount
        /\ \E target \in Targets :
             LET m == NetworkMessage(target, 1, index)
             IN  Enqueue(0, m) /\ sent' = [sent EXCEPT ![target] = Append(@, m)]
     \/ index = packageCount /\ Enqueue(0, StopMessage) /\ UNCHANGED sent
  /\ Goto(Producer, "signal")
  /\ UNCHANGED <<arguments, main, index, holds, key, sem, alive, aborted,
                 logVars, received>>

(* Fault: announces every message twice *)
ProduceSignalTwice ==
  /\ Running(Producer, "signal")
  /\ sem' = [sem EXCEPT ![0] = @ + 2]
  /\ \/ index < packageCount /\ index' = index + 1 /\ Goto(Producer, "produce")
     \/ index = packageCount /\ UNCHANGED index /\ Goto(Producer, "log")
  /\ UNCHANGED <<arguments, main, holds, key, queue, alive, aborted, logVars,
                 sent, received>>

ProduceSignal ==
  /\ Running(Producer, "signal")
  /\ Signal(0)
  /\ \/ index < packageCount /\ index' = index + 1 /\ Goto(Producer, "produce")
     \/ index = packageCount /\ UNCHANGED index /\ Goto(Producer, "log")
  /\ UNCHANGED <<arguments, main, holds, key, queue, alive, aborted, logVars,
                 sent, received>>

-----------------------------------------------------------------------------
(* consumeForever, of the dispatcher and of the consumers: pop's wait *)
PopWait(t) ==
  /\ Running(t, "wait")
  /\ Wait(t)
  /\ Goto(t, "take")
  /\ UNCHANGED <<arguments, main, index, holds, key, queue, alive, aborted, logVars,
                 sent, received>>

(* dispatcher: consume looks the target up in toQueues (keys 1 to          *)
(* consumerCount) and throws when there is none; the stop message makes it *)
(* leave the loop and push a stop message to each of toQueues in key order *)
Dispatch ==
  /\ Running(Dispatcher, "take")
  /\ Dequeue(Dispatcher)
  /\ LET m == Front(Dispatcher) IN
     \/ /\ m = StopMessage
        /\ key' = IF Consumers = {} THEN key ELSE 1
        /\ Goto(Dispatcher, IF Consumers = {} THEN "ended" ELSE "stop")
        /\ UNCHANGED <<holds, aborted>>
     \/ /\ m # StopMessage /\ m.target \in Consumers
        /\ holds' = m /\ key' = m.target
        /\ Goto(Dispatcher, "push")
        /\ UNCHANGED aborted
     \/ /\ m # StopMessage /\ m.target \notin Consumers
        /\ aborted' = "key"
        /\ UNCHANGED <<holds, key, pc>>
  /\ UNCHANGED <<arguments, main, index, sem, alive, logVars, sent, received>>

(* Fault: every packet goes to the first registered queue *)
DispatchPushFirst ==
  /\ Running(Dispatcher, "push")
  /\ Enqueue(1, holds)
  /\ Goto(Dispatcher, "signal")
  /\ UNCHANGED <<arguments, main, index, holds, key, sem, alive, aborted, logVars,
                 sent, received>>

DispatchPush ==
  /\ Running(Dispatcher, "push")
  /\ Enqueue(key, holds)
  /\ Goto(Dispatcher, "signal")
  /\ UNCHANGED <<arguments, main, index, holds, key, sem, alive, aborted, logVars,
                 sent, received>>

DispatchSignal ==
  /\ Running(Dispatcher, "signal")
  /\ Signal(key)
  /\ Goto(Dispatcher, "wait")
  /\ UNCHANGED <<arguments, main, index, holds, key, queue, alive, aborted, logVars,
                 sent, received>>

(* Fault: the stop message overtakes the packets in the queue *)
StopPushFirst ==
  /\ Running(Dispatcher, "stop")
  /\ queue' = [queue EXCEPT ![key] = <<StopMessage>> \o @]
  /\ Goto(Dispatcher, "stopsignal")
  /\ UNCHANGED <<arguments, main, index, holds, key, sem, alive, aborted, logVars,
                 sent, received>>

StopPush ==
  /\ Running(Dispatcher, "stop")
  /\ Enqueue(key, StopMessage)
  /\ Goto(Dispatcher, "stopsignal")
  /\ UNCHANGED <<arguments, main, index, holds, key, sem, alive, aborted, logVars,
                 sent, received>>

(* Fault: one stop message for all the consumers *)
StopSignalOnce ==
  /\ Running(Dispatcher, "stopsignal")
  /\ Signal(key)
  /\ Goto(Dispatcher, "ended")
  /\ UNCHANGED <<arguments, main, index, holds, key, queue, alive, aborted, logVars,
                 sent, received>>

StopSignal ==
  /\ Running(Dispatcher, "stopsignal")
  /\ Signal(key)
  /\ \/ key < consumerCount /\ key' = key + 1 /\ Goto(Dispatcher, "stop")
     \/ key = consumerCount /\ UNCHANGED key /\ Goto(Dispatcher, "ended")
  /\ UNCHANGED <<arguments, main, index, holds, queue, alive, aborted, logVars,
                 sent, received>>

-----------------------------------------------------------------------------
(* Fault: takes the newest packet of its queue *)
ConsumeLast(c) ==
  /\ Running(c, "take")
  /\ queue' = [queue EXCEPT ![c] = SubSeq(@, 1, Len(@) - 1)]
  /\ LET m == queue[c][Len(queue[c])] IN
     \/ m = StopMessage /\ Goto(c, "log") /\ UNCHANGED received
     \/ /\ m # StopMessage
        /\ received' = [received EXCEPT ![c] = Append(@, m)]
        /\ Goto(c, "wait")
  /\ UNCHANGED <<arguments, main, index, holds, key, sem, alive, aborted,
                 logVars, sent>>

(* consumer: counts the packet, or ends at the stop message *)
Consume(c) ==
  /\ Running(c, "take")
  /\ Dequeue(c)
  /\ \/ /\ Front(c) = StopMessage
        /\ Goto(c, "log")
        /\ UNCHANGED received
     \/ /\ Front(c) # StopMessage
        /\ received' = [received EXCEPT ![c] = Append(@, Front(c))]
        /\ Goto(c, "wait")
  /\ UNCHANGED <<arguments, main, index, holds, key, sem, alive, aborted,
                 logVars, sent>>

-----------------------------------------------------------------------------
(* Log::write, of the record a thread writes when its loop has ended: the  *)
(* lock, and the type and category of the record.  The mutex keeps every   *)
(* other access to the stream out until the unlock.                        *)

(* Fault: no mutex *)
LogLockMissing(t) ==
  /\ Running(t, "log")
  /\ line' = Append(line, t)
  /\ Goto(t, "line")
  /\ UNCHANGED <<arguments, main, index, holds, key, queue, sem, alive, aborted, writer, log,
                 sent, received>>

LogLock(t) ==
  /\ Running(t, "log") /\ writer = NoThread
  /\ writer' = t
  /\ line' = Append(line, t)
  /\ Goto(t, "line")
  /\ UNCHANGED <<arguments, main, index, holds, key, queue, sem, alive, aborted, log,
                 sent, received>>

(* The text, the end of the line and the unlock; a stream that failed      *)
(* throws after the unlock, in a thread where nothing catches it.          *)
LogUnlock(t) ==
  /\ Running(t, "line")
  /\ writer' = NoThread
  /\ line' = << >>
  /\ \/ /\ log' = log \cup {<<line, IF t = Producer THEN packageCount ELSE Len(received[t])>>}
        /\ Goto(t, "ended")
        /\ UNCHANGED aborted
     \/ /\ aborted' = "log"
        /\ UNCHANGED <<log, pc>>
  /\ UNCHANGED <<arguments, main, index, holds, key, queue, sem, alive, sent, received>>

MainStep       == AnalyzeArguments \/ StartThread \/ WaitToFinish \/ Delete
ProducerStep   == Produce \/ ProduceSignal \/ LogLock(Producer) \/ LogUnlock(Producer)
DispatcherStep == \/ PopWait(Dispatcher) \/ Dispatch \/ DispatchPush
                  \/ DispatchSignal \/ StopPush \/ StopSignal
ConsumerStep(c) == PopWait(c) \/ Consume(c) \/ LogLock(c) \/ LogUnlock(c)

Next == \/ MainStep
        \/ ProducerStep
        \/ DispatcherStep
        \/ \E c \in Consumers : ConsumerStep(c)

Spec == Init /\ [][Next]_vars

(* The operating system schedules every thread of the process *)
Fairness == /\ WF_vars(MainStep)
            /\ WF_vars(ProducerStep)
            /\ WF_vars(DispatcherStep)
            /\ \A c \in 1 .. MaxConsumers : WF_vars(c \in Consumers /\ ConsumerStep(c))

FairSpec == Spec /\ Fairness
-----------------------------------------------------------------------------
(* What the dispatcher has taken for consumer c and not pushed yet *)
InDispatcher(c) == IF pc[Dispatcher] = "push" /\ key = c
                   THEN <<holds>> ELSE << >>

(* What consumer c has counted, its queue and the hands of the dispatcher  *)
(* are, in this order, the packets produced for c and at most the stop     *)
(* message after them; the packets for c that are not among these are the  *)
(* ones in the dispatcher's queue, in the order they were produced.        *)
InOrderExactlyOnce ==
  aborted = "no" =>
    /\ \A c \in Consumers :
         LET stream == received[c] \o queue[c] \o InDispatcher(c) IN
         /\ Len(stream) <= Len(sent[c]) + 1
         /\ \A i \in 1 .. Len(stream) :
              stream[i] = IF i <= Len(sent[c]) THEN sent[c][i] ELSE StopMessage
         /\ \A m \in Packets :
              (m.target = c /\ \E j \in 1 .. Len(queue[0]) : queue[0][j] = m) <=>
                \E i \in 1 .. Len(sent[c]) : i > Len(stream) /\ sent[c][i] = m
    /\ \A i, j \in 1 .. Len(queue[0]) :
         i < j => queue[0][i].number < queue[0][j].number \/ queue[0][j] = StopMessage
    /\ \A c \in Targeted : \A i, j \in 1 .. Len(sent[c]) :
         i < j => sent[c][i].number < sent[c][j].number

(* The dispatcher finds a queue for every packet as long as there is a     *)
(* consumer and their number fits in the 16 bits of target: the stop       *)
(* message is never mistaken for a packet nor a packet for it.             *)
EveryKeyIsRegistered == consumerCount \in 1 .. UInt16 - 1 => aborted # "key"

(* Nothing follows a stop message: when a thread leaves its loop its queue *)
(* is empty and stays so, and no packet is left in it.                     *)
StopIsLast ==
  \A q \in Queues :
    /\ \A i \in 1 .. Len(queue[q]) : queue[q][i] = StopMessage => i = Len(queue[q])
    /\ pc[q] \in {"log", "line", "ended", "joined"} => queue[q] = << >>

(* The queue a thread is about to use *)
Uses(t) == CASE pc[t] \in {"produce", "wait", "take"} -> {IF t = Producer THEN 0 ELSE t}
             [] pc[t] = "signal" /\ t = Producer -> {0}
             [] pc[t] \in {"push", "signal", "stop", "stopsignal"} /\ t # Producer -> {key}
             [] OTHER -> {}

(* No thread uses a queue before it is created or after its owner has been *)
(* deleted, the signal that follows a push's unlock included.              *)
NoUseAfterDelete == aborted = "no" => \A t \in Threads : Uses(t) \subseteq alive

(* start() returns success only after each of the packageCount packages    *)
(* was produced and every consumer has counted those addressed to it; the  *)
(* log then has one whole line of each of these threads, with its count.   *)
AllDeliveredAtExit ==
  main.at = "success" =>
    /\ \A c \in Consumers : received[c] = sent[c]
    /\ \A n \in 0 .. packageCount - 1 :
         \E c \in Consumers : \E i \in 1 .. Len(received[c]) : received[c][i].number = n
    /\ log = {<<<<Producer>>, packageCount>>}
               \cup {<<<<c>>, Len(received[c])>> : c \in Consumers}

(* The simulation implements ordered, exactly-once delivery to each        *)
(* consumer, and a consumer stops only at the end of its stream.           *)
DeliverySpec == INSTANCE Delivery WITH
  Consumers <- Queues \ {0},
  sent      <- [c \in Queues \ {0} |-> sent[c]],
  received  <- [c \in Queues \ {0} |-> received[c]],
  closed    <- index = packageCount /\ pc[Producer] \in {"signal", "log", "line", "ended", "joined"},
  stopped   <- {c \in Queues \ {0} : pc[c] \in {"log", "line", "ended", "joined"}}
ImplementsDelivery == DeliverySpec!Spec

(* Every run of the program ends: it returns or an exception ends it. *)
Terminated == aborted # "no" \/ main.at \in {"success", "failure"}
Termination == <>Terminated
=============================================================================
