------------------------------ MODULE SemQueue ------------------------------
(***************************************************************************)
(* prodcons/Queue.hpp with prodcons/Semaphore.cpp: the thread-safe queue   *)
(* of the producer-consumer pattern.  push and pop are split at every      *)
(* operation other threads can observe: the mutex, the std::queue and the  *)
(* semaphore canConsume.  Any number of producers and consumers share it.  *)
(***************************************************************************)
EXTENDS Integers, Sequences, FiniteSets

CONSTANTS Producers,  \* threads that call push
          Consumers,  \* threads that call pop
          NoThread,   \* owner of the mutex when it is free
          MaxPushes,  \* bound: how many pushes a behaviour may start
          SemMax      \* SEM_VALUE_MAX of the platform

Threads == Producers \cup Consumers
Items   == 1 .. MaxPushes   \* the k-th push that enters the queue carries k
None    == 0                \* no item

ASSUME ThreadsAssumption == /\ IsFiniteSet(Producers)
                            /\ IsFiniteSet(Consumers)
                            /\ Producers \cap Consumers = {}
                            /\ NoThread \notin Threads

(* The code ignores the EOVERFLOW of sem_post; no queue gets that long. *)
ASSUME BoundsAssumption == /\ MaxPushes \in Nat
                           /\ SemMax \in Nat
                           /\ MaxPushes <= SemMax

VARIABLES queue,   \* the std::queue
          sem,     \* value of canConsume
          owner,   \* owner of the mutex
          pc,      \* next step of each thread
          data,    \* push's argument, per producer
          result,  \* pop's local variable, per consumer
          pushes   \* how many pushes have started (numbers the items)

vars == <<queue, sem, owner, pc, data, result, pushes>>

ProducerPC == {"idle", "push", "unlock", "signal"}
ConsumerPC == {"idle", "lock", "front", "remove", "unlock"}

TypeOK == /\ queue \in Seq(Items)
          /\ sem \in 0 .. SemMax
          /\ owner \in Threads \cup {NoThread}
          /\ pc \in [Threads -> ProducerPC \cup ConsumerPC]
          /\ \A p \in Producers : pc[p] \in ProducerPC
          /\ \A c \in Consumers : pc[c] \in ConsumerPC
          /\ data \in [Producers -> Items \cup {None}]
          /\ result \in [Consumers -> Items \cup {None}]
          /\ pushes \in 0 .. MaxPushes

Init == /\ queue = << >>
        /\ sem = 0
        /\ owner = NoThread
        /\ pc = [t \in Threads |-> "idle"]
        /\ data = [p \in Producers |-> None]
        /\ result = [c \in Consumers |-> None]
        /\ pushes = 0

-----------------------------------------------------------------------------
(* The mutex (std::mutex) and the thread that moves on *)
Lock(t)   == owner = NoThread /\ owner' = t
Unlock(t) == owner' = NoThread
Goto(t, from, to) == pc[t] = from /\ pc' = [pc EXCEPT ![t] = to]

(* push(data): this->mutex.lock() *)
PushLock(p) ==
  /\ pushes < MaxPushes
  /\ Goto(p, "idle", "push")
  /\ Lock(p)
  /\ pushes' = pushes + 1
  /\ data' = [data EXCEPT ![p] = pushes + 1]
  /\ UNCHANGED <<queue, sem, result>>

(* this->queue.push(data) *)
PushItem(p) ==
  /\ Goto(p, "push", "unlock")
  /\ queue' = Append(queue, data[p])
  /\ UNCHANGED <<sem, owner, data, result, pushes>>

(* this->mutex.unlock() *)
PushUnlock(p) ==
  /\ Goto(p, "unlock", "signal")
  /\ Unlock(p)
  /\ UNCHANGED <<queue, sem, data, result, pushes>>

(* Fault: signals only when the queue was empty before this push *)
PushSignalIfFirst(p) ==
  /\ Goto(p, "signal", "idle")
  /\ sem' = IF Len(queue) <= 1 THEN sem + 1 ELSE sem
  /\ data' = [data EXCEPT ![p] = None]
  /\ UNCHANGED <<queue, owner, result, pushes>>

(* this->canConsume.signal(): sem_post leaves a full semaphore as it is *)
PushSignal(p) ==
  /\ Goto(p, "signal", "idle")
  /\ sem' = IF sem < SemMax THEN sem + 1 ELSE sem
  /\ data' = [data EXCEPT ![p] = None]
  /\ UNCHANGED <<queue, owner, result, pushes>>

(* Fault: a wait that takes a unit that is not there *)
PopWaitUnguarded(c) ==
  /\ Goto(c, "idle", "lock")
  /\ sem' = sem - 1
  /\ UNCHANGED <<queue, owner, data, result, pushes>>

(* Fault: tests for emptiness without the mutex instead of waiting *)
PopPoll(c) ==
  /\ Goto(c, "idle", "lock")
  /\ queue # << >>
  /\ UNCHANGED <<queue, sem, owner, data, result, pushes>>

(* pop(): this->canConsume.wait() *)
PopWait(c) ==
  /\ Goto(c, "idle", "lock")
  /\ sem > 0
  /\ sem' = sem - 1
  /\ UNCHANGED <<queue, owner, data, result, pushes>>

(* Fault: pop does not take the mutex *)
PopLockMissing(c) ==
  /\ Goto(c, "lock", "front")
  /\ UNCHANGED <<queue, sem, owner, data, result, pushes>>

(* this->mutex.lock() *)
PopLock(c) ==
  /\ Goto(c, "lock", "front")
  /\ Lock(c)
  /\ UNCHANGED <<queue, sem, data, result, pushes>>

(* DataType result = this->queue.front(): undefined on an empty queue *)
PopFront(c) ==
  /\ Goto(c, "front", "remove")
  /\ \E v \in Items : /\ queue # << >> => v = Head(queue)
                      /\ result' = [result EXCEPT ![c] = v]
  /\ UNCHANGED <<queue, sem, owner, data, pushes>>

(* Fault: removes the newest item, not the one that was read *)
PopRemoveLast(c) ==
  /\ Goto(c, "remove", "unlock")
  /\ queue' = IF queue = << >> THEN queue ELSE SubSeq(queue, 1, Len(queue) - 1)
  /\ UNCHANGED <<sem, owner, data, result, pushes>>

(* this->queue.pop(): undefined on an empty queue, left as it is here *)
PopRemove(c) ==
  /\ Goto(c, "remove", "unlock")
  /\ queue' = IF queue = << >> THEN queue ELSE Tail(queue)
  /\ UNCHANGED <<sem, owner, data, result, pushes>>

(* Fault: returns with the mutex still locked *)
PopReturnLocked(c) ==
  /\ Goto(c, "unlock", "idle")
  /\ result' = [result EXCEPT ![c] = None]
  /\ UNCHANGED <<queue, sem, owner, data, pushes>>

(* this->mutex.unlock(); return result *)
PopUnlock(c) ==
  /\ Goto(c, "unlock", "idle")
  /\ Unlock(c)
  /\ result' = [result EXCEPT ![c] = None]
  /\ UNCHANGED <<queue, sem, data, pushes>>

PushStep(p) == PushLock(p) \/ PushItem(p) \/ PushUnlock(p) \/ PushSignal(p)

PopStep(c) == \/ PopWait(c) \/ PopLock(c) \/ PopFront(c)
              \/ PopRemove(c) \/ PopUnlock(c)

Next == \/ \E p \in Producers : PushStep(p)
        \/ \E c \in Consumers : PopStep(c)

Spec == Init /\ [][Next]_vars

(* A push that has started runs on, and consumers call pop for ever        *)
(* (Consumer::consumeForever); nothing obliges a producer to push.         *)
Fairness == /\ \A p \in Producers :
                 WF_vars(PushItem(p) \/ PushUnlock(p) \/ PushSignal(p))
            /\ \A c \in Consumers : WF_vars(PopStep(c))

FairSpec == Spec /\ Fairness
-----------------------------------------------------------------------------
(* Pushes whose item is in the queue but not yet announced *)
Unsignalled == {p \in Producers : pc[p] \in {"unlock", "signal"}}

(* Pops that hold a unit of the semaphore and have not removed an item *)
Claims == {c \in Consumers : pc[c] \in {"lock", "front", "remove"}}

(* Every item in the queue is counted once: by the semaphore, by a push    *)
(* that has yet to signal, or by a pop that is past its wait.  So the      *)
(* order "unlock, then signal" of push loses no item and invents none.     *)
SemaphoreAccounting ==
  Len(queue) = sem + Cardinality(Unsignalled) + Cardinality(Claims)

(* front() and pop() of the std::queue, undefined on an empty queue, are   *)
(* only reached with an item in it, although the length is never tested.   *)
FrontDefined ==
  \A c \in Consumers : pc[c] \in {"front", "remove"} => queue # << >>

(* Between front() and pop() no other thread changes the head: the item    *)
(* returned is the item removed, so none is delivered twice or dropped.    *)
RemovesWhatItRead ==
  \A c \in Consumers : pc[c] = "remove" => queue # << >> /\ result[c] = Head(queue)

(* The queue is a blocking FIFO: a push takes effect at queue.push, a pop  *)
(* at queue.pop, and the item read at front is then in the consumer's hand.*)
Holding == [c \in Consumers |-> IF pc[c] = "unlock" THEN result[c] ELSE None]
Fifo == INSTANCE BlockingFifo WITH items <- queue, holding <- Holding
ImplementsFifo == Fifo!Spec

(* Every item that enters the queue is eventually removed from it, however *)
(* pushes, signals and pops interleave: no wake-up is lost.                *)
InQueue(k) == \E i \in 1 .. Len(queue) : queue[i] = k
EveryItemIsTaken == \A k \in Items : InQueue(k) ~> ~InQueue(k)
=============================================================================
