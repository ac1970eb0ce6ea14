--------------------------- MODULE SemQueueProofs ---------------------------
(***************************************************************************)
(* Proofs about SemQueue for every number of producers, consumers and      *)
(* pushes: its invariants, and that it implements BlockingFifo.            *)
(***************************************************************************)
EXTENDS SemQueue, FiniteSetTheorems, SequenceTheorems, TLAPS

(* The std::queue is touched by one thread at a time: a thread between its *)
(* lock and its unlock is the owner of the mutex.                          *)
Inside(t) == \/ t \in Producers /\ pc[t] \in {"push", "unlock"}
             \/ t \in Consumers /\ pc[t] \in {"front", "remove", "unlock"}
MutualExclusion == \A t \in Threads : Inside(t) <=> owner = t

(* Every item in the queue is the item of a push that has started, and a   *)
(* push about to add its item has been counted but has not added it yet.   *)
Entering == {p \in Producers : pc[p] = "push"}
QueueBound == Len(queue) + Cardinality(Entering) <= pushes

(* What the threads hold in their hands *)
InHand == /\ \A p \in Producers : pc[p] = "push" => data[p] \in Items
          /\ \A c \in Consumers : pc[c] = "unlock" => result[c] \in Items

(* The inductive invariant *)
IInv == /\ TypeOK
        /\ MutualExclusion
        /\ SemaphoreAccounting
        /\ QueueBound
        /\ InHand
        /\ RemovesWhatItRead

-----------------------------------------------------------------------------
(* A set that gains one new element has one more element. *)
LEMMA CardinalityGains ==
  ASSUME NEW S, IsFiniteSet(S), NEW T, NEW x, x \notin S, T = S \cup {x}
  PROVE  Cardinality(T) = Cardinality(S) + 1
BY FS_AddElement

(* A set that loses one of its elements has one element less. *)
LEMMA CardinalityLoses ==
  ASSUME NEW S, IsFiniteSet(S), NEW T, NEW x, x \in S, T = S \ {x}
  PROVE  Cardinality(T) = Cardinality(S) - 1
BY FS_RemoveElement

(* The sets of threads the invariant counts are finite. *)
LEMMA CountsAreNaturals ==
  /\ IsFiniteSet(Unsignalled) /\ Cardinality(Unsignalled) \in Nat
  /\ IsFiniteSet(Claims)      /\ Cardinality(Claims) \in Nat
  /\ IsFiniteSet(Entering)    /\ Cardinality(Entering) \in Nat
<1>1. IsFiniteSet(Unsignalled) /\ IsFiniteSet(Claims) /\ IsFiniteSet(Entering)
  <2>1. Unsignalled \subseteq Producers /\ Entering \subseteq Producers
    BY DEF Unsignalled, Entering
  <2>2. Claims \subseteq Consumers
    BY DEF Claims
  <2> QED BY <2>1, <2>2, ThreadsAssumption, FS_Subset
<1> QED BY <1>1, FS_CardinalityType

(* A thread in one of the counted sets makes its count positive. *)
LEMMA CountIsPositive ==
  /\ \A p \in Unsignalled : Cardinality(Unsignalled) >= 1
  /\ \A c \in Claims : Cardinality(Claims) >= 1
<1>1. ASSUME NEW S, IsFiniteSet(S), NEW x \in S
      PROVE  Cardinality(S) >= 1
  <2>1. Cardinality(S \ {x}) = Cardinality(S) - 1 /\ IsFiniteSet(S \ {x})
    BY <1>1, FS_RemoveElement
  <2> QED BY <2>1, <1>1, FS_CardinalityType
<1> QED BY <1>1, CountsAreNaturals

(* A thread inside excludes every other thread from being inside. *)
LEMMA OneInside ==
  ASSUME MutualExclusion, NEW t \in Threads, NEW u \in Threads, Inside(t), Inside(u)
  PROVE  t = u
BY DEF MutualExclusion

(* The initial state satisfies the invariant. *)
LEMMA InitIInv == Init => IInv
<1> SUFFICES ASSUME Init PROVE IInv
  OBVIOUS
<1>1. TypeOK
  BY BoundsAssumption DEF Init, TypeOK, ProducerPC, ConsumerPC, Threads
<1>2. MutualExclusion
  BY ThreadsAssumption DEF Init, MutualExclusion, Inside, Threads
<1>3. Unsignalled = {} /\ Claims = {} /\ Entering = {}
  BY DEF Init, Unsignalled, Claims, Entering, Threads
<1>4. SemaphoreAccounting /\ QueueBound
  BY <1>3, FS_EmptySet DEF Init, SemaphoreAccounting, QueueBound
<1>5. InHand /\ RemovesWhatItRead
  BY DEF Init, InHand, RemovesWhatItRead, Threads
<1> QED BY <1>1, <1>2, <1>4, <1>5 DEF IInv

(* push: taking the mutex *)
LEMMA PushLockKeeps ==
  ASSUME IInv, NEW p \in Producers, PushLock(p)
  PROVE  IInv'
<1> USE DEF IInv, Goto, Lock
<1>1. TypeOK'
  BY BoundsAssumption, ThreadsAssumption
  DEF TypeOK, PushLock, Threads, Items, ProducerPC, ConsumerPC
<1>2. MutualExclusion'
  BY ThreadsAssumption DEF TypeOK, PushLock, MutualExclusion, Inside, Threads
<1>3. Unsignalled' = Unsignalled /\ Claims' = Claims
  BY ThreadsAssumption DEF TypeOK, PushLock, Unsignalled, Claims, Threads
<1>4. Entering' = Entering \cup {p} /\ p \notin Entering
  BY DEF TypeOK, PushLock, Entering, Threads
<1>5. Cardinality(Entering') = Cardinality(Entering) + 1
  BY <1>4, CardinalityGains, CountsAreNaturals
<1>6. SemaphoreAccounting'
  BY <1>3 DEF SemaphoreAccounting, PushLock
<1>7. QueueBound'
  BY <1>5, CountsAreNaturals DEF TypeOK, QueueBound, PushLock
<1>8. InHand' /\ RemovesWhatItRead'
  BY ThreadsAssumption, BoundsAssumption
  DEF TypeOK, PushLock, InHand, RemovesWhatItRead, Threads, Items
<1> QED BY <1>1, <1>2, <1>6, <1>7, <1>8

(* push: adding the item *)
LEMMA PushItemKeeps ==
  ASSUME IInv, NEW p \in Producers, PushItem(p)
  PROVE  IInv'
<1> USE DEF IInv, Goto
<1>1. data[p] \in Items /\ Inside(p)
  BY DEF PushItem, InHand, Inside
<1>2. /\ queue' = Append(queue, data[p])
      /\ queue' \in Seq(Items)
      /\ Len(queue') = Len(queue) + 1
  BY <1>1, AppendProperties DEF PushItem, TypeOK
<1>3. TypeOK'
  BY <1>2, ThreadsAssumption DEF TypeOK, PushItem, Threads, ProducerPC, ConsumerPC
<1>4. MutualExclusion'
  BY <1>1, ThreadsAssumption DEF TypeOK, PushItem, MutualExclusion, Inside, Threads
<1>5. /\ Unsignalled' = Unsignalled \cup {p} /\ p \notin Unsignalled
      /\ Entering' = Entering \ {p} /\ p \in Entering
      /\ Claims' = Claims
  BY ThreadsAssumption DEF TypeOK, PushItem, Unsignalled, Entering, Claims, Threads
<1>6. /\ Cardinality(Unsignalled') = Cardinality(Unsignalled) + 1
      /\ Cardinality(Entering') = Cardinality(Entering) - 1
  BY <1>5, CardinalityGains, CardinalityLoses, CountsAreNaturals
<1>7. SemaphoreAccounting' /\ QueueBound'
  BY <1>2, <1>5, <1>6, CountsAreNaturals, BoundsAssumption, SMTT(20)
  DEF TypeOK, PushItem, SemaphoreAccounting, QueueBound
<1>8. RemovesWhatItRead'
  <2> SUFFICES ASSUME NEW c \in Consumers, pc'[c] = "remove"
               PROVE  FALSE
    BY DEF RemovesWhatItRead
  <2>1. Inside(c)
    BY ThreadsAssumption DEF Inside, PushItem, TypeOK, Threads
  <2> QED BY <2>1, <1>1, OneInside, ThreadsAssumption DEF Threads
<1>9. InHand'
  BY ThreadsAssumption DEF TypeOK, PushItem, InHand, Threads
<1> QED BY <1>3, <1>4, <1>7, <1>8, <1>9

(* push: releasing the mutex *)
LEMMA PushUnlockKeeps ==
  ASSUME IInv, NEW p \in Producers, PushUnlock(p)
  PROVE  IInv'
<1> USE DEF IInv, Goto, Unlock
<1>1. TypeOK'
  BY ThreadsAssumption DEF TypeOK, PushUnlock, Threads, ProducerPC, ConsumerPC
<1>2. MutualExclusion'
  BY ThreadsAssumption DEF TypeOK, PushUnlock, MutualExclusion, Inside, Threads
<1>3. Unsignalled' = Unsignalled /\ Entering' = Entering /\ Claims' = Claims
  BY ThreadsAssumption
  DEF TypeOK, PushUnlock, Unsignalled, Entering, Claims, Threads
<1>4. SemaphoreAccounting' /\ QueueBound'
  BY <1>3 DEF PushUnlock, SemaphoreAccounting, QueueBound
<1>5. InHand' /\ RemovesWhatItRead'
  BY ThreadsAssumption DEF TypeOK, PushUnlock, InHand, RemovesWhatItRead, Threads
<1> QED BY <1>1, <1>2, <1>4, <1>5

(* push: the signal; the semaphore is below SemMax, so sem_post succeeds *)
LEMMA PushSignalKeeps ==
  ASSUME IInv, NEW p \in Producers, PushSignal(p)
  PROVE  IInv' /\ sem' = sem + 1
<1> USE DEF IInv, Goto
<1>1. p \in Unsignalled
  BY DEF PushSignal, Unsignalled
<1>2. Cardinality(Unsignalled) >= 1
  BY <1>1, CountIsPositive
<1>3. sem < SemMax
  BY <1>2, CountsAreNaturals, BoundsAssumption
  DEF TypeOK, SemaphoreAccounting, QueueBound
<1>4. sem' = sem + 1
  BY <1>3 DEF PushSignal
<1>5. TypeOK'
  BY <1>3, <1>4, ThreadsAssumption, BoundsAssumption
  DEF TypeOK, PushSignal, Threads, ProducerPC, ConsumerPC
<1>6. MutualExclusion'
  BY ThreadsAssumption DEF TypeOK, PushSignal, MutualExclusion, Inside, Threads
<1>7. Unsignalled' = Unsignalled \ {p} /\ Entering' = Entering /\ Claims' = Claims
  BY ThreadsAssumption
  DEF TypeOK, PushSignal, Unsignalled, Entering, Claims, Threads
<1>8. Cardinality(Unsignalled') = Cardinality(Unsignalled) - 1
  BY <1>1, <1>7, CardinalityLoses, CountsAreNaturals
<1>9. SemaphoreAccounting' /\ QueueBound'
  BY <1>4, <1>7, <1>8, CountsAreNaturals, BoundsAssumption
  DEF TypeOK, PushSignal, SemaphoreAccounting, QueueBound
<1>10. InHand' /\ RemovesWhatItRead'
  BY ThreadsAssumption DEF TypeOK, PushSignal, InHand, RemovesWhatItRead, Threads
<1> QED BY <1>4, <1>5, <1>6, <1>9, <1>10

-----------------------------------------------------------------------------
(* A pop that claims an item finds one in the queue. *)
LEMMA ClaimFindsItem ==
  ASSUME IInv, NEW c \in Claims
  PROVE  queue # << >>
<1>1. Cardinality(Claims) >= 1
  BY CountIsPositive
<1> QED BY <1>1, CountsAreNaturals, BoundsAssumption
        DEF IInv, TypeOK, SemaphoreAccounting

(* pop: the wait, which turns a unit of the semaphore into a claim *)
LEMMA PopWaitKeeps ==
  ASSUME IInv, NEW c \in Consumers, PopWait(c)
  PROVE  IInv'
<1> USE DEF IInv, Goto
<1>1. TypeOK'
  BY ThreadsAssumption, BoundsAssumption
  DEF TypeOK, PopWait, Threads, ProducerPC, ConsumerPC
<1>2. MutualExclusion'
  BY ThreadsAssumption DEF TypeOK, PopWait, MutualExclusion, Inside, Threads
<1>3. /\ Unsignalled' = Unsignalled /\ Entering' = Entering
      /\ Claims' = Claims \cup {c} /\ c \notin Claims
  BY ThreadsAssumption DEF TypeOK, PopWait, Unsignalled, Entering, Claims, Threads
<1>4. Cardinality(Claims') = Cardinality(Claims) + 1
  BY <1>3, CardinalityGains, CountsAreNaturals
<1>5. SemaphoreAccounting' /\ QueueBound'
  BY <1>3, <1>4, CountsAreNaturals, BoundsAssumption
  DEF TypeOK, PopWait, SemaphoreAccounting, QueueBound
<1>6. InHand' /\ RemovesWhatItRead'
  BY ThreadsAssumption DEF TypeOK, PopWait, InHand, RemovesWhatItRead, Threads
<1> QED BY <1>1, <1>2, <1>5, <1>6

(* pop: taking the mutex *)
LEMMA PopLockKeeps ==
  ASSUME IInv, NEW c \in Consumers, PopLock(c)
  PROVE  IInv'
<1> USE DEF IInv, Goto, Lock
<1>1. TypeOK'
  BY ThreadsAssumption DEF TypeOK, PopLock, Threads, ProducerPC, ConsumerPC
<1>2. MutualExclusion'
  BY ThreadsAssumption DEF TypeOK, PopLock, MutualExclusion, Inside, Threads
<1>3. Unsignalled' = Unsignalled /\ Entering' = Entering /\ Claims' = Claims
  BY ThreadsAssumption DEF TypeOK, PopLock, Unsignalled, Entering, Claims, Threads
<1>4. SemaphoreAccounting' /\ QueueBound'
  BY <1>3 DEF PopLock, SemaphoreAccounting, QueueBound
<1>5. InHand' /\ RemovesWhatItRead'
  BY ThreadsAssumption DEF TypeOK, PopLock, InHand, RemovesWhatItRead, Threads
<1> QED BY <1>1, <1>2, <1>4, <1>5

(* pop: reading the head *)
LEMMA PopFrontKeeps ==
  ASSUME IInv, NEW c \in Consumers, PopFront(c)
  PROVE  IInv'
<1> USE DEF IInv, Goto
<1>1. queue # << >>
  BY ClaimFindsItem DEF PopFront, Claims
<1>2. /\ Head(queue) \in Items
      /\ result' = [result EXCEPT ![c] = Head(queue)]
  BY <1>1, HeadTailProperties DEF TypeOK, PopFront
<1>3. TypeOK'
  BY <1>2, ThreadsAssumption
  DEF TypeOK, PopFront, Threads, ProducerPC, ConsumerPC
<1>4. MutualExclusion'
  BY ThreadsAssumption DEF TypeOK, PopFront, MutualExclusion, Inside, Threads
<1>5. Unsignalled' = Unsignalled /\ Entering' = Entering /\ Claims' = Claims
  BY ThreadsAssumption DEF TypeOK, PopFront, Unsignalled, Entering, Claims, Threads
<1>6. SemaphoreAccounting' /\ QueueBound'
  BY <1>5 DEF PopFront, SemaphoreAccounting, QueueBound
<1>7. InHand' /\ RemovesWhatItRead'
  BY <1>1, <1>2, ThreadsAssumption
  DEF TypeOK, PopFront, InHand, RemovesWhatItRead, Threads
<1> QED BY <1>3, <1>4, <1>6, <1>7

(* pop: removing the head; no other consumer can be between its two steps *)
LEMMA PopRemoveKeeps ==
  ASSUME IInv, NEW c \in Consumers, PopRemove(c)
  PROVE  IInv'
<1> USE DEF IInv, Goto
<1>1. queue # << >> /\ result[c] = Head(queue) /\ Inside(c)
  BY DEF PopRemove, RemovesWhatItRead, Inside
<1>2. /\ Head(queue) \in Items
      /\ queue' = Tail(queue) /\ queue' \in Seq(Items)
      /\ Len(queue') = Len(queue) - 1
  BY <1>1, HeadTailProperties DEF TypeOK, PopRemove
<1>3. TypeOK'
  BY <1>2, ThreadsAssumption
  DEF TypeOK, PopRemove, Threads, ProducerPC, ConsumerPC
<1>4. MutualExclusion'
  BY ThreadsAssumption DEF TypeOK, PopRemove, MutualExclusion, Inside, Threads
<1>5. /\ Unsignalled' = Unsignalled /\ Entering' = Entering
      /\ Claims' = Claims \ {c} /\ c \in Claims
  BY ThreadsAssumption DEF TypeOK, PopRemove, Unsignalled, Entering, Claims, Threads
<1>6. Cardinality(Claims') = Cardinality(Claims) - 1
  BY <1>5, CardinalityLoses, CountsAreNaturals
<1>7. SemaphoreAccounting' /\ QueueBound'
  BY <1>2, <1>5, <1>6, CountsAreNaturals, BoundsAssumption
  DEF TypeOK, PopRemove, SemaphoreAccounting, QueueBound
<1>8. RemovesWhatItRead'
  <2> SUFFICES ASSUME NEW d \in Consumers, pc'[d] = "remove"
               PROVE  FALSE
    BY DEF RemovesWhatItRead
  <2>1. d # c /\ Inside(d)
    BY ThreadsAssumption DEF Inside, PopRemove, TypeOK, Threads
  <2> QED BY <2>1, <1>1, OneInside DEF Threads
<1>9. InHand'
  BY <1>1, <1>2, ThreadsAssumption DEF TypeOK, PopRemove, InHand, Threads
<1> QED BY <1>3, <1>4, <1>7, <1>8, <1>9

(* pop: releasing the mutex and returning *)
LEMMA PopUnlockKeeps ==
  ASSUME IInv, NEW c \in Consumers, PopUnlock(c)
  PROVE  IInv'
<1> USE DEF IInv, Goto, Unlock
<1>1. TypeOK'
  BY ThreadsAssumption DEF TypeOK, PopUnlock, Threads, ProducerPC, ConsumerPC
<1>2. MutualExclusion'
  BY ThreadsAssumption DEF TypeOK, PopUnlock, MutualExclusion, Inside, Threads
<1>3. Unsignalled' = Unsignalled /\ Entering' = Entering /\ Claims' = Claims
  BY ThreadsAssumption DEF TypeOK, PopUnlock, Unsignalled, Entering, Claims, Threads
<1>4. SemaphoreAccounting' /\ QueueBound'
  BY <1>3 DEF PopUnlock, SemaphoreAccounting, QueueBound
<1>5. InHand' /\ RemovesWhatItRead'
  BY ThreadsAssumption DEF TypeOK, PopUnlock, InHand, RemovesWhatItRead, Threads
<1> QED BY <1>1, <1>2, <1>4, <1>5

(* A stuttering step changes nothing the invariant reads. *)
LEMMA StutterKeeps == IInv /\ UNCHANGED vars => IInv'
BY DEF vars, IInv, TypeOK, MutualExclusion, Inside, SemaphoreAccounting,
       Unsignalled, Claims, QueueBound, Entering, InHand, RemovesWhatItRead

(* Every step of the queue keeps the invariant. *)
LEMMA NextKeeps == IInv /\ [Next]_vars => IInv'
<1> SUFFICES ASSUME IInv, [Next]_vars PROVE IInv'
  OBVIOUS
<1>1. ASSUME NEW p \in Producers, PushStep(p) PROVE IInv'
  BY <1>1, PushLockKeeps, PushItemKeeps, PushUnlockKeeps, PushSignalKeeps
  DEF PushStep
<1>2. ASSUME NEW c \in Consumers, PopStep(c) PROVE IInv'
  BY <1>2, PopWaitKeeps, PopLockKeeps, PopFrontKeeps, PopRemoveKeeps, PopUnlockKeeps
  DEF PopStep
<1> QED BY <1>1, <1>2, StutterKeeps DEF Next

(* The invariant holds in every reachable state of Queue.hpp's model. *)
THEOREM Invariance == Spec => []IInv
BY InitIInv, NextKeeps, PTL DEF Spec

(* The types of Queue.hpp's members and locals hold in every state; the    *)
(* semaphore is never negative and never above SEM_VALUE_MAX.              *)
THEOREM TypeCorrect == Spec => []TypeOK
<1>1. IInv => TypeOK
  BY DEF IInv
<1> QED BY <1>1, Invariance, PTL

(* No item is lost or invented between queue.push and canConsume.signal:   *)
(* the length of the queue is accounted for in every state.                *)
THEOREM AccountingHolds == Spec => []SemaphoreAccounting
<1>1. IInv => SemaphoreAccounting
  BY DEF IInv
<1> QED BY <1>1, Invariance, PTL

(* pop never calls front() or pop() on an empty std::queue, although it    *)
(* does not test for emptiness.                                            *)
THEOREM FrontIsDefined == Spec => []FrontDefined
<1>1. IInv => FrontDefined
  BY ClaimFindsItem DEF FrontDefined, Claims
<1> QED BY <1>1, Invariance, PTL

(* The item pop returns is the item it removes. *)
THEOREM RemovesRead == Spec => []RemovesWhatItRead
<1>1. IInv => RemovesWhatItRead
  BY DEF IInv
<1> QED BY <1>1, Invariance, PTL

-----------------------------------------------------------------------------
(* The queue starts as an empty blocking FIFO. *)
LEMMA InitMaps == Init => Fifo!Init
BY ThreadsAssumption DEF Init, Fifo!Init, Holding, Threads

(* A push takes effect on the blocking FIFO when it adds its item. *)
LEMMA PushMaps ==
  ASSUME IInv, NEW p \in Producers, PushStep(p)
  PROVE  Fifo!Next \/ UNCHANGED Fifo!vars
<1> USE DEF Goto
<1>1. Holding' = Holding
  BY ThreadsAssumption
  DEF IInv, TypeOK, PushStep, PushLock, PushItem, PushUnlock, PushSignal,
      Holding, Threads
<1>2. CASE PushItem(p)
  <2>1. data[p] \in Items
    BY <1>2 DEF PushItem, IInv, InHand
  <2>2. Fifo!Push(data[p])
    BY <1>1, <1>2 DEF PushItem, Fifo!Push
  <2> QED BY <2>1, <2>2 DEF Fifo!Next
<1>3. CASE PushLock(p) \/ PushUnlock(p) \/ PushSignal(p)
  BY <1>1, <1>3 DEF PushLock, PushUnlock, PushSignal, Fifo!vars
<1> QED BY <1>2, <1>3 DEF PushStep

(* A pop takes effect on the blocking FIFO when it removes the head. *)
LEMMA PopMaps ==
  ASSUME IInv, NEW c \in Consumers, PopStep(c)
  PROVE  Fifo!Next \/ UNCHANGED Fifo!vars
<1> USE DEF Goto
<1>1. CASE PopRemove(c)
  <2>1. queue # << >> /\ result[c] = Head(queue)
    BY <1>1 DEF PopRemove, IInv, RemovesWhatItRead
  <2>2. queue' = Tail(queue)
    BY <1>1, <2>1 DEF PopRemove
  <2>3. Holding[c] = None /\ Holding' = [Holding EXCEPT ![c] = Head(queue)]
    BY <1>1, <2>1, ThreadsAssumption
    DEF PopRemove, Holding, IInv, TypeOK, Threads
  <2> QED BY <2>1, <2>2, <2>3 DEF Fifo!Take, Fifo!Next
<1>2. CASE PopUnlock(c)
  <2>1. Holding[c] # None
    BY <1>2 DEF PopUnlock, Holding, IInv, InHand, None, Items
  <2>2. Holding' = [Holding EXCEPT ![c] = None] /\ UNCHANGED queue
    BY <1>2, ThreadsAssumption DEF PopUnlock, Holding, IInv, TypeOK, Threads
  <2> QED BY <2>1, <2>2 DEF Fifo!Return, Fifo!Next
<1>3. CASE PopWait(c) \/ PopLock(c) \/ PopFront(c)
  BY <1>3, ThreadsAssumption
  DEF PopWait, PopLock, PopFront, Holding, Fifo!vars, IInv, TypeOK, Threads
<1> QED BY <1>1, <1>2, <1>3 DEF PopStep

(* Queue.hpp implements the blocking FIFO: each push appears to take       *)
(* effect at queue.push and each pop at queue.pop.                         *)
THEOREM Refinement == Spec => ImplementsFifo
<1>1. IInv /\ [Next]_vars => [Fifo!Next]_(Fifo!vars)
  <2>1. UNCHANGED vars => UNCHANGED Fifo!vars
    BY DEF vars, Fifo!vars, Holding
  <2> QED BY <2>1, PushMaps, PopMaps DEF Next
<1> QED BY <1>1, InitMaps, Invariance, PTL DEF Spec, ImplementsFifo, Fifo!Spec

=============================================================================
