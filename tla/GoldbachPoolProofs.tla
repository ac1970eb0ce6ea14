------------------------- MODULE GoldbachPoolProofs -------------------------
(***************************************************************************)
(* Proofs about LinkedQueue and about GoldbachPool, which works on it.     *)
(* The first part is about the queue alone, for any set of threads, nodes  *)
(* and values: the mutex is exclusive, the list stays a list, and no call  *)
(* follows a null pointer or one to freed memory; the invariant says what  *)
(* the list looks like between any two stores of a call.  The second part  *)
(* is about every number of threads and numbers: main and the threads use  *)
(* the queue only through its calls, so the first part holds of them.      *)
(***************************************************************************)
EXTENDS GoldbachPool, FiniteSetTheorems, SequenceTheorems, TLAPS

(* The steps of a call that are made with the mutex *)
Inside == {"link", "store head", "store tail", "test", "first", "unlink", "free", "unlock"}

(* The owner of the mutex, and nobody else, is inside a call. *)
MutualExclusion == \A u \in QueueUsers : can_access_queue = u <=> call[u] \in Inside

(* The steps at which a call has a node that is not in the list: before it *)
(* is appended, and after it is dequeued                                   *)
Fresh   == {"append", "link", "store head", "store tail"}
Pending == Fresh \cup {"free"}

(* No node is twice in the list, and each points to the one after it *)
Chained ==
  /\ \A i, j \in 1 .. Len(list) : list[i] = list[j] => i = j
  /\ \A i \in 1 .. Len(list) : i < Len(list) => next[list[i]] = list[i + 1]

(* The two ends of the list, and what is different between two stores *)
Ends ==
  /\ Len(list) = 0 => head = NULL
  /\ Len(list) > 0 => head = list[1] /\ tail = list[Len(list)]
  /\ (Len(list) = 0 /\ \A u \in QueueUsers : call[u] \notin {"store head", "free"}) => tail = NULL
  /\ (Len(list) > 0 /\ \A u \in QueueUsers : call[u] # "store tail") => next[list[Len(list)]] = NULL
Between ==
  /\ \A u \in QueueUsers : call[u] = "store head" => Len(list) = 0 /\ tail = node[u]
  /\ \A u \in QueueUsers :
       call[u] = "store tail" => Len(list) > 0 /\ next[list[Len(list)]] = node[u]
  /\ \A u \in QueueUsers : call[u] = "unlink" => Len(list) > 0 /\ node[u] = list[1]

(* What is allocated is in the list or held by one call, never both *)
Allocated ==
  /\ \A i \in 1 .. Len(list) : list[i] \in allocated
  /\ \A u \in QueueUsers : call[u] \in Pending => node[u] \in allocated
NoLeak ==
  \A n \in allocated : \/ \E i \in 1 .. Len(list) : list[i] = n
                       \/ \E u \in QueueUsers : call[u] \in Pending /\ node[u] = n
Apart ==
  /\ \A u \in QueueUsers, i \in 1 .. Len(list) : call[u] \in Pending => list[i] # node[u]
  /\ \A u, v \in QueueUsers :
       (call[u] \in Pending /\ call[v] \in Pending /\ node[u] = node[v]) => u = v
  /\ \A u \in QueueUsers : call[u] \in Fresh => next[node[u]] = NULL

(* The inductive invariant *)
QueueInv == /\ QueueTypeOK /\ MutualExclusion /\ NoWildPointer
            /\ Chained /\ Ends /\ Between /\ Allocated /\ NoLeak /\ Apart
-----------------------------------------------------------------------------
(* An empty queue is a list. *)
LEMMA QueueInitInv == QueueInit => QueueInv
<1> SUFFICES ASSUME QueueInit PROVE QueueInv
  OBVIOUS
<1>1. QueueTypeOK
  BY DEF QueueInit, QueueTypeOK
<1>2. MutualExclusion
  BY QueueAssumption DEF QueueInit, MutualExclusion, Inside
<1>3. Chained /\ Ends /\ Between
  BY DEF QueueInit, Chained, Ends, Between
<1>4. Allocated /\ NoLeak /\ Apart
  BY DEF QueueInit, Allocated, NoLeak, Apart, Pending, Fresh
<1> QED
  BY <1>1, <1>2, <1>3, <1>4 DEF QueueInv, QueueInit, NoWildPointer

(* A step that stores nothing and changes no hand keeps what is said of    *)
(* the memory.                                                             *)
LEMMA MemoryUntouched ==
  ASSUME QueueInv, UNCHANGED <<memory, node>>,
         \A u \in QueueUsers :
           /\ call'[u] \in Fresh <=> call[u] \in Fresh
           /\ \A c \in {"store head", "store tail", "unlink", "free"} : call'[u] = c <=> call[u] = c
  PROVE  Chained' /\ Ends' /\ Between' /\ Allocated' /\ NoLeak' /\ Apart'
<1> USE DEF memory
<1>1. \A u \in QueueUsers : call'[u] \in Pending <=> call[u] \in Pending
  BY DEF Pending
<1>2. Chained'
  BY DEF QueueInv, Chained
<1>3. Ends' /\ Between'
  BY DEF QueueInv, Ends, Between
<1>4. Allocated' /\ Apart'
  BY <1>1 DEF QueueInv, Allocated, Apart
<1>5. NoLeak'
  BY <1>1 DEF QueueInv, NoLeak
<1> QED
  BY <1>2, <1>3, <1>4, <1>5

(* The lock of a call. *)
LEMMA QueueLockInv ==
  ASSUME QueueInv, NEW u \in QueueUsers, NEW from, NEW to,
         <<from, to>> \in {<<"append", "link">>, <<"idle", "test">>, <<"idle", "first">>},
         QueueLock(u, from, to), UNCHANGED <<memory, locals, crash>>
  PROVE  QueueInv'
<1> USE DEF QueueLock, Calls, locals
<1>1. QueueTypeOK'
  BY DEF QueueInv, QueueTypeOK, memory
<1>2. MutualExclusion'
  BY QueueAssumption DEF QueueInv, QueueTypeOK, MutualExclusion, Inside
<1>3. Chained' /\ Ends' /\ Between' /\ Allocated' /\ NoLeak' /\ Apart'
  BY MemoryUntouched DEF QueueInv, QueueTypeOK, Fresh
<1> QED
  BY <1>1, <1>2, <1>3 DEF QueueInv, NoWildPointer

(* The unlock of a call. *)
LEMMA QueueUnlockInv ==
  ASSUME QueueInv, NEW u \in QueueUsers, QueueUnlock(u)
  PROVE  QueueInv'
<1> USE DEF QueueUnlock, Calls, locals
<1>1. QueueTypeOK'
  BY DEF QueueInv, QueueTypeOK, memory
<1>2. MutualExclusion'
  BY QueueAssumption DEF QueueInv, QueueTypeOK, MutualExclusion, Inside
<1>3. Chained' /\ Ends' /\ Between' /\ Allocated' /\ NoLeak' /\ Apart'
  BY MemoryUntouched DEF QueueInv, QueueTypeOK, Fresh
<1> QED
  BY <1>1, <1>2, <1>3 DEF QueueInv, NoWildPointer

(* queue_is_empty looks and stores nothing. *)
LEMMA IsEmptyReadInv ==
  ASSUME QueueInv, NEW u \in QueueUsers, IsEmptyRead(u)
  PROVE  QueueInv'
<1> USE DEF IsEmptyRead, Calls
<1>1. QueueTypeOK'
  BY DEF QueueInv, QueueTypeOK, memory
<1>2. MutualExclusion'
  BY QueueAssumption DEF QueueInv, QueueTypeOK, MutualExclusion, Inside
<1>3. Chained' /\ Ends' /\ Between' /\ Allocated' /\ NoLeak' /\ Apart'
  BY MemoryUntouched DEF QueueInv, QueueTypeOK, Fresh
<1> QED
  BY <1>1, <1>2, <1>3 DEF QueueInv, NoWildPointer

(* queue_append gets a node that nothing points to. *)
LEMMA AppendNewInv ==
  ASSUME QueueInv, NEW u \in QueueUsers, NEW d \in Data, NEW n \in Nodes, AppendNew(u, d, n)
  PROVE  QueueInv'
<1> USE DEF AppendNew, Calls, Alive
<1>1. QueueTypeOK'
  BY DEF QueueInv, QueueTypeOK
<1>2. MutualExclusion'
  BY DEF QueueInv, QueueTypeOK, MutualExclusion, Inside
<1>3. \A i \in 1 .. Len(list) : list[i] \in Nodes /\ list[i] # n
  BY DEF QueueInv, QueueTypeOK, Allocated
<1>4. Chained'
  BY <1>3 DEF QueueInv, QueueTypeOK, Chained
<1>5. Ends' /\ Between'
  <2>1. ASSUME Len(list) > 0 PROVE next'[list[Len(list)]] = next[list[Len(list)]]
    <3>1. list \in Seq(Nodes)
      BY DEF QueueInv, QueueTypeOK
    <3>2. Len(list) \in 1 .. Len(list)
      BY <2>1, <3>1
    <3>3. list[Len(list)] \in Nodes \ {n}
      BY <3>2, <1>3
    <3> QED BY <3>3 DEF QueueInv, QueueTypeOK
  <2> QED BY <2>1 DEF QueueInv, QueueTypeOK, Ends, Between
<1>6. Allocated'
  BY <1>3 DEF QueueInv, QueueTypeOK, Allocated, Pending, Fresh
<1>7. NoLeak'
  BY DEF QueueInv, QueueTypeOK, NoLeak, Pending, Fresh
<1>8. Apart'
  BY <1>3 DEF QueueInv, QueueTypeOK, Allocated, Apart, Pending, Fresh
<1> QED
  BY <1>1, <1>2, <1>4, <1>5, <1>6, <1>7, <1>8 DEF QueueInv, NoWildPointer

(* The owner of the mutex is the only one inside. *)
LEMMA OneInside ==
  ASSUME QueueInv, NEW u \in QueueUsers, NEW v \in QueueUsers, call[u] \in Inside, call[v] \in Inside
  PROVE  u = v
BY DEF QueueInv, MutualExclusion

(* The last node of a list is one of its nodes. *)
LEMMA LastInList ==
  ASSUME QueueInv
  PROVE  /\ Len(list) \in Nat
         /\ Len(list) > 0 => /\ 1 \in 1 .. Len(list) /\ list[1] \in Nodes
                            /\ Len(list) \in 1 .. Len(list) /\ list[Len(list)] \in Nodes
         /\ \A i \in 1 .. Len(list) : list[i] \in Nodes
         /\ list = << >> <=> Len(list) = 0
<1>1. list \in Seq(Nodes)
  BY DEF QueueInv, QueueTypeOK
<1>2. Len(list) \in Nat /\ \A i \in 1 .. Len(list) : list[i] \in Nodes
  BY <1>1
<1>3. Len(list) > 0 => 1 \in 1 .. Len(list) /\ Len(list) \in 1 .. Len(list)
  BY <1>2
<1>4. list = << >> <=> Len(list) = 0
  BY <1>1, EmptySeq
<1> QED BY <1>2, <1>3, <1>4

(* The ends when no call is between two of its stores to them. *)
LEMMA EndsOfAList ==
  ASSUME QueueInv, \A v \in QueueUsers : call[v] \notin {"store head", "store tail", "free"}
  PROVE  /\ Len(list) = 0 => head = NULL /\ tail = NULL
         /\ Len(list) > 0 => /\ head = list[1] /\ head # NULL
                            /\ tail = list[Len(list)] /\ next[tail] = NULL
BY LastInList, QueueAssumption DEF QueueInv, Ends

(* The first store of queue_append: nobody else is inside, so the ends are *)
(* those of a list, and the tail is allocated.                             *)
LEMMA AppendLinkInv ==
  ASSUME QueueInv, NEW u \in QueueUsers, AppendLink(u)
  PROVE  QueueInv'
<1>0. call[u] = "link" /\ (\A v \in QueueUsers : v # u => call[v] \notin Inside)
  BY OneInside DEF AppendLink, Calls, Inside
<1>1. /\ Len(list) = 0 => head = NULL /\ tail = NULL
      /\ Len(list) > 0 => /\ head = list[1] /\ tail = list[Len(list)] /\ next[tail] = NULL
                          /\ tail \in allocated /\ head # NULL
  BY <1>0, LastInList, QueueAssumption DEF QueueInv, Ends, Inside, Allocated
<1>2. node[u] \in Nodes /\ node[u] \in allocated /\ next[node[u]] = NULL
      /\ \A i \in 1 .. Len(list) : list[i] # node[u]
  BY <1>0 DEF QueueInv, QueueTypeOK, Allocated, Apart, Pending, Fresh
<1>3. CASE Len(list) = 0
  <2>1. call' = [call EXCEPT ![u] = "store head"] /\ tail' = node[u]
        /\ UNCHANGED <<head, next, product_number, allocated, can_access_queue, locals, list, crash>>
    BY <1>1, <1>3 DEF AppendLink, Calls
  <2>2. QueueTypeOK' /\ MutualExclusion'
    BY <1>0, <1>2, <2>1 DEF QueueInv, QueueTypeOK, MutualExclusion, Inside, locals
  <2>3. Chained'
    BY <2>1 DEF QueueInv, Chained
  <2>4. Ends' /\ Between'
    BY <1>0, <1>1, <1>3, <2>1 DEF QueueInv, QueueTypeOK, Ends, Between, Inside, locals
  <2>5. Allocated' /\ Apart'
    BY <1>0, <2>1, ZenonT(30) DEF QueueInv, QueueTypeOK, Allocated, Apart, Pending, Fresh, locals
  <2>6. NoLeak'
    BY <1>0, <2>1 DEF QueueInv, QueueTypeOK, NoLeak, Pending, Fresh, locals
  <2> QED BY <2>1, <2>2, <2>3, <2>4, <2>5, <2>6 DEF QueueInv, NoWildPointer
<1>4. CASE Len(list) > 0
  <2>1. call' = [call EXCEPT ![u] = "store tail"] /\ next' = [next EXCEPT ![tail] = node[u]]
        /\ UNCHANGED <<head, tail, product_number, allocated, can_access_queue, locals, list, crash>>
    BY <1>1, <1>4 DEF AppendLink, Calls
  <2>2. QueueTypeOK' /\ MutualExclusion'
    BY <1>0, <1>2, <2>1 DEF QueueInv, QueueTypeOK, MutualExclusion, Inside, locals
  <2>3. Chained'
    <3>1. \A i \in 1 .. Len(list) : i < Len(list) => list[i] # tail
      BY <1>1, <1>4, LastInList DEF QueueInv, Chained
    <3>2. \A i \in 1 .. Len(list) : i < Len(list) => next'[list[i]] = next[list[i]]
      BY <3>1, <2>1, LastInList DEF QueueInv, QueueTypeOK
    <3> QED BY <3>2, <2>1 DEF QueueInv, Chained
  <2>4. Ends' /\ Between'
    BY <1>0, <1>1, <1>4, <2>1, LastInList DEF QueueInv, QueueTypeOK, Ends, Between, Inside, locals
  <2>5. Allocated'
    BY <1>0, <2>1 DEF QueueInv, QueueTypeOK, Allocated, Pending, Fresh, locals
  <2>6. Apart'
    <3>1. \A v \in QueueUsers : call[v] \in Fresh => node[v] # tail
      BY <1>1, <1>4, LastInList DEF QueueInv, Apart, Pending
    <3>2. \A v \in QueueUsers : call[v] \in Fresh => next'[node[v]] = next[node[v]]
      BY <3>1, <2>1 DEF QueueInv, QueueTypeOK, Allocated, Pending
    <3>3. \A v \in QueueUsers : /\ call'[v] \in Fresh <=> call[v] \in Fresh
                                /\ call'[v] \in Pending <=> call[v] \in Pending
      BY <1>0, <2>1 DEF QueueInv, QueueTypeOK, Pending, Fresh
    <3> QED BY <2>1, <3>2, <3>3 DEF QueueInv, Apart, locals
  <2>7. NoLeak'
    BY <1>0, <2>1 DEF QueueInv, QueueTypeOK, NoLeak, Pending, Fresh, locals
  <2> QED BY <2>1, <2>2, <2>3, <2>4, <2>5, <2>6, <2>7 DEF QueueInv, NoWildPointer
<1> QED BY <1>3, <1>4, LastInList

(* The second store of queue_append. *)
LEMMA AppendStoreInv ==
  ASSUME QueueInv, NEW u \in QueueUsers, AppendStore(u)
  PROVE  QueueInv'
<1>0. call[u] \in {"store head", "store tail"} /\ (\A v \in QueueUsers : v # u => call[v] \notin Inside)
  BY OneInside DEF AppendStore, Calls, Inside
<1>1. node[u] \in Nodes /\ node[u] \in allocated /\ next[node[u]] = NULL
      /\ \A i \in 1 .. Len(list) : list[i] # node[u]
  BY <1>0 DEF QueueInv, QueueTypeOK, Allocated, Apart, Pending, Fresh
<1>2. /\ list' = Append(list, node[u]) /\ call' = [call EXCEPT ![u] = "unlock"]
      /\ UNCHANGED <<next, product_number, allocated, can_access_queue, node, data, empty, crash>>
  BY DEF AppendStore, Calls, locals
<1>3. /\ Len(list') = Len(list) + 1 /\ list' \in Seq(Nodes)
      /\ \A i \in 1 .. Len(list) : list'[i] = list[i]
      /\ list'[Len(list) + 1] = node[u]
  <2>1. list \in Seq(Nodes)
    BY DEF QueueInv, QueueTypeOK
  <2> QED BY <1>1, <1>2, <2>1
<1>4. tail' = node[u] /\ head' = IF Len(list) = 0 THEN node[u] ELSE head
  <2>1. call[u] = "store head" => Len(list) = 0 /\ tail = node[u]
    BY DEF QueueInv, Between
  <2>2. call[u] = "store tail" => Len(list) > 0
    BY DEF QueueInv, Between
  <2>3. CASE call[u] = "store head"
    <3>1. head' = node[u] /\ UNCHANGED tail
      BY <2>3 DEF AppendStore, Calls
    <3> QED BY <2>1, <2>3, <3>1
  <2>4. CASE call[u] = "store tail"
    <3>1. tail' = node[u] /\ UNCHANGED head
      BY <2>4 DEF AppendStore, Calls
    <3>2. Len(list) \in Nat /\ Len(list) > 0
      BY <2>2, <2>4, LastInList
    <3>3. Len(list) # 0
      BY <3>2
    <3> QED BY <3>1, <3>3
  <2> QED BY <1>0, <2>3, <2>4
<1>5. QueueTypeOK' /\ MutualExclusion'
  BY <1>0, <1>1, <1>2, <1>3, <1>4 DEF QueueInv, QueueTypeOK, MutualExclusion, Inside
<1>6. Chained'
  <2>1. \A i, j \in 1 .. Len(list') : list'[i] = list'[j] => i = j
    BY <1>1, <1>3, LastInList DEF QueueInv, Chained
  <2>2. ASSUME NEW i \in 1 .. Len(list'), i < Len(list') PROVE next'[list'[i]] = list'[i + 1]
    <3>1. CASE i < Len(list)
      BY <1>2, <1>3, <2>2, <3>1, LastInList DEF QueueInv, Chained
    <3>2. CASE i = Len(list)
      <4>1. Len(list) > 0 /\ call[u] = "store tail"
        <5>1. Len(list) > 0
          BY <3>2, LastInList
        <5>2. call[u] = "store head" => Len(list) = 0
          BY DEF QueueInv, Between
        <5>3. Len(list) # 0
          BY <5>1, LastInList
        <5> QED BY <1>0, <5>1, <5>2, <5>3
      <4>2. next[list[Len(list)]] = node[u]
        BY <4>1 DEF QueueInv, Between
      <4> QED BY <1>2, <1>3, <3>2, <4>1, <4>2, LastInList
    <3> QED BY <3>1, <3>2, <2>2, <1>3, LastInList
  <2> QED BY <2>1, <2>2 DEF Chained
<1>7. Ends'
  <2>1. Len(list') > 0 /\ list'[Len(list')] = node[u]
    BY <1>3, LastInList
  <2>2. head' = list'[1]
    <3>1. CASE Len(list) = 0
      BY <1>3, <1>4, <3>1
    <3>2. CASE Len(list) > 0
      <4>1. head = list[1]
        BY <3>2 DEF QueueInv, Ends
      <4>2. head' = head
        BY <1>4, <3>2
      <4> QED BY <1>3, <3>2, <4>1, <4>2, LastInList
    <3> QED BY <3>1, <3>2, LastInList
  <2>3. next'[list'[Len(list')]] = NULL
    BY <1>1, <1>2, <2>1
  <2>4. Len(list') # 0
    BY <1>3, LastInList
  <2> QED BY <1>4, <2>1, <2>2, <2>3, <2>4 DEF Ends
<1>8. Between'
  BY <1>0, <1>2 DEF QueueInv, QueueTypeOK, Between, Inside
<1>9. Allocated'
  <2>1. \A i \in 1 .. Len(list') : list'[i] \in allocated
    BY <1>1, <1>3, LastInList DEF QueueInv, Allocated
  <2>2. \A v \in QueueUsers : call'[v] \in Pending => call[v] \in Pending
    BY <1>2 DEF QueueInv, QueueTypeOK, Pending, Fresh
  <2> QED BY <1>2, <2>1, <2>2 DEF QueueInv, Allocated
<1>10. Apart'
  <2>1. \A v \in QueueUsers : /\ call'[v] \in Pending => v # u /\ call[v] \in Pending
                              /\ call'[v] \in Fresh => call[v] \in Fresh
    BY <1>2 DEF QueueInv, QueueTypeOK, Pending, Fresh
  <2>2. call[u] \in Pending
    BY <1>0 DEF Pending, Fresh
  <2>3. ASSUME NEW v \in QueueUsers, NEW i \in 1 .. Len(list'), call'[v] \in Pending
        PROVE  list'[i] # node[v]
    BY <1>3, <2>1, <2>2, <2>3, LastInList DEF QueueInv, Apart
  <2> QED BY <1>2, <2>1, <2>3 DEF QueueInv, Apart
<1>11. NoLeak'
  <2> SUFFICES ASSUME NEW n \in allocated
               PROVE  \/ \E i \in 1 .. Len(list') : list'[i] = n
                      \/ \E v \in QueueUsers : call'[v] \in Pending /\ node'[v] = n
    BY <1>2 DEF NoLeak
  <2>1. CASE \E i \in 1 .. Len(list) : list[i] = n
    BY <1>3, <2>1, LastInList
  <2>2. CASE n = node[u]
    BY <1>3, <2>2, LastInList
  <2>3. CASE \E v \in QueueUsers : v # u /\ call[v] \in Pending /\ node[v] = n
    BY <1>2, <2>3 DEF QueueInv, QueueTypeOK
  <2> QED BY <2>1, <2>2, <2>3 DEF QueueInv, NoLeak
<1> QED BY <1>2, <1>5, <1>6, <1>7, <1>8, <1>9, <1>10, <1>11 DEF QueueInv, NoWildPointer

(* queue_dequeue: the head of a list is NULL or allocated, so the only     *)
(* fault left is the assertion.                                            *)
LEMMA DequeueFirstInv ==
  ASSUME QueueInv, NEW u \in QueueUsers, DequeueFirst(u)
  PROVE  QueueInv'
<1>0. call[u] = "first" /\ (\A v \in QueueUsers : v # u => call[v] \notin Inside)
  BY OneInside DEF DequeueFirst, Calls, Inside
<1>1. /\ Len(list) = 0 => head = NULL
      /\ Len(list) > 0 => head = list[1] /\ head \in allocated /\ head \in Nodes
  BY LastInList DEF QueueInv, Ends, Allocated
<1>2. CASE head \in allocated
  <2>1. /\ call' = [call EXCEPT ![u] = "unlink"] /\ node' = [node EXCEPT ![u] = head]
        /\ data' = [data EXCEPT ![u] = product_number[head]]
        /\ UNCHANGED <<memory, can_access_queue, empty, crash>>
    BY <1>2 DEF DequeueFirst, Calls
  <2>2. Len(list) > 0 /\ head \in Nodes /\ head = list[1]
    <3>1. allocated \subseteq Nodes
      BY DEF QueueInv, QueueTypeOK
    <3>2. Len(list) # 0
      BY <1>1, <1>2, <3>1, QueueAssumption
    <3> QED BY <1>1, <3>2, LastInList
  <2>3. QueueTypeOK' /\ MutualExclusion'
    BY <1>0, <2>1, <2>2 DEF QueueInv, QueueTypeOK, MutualExclusion, Inside, memory
  <2>4. Chained' /\ Ends'
    BY <1>0, <2>1 DEF QueueInv, QueueTypeOK, Chained, Ends, memory
  <2>5. Between'
    BY <1>0, <2>1, <2>2 DEF QueueInv, QueueTypeOK, Between, Inside, memory
  <2>6. \A v \in QueueUsers : /\ call'[v] \in Pending <=> call[v] \in Pending
                              /\ call'[v] \in Fresh <=> call[v] \in Fresh
                              /\ call[v] \in Pending \cup Fresh => node'[v] = node[v]
    BY <1>0, <2>1 DEF QueueInv, QueueTypeOK, Pending, Fresh
  <2>7. Allocated' /\ Apart'
    BY <2>1, <2>6 DEF QueueInv, Allocated, Apart, memory
  <2>8. NoLeak'
    BY <2>1, <2>6 DEF QueueInv, NoLeak, memory
  <2> QED BY <2>1, <2>3, <2>4, <2>5, <2>7, <2>8 DEF QueueInv, NoWildPointer
<1>3. CASE head \notin allocated
  <2>1. head = NULL
    BY <1>1, <1>3, LastInList
  <2>2. crash' = "assert" /\ UNCHANGED <<memory, can_access_queue, call, node, data, empty>>
    BY <1>3, <2>1 DEF DequeueFirst
  <2>3. QueueTypeOK' /\ MutualExclusion'
    BY <2>2 DEF QueueInv, QueueTypeOK, MutualExclusion, memory
  <2>4. Chained' /\ Ends' /\ Between' /\ Allocated' /\ NoLeak' /\ Apart'
    BY <2>2, MemoryUntouched
  <2> QED BY <2>2, <2>3, <2>4 DEF QueueInv, NoWildPointer
<1> QED BY <1>2, <1>3

(* queue->head moves on: the node leaves the list and stays in the hand of *)
(* the call.                                                               *)
LEMMA DequeueUnlinkInv ==
  ASSUME QueueInv, NEW u \in QueueUsers, DequeueUnlink(u)
  PROVE  QueueInv'
<1>0. call[u] = "unlink" /\ (\A v \in QueueUsers : v # u => call[v] \notin Inside)
  BY OneInside DEF DequeueUnlink, Calls, Inside
<1>1. Len(list) > 0 /\ node[u] = list[1] /\ node[u] \in Nodes
  BY <1>0, LastInList DEF QueueInv, Between
<1>2. /\ call' = [call EXCEPT ![u] = "free"] /\ head' = next[node[u]] /\ list' = Tail(list)
      /\ UNCHANGED <<tail, next, product_number, allocated, can_access_queue, node, data, empty, crash>>
  BY DEF DequeueUnlink, Calls, locals
<1>3. /\ Len(list') = Len(list) - 1 /\ list' \in Seq(Nodes)
      /\ \A i \in 1 .. Len(list') : list'[i] = list[i + 1] /\ i + 1 \in 1 .. Len(list)
  <2>1. list \in Seq(Nodes) /\ list # << >>
    <3>1. Len(list) \in Nat /\ (list = << >> <=> Len(list) = 0)
      BY LastInList
    <3>2. list # << >>
      BY <1>1, <3>1
    <3> QED BY <3>2 DEF QueueInv, QueueTypeOK
  <2>2. Len(list') = Len(list) - 1 /\ list' \in Seq(Nodes) /\ Len(list) \in Nat
        /\ \A i \in 1 .. Len(list') : list'[i] = list[i + 1]
    BY <1>2, <2>1, HeadTailProperties, LastInList
  <2> QED BY <2>2
<1>a. tail = list[Len(list)] /\ next[tail] = NULL
  BY <1>0, <1>1, EndsOfAList DEF Inside
<1>4. next[list[1]] = IF Len(list) = 1 THEN NULL ELSE list[2]
  <2>1. CASE Len(list) = 1
    BY <1>a, <2>1
  <2>2. CASE Len(list) # 1
    <3>0. Len(list) \in Nat /\ Len(list) > 0 /\ Len(list) # 1
      BY <1>1, <2>2, LastInList
    <3>a. \A k \in Nat : k > 0 /\ k # 1 => 1 \in 1 .. k /\ 1 < k
      OBVIOUS
    <3>1. 1 \in 1 .. Len(list) /\ 1 < Len(list)
      BY <3>0, <3>a
    <3>2. next[list[1]] = list[1 + 1]
      BY <3>1 DEF QueueInv, Chained
    <3> QED BY <2>2, <3>2
  <2> QED BY <2>1, <2>2
<1>5. QueueTypeOK' /\ MutualExclusion'
  <2>1. QueueTypeOK'
    BY <1>0, <1>1, <1>2, <1>3, ZenonT(30) DEF QueueInv, QueueTypeOK
  <2>2. MutualExclusion'
    BY <1>0, <1>1, <1>2 DEF QueueInv, QueueTypeOK, MutualExclusion, Inside
  <2> QED BY <2>1, <2>2
<1>6. Chained'
  <2>1. Len(list) \in Nat /\ Len(list') \in Nat
    BY <1>1, <1>3, LastInList
  <2>2. ASSUME NEW i \in 1 .. Len(list'), NEW j \in 1 .. Len(list'), list'[i] = list'[j] PROVE i = j
    <3>1. list[i + 1] = list[j + 1] /\ i + 1 \in 1 .. Len(list) /\ j + 1 \in 1 .. Len(list)
      BY <1>3, <2>2
    <3> QED BY <3>1, <2>1 DEF QueueInv, Chained
  <2>3. ASSUME NEW i \in 1 .. Len(list'), i < Len(list') PROVE next[list'[i]] = list'[i + 1]
    <3>1. i + 1 \in 1 .. Len(list) /\ i + 1 < Len(list) /\ i + 1 \in 1 .. Len(list')
      BY <1>3, <2>1, <2>3
    <3>2. next[list[i + 1]] = list[(i + 1) + 1]
      BY <3>1 DEF QueueInv, Chained
    <3> QED BY <1>3, <3>1, <3>2
  <2> QED BY <1>2, <2>2, <2>3 DEF Chained
<1>7. Ends'
  <2>1. call'[u] = "free"
    BY <1>2 DEF QueueInv, QueueTypeOK
  <2>2. CASE Len(list) = 1
    <3>1. Len(list') = 0 /\ head' = NULL
      BY <1>1, <1>2, <1>3, <1>4, <2>2
    <3>2. ~(Len(list') > 0)
      BY <3>1
    <3>3. \E v \in QueueUsers : call'[v] = "free"
      BY <2>1
    <3> QED BY <3>1, <3>2, <3>3 DEF Ends
  <2>3. CASE Len(list) # 1
    <3>1. Len(list') > 0 /\ 1 \in 1 .. Len(list') /\ Len(list') \in 1 .. Len(list')
      BY <1>1, <1>3, <2>3, LastInList
    <3>2. list'[1] = list[2] /\ list'[Len(list')] = list[Len(list)]
      BY <1>3, <3>1, LastInList
    <3>3. head' = list'[1]
      BY <1>1, <1>2, <1>4, <2>3, <3>2
    <3>4. Len(list') # 0
      BY <3>1
    <3> QED BY <1>2, <1>a, <3>1, <3>2, <3>3, <3>4 DEF Ends
  <2> QED BY <2>2, <2>3
<1>8. Between'
  BY <1>0, <1>2 DEF QueueInv, QueueTypeOK, Between, Inside
<1>9. \A v \in QueueUsers : /\ call'[v] \in Pending <=> call[v] \in Pending \/ v = u
                            /\ call'[v] \in Fresh <=> call[v] \in Fresh
  BY <1>0, <1>2 DEF QueueInv, QueueTypeOK, Pending, Fresh
<1>10. node[u] \in allocated /\ \A v \in QueueUsers : call[v] \in Pending => node[v] # node[u]
  BY <1>1, LastInList DEF QueueInv, Allocated, Apart
<1>11. Allocated'
  BY <1>2, <1>3, <1>9, <1>10 DEF QueueInv, Allocated
<1>12. Apart'
  <2>1. ASSUME NEW v \in QueueUsers, NEW i \in 1 .. Len(list'), call'[v] \in Pending
        PROVE  list'[i] # node[v]
    <3>1. CASE v = u
      BY <1>1, <1>3, <3>1, LastInList DEF QueueInv, Chained
    <3>2. CASE v # u
      BY <1>3, <1>9, <2>1, <3>2 DEF QueueInv, Apart
    <3> QED BY <3>1, <3>2
  <2> QED BY <1>2, <1>9, <1>10, <2>1 DEF QueueInv, Apart
<1>13. NoLeak'
  <2> SUFFICES ASSUME NEW n \in allocated
               PROVE  \/ \E i \in 1 .. Len(list') : list'[i] = n
                      \/ \E v \in QueueUsers : call'[v] \in Pending /\ node'[v] = n
    BY <1>2 DEF NoLeak
  <2>1. CASE n = node[u]
    BY <1>2, <1>9, <2>1
  <2>2. ASSUME NEW i \in 1 .. Len(list), list[i] = n, i # 1
        PROVE  \E k \in 1 .. Len(list') : list'[k] = n
    <3>1. i - 1 \in 1 .. Len(list') /\ list'[i - 1] = n
      BY <1>3, <2>2, LastInList
    <3> QED BY <3>1
  <2>3. CASE \E v \in QueueUsers : call[v] \in Pending /\ node[v] = n
    BY <1>2, <1>9, <2>3
  <2> QED BY <1>1, <2>1, <2>2, <2>3 DEF QueueInv, NoLeak
<1> QED BY <1>2, <1>5, <1>6, <1>7, <1>8, <1>11, <1>12, <1>13 DEF QueueInv, NoWildPointer

(* The node is freed, and the tail of an empty list forgotten. *)
LEMMA DequeueFreeInv ==
  ASSUME QueueInv, NEW u \in QueueUsers, DequeueFree(u)
  PROVE  QueueInv'
<1>0. call[u] = "free" /\ (\A v \in QueueUsers : v # u => call[v] \notin Inside)
  BY OneInside DEF DequeueFree, Calls, Inside
<1>1. /\ call' = [call EXCEPT ![u] = "unlock"] /\ allocated' = allocated \ {node[u]}
      /\ tail' = IF head = NULL THEN NULL ELSE tail
      /\ UNCHANGED <<head, next, product_number, can_access_queue, node, data, empty, list, crash>>
  BY DEF DequeueFree, Calls, locals
<1>2. head = NULL <=> Len(list) = 0
  <2>1. Len(list) > 0 => head \in Nodes
    BY LastInList DEF QueueInv, Ends
  <2>2. Len(list) = 0 => head = NULL
    BY DEF QueueInv, Ends
  <2> QED BY <2>1, <2>2, LastInList, QueueAssumption
<1>3. QueueTypeOK' /\ MutualExclusion'
  BY <1>0, <1>1 DEF QueueInv, QueueTypeOK, MutualExclusion, Inside
<1>4. Chained'
  BY <1>1 DEF QueueInv, Chained
<1>5. Ends'
  <2>1. \A v \in QueueUsers : call[v] # "store tail"
    BY <1>0 DEF Inside
  <2>2. Len(list) > 0 => tail' = tail
    BY <1>1, <1>2, LastInList
  <2>3. Len(list) = 0 => tail' = NULL
    BY <1>1, <1>2
  <2> QED BY <1>1, <2>1, <2>2, <2>3 DEF QueueInv, Ends
<1>6. Between'
  BY <1>0, <1>1 DEF QueueInv, QueueTypeOK, Between, Inside
<1>7. /\ call[u] \in Pending
      /\ \A v \in QueueUsers : call'[v] \in Pending => call[v] \in Pending /\ v # u
      /\ \A v \in QueueUsers : call[v] \in Pending /\ v # u => call'[v] \in Pending
      /\ \A v \in QueueUsers : call'[v] \in Fresh => call[v] \in Fresh
  BY <1>0, <1>1 DEF QueueInv, QueueTypeOK, Pending, Fresh
<1>8. Allocated' /\ Apart'
  <2>1. \A i \in 1 .. Len(list) : list[i] # node[u]
    BY <1>7 DEF QueueInv, Apart
  <2>2. ASSUME NEW v \in QueueUsers, call'[v] \in Pending PROVE node[v] # node[u]
    <3>1. call[v] \in Pending /\ v # u
      BY <1>7, <2>2
    <3> QED BY <1>7, <3>1 DEF QueueInv, Apart
  <2>3. Allocated'
    BY <1>1, <1>7, <2>1, <2>2 DEF QueueInv, Allocated
  <2>4. \A v \in QueueUsers : /\ call'[v] \in Pending => call[v] \in Pending
                              /\ call'[v] \in Fresh => call[v] \in Fresh
    BY <1>7
  <2>5. Apart'
    BY <1>1, <2>4 DEF QueueInv, Apart
  <2> QED BY <2>3, <2>5
<1>9. NoLeak'
  BY <1>1, <1>7 DEF QueueInv, NoLeak
<1> QED BY <1>1, <1>3, <1>4, <1>5, <1>6, <1>8, <1>9 DEF QueueInv, NoWildPointer

-----------------------------------------------------------------------------
(* Every step of the queue, and of whatever uses it, keeps the invariant. *)
LEMMA QueueNextInv == QueueInv /\ [QueueNext]_queueVars => QueueInv'
<1> SUFFICES ASSUME QueueInv, [QueueNext]_queueVars PROVE QueueInv'
  OBVIOUS
<1>1. ASSUME NEW u \in QueueUsers, NEW d \in Data, NEW n \in Nodes, AppendNew(u, d, n)
      PROVE  QueueInv'
  BY <1>1, AppendNewInv
<1>2. ASSUME NEW u \in QueueUsers, AppendLock(u) \/ IsEmptyLock(u) \/ DequeueLock(u)
      PROVE  QueueInv'
  BY <1>2, QueueLockInv DEF AppendLock, IsEmptyLock, DequeueLock
<1>3. ASSUME NEW u \in QueueUsers, QueueStep(u) PROVE QueueInv'
  BY <1>2, <1>3, AppendLinkInv, AppendStoreInv, IsEmptyReadInv, DequeueFirstInv,
     DequeueUnlinkInv, DequeueFreeInv, QueueUnlockInv DEF QueueStep
<1>4. CASE ProcessDies
  BY <1>4, MemoryUntouched DEF ProcessDies, QueueInv, QueueTypeOK, MutualExclusion,
     NoWildPointer, memory, locals
<1>5. CASE UNCHANGED queueVars
  BY <1>5, MemoryUntouched DEF queueVars, QueueInv, QueueTypeOK, MutualExclusion,
     NoWildPointer, memory
<1> QED BY <1>1, <1>2, <1>3, <1>4, <1>5 DEF QueueNext

(* Between two calls the memory is exactly the list.                       *)
LEMMA InvIsWellFormed == QueueInv => ListIsWellFormed
<1> SUFFICES ASSUME QueueInv, can_access_queue = NoUser
             PROVE  /\ head = IF list = << >> THEN NULL ELSE list[1]
                    /\ tail = IF list = << >> THEN NULL ELSE list[Len(list)]
                    /\ \A i \in 1 .. Len(list) :
                         next[list[i]] = IF i < Len(list) THEN list[i + 1] ELSE NULL
                    /\ \A i, j \in 1 .. Len(list) : list[i] = list[j] => i = j
                    /\ allocated = Linked \cup Unlinked
  BY DEF ListIsWellFormed
<1>1. \A u \in QueueUsers : call[u] \notin Inside
  BY QueueAssumption DEF QueueInv, MutualExclusion
<1>2. list = << >> <=> Len(list) = 0
  BY LastInList
<1>3. /\ head = IF list = << >> THEN NULL ELSE list[1]
      /\ tail = IF list = << >> THEN NULL ELSE list[Len(list)]
  <2>1. Len(list) \in Nat /\ \A v \in QueueUsers : call[v] \notin {"store head", "store tail", "free"}
    BY <1>1, LastInList DEF Inside
  <2>2. CASE Len(list) = 0
    BY <1>2, <2>1, <2>2, EndsOfAList
  <2>3. CASE Len(list) > 0
    BY <1>2, <2>1, <2>3, EndsOfAList
  <2>4. Len(list) = 0 \/ Len(list) > 0
    <3>1. \A k \in Nat : k = 0 \/ k > 0
      OBVIOUS
    <3> QED BY <2>1, <3>1
  <2> QED BY <2>2, <2>3, <2>4
<1>4. ASSUME NEW i \in 1 .. Len(list)
      PROVE  next[list[i]] = IF i < Len(list) THEN list[i + 1] ELSE NULL
  <2>1. CASE i < Len(list)
    BY <2>1 DEF QueueInv, Chained
  <2>2. CASE i = Len(list)
    <3>1. Len(list) > 0
      BY <2>2, LastInList
    <3>2. next[list[Len(list)]] = NULL
      BY <1>1, <3>1, EndsOfAList DEF Inside
    <3> QED BY <2>2, <3>2
  <2> QED BY <2>1, <2>2, LastInList
<1>5. \A i, j \in 1 .. Len(list) : list[i] = list[j] => i = j
  BY DEF QueueInv, Chained
<1>6. \A u \in QueueUsers : call[u] \in Pending <=> call[u] \in {"append", "link"}
  BY <1>1 DEF Pending, Fresh, Inside
<1>7. allocated \subseteq Linked \cup Unlinked
  BY <1>6 DEF QueueInv, NoLeak, Linked, Unlinked
<1>8. Linked \cup Unlinked \subseteq allocated
  BY <1>6 DEF QueueInv, Allocated, Linked, Unlinked
<1> QED BY <1>3, <1>4, <1>5, <1>7, <1>8

(* The memory of the queue is a list whenever no call is under way, however *)
(* many threads make calls, and whatever calls.                             *)
THEOREM QueueKeepsItsList == QueueSpec => []ListIsWellFormed
<1>1. QueueSpec => []QueueInv
  BY QueueInitInv, QueueNextInv, PTL DEF QueueSpec
<1> QED BY <1>1, InvIsWellFormed, PTL

(* No call of queue_append, queue_is_empty or queue_dequeue follows a null *)
(* pointer or one to freed memory, except past the assertion.              *)
THEOREM QueueFollowsNoWildPointer == QueueSpec => []NoWildPointer
<1>1. QueueSpec => []QueueInv
  BY QueueInitInv, QueueNextInv, PTL DEF QueueSpec
<1>2. QueueInv => NoWildPointer
  BY DEF QueueInv
<1> QED BY <1>1, <1>2, PTL
-----------------------------------------------------------------------------
(* A number that is read is one of the numbers of stdin. *)
NumbersAreCounted == total_num \in 0 .. MaxNumbers

LEMMA NumbersAreCountedInv ==
  /\ Init => NumbersAreCounted
  /\ NumbersAreCounted /\ [Next]_vars => NumbersAreCounted'
<1>1. Init => NumbersAreCounted
  BY PoolAssumption DEF Init, NumbersAreCounted
<1>2. ASSUME NumbersAreCounted, [Next]_vars PROVE NumbersAreCounted'
  <2>1. CASE ReadNumber
    BY <1>2, <2>1, PoolAssumption DEF ReadNumber, NumbersAreCounted
  <2>2. CASE UNCHANGED total_num
    BY <1>2, <2>2 DEF NumbersAreCounted
  <2>3. [Next]_vars => ReadNumber \/ UNCHANGED total_num
    BY DEF Next, MainStep, ThreadStep, vars, input, Analyze, EndOfInput, CreateThread, CreateFails,
       CreateEnds, Join, PrintRows, InQueue, TestEmpty, Leave, LockShared, Dequeue, Count,
       UnlockShared, WriteNumber, WriteSums
  <2> QED BY <1>2, <2>1, <2>2, <2>3
<1> QED BY <1>1, <1>2

(* What main does is a call of the queue, the death of the process, or     *)
(* nothing to the queue.                                                   *)
LEMMA MainStepIsQueueStep ==
  ASSUME NumbersAreCounted, MainStep
  PROVE  [QueueNext]_queueVars
<1>1. Main \in QueueUsers
  BY PoolAssumption
<1>2. CASE ReadNumber
  <2>1. total_num + 1 \in Data
    BY <1>2, PoolAssumption DEF ReadNumber, NumbersAreCounted
  <2>2. CASE AppendNew(Main, total_num + 1, NewNode)
    <3>1. NewNode \in Nodes
      BY <2>2 DEF AppendNew
    <3> QED BY <1>1, <2>1, <2>2, <3>1 DEF QueueNext
  <2>3. CASE AppendFails(Main)
    BY <2>3 DEF AppendFails
  <2> QED BY <1>2, <2>2, <2>3 DEF ReadNumber
<1>3. CASE InQueue(Main)
  BY <1>1, <1>3 DEF InQueue, QueueNext
<1>4. CASE Analyze \/ EndOfInput \/ PrintRows
  <2>1. Alive /\ crash' \in {"null", "primo", crash} /\ UNCHANGED <<memory, locals, can_access_queue, call>>
    BY <1>4 DEF Analyze, EndOfInput, PrintRows, MainAt
  <2> QED BY <2>1 DEF QueueNext, ProcessDies, queueVars, memory, locals
<1>5. CASE CreateThread \/ CreateFails \/ CreateEnds \/ Join
  BY <1>5 DEF CreateThread, CreateFails, CreateEnds, Join
<1> QED BY <1>2, <1>3, <1>4, <1>5 DEF MainStep

(* So is what a thread does. *)
LEMMA ThreadStepIsQueueStep ==
  ASSUME NEW t \in Threads, ThreadStep(t)
  PROVE  [QueueNext]_queueVars
<1>1. t \in QueueUsers
  BY PoolAssumption
<1>2. CASE TestEmpty(t) \/ Dequeue(t) \/ InQueue(t)
  BY <1>1, <1>2 DEF TestEmpty, Dequeue, InQueue, QueueNext
<1>3. CASE WriteNumber(t)
  BY <1>3 DEF WriteNumber, Goto, QueueNext, ProcessDies, queueVars, memory, locals
<1>4. CASE Leave(t) \/ LockShared(t) \/ Count(t) \/ UnlockShared(t) \/ WriteSums(t)
  BY <1>4 DEF Leave, LockShared, Count, UnlockShared, WriteSums
<1> QED BY <1>2, <1>3, <1>4 DEF ThreadStep

(* goldbach_optimization uses the queue as its users may, whatever fails.  *)
THEOREM PoolUsesQueue == Spec => QueueSpec
<1>1. Init => QueueInit
  BY DEF Init
<1>2. NumbersAreCounted /\ [Next]_vars => [QueueNext]_queueVars
  BY MainStepIsQueueStep, ThreadStepIsQueueStep DEF Next, vars
<1>3. Spec => []NumbersAreCounted
  BY NumbersAreCountedInv, PTL DEF Spec
<1> QED BY <1>1, <1>2, <1>3, PTL DEF Spec, QueueSpec

(* Between the calls that main and the threads of goldbach_optimization    *)
(* make, head, tail and the nodes are a list: none is lost, leaked, freed  *)
(* early or linked twice.                                                  *)
THEOREM PoolKeepsItsList == Spec => []ListIsWellFormed
BY PoolUsesQueue, QueueKeepsItsList, PTL

(* No thread of goldbach_optimization follows a pointer to freed memory.   *)
THEOREM PoolFollowsNoWildPointer == Spec => []NoWildPointer
BY PoolUsesQueue, QueueFollowsNoWildPointer, PTL
-----------------------------------------------------------------------------
(* A thread has found the queue empty, for good *)
FoundEmpty(t) ==
  pc[t] = "ended" \/ (pc[t] = "tested" /\ call[t] \in {"unlock", "idle"} /\ empty[t])

(* A thread has found a number in the queue and has not taken it yet *)
FoundNumber(t) ==
  \/ pc[t] = "tested" /\ call[t] \in {"unlock", "idle"} /\ ~empty[t]
  \/ pc[t] = "dequeue"
  \/ pc[t] = "count" /\ call[t] \in {"first", "unlink"}

(* A thread has taken a number and not yet its row *)
Taking(t) == pc[t] = "count" /\ call[t] \in {"free", "unlock", "idle"}
Taken == IF \E t \in Threads : Taking(t) THEN 1 ELSE 0

(* main has a number that is not yet in the queue *)
Appended == IF call[Main] \in Fresh THEN 1 ELSE 0

(* A thread has a row and is not done with it *)
HasRow(t) == pc[t] \in {"unlock", "number", "sums"}

(* The calls of the queue that are made at each step of a thread, and by   *)
(* main                                                                    *)
CallsInPlace ==
  /\ \A t \in Threads :
       /\ call[t] \in {"idle", "test", "first", "unlink", "free", "unlock"}
       /\ call[t] # "idle" => pc[t] \in {"tested", "count"}
       /\ pc[t] = "tested" => call[t] \in {"idle", "test", "unlock"}
       /\ pc[t] = "count" => call[t] # "test"
  /\ call[Main] \in Fresh \cup {"idle", "unlock"}
  /\ call[Main] # "idle" => main = "read"

(* What the phases of main have to do with the threads *)
MainInOrder ==
  /\ \A t \in Threads : pc[t] # "new" => t < thread_count
  /\ main \in {"analyze", "read"} =>
       /\ index = 0 /\ thread_count = asked /\ id_num = 0 /\ (Alive => DOMAIN rows = {})
       /\ \A t \in Threads : pc[t] = "new"
  /\ main = "create" =>
       index <= thread_count /\ \A t \in Threads : pc[t] = "new" <=> t >= index
  /\ main = "join" =>
       /\ \A t \in Threads : pc[t] = "new" <=> t >= thread_count
       /\ \A t \in Threads : t < index => pc[t] = "ended"
  /\ main \in {"print", "exit"} => \A t \in Threads : pc[t] \in {"new", "ended"}
  /\ (main = "print" /\ ~unthreaded) => \A t \in Threads : t < thread_count => pc[t] = "ended"

(* can_access_shared is held from the loop's condition to the unlock. *)
SharedMutex == \A t \in Threads : owner = t <=> pc[t] \in {"dequeue", "count", "unlock"}

(* What a thread has found out about the queue is still so: when there is  *)
(* no number, and, if no other thread was created, when there is one.      *)
StillEmpty  == (\E t \in Threads : FoundEmpty(t)) => list = << >>
StillNumber ==
  \A t \in Threads :
    (FoundNumber(t) /\ \A u \in Threads \ {t} : pc[u] = "new") => list # << >>

(* A row for every number that is stored, and not more than there are *)
Counted ==
  /\ id_num + Taken + Len(list) + Appended <= total_num
  /\ lost = {} => id_num + Taken + Len(list) + Appended = total_num

(* The numbers in the queue, at its two ends and in it, are numbers that   *)
(* were read; when none is lost they are the next ones in order.           *)
NumbersInOrder ==
  /\ \A i \in 1 .. Len(list) :
       /\ product_number[list[i]] \in Numbers
       /\ lost = {} => product_number[list[i]] = id_num + Taken + i
  /\ call[Main] \in Fresh =>
       /\ product_number[node[Main]] \in Numbers
       /\ lost = {} => product_number[node[Main]] = total_num
  /\ \A t \in Threads :
       /\ pc[t] = "count" /\ call[t] = "unlink" => data[t] = product_number[node[t]]
       /\ Taking(t) => data[t] \in Numbers /\ (lost = {} => data[t] = id_num + 1)

(* The row of a thread is its own, is one that was given out, and has the  *)
(* index of its number.                                                    *)
RowsTaken ==
  /\ \A t \in Threads : HasRow(t) =>
       /\ row[t] < id_num /\ num[t] \in Numbers
       /\ lost = {} => num[t] = row[t] + 1
  /\ \A t, u \in Threads : (HasRow(t) /\ HasRow(u) /\ row[t] = row[u]) => t = u

(* A row is empty until its thread writes it, and complete afterwards. *)
RowsWritten ==
  /\ \A r \in DOMAIN rows : r >= id_num => rows[r] = << >>
  /\ \A t \in Threads : pc[t] \in {"unlock", "number"} => rows[row[t]] = << >>
  /\ \A t \in Threads : pc[t] = "sums" /\ Alive => rows[row[t]] = <<num[t]>>
  /\ Alive => \A r \in DOMAIN rows : r < id_num =>
       Len(rows[r]) = 2 \/ \E t \in Threads : HasRow(t) /\ row[t] = r

(* The inductive invariant, on top of the one of the queue *)
PoolInv ==
  /\ TypeOK /\ CallsInPlace /\ MainInOrder /\ SharedMutex /\ StillEmpty /\ StillNumber
  /\ Counted /\ NumbersInOrder /\ RowsTaken /\ RowsWritten /\ RowsFollowInput /\ NoCrashAlone
-----------------------------------------------------------------------------
(* What the types say, for the provers. *)
LEMMA PoolTypes ==
  ASSUME QueueInv, TypeOK
  PROVE  /\ list \in Seq(Nodes) /\ Len(list) \in Nat
         /\ total_num \in Nat /\ total_num <= MaxNumbers /\ id_num \in Nat /\ asked \in Nat
         /\ thread_count \in Nat /\ thread_count <= asked /\ asked <= MaxThreads
         /\ index \in Nat /\ index <= asked /\ MaxThreads \in Nat /\ MaxNumbers \in Nat
         /\ Main \notin Threads /\ Main \in QueueUsers /\ Threads \subseteq QueueUsers
         /\ \A u \in QueueUsers : u # Main => u \in Threads
         /\ \A t \in Threads : t \in Nat
         /\ Taken \in {0, 1} /\ Appended \in {0, 1}
<1>1. MaxThreads \in Nat /\ MaxNumbers \in Nat /\ QueueUsers = Threads \cup {Main}
  BY PoolAssumption
<1>2. \A t \in Threads : t \in Nat
  BY <1>1 DEF Threads
<1>3. Main \notin Threads
  BY <1>1 DEF Main, Threads
<1>4. list \in Seq(Nodes) /\ Len(list) \in Nat
  BY LastInList DEF QueueInv, QueueTypeOK
<1>5. total_num \in Nat /\ total_num <= MaxNumbers /\ asked \in Nat /\ asked <= MaxThreads
  BY <1>1 DEF TypeOK
<1>6. thread_count \in Nat /\ thread_count <= asked /\ index \in Nat /\ index <= asked /\ id_num \in Nat
  BY <1>5 DEF TypeOK
<1>7. Taken \in {0, 1} /\ Appended \in {0, 1}
  BY DEF Taken, Appended
<1> QED BY <1>1, <1>2, <1>3, <1>4, <1>5, <1>6, <1>7

(* The initial states satisfy the invariant. *)
LEMMA InitPoolInv == Init => PoolInv
<1> SUFFICES ASSUME Init PROVE PoolInv
  OBVIOUS
<1>0. QueueTypeOK
  BY QueueInitInv DEF Init, QueueInv
<1>1. TypeOK
  <2>1. MaxNumbers \in Nat /\ MaxThreads \in Nat /\ asked \in Nat /\ asked <= MaxThreads
    BY PoolAssumption DEF Init
  <2>2. total_num \in 0 .. MaxNumbers /\ thread_count \in 0 .. asked /\ index \in 0 .. asked
        /\ id_num \in 0 .. total_num
    BY <2>1 DEF Init
  <2>3. num \in [Threads -> Numbers \cup {NoData}] /\ row \in [Threads -> 0 .. total_num]
    BY <2>2 DEF Init
  <2>4. DOMAIN rows = {}
    BY DEF Init
  <2>5. crash = "none"
    BY DEF Init, QueueInit
  <2> QED BY <1>0, <2>2, <2>3, <2>4, <2>5 DEF Init, TypeOK
<1>2. DOMAIN rows = {} /\ Len(list) = 0 /\ list = << >> /\ call[Main] = "idle"
      /\ \A t \in Threads : call[t] = "idle" /\ pc[t] = "new"
  BY PoolAssumption DEF Init, QueueInit
<1>3. CallsInPlace /\ MainInOrder /\ SharedMutex
  BY <1>2, PoolAssumption DEF Init, CallsInPlace, MainInOrder, SharedMutex
<1>4. StillEmpty /\ StillNumber
  BY <1>2 DEF StillEmpty, StillNumber, FoundNumber
<1>5. Taken = 0 /\ Appended = 0
  BY <1>2 DEF Taken, Taking, Appended, Fresh
<1>6. Counted
  BY <1>2, <1>5 DEF Init, Counted
<1>7. NumbersInOrder /\ RowsTaken /\ RowsWritten /\ RowsFollowInput
  BY <1>2 DEF NumbersInOrder, RowsTaken, RowsWritten, RowsFollowInput, Taking, HasRow, Fresh
<1>8. NoCrashAlone
  BY DEF Init, QueueInit, NoCrashAlone
<1> QED BY <1>1, <1>3, <1>4, <1>6, <1>7, <1>8 DEF PoolInv

(* What main does on its own leaves what is said of the threads' work. *)
LEMMA MainAlone ==
  ASSUME PoolInv, Alive,
         UNCHANGED <<call, node, data, empty, list, product_number, input, shared, own, pc, rows>>
  PROVE  /\ SharedMutex' /\ StillEmpty' /\ StillNumber' /\ Counted' /\ NumbersInOrder'
         /\ RowsTaken' /\ RowsWritten' /\ RowsFollowInput'
<1> USE DEF PoolInv, input, shared, own
<1>1. SharedMutex' /\ StillEmpty' /\ StillNumber'
  BY DEF SharedMutex, StillEmpty, StillNumber, FoundEmpty, FoundNumber
<1>2. Taken' = Taken /\ Appended' = Appended /\ Numbers' = Numbers
  BY DEF Taken, Taking, Appended, Numbers
<1>3. Counted' /\ NumbersInOrder'
  BY <1>2 DEF Counted, NumbersInOrder, Taking
<1>4. RowsTaken' /\ RowsWritten' /\ RowsFollowInput'
  BY <1>2 DEF RowsTaken, RowsWritten, RowsFollowInput, HasRow
<1> QED BY <1>1, <1>3, <1>4

(* A usage error, or the end of a process without memory. *)
LEMMA AnalyzeInv ==
  ASSUME QueueInv, PoolInv, Analyze
  PROVE  PoolInv'
<1>1. /\ Alive /\ main = "analyze" /\ main' \in {"analyze", "exit", "read"}
      /\ main' # "analyze" => crash' = crash
      /\ crash' \in {crash, "null"}
      /\ UNCHANGED <<memory, locals, can_access_queue, call, input, shared, thread_count,
                     index, pc, own, output>>
  BY DEF Analyze, MainAt
<1>2. TypeOK'
  BY <1>1 DEF PoolInv, TypeOK, QueueTypeOK, Numbers, Rows, Texts, Alive, memory, locals, input,
              shared, own, output
<1>3. CallsInPlace' /\ MainInOrder'
  BY <1>1 DEF PoolInv, CallsInPlace, MainInOrder, Alive, input, output, shared
<1>4. /\ SharedMutex' /\ StillEmpty' /\ StillNumber' /\ Counted' /\ NumbersInOrder'
      /\ RowsTaken' /\ RowsWritten' /\ RowsFollowInput'
  BY <1>1, MainAlone DEF memory, locals, output
<1>5. NoCrashAlone'
  BY <1>1 DEF NoCrashAlone, Alive
<1> QED BY <1>2, <1>3, <1>4, <1>5 DEF PoolInv

(* A creation that failed ends the loop, with the threads created so far. *)
LEMMA CreateFailsInv ==
  ASSUME QueueInv, PoolInv, CreateFails
  PROVE  PoolInv'
<1>1. /\ Alive /\ main = "create" /\ index < thread_count /\ thread_count' = index
      /\ UNCHANGED <<queueVars, input, shared, main, index, pc, own, output>>
  BY DEF CreateFails, MainAt
<1>2. TypeOK'
  <2>1. thread_count' \in 0 .. asked'
    BY <1>1, PoolTypes DEF PoolInv, input
  <2> QED BY <1>1, <2>1 DEF PoolInv, TypeOK, QueueTypeOK, queueVars, Numbers, Rows, Texts,
             input, shared, own, output
<1>3. CallsInPlace' /\ MainInOrder'
  BY <1>1, PoolTypes DEF PoolInv, CallsInPlace, MainInOrder, queueVars, input, output
<1>4. /\ SharedMutex' /\ StillEmpty' /\ StillNumber' /\ Counted' /\ NumbersInOrder'
      /\ RowsTaken' /\ RowsWritten' /\ RowsFollowInput'
  BY <1>1, MainAlone DEF queueVars, output
<1>5. NoCrashAlone'
  BY <1>1 DEF NoCrashAlone, Alive, queueVars
<1> QED BY <1>2, <1>3, <1>4, <1>5 DEF PoolInv

(* The end of the loop that creates. *)
LEMMA CreateEndsInv ==
  ASSUME QueueInv, PoolInv, CreateEnds
  PROVE  PoolInv'
<1>1. /\ Alive /\ main = "create" /\ index = thread_count /\ main' = "join" /\ index' = 0
      /\ UNCHANGED <<queueVars, input, shared, thread_count, pc, own, output>>
  BY DEF CreateEnds, MainAt
<1>2. TypeOK'
  <2>1. index' \in 0 .. asked'
    BY <1>1, PoolTypes DEF PoolInv, input
  <2> QED BY <1>1, <2>1 DEF PoolInv, TypeOK, QueueTypeOK, queueVars, Numbers, Rows, Texts,
             input, shared, own, output
<1>3. CallsInPlace' /\ MainInOrder'
  BY <1>1, PoolTypes DEF PoolInv, CallsInPlace, MainInOrder, queueVars, input, output
<1>4. /\ SharedMutex' /\ StillEmpty' /\ StillNumber' /\ Counted' /\ NumbersInOrder'
      /\ RowsTaken' /\ RowsWritten' /\ RowsFollowInput'
  BY <1>1, MainAlone DEF queueVars, output
<1>5. NoCrashAlone'
  BY <1>1 DEF NoCrashAlone, Alive, queueVars
<1> QED BY <1>2, <1>3, <1>4, <1>5 DEF PoolInv

(* A join waits for its thread, and after the last one none works. *)
LEMMA JoinInv ==
  ASSUME QueueInv, PoolInv, Join
  PROVE  PoolInv'
<1>1. /\ Alive /\ main = "join"
      /\ \/ /\ index < thread_count /\ pc[index] = "ended" /\ index' = index + 1
            /\ main' = "join"
         \/ ~(index < thread_count) /\ main' = "print" /\ index' = index
      /\ UNCHANGED <<queueVars, input, shared, thread_count, pc, own, output>>
  BY DEF Join, MainAt
<1>2. TypeOK'
  <2>1. index' \in 0 .. asked'
    BY <1>1, PoolTypes DEF PoolInv, input
  <2> QED BY <1>1, <2>1 DEF PoolInv, TypeOK, QueueTypeOK, queueVars, Numbers, Rows, Texts,
             input, shared, own, output
<1>3. CallsInPlace'
  BY <1>1 DEF PoolInv, CallsInPlace, queueVars
<1>4. MainInOrder'
  <2>1. /\ \A t \in Threads : pc[t] = "new" => t >= thread_count
        /\ \A t \in Threads : t >= thread_count => pc[t] = "new"
        /\ \A t \in Threads : t < index => pc[t] = "ended"
        /\ \A t \in Threads : pc[t] # "new" => t < thread_count
        /\ \A t \in Threads : t \in Nat
        /\ index \in Nat /\ thread_count \in Nat
    BY <1>1, PoolTypes DEF PoolInv, MainInOrder
  <2>2. CASE index < thread_count
    BY <1>1, <2>1, <2>2 DEF MainInOrder
  <2>3. CASE ~(index < thread_count)
    <3>1. \A t \in Threads : pc[t] \in {"new", "ended"} /\ (t < thread_count => pc[t] = "ended")
      BY <2>1, <2>3
    <3> QED BY <1>1, <2>1, <2>3, <3>1 DEF MainInOrder
  <2> QED BY <2>2, <2>3
<1>5. /\ SharedMutex' /\ StillEmpty' /\ StillNumber' /\ Counted' /\ NumbersInOrder'
      /\ RowsTaken' /\ RowsWritten' /\ RowsFollowInput'
  BY <1>1, MainAlone DEF queueVars, output
<1>6. NoCrashAlone'
  BY <1>1 DEF NoCrashAlone, Alive, queueVars
<1> QED BY <1>2, <1>3, <1>4, <1>5, <1>6 DEF PoolInv

(* The rows are printed, if they could be allocated. *)
LEMMA PrintRowsInv ==
  ASSUME QueueInv, PoolInv, PrintRows
  PROVE  PoolInv'
<1>1. /\ Alive /\ main = "print" /\ main' \in {"print", "exit"} /\ crash' \in {crash, "null"}
      /\ UNCHANGED <<memory, locals, can_access_queue, call, input, shared, thread_count,
                     index, pc, own, output>>
  BY DEF PrintRows, MainAt
<1>2. TypeOK'
  BY <1>1 DEF PoolInv, TypeOK, QueueTypeOK, Numbers, Rows, Texts, Alive, memory, locals, input,
              shared, own, output
<1>3. CallsInPlace' /\ MainInOrder'
  BY <1>1 DEF PoolInv, CallsInPlace, MainInOrder, input, output, shared
<1>4. /\ SharedMutex' /\ StillEmpty' /\ StillNumber' /\ Counted' /\ NumbersInOrder'
      /\ RowsTaken' /\ RowsWritten' /\ RowsFollowInput'
  BY <1>1, MainAlone DEF memory, locals, output
<1>5. NoCrashAlone'
  BY <1>1 DEF NoCrashAlone, Alive
<1> QED BY <1>2, <1>3, <1>4, <1>5 DEF PoolInv

(* The end of stdin: the threads will find empty rows. *)
LEMMA EndOfInputInv ==
  ASSUME QueueInv, PoolInv, EndOfInput
  PROVE  PoolInv'
<1>1. /\ Alive /\ main = "read" /\ main' \in {"read", "print", "create"}
      /\ main' # "read" => crash' = crash
      /\ main' = "read" => crash' \in {"null", "primo"}
      /\ main' = "print" => unthreaded'
      /\ crash' \in {crash, "null", "primo"} /\ matrix' \in BOOLEAN
      /\ unthreaded' \in BOOLEAN
      /\ rows' = [r \in Rows |-> << >>]
      /\ UNCHANGED <<memory, locals, can_access_queue, call, input, shared, thread_count,
                     index, pc, own>>
      /\ call[Main] = "idle"
  BY DEF EndOfInput, MainAt, PoolInv, TypeOK, Idle
<1>2. /\ index = 0 /\ id_num = 0 /\ \A t \in Threads : pc[t] = "new"
      /\ crash = "none"
  BY <1>1 DEF PoolInv, MainInOrder, Alive
<1>3. DOMAIN rows' = Rows /\ \A r \in Rows : rows'[r] = << >>
  BY <1>1
<1>4. TypeOK'
  BY <1>1, <1>2, <1>3 DEF PoolInv, TypeOK, QueueTypeOK, Numbers, Rows, Texts, memory, locals, input,
              shared, own
<1>5. CallsInPlace' /\ SharedMutex' /\ StillEmpty' /\ StillNumber'
  BY <1>1 DEF PoolInv, CallsInPlace, SharedMutex, StillEmpty, StillNumber, FoundEmpty, FoundNumber,
              shared, memory, locals
<1>6. MainInOrder'
  BY <1>1, <1>2, PoolTypes DEF PoolInv, MainInOrder, input, shared, Alive
<1>7. Taken' = Taken /\ Appended' = Appended /\ Numbers' = Numbers
  BY <1>1 DEF Taken, Taking, Appended, Numbers, input
<1>8. Counted' /\ NumbersInOrder'
  BY <1>1, <1>7 DEF PoolInv, Counted, NumbersInOrder, Taking, input, shared, memory, locals
<1>9. RowsTaken' /\ RowsWritten' /\ RowsFollowInput'
  <2>1. \A r \in Rows : ~(r < 0)
    BY DEF Rows
  <2> QED BY <1>1, <1>2, <1>3, <2>1
          DEF RowsTaken, RowsWritten, RowsFollowInput, HasRow, input, shared
<1>10. NoCrashAlone'
  BY <1>1, <1>2 DEF NoCrashAlone
<1> QED BY <1>4, <1>5, <1>6, <1>8, <1>9, <1>10 DEF PoolInv

(* A number is read: it has a node that is not in the list, or is lost. *)
LEMMA ReadNumberInv ==
  ASSUME QueueInv, QueueInv', PoolInv, ReadNumber
  PROVE  PoolInv'
<1>1. /\ Alive /\ main = "read" /\ call[Main] = "idle" /\ total_num < MaxNumbers
      /\ total_num' = total_num + 1
      /\ UNCHANGED <<asked, shared, thread_count, main, index, pc, own, output>>
  BY DEF ReadNumber, MainAt, Idle
<1>2. /\ \A t \in Threads : pc[t] = "new"
      /\ id_num = 0 /\ DOMAIN rows = {}
  BY <1>1 DEF PoolInv, MainInOrder
<1>3. /\ UNCHANGED <<list, crash>>
      /\ \A t \in Threads : call'[t] = call[t] /\ data'[t] = data[t]
  <2>1. CASE AppendNew(Main, total_num + 1, NewNode)
    BY <2>1, PoolTypes DEF PoolInv, AppendNew, Calls, QueueInv, QueueTypeOK
  <2>2. CASE AppendFails(Main)
    BY <2>2 DEF AppendFails, queueVars
  <2> QED BY <2>1, <2>2 DEF ReadNumber
<1>4. /\ Numbers \subseteq Numbers' /\ total_num' \in Numbers' /\ lost' \subseteq Numbers'
      /\ total_num' \in 0 .. MaxNumbers
  <2>1. total_num \in Nat /\ MaxNumbers \in Nat
    BY PoolTypes DEF PoolInv
  <2>2. lost' \subseteq lost \cup {total_num + 1} /\ lost \subseteq Numbers
    BY DEF ReadNumber, PoolInv, TypeOK
  <2>3. Numbers \subseteq Numbers' /\ total_num' \in Numbers'
    BY <1>1, <2>1 DEF Numbers
  <2>4. total_num' \in 0 .. MaxNumbers
    BY <1>1, <2>1
  <2> QED BY <1>1, <2>2, <2>3, <2>4
<1>5. TypeOK'
  <2>1. QueueTypeOK'
    BY DEF QueueInv
  <2>2. row' \in [Threads -> 0 .. total_num'] /\ id_num' \in 0 .. total_num'
    <3>1. total_num \in Nat /\ 0 .. total_num \subseteq 0 .. total_num + 1
      BY PoolTypes DEF PoolInv
    <3> QED BY <1>1, <3>1 DEF PoolInv, TypeOK, own, shared
  <2>3. num' \in [Threads -> Numbers' \cup {NoData}]
    BY <1>1, <1>4 DEF PoolInv, TypeOK, own
  <2> QED BY <1>1, <1>2, <1>3, <1>4, <2>1, <2>2, <2>3
          DEF PoolInv, TypeOK, shared, own, output
<1>6. CallsInPlace'
  <2>1. call'[Main] \in {"idle", "append"}
    BY <1>1, PoolTypes DEF PoolInv, ReadNumber, AppendNew, AppendFails, Calls, queueVars,
                           QueueInv, QueueTypeOK
  <2> QED BY <1>1, <1>3, <2>1 DEF PoolInv, CallsInPlace, Fresh
<1>7. MainInOrder' /\ SharedMutex' /\ StillEmpty' /\ StillNumber'
  BY <1>1, <1>2, <1>3 DEF PoolInv, MainInOrder, SharedMutex, StillEmpty, StillNumber, FoundEmpty,
                          FoundNumber, Alive, shared, output
<1>8. Taken = 0 /\ Taken' = 0 /\ Appended = 0
  BY <1>1, <1>2 DEF Taken, Taking, Appended, Fresh
<1>9. Counted' /\ NumbersInOrder'
  <2>1. CASE AppendNew(Main, total_num + 1, NewNode) /\ lost' = lost
    <3>1. /\ call'[Main] = "append" /\ node'[Main] = NewNode /\ NewNode \in Nodes
          /\ product_number' = [product_number EXCEPT ![NewNode] = total_num + 1]
          /\ NewNode \notin allocated /\ product_number' [NewNode] = total_num + 1
      BY <2>1, PoolTypes DEF PoolInv, AppendNew, Calls, QueueInv, QueueTypeOK
    <3>2. \A i \in 1 .. Len(list) : product_number'[list[i]] = product_number[list[i]]
      BY <3>1, LastInList DEF QueueInv, Allocated, QueueTypeOK
    <3>3. Appended' = 1
      BY <3>1 DEF Appended, Fresh
    <3>4. Counted'
      BY <1>1, <1>2, <1>3, <1>8, <2>1, <3>3, PoolTypes DEF PoolInv, Counted, shared
    <3>5. NumbersInOrder'
      <4>1. ASSUME NEW i \in 1 .. Len(list)
            PROVE  /\ product_number'[list[i]] \in Numbers'
                   /\ lost = {} => product_number'[list[i]] = id_num' + Taken' + i
        BY <1>1, <1>4, <1>8, <3>2 DEF PoolInv, NumbersInOrder, shared
      <4>2. \A t \in Threads : pc'[t] = "new"
        BY <1>1, <1>2
      <4> QED BY <1>1, <1>3, <1>4, <2>1, <3>1, <4>1, <4>2 DEF NumbersInOrder, Taking
    <3> QED BY <3>4, <3>5
  <2>2. CASE AppendFails(Main) /\ lost' = lost \cup {total_num + 1}
    <3>1. lost' # {} /\ UNCHANGED queueVars
      BY <2>2 DEF AppendFails
    <3>2. Appended' = 0
      BY <1>1, <3>1 DEF Appended, queueVars, Fresh
    <3>3. Counted'
      BY <1>1, <1>2, <1>3, <1>8, <3>1, <3>2, PoolTypes DEF PoolInv, Counted, shared
    <3>4. NumbersInOrder'
      BY <1>1, <1>2, <1>3, <1>4, <3>1 DEF PoolInv, NumbersInOrder, Taking, queueVars, Fresh
    <3> QED BY <3>3, <3>4
  <2> QED BY <2>1, <2>2 DEF ReadNumber
<1>10. RowsTaken' /\ RowsWritten' /\ RowsFollowInput' /\ NoCrashAlone'
  BY <1>1, <1>2, <1>3 DEF PoolInv, RowsTaken, RowsWritten, RowsFollowInput, HasRow, NoCrashAlone,
                          output
<1> QED BY <1>5, <1>6, <1>7, <1>9, <1>10 DEF PoolInv

(* A thread is created: it has taken nothing, and is not alone any more. *)
LEMMA CreateThreadInv ==
  ASSUME QueueInv, PoolInv, CreateThread
  PROVE  PoolInv'
<1>1. /\ Alive /\ main = "create" /\ index < thread_count /\ pc[index] = "new"
      /\ pc' = [pc EXCEPT ![index] = "test"] /\ index' = index + 1
      /\ UNCHANGED <<queueVars, input, shared, thread_count, main, own, output>>
  BY DEF CreateThread, MainAt, Goto
<1>2. index \in Threads /\ index \in Nat /\ thread_count \in Nat
  BY <1>1, PoolTypes DEF PoolInv, Threads
<1>3. TypeOK'
  <2>1. index' \in 0 .. asked'
    BY <1>1, <1>2, PoolTypes DEF PoolInv, input
  <2>2. pc' \in [Threads -> {"new", "test", "tested", "dequeue", "count", "unlock", "number",
                             "sums", "ended"}]
    BY <1>1 DEF PoolInv, TypeOK
  <2> QED BY <1>1, <2>1, <2>2 DEF PoolInv, TypeOK, QueueTypeOK, queueVars, Numbers, Rows, Texts,
             input, shared, own, output
<1>4. \A t \in Threads : t # index => pc'[t] = pc[t]
  BY <1>1 DEF PoolInv, TypeOK
<1>5. pc'[index] = "test"
  BY <1>1, <1>2 DEF PoolInv, TypeOK
<1>6. \A t \in Threads : /\ FoundEmpty(t)' <=> FoundEmpty(t)
                         /\ FoundNumber(t)' <=> FoundNumber(t)
                         /\ Taking(t)' <=> Taking(t)
                         /\ HasRow(t)' <=> HasRow(t)
  BY <1>1, <1>4, <1>5 DEF FoundEmpty, FoundNumber, Taking, HasRow, queueVars
<1>7. CallsInPlace'
  BY <1>1, <1>4, <1>5 DEF PoolInv, CallsInPlace, queueVars
<1>8. MainInOrder'
  BY <1>1, <1>2, <1>4, <1>5, PoolTypes DEF PoolInv, MainInOrder
<1>9. SharedMutex' /\ StillEmpty'
  BY <1>1, <1>4, <1>5, <1>6 DEF PoolInv, SharedMutex, StillEmpty, shared, queueVars
<1>10. StillNumber'
  BY <1>1, <1>4, <1>6 DEF PoolInv, StillNumber, queueVars
<1>11. Taken' = Taken /\ Appended' = Appended /\ Numbers' = Numbers
  BY <1>1, <1>6 DEF Taken, Appended, Numbers, input, queueVars
<1>12. Counted' /\ NumbersInOrder'
  <2>1. Counted'
    BY <1>1, <1>11 DEF PoolInv, Counted, input, shared, queueVars
  <2>2. \A t \in Threads : pc'[t] = "count" => pc[t] = "count"
    BY <1>4, <1>5
  <2> QED BY <1>1, <1>6, <1>11, <2>1, <2>2 DEF PoolInv, NumbersInOrder, input, shared, queueVars
<1>13. RowsTaken' /\ RowsWritten' /\ RowsFollowInput' /\ NoCrashAlone'
  <2>1. \A t \in Threads : pc'[t] \in {"unlock", "number", "sums"} => pc'[t] = pc[t]
    BY <1>4, <1>5
  <2>2. RowsTaken' /\ RowsFollowInput' /\ NoCrashAlone'
    BY <1>1, <1>6, <1>11 DEF PoolInv, RowsTaken, RowsFollowInput, NoCrashAlone, input, shared,
                             own, output, queueVars
  <2>3. RowsWritten'
    BY <1>1, <1>6, <2>1 DEF PoolInv, RowsWritten, shared, own, output, queueVars, Alive
  <2> QED BY <2>2, <2>3
<1> QED BY <1>3, <1>7, <1>8, <1>9, <1>10, <1>12, <1>13 DEF PoolInv

(* The steps of main in queue_append *)
LEMMA MainQueueSteps ==
  ASSUME QueueInv, QueueInv', PoolInv, InQueue(Main)
  PROVE  /\ Alive /\ UNCHANGED <<input, shared, thread_count, main, index, pc, own, output>>
         /\ UNCHANGED <<crash, product_number, locals>> /\ call[Main] # "idle"
         /\ \A t \in Threads : call'[t] = call[t]
         /\ call'[Main] \in Fresh \cup {"idle", "unlock"}
         /\ \/ list' = list /\ (call'[Main] \in Fresh <=> call[Main] \in Fresh)
            \/ list' = Append(list, node[Main]) /\ call[Main] \in Fresh /\ call'[Main] \notin Fresh
         /\ main = "read" /\ (\A t \in Threads : pc[t] = "new") /\ id_num = 0
<1>0. Main \in QueueUsers /\ Main \notin Threads /\ Threads \subseteq QueueUsers
      /\ call \in [QueueUsers -> {"idle", "append", "link", "store head", "store tail",
                                  "test", "first", "unlink", "free", "unlock"}]
      /\ call[Main] \in Fresh \cup {"idle", "unlock"}
  BY PoolTypes DEF PoolInv, QueueInv, QueueTypeOK, CallsInPlace
<1>1. /\ Alive /\ QueueStep(Main)
      /\ UNCHANGED <<input, shared, thread_count, main, index, pc, own, output>>
  BY DEF InQueue, QueueStep, AppendLock, AppendLink, AppendStore, IsEmptyRead, DequeueFirst,
         DequeueUnlink, DequeueFree, QueueUnlock, QueueLock, Calls
<1>2. \/ AppendLock(Main) \/ AppendLink(Main) \/ AppendStore(Main) \/ QueueUnlock(Main)
  BY <1>0, <1>1 DEF QueueStep, IsEmptyRead, DequeueFirst, DequeueUnlink, DequeueFree, Calls, Fresh
<1>3. crash' = crash
  BY <1>1, <1>2 DEF AppendLock, AppendLink, AppendStore, QueueUnlock, WildPointer, QueueInv,
                    NoWildPointer
<1>4. UNCHANGED <<product_number, locals>> /\ call[Main] # "idle"
  BY <1>0, <1>2 DEF AppendLock, AppendLink, AppendStore, QueueUnlock, memory, QueueLock, Calls
<1>5. /\ \A t \in Threads : call'[t] = call[t]
      /\ call'[Main] \in Fresh \cup {"idle", "unlock"}
      /\ \/ list' = list /\ (call'[Main] \in Fresh <=> call[Main] \in Fresh)
         \/ list' = Append(list, node[Main]) /\ call[Main] \in Fresh /\ call'[Main] \notin Fresh
  <2>1. CASE AppendLock(Main)
    BY <1>0, <2>1 DEF AppendLock, QueueLock, Calls, memory, Fresh
  <2>2. CASE AppendLink(Main)
    BY <1>0, <1>3, <2>2 DEF AppendLink, Calls, WildPointer, Fresh, Alive
  <2>3. CASE AppendStore(Main)
    BY <1>0, <2>3 DEF AppendStore, Calls, Fresh
  <2>4. CASE QueueUnlock(Main)
    BY <1>0, <2>4 DEF QueueUnlock, Calls, memory, Fresh
  <2> QED BY <1>2, <2>1, <2>2, <2>3, <2>4
<1>6. main = "read" /\ (\A t \in Threads : pc[t] = "new") /\ id_num = 0
  BY <1>4 DEF PoolInv, CallsInPlace, MainInOrder
<1> QED BY <1>1, <1>3, <1>4, <1>5, <1>6

(* A step of queue_append: the number goes to the end of the list. *)
LEMMA MainInQueueInv ==
  ASSUME QueueInv, QueueInv', PoolInv, InQueue(Main)
  PROVE  PoolInv'
<1>1. Main \in QueueUsers /\ Main \notin Threads /\ Threads \subseteq QueueUsers
  BY PoolTypes DEF PoolInv
<1>2. /\ Alive /\ UNCHANGED <<input, shared, thread_count, main, index, pc, own, output>>
      /\ UNCHANGED <<crash, product_number, locals>>
      /\ main = "read" /\ (\A t \in Threads : pc[t] = "new") /\ id_num = 0
  BY MainQueueSteps
<1>3. /\ \A t \in Threads : call'[t] = call[t]
      /\ call'[Main] \in Fresh \cup {"idle", "unlock"}
      /\ \/ list' = list /\ (call'[Main] \in Fresh <=> call[Main] \in Fresh)
         \/ list' = Append(list, node[Main]) /\ call[Main] \in Fresh /\ call'[Main] \notin Fresh
  BY MainQueueSteps
<1>4. TypeOK'
  BY <1>2 DEF PoolInv, QueueInv, TypeOK, Numbers, Rows, Texts, input, shared, own, output
<1>5. CallsInPlace' /\ MainInOrder' /\ SharedMutex'
  BY <1>2, <1>3 DEF PoolInv, CallsInPlace, MainInOrder, SharedMutex, Alive, input, shared, output
<1>6. StillEmpty' /\ StillNumber'
  BY <1>2 DEF StillEmpty, StillNumber, FoundEmpty, FoundNumber
<1>7. Taken' = 0 /\ Taken = 0 /\ Numbers' = Numbers
  BY <1>2 DEF Taken, Taking, Numbers, input
<1>8. Counted' /\ NumbersInOrder'
  <2>1. CASE list' = list /\ (call'[Main] \in Fresh <=> call[Main] \in Fresh)
    <3>1. Appended' = Appended
      BY <2>1 DEF Appended
    <3> QED BY <1>2, <1>7, <2>1, <3>1
            DEF PoolInv, Counted, NumbersInOrder, Taking, input, shared, locals
  <2>2. CASE list' = Append(list, node[Main]) /\ call[Main] \in Fresh /\ call'[Main] \notin Fresh
    <3>1. Appended = 1 /\ Appended' = 0
      BY <2>2 DEF Appended
    <3>2. node[Main] \in Nodes /\ list \in Seq(Nodes) /\ Len(list) \in Nat
      <4>1. node[Main] \in Nodes
        BY <2>2, <1>1, LastInList DEF QueueInv, Allocated, Pending, QueueTypeOK
      <4> QED BY <4>1, PoolTypes DEF PoolInv
    <3>3. /\ Len(list') = Len(list) + 1 /\ list'[Len(list) + 1] = node[Main]
          /\ \A i \in 1 .. Len(list) : list'[i] = list[i]
      BY <2>2, <3>2, AppendProperties
    <3>4. Counted'
      BY <1>2, <1>7, <3>1, <3>2, <3>3, PoolTypes DEF PoolInv, Counted, input, shared
    <3>5. NumbersInOrder'
      <4>1. ASSUME NEW i \in 1 .. Len(list')
            PROVE  /\ product_number'[list'[i]] \in Numbers'
                   /\ lost' = {} => product_number'[list'[i]] = id_num' + Taken' + i
        <5>1. CASE i \in 1 .. Len(list)
          BY <1>2, <1>7, <3>3, <5>1 DEF PoolInv, NumbersInOrder, input, shared
        <5>2. CASE i = Len(list) + 1
          <6>1. lost = {} => total_num = i
            BY <1>2, <1>7, <3>1, <3>2, <5>2, PoolTypes DEF PoolInv, Counted
          <6>2. id_num' + Taken' + i = i
            BY <1>2, <1>7, <3>2, <5>2 DEF shared
          <6> QED BY <1>2, <1>7, <2>2, <3>3, <5>2, <6>1, <6>2
                  DEF PoolInv, NumbersInOrder, input
        <5> QED BY <3>2, <3>3, <5>1, <5>2
      <4>2. \A t \in Threads : pc'[t] = "new"
        BY <1>2
      <4> QED BY <2>2, <4>1, <4>2 DEF NumbersInOrder, Taking
    <3> QED BY <3>4, <3>5
  <2> QED BY <1>3, <2>1, <2>2
<1>9. RowsTaken' /\ RowsWritten' /\ RowsFollowInput' /\ NoCrashAlone'
  BY <1>2, <1>7 DEF PoolInv, RowsTaken, RowsWritten, RowsFollowInput, NoCrashAlone, HasRow,
                    Alive, input, shared, own, output
<1> QED BY <1>4, <1>5, <1>6, <1>8, <1>9 DEF PoolInv

(* A thread that works: main is creating or joining threads, and the rows  *)
(* are there.                                                              *)
LEMMA ThreadWorks ==
  ASSUME QueueInv, PoolInv, NEW t \in Threads, pc[t] \notin {"new", "ended"}
  PROVE  /\ main \in {"create", "join"} /\ DOMAIN rows = Rows /\ t < thread_count
         /\ call[Main] = "idle" /\ Appended = 0
         /\ call \in [QueueUsers -> {"idle", "append", "link", "store head", "store tail",
                                     "test", "first", "unlink", "free", "unlock"}]
         /\ pc \in [Threads -> {"new", "test", "tested", "dequeue", "count", "unlock",
                                "number", "sums", "ended"}]
         /\ num \in [Threads -> Numbers \cup {NoData}] /\ row \in [Threads -> 0 .. total_num]
<1>1. main \in {"create", "join"}
  BY DEF PoolInv, MainInOrder, TypeOK
<1>2. call[Main] = "idle"
  BY <1>1 DEF PoolInv, CallsInPlace
<1>3. Appended = 0
  BY <1>2 DEF Appended, Fresh
<1> QED BY <1>1, <1>2, <1>3 DEF PoolInv, TypeOK, QueueInv, QueueTypeOK, MainInOrder

(* The moves of such a thread keep what main relies on. *)
LEMMA ThreadMoves ==
  ASSUME QueueInv, PoolInv, NEW t \in Threads, pc[t] \notin {"new", "ended"},
         NEW to, to # "new", pc' = [pc EXCEPT ![t] = to],
         UNCHANGED <<main, index, thread_count, unthreaded>>
  PROVE  /\ MainInOrder' /\ pc'[t] = to /\ \A u \in Threads : u # t => pc'[u] = pc[u]
<1>1. pc'[t] = to /\ \A u \in Threads : u # t => pc'[u] = pc[u]
  BY ThreadWorks
<1>2. main \in {"create", "join"} /\ t < thread_count /\ t \in Nat /\ thread_count \in Nat
  BY ThreadWorks, PoolTypes DEF PoolInv
<1>3. \A u \in Threads : pc'[u] = "new" <=> pc[u] = "new"
  BY <1>1
<1>4. \A u \in Threads : pc[u] = "ended" => pc'[u] = "ended"
  BY <1>1
<1> QED BY <1>1, <1>2, <1>3, <1>4 DEF PoolInv, MainInOrder

(* Only one thread is in the critical section of can_access_shared. *)
LEMMA OneOwner ==
  ASSUME PoolInv, NEW t \in Threads, NEW u \in Threads,
         pc[t] \in {"dequeue", "count", "unlock"}, pc[u] \in {"dequeue", "count", "unlock"}
  PROVE  t = u
BY DEF PoolInv, SharedMutex

(* What changes when a thread goes from one of its steps, or of a call's,  *)
(* to another and takes no number, no row and nothing out of the queue.    *)
LEMMA QuietStep ==
  ASSUME QueueInv, QueueInv', PoolInv, Alive, NEW t \in Threads, pc[t] \notin {"new", "ended"},
         NEW to \in {"test", "tested", "dequeue", "count", "unlock", "number", "sums", "ended"},
         pc' = [pc EXCEPT ![t] = to],
         UNCHANGED <<list, product_number, input, id_num, thread_count, main, index, own,
                     output, crash>>,
         \A u \in QueueUsers : u # t =>
           call'[u] = call[u] /\ data'[u] = data[u] /\ node'[u] = node[u] /\ empty'[u] = empty[u],
         call'[t] \in {"idle", "test", "first", "unlink", "free", "unlock"},
         call'[t] # "idle" => to \in {"tested", "count"},
         to = "tested" => call'[t] \in {"idle", "test", "unlock"},
         to = "count" => call'[t] # "test",
         owner' \in Threads \cup {NoThread},
         owner' = t <=> to \in {"dequeue", "count", "unlock"},
         \A u \in Threads \ {t} : owner' = u <=> owner = u,
         FoundEmpty(t)' => FoundEmpty(t) \/ list = << >>,
         FoundNumber(t)' => FoundNumber(t) \/ list # << >>,
         Taking(t)' <=> Taking(t), Taking(t) => data'[t] = data[t],
         to = "count" /\ call'[t] = "unlink" => data'[t] = product_number[node'[t]],
         HasRow(t)' <=> HasRow(t), to = "sums" <=> pc[t] = "sums"
  PROVE  PoolInv'
<1>1. /\ MainInOrder' /\ pc'[t] = to /\ \A u \in Threads : u # t => pc'[u] = pc[u]
  BY ThreadMoves DEF output
<1>2. Main \in QueueUsers /\ Threads \subseteq QueueUsers /\ Main # t
  BY PoolTypes DEF PoolInv
<1>3. \A u \in Threads : u # t =>
         call'[u] = call[u] /\ data'[u] = data[u] /\ node'[u] = node[u] /\ empty'[u] = empty[u]
  BY <1>2
<1>4. call'[Main] = call[Main] /\ node'[Main] = node[Main]
  BY <1>2
<1>5. TypeOK'
  <2>1. pc' \in [Threads -> {"new", "test", "tested", "dequeue", "count", "unlock", "number",
                             "sums", "ended"}]
    BY ThreadWorks
  <2> QED BY <2>1 DEF PoolInv, QueueInv, TypeOK, Numbers, Rows, Texts, input, own, output
<1>6. CallsInPlace' /\ SharedMutex'
  BY <1>1, <1>3, <1>4 DEF PoolInv, CallsInPlace, SharedMutex
<1>7. /\ \A u \in Threads : FoundEmpty(u)' => FoundEmpty(u) \/ list = << >>
      /\ \A u \in Threads : Taking(u)' <=> Taking(u)
      /\ \A u \in Threads : HasRow(u)' <=> HasRow(u)
      /\ \A u \in Threads : Taking(u) => data'[u] = data[u]
  BY <1>1, <1>3 DEF FoundEmpty, Taking, HasRow
<1>8. StillEmpty'
  BY <1>7 DEF PoolInv, StillEmpty
<1>9. StillNumber'
  <2>1. \A u \in Threads : FoundNumber(u)' => FoundNumber(u) \/ list # << >>
    BY <1>1, <1>3 DEF FoundNumber
  <2>2. \A u \in Threads : pc'[u] = "new" => pc[u] = "new"
    BY <1>1
  <2> QED BY <2>1, <2>2 DEF PoolInv, StillNumber
<1>10. Taken' = Taken /\ Appended' = Appended /\ Numbers' = Numbers
  BY <1>4, <1>7 DEF Taken, Appended, Numbers, input
<1>11. Counted'
  BY <1>10 DEF PoolInv, Counted, input
<1>12. NumbersInOrder'
  <2>1. \A u \in Threads :
          (pc'[u] = "count" /\ call'[u] = "unlink") => data'[u] = product_number[node'[u]]
    BY <1>1, <1>3 DEF PoolInv, NumbersInOrder
  <2>2. \A u \in Threads : Taking(u)' => data'[u] \in Numbers /\ (lost = {} => data'[u] = id_num + 1)
    BY <1>7 DEF PoolInv, NumbersInOrder
  <2> QED BY <1>4, <1>10, <2>1, <2>2 DEF PoolInv, NumbersInOrder, input
<1>13. RowsTaken' /\ RowsFollowInput' /\ NoCrashAlone'
  BY <1>7, <1>10 DEF PoolInv, RowsTaken, RowsFollowInput, NoCrashAlone, input, own, output
<1>14. RowsWritten'
  <2>1. \A u \in Threads : /\ pc'[u] = "sums" => pc[u] = "sums"
                           /\ pc'[u] \in {"unlock", "number"} => pc[u] \in {"unlock", "number"}
    BY <1>1 DEF HasRow
  <2> QED BY <1>7, <2>1 DEF PoolInv, RowsWritten, own, output, Alive
<1> QED BY <1>1, <1>5, <1>6, <1>8, <1>9, <1>11, <1>12, <1>13, <1>14 DEF PoolInv

(* The steps of sumas_golbach that are quiet. *)
LEMMA QuietThreadInv ==
  ASSUME QueueInv, QueueInv', PoolInv, NEW t \in Threads,
         TestEmpty(t) \/ Leave(t) \/ LockShared(t) \/ Dequeue(t) \/ UnlockShared(t)
  PROVE  PoolInv'
<1>0. /\ t \in QueueUsers /\ t # NoThread
      /\ owner = t <=> pc[t] \in {"dequeue", "count", "unlock"}
      /\ owner \in Threads \cup {NoThread}
      /\ call[t] # "idle" => pc[t] \in {"tested", "count"}
      /\ call \in [QueueUsers -> {"idle", "append", "link", "store head", "store tail",
                                  "test", "first", "unlink", "free", "unlock"}]
  BY PoolTypes, PoolAssumption DEF PoolInv, SharedMutex, TypeOK, CallsInPlace, QueueInv, QueueTypeOK
<1> USE DEF Goto
<1>1. CASE TestEmpty(t)
  <2>1. /\ Alive /\ pc[t] = "test" /\ pc' = [pc EXCEPT ![t] = "tested"]
        /\ call' = [call EXCEPT ![t] = "test"]
        /\ UNCHANGED <<memory, locals, crash, input, shared, thread_count, main, index, own, output>>
    BY <1>1 DEF TestEmpty, IsEmptyLock, QueueLock, Calls
  <2>2. pc'[t] = "tested" /\ call'[t] = "test"
    BY <1>0, <2>1, ThreadWorks
  <2> QED BY <1>0, <2>1, <2>2, QuietStep
          DEF memory, locals, shared, FoundEmpty, FoundNumber, Taking, HasRow
<1>2. CASE Leave(t)
  <2>1. /\ Alive /\ pc[t] = "tested" /\ pc' = [pc EXCEPT ![t] = "ended"]
        /\ call[t] = "idle" /\ empty[t]
        /\ UNCHANGED <<queueVars, input, shared, thread_count, main, index, own, output>>
    BY <1>2 DEF Leave, Idle
  <2>2. pc'[t] = "ended"
    BY <2>1, ThreadWorks
  <2> QED BY <1>0, <2>1, <2>2, QuietStep
          DEF queueVars, shared, FoundEmpty, FoundNumber, Taking, HasRow
<1>3. CASE LockShared(t)
  <2>1. /\ Alive /\ pc[t] = "tested" /\ pc' = [pc EXCEPT ![t] = "dequeue"]
        /\ call[t] = "idle" /\ ~empty[t] /\ owner = NoThread /\ owner' = t
        /\ UNCHANGED <<queueVars, input, id_num, thread_count, main, index, own, output>>
    BY <1>3 DEF LockShared, Idle
  <2>2. pc'[t] = "dequeue"
    BY <2>1, ThreadWorks
  <2>3. \A u \in Threads : u # NoThread
    BY PoolAssumption
  <2> QED BY <1>0, <2>1, <2>2, <2>3, QuietStep
          DEF queueVars, FoundEmpty, FoundNumber, Taking, HasRow
<1>4. CASE Dequeue(t)
  <2>1. /\ Alive /\ pc[t] = "dequeue" /\ pc' = [pc EXCEPT ![t] = "count"]
        /\ call' = [call EXCEPT ![t] = "first"]
        /\ UNCHANGED <<memory, locals, crash, input, shared, thread_count, main, index, own, output>>
    BY <1>4 DEF Dequeue, DequeueLock, QueueLock, Calls
  <2>2. pc'[t] = "count" /\ call'[t] = "first"
    BY <1>0, <2>1, ThreadWorks
  <2> QED BY <1>0, <2>1, <2>2, QuietStep
          DEF memory, locals, shared, FoundEmpty, FoundNumber, Taking, HasRow
<1>5. CASE UnlockShared(t)
  <2>1. /\ Alive /\ pc[t] = "unlock" /\ pc' = [pc EXCEPT ![t] = "number"] /\ owner' = NoThread
        /\ call[t] = "idle"
        /\ UNCHANGED <<queueVars, input, id_num, thread_count, main, index, own, output>>
    BY <1>0, <1>5 DEF UnlockShared
  <2>2. pc'[t] = "number"
    BY <2>1, ThreadWorks
  <2>3. \A u \in Threads : u # NoThread
    BY PoolAssumption
  <2> QED BY <1>0, <2>1, <2>2, <2>3, QuietStep
          DEF queueVars, FoundEmpty, FoundNumber, Taking, HasRow
<1> QED BY <1>1, <1>2, <1>3, <1>4, <1>5

(* The steps of a thread in a call of the queue. *)
LEMMA ThreadInQueueSteps ==
  ASSUME QueueInv, PoolInv, NEW t \in Threads, InQueue(t)
  PROVE  /\ Alive /\ t \in QueueUsers /\ Main # t
         /\ IsEmptyRead(t) \/ DequeueFirst(t) \/ DequeueUnlink(t) \/ DequeueFree(t) \/ QueueUnlock(t)
         /\ pc[t] \in {"tested", "count"} /\ pc' = [pc EXCEPT ![t] = pc[t]]
         /\ owner = t <=> pc[t] \in {"dequeue", "count", "unlock"}
         /\ owner \in Threads \cup {NoThread}
         /\ UNCHANGED <<input, shared, thread_count, main, index, pc, own, output>>
         /\ call \in [QueueUsers -> {"idle", "append", "link", "store head", "store tail",
                                     "test", "first", "unlink", "free", "unlock"}]
         /\ node \in [QueueUsers -> Nodes \cup {NULL}]
         /\ data \in [QueueUsers -> Data \cup {NoData}] /\ empty \in [QueueUsers -> BOOLEAN]
<1>1. t \in QueueUsers /\ Main # t /\ pc[t] = pc[t]
  BY PoolTypes DEF PoolInv
<1>2. /\ owner = t <=> pc[t] \in {"dequeue", "count", "unlock"}
      /\ owner \in Threads \cup {NoThread}
  BY DEF PoolInv, SharedMutex, TypeOK
<1>3. UNCHANGED <<input, shared, thread_count, main, index, pc, own, output>> /\ QueueStep(t)
  BY DEF InQueue
<1>4. call[t] \in {"idle", "test", "first", "unlink", "free", "unlock"}
  BY DEF PoolInv, CallsInPlace
<1>5. IsEmptyRead(t) \/ DequeueFirst(t) \/ DequeueUnlink(t) \/ DequeueFree(t) \/ QueueUnlock(t)
  BY <1>3, <1>4 DEF QueueStep, AppendLock, AppendLink, AppendStore, QueueLock, Calls
<1>6. Alive /\ call[t] # "idle"
  BY <1>5 DEF IsEmptyRead, DequeueFirst, DequeueUnlink, DequeueFree, QueueUnlock, Calls
<1>7. pc[t] \in {"tested", "count"}
  BY <1>6 DEF PoolInv, CallsInPlace
<1>8. pc' = [pc EXCEPT ![t] = pc[t]]
  BY <1>3 DEF PoolInv, TypeOK
<1> QED BY <1>1, <1>2, <1>3, <1>5, <1>6, <1>7, <1>8 DEF QueueInv, QueueTypeOK

(* Of these, the quiet ones: queue_is_empty tells whether the list is      *)
(* empty, and queue_dequeue finds the first number and frees its node.     *)
LEMMA QuietInQueueInv ==
  ASSUME QueueInv, QueueInv', PoolInv, NEW t \in Threads, InQueue(t),
         IsEmptyRead(t) \/ (DequeueFirst(t) /\ head \in allocated) \/ DequeueFree(t) \/ QueueUnlock(t)
  PROVE  PoolInv'
<1>0. /\ Alive /\ t \in QueueUsers /\ Main # t
      /\ pc[t] \in {"tested", "count"} /\ pc' = [pc EXCEPT ![t] = pc[t]] /\ pc' = pc
      /\ owner = t <=> pc[t] \in {"dequeue", "count", "unlock"}
      /\ owner \in Threads \cup {NoThread}
      /\ UNCHANGED <<input, shared, thread_count, main, index, pc, own, output>>
      /\ call \in [QueueUsers -> {"idle", "append", "link", "store head", "store tail",
                                  "test", "first", "unlink", "free", "unlock"}]
      /\ node \in [QueueUsers -> Nodes \cup {NULL}]
      /\ data \in [QueueUsers -> Data \cup {NoData}] /\ empty \in [QueueUsers -> BOOLEAN]
      /\ pc[t] = "tested" => call[t] \in {"idle", "test", "unlock"}
      /\ pc[t] = "count" => call[t] # "test"
  BY ThreadInQueueSteps DEF PoolInv, CallsInPlace
<1>1. CASE IsEmptyRead(t)
  <2>1. /\ call[t] = "test" /\ call' = [call EXCEPT ![t] = "unlock"]
        /\ empty' = [empty EXCEPT ![t] = head = NULL]
        /\ UNCHANGED <<memory, node, data, crash>>
    BY <1>1 DEF IsEmptyRead, Calls
  <2>2. call'[t] = "unlock" /\ (empty'[t] <=> head = NULL) /\ pc[t] = "tested"
    BY <1>0, <2>1
  <2>3. head = NULL <=> list = << >>
    <3>1. /\ Len(list) \in Nat /\ (list = << >> <=> Len(list) = 0)
          /\ Len(list) = 0 => head = NULL
          /\ Len(list) > 0 => head = list[1]
      BY LastInList DEF QueueInv, Ends
    <3>2. Len(list) > 0 => list[1] \in Nodes
      BY LastInList
    <3>3. Len(list) = 0 \/ Len(list) > 0
      BY <3>1
    <3> QED BY <3>1, <3>2, <3>3, QueueAssumption
  <2>4. FoundEmpty(t)' => list = << >>
    BY <1>0, <2>2, <2>3 DEF FoundEmpty
  <2>5. FoundNumber(t)' => list # << >>
    BY <1>0, <2>2, <2>3 DEF FoundNumber
  <2> QED BY <1>0, <2>1, <2>2, <2>4, <2>5, QuietStep DEF memory, shared, Taking, HasRow
<1>2. CASE DequeueFirst(t) /\ head \in allocated
  <2>1. /\ call[t] = "first" /\ call' = [call EXCEPT ![t] = "unlink"]
        /\ node' = [node EXCEPT ![t] = head]
        /\ data' = [data EXCEPT ![t] = product_number[head]]
        /\ UNCHANGED <<memory, empty, crash>>
    BY <1>2 DEF DequeueFirst, Calls
  <2>2. call'[t] = "unlink" /\ data'[t] = product_number[node'[t]] /\ pc[t] = "count"
    BY <1>0, <2>1
  <2>3. FoundNumber(t) /\ ~FoundEmpty(t)' /\ ~Taking(t) /\ ~Taking(t)' /\ ~HasRow(t) /\ ~HasRow(t)'
    BY <1>0, <2>1, <2>2 DEF FoundNumber, FoundEmpty, Taking, HasRow
  <2> QED BY <1>0, <2>1, <2>2, <2>3, QuietStep DEF memory, shared
<1>3. CASE DequeueFree(t)
  <2>1. /\ call[t] = "free" /\ call' = [call EXCEPT ![t] = "unlock"]
        /\ UNCHANGED <<product_number, list, locals, crash>>
    BY <1>3 DEF DequeueFree, Calls
  <2>2. call'[t] = "unlock" /\ pc[t] = "count"
    BY <1>0, <2>1
  <2>3. ~FoundNumber(t)' /\ ~FoundEmpty(t)' /\ Taking(t) /\ Taking(t)' /\ ~HasRow(t) /\ ~HasRow(t)'
    BY <1>0, <2>1, <2>2 DEF FoundNumber, FoundEmpty, Taking, HasRow
  <2> QED BY <1>0, <2>1, <2>2, <2>3, QuietStep DEF locals, shared
<1>4. CASE QueueUnlock(t)
  <2>1. /\ call[t] = "unlock" /\ call' = [call EXCEPT ![t] = "idle"]
        /\ UNCHANGED <<memory, locals, crash>>
    BY <1>4 DEF QueueUnlock, Calls
  <2>2. call'[t] = "idle"
    BY <1>0, <2>1
  <2>3. /\ FoundNumber(t)' => FoundNumber(t)
        /\ FoundEmpty(t)' => FoundEmpty(t)
        /\ Taking(t)' <=> Taking(t)
        /\ HasRow(t)' <=> HasRow(t)
    BY <1>0, <2>1, <2>2 DEF FoundNumber, FoundEmpty, Taking, HasRow, locals
  <2> QED BY <1>0, <2>1, <2>2, <2>3, QuietStep DEF memory, locals, shared
<1> QED BY <1>1, <1>2, <1>3, <1>4

(* The assertion of queue_dequeue: another thread took the number that     *)
(* this one had found.                                                     *)
LEMMA AssertionInv ==
  ASSUME QueueInv, QueueInv', PoolInv, NEW t \in Threads, InQueue(t), DequeueFirst(t),
         head \notin allocated
  PROVE  PoolInv'
<1>1. /\ Alive /\ pc[t] \in {"tested", "count"}
      /\ UNCHANGED <<input, shared, thread_count, main, index, pc, own, output>>
      /\ call[t] = "first" /\ crash' \in {"assert", "pointer"}
      /\ UNCHANGED <<memory, locals, call>>
  BY ThreadInQueueSteps DEF DequeueFirst, Calls, locals
<1>2. crash' = "assert"
  BY <1>1 DEF QueueInv, NoWildPointer
<1>3. TypeOK'
  BY <1>1, <1>2 DEF PoolInv, QueueInv, TypeOK, Numbers, Rows, Texts, input, shared, own, output
<1>4. CallsInPlace' /\ MainInOrder' /\ SharedMutex' /\ StillEmpty' /\ StillNumber'
  BY <1>1, <1>2 DEF PoolInv, CallsInPlace, MainInOrder, SharedMutex, StillEmpty, StillNumber,
       FoundEmpty, FoundNumber, Alive, input, shared, output, memory, locals
<1>5. Taken' = Taken /\ Appended' = Appended /\ Numbers' = Numbers
  BY <1>1 DEF Taken, Taking, Appended, Numbers, input
<1>6. Counted' /\ NumbersInOrder'
  BY <1>1, <1>5 DEF PoolInv, Counted, NumbersInOrder, Taking, input, shared, memory, locals
<1>7. RowsTaken' /\ RowsWritten' /\ RowsFollowInput'
  BY <1>1, <1>2, <1>5 DEF PoolInv, RowsTaken, RowsWritten, RowsFollowInput, HasRow, Alive, input,
                          shared, own, output
<1>8. NoCrashAlone'
  <2>1. list = << >>
    <3>1. Len(list) > 0 => head \in allocated
      BY LastInList DEF QueueInv, Ends, Allocated
    <3>2. Len(list) = 0 \/ Len(list) > 0
      BY LastInList
    <3> QED BY <3>1, <3>2, LastInList
  <2>2. FoundNumber(t)
    BY <1>1 DEF PoolInv, CallsInPlace, FoundNumber
  <2>3. PICK u \in Threads \ {t} : pc[u] # "new"
    BY <2>1, <2>2 DEF PoolInv, StillNumber
  <2>4. /\ t < thread_count /\ u < thread_count /\ u # t
        /\ t \in Nat /\ u \in Nat /\ thread_count \in Nat
    BY <1>1, <2>3, PoolTypes DEF PoolInv, MainInOrder
  <2> QED BY <1>1, <1>2, <2>4 DEF NoCrashAlone
<1> QED BY <1>3, <1>4, <1>6, <1>7, <1>8 DEF PoolInv

(* A thread takes the first number: what was the second is the first now. *)
LEMMA TakeNumberInv ==
  ASSUME QueueInv, QueueInv', PoolInv, NEW t \in Threads, InQueue(t), DequeueUnlink(t)
  PROVE  PoolInv'
<1>1. /\ Alive /\ t \in QueueUsers /\ Main # t /\ pc[t] \in {"tested", "count"}
      /\ UNCHANGED <<input, shared, thread_count, main, index, pc, own, output>>
      /\ call[t] = "unlink" /\ call' = [call EXCEPT ![t] = "free"] /\ list' = Tail(list)
      /\ UNCHANGED <<product_number, locals, crash>>
  BY ThreadInQueueSteps DEF DequeueUnlink, Calls
<1>2. /\ pc[t] = "count" /\ call'[t] = "free" /\ Main \in QueueUsers
      /\ \A u \in QueueUsers : u # t => call'[u] = call[u]
      /\ \A u \in Threads : u \in QueueUsers
      /\ main \in {"create", "join"}
  BY <1>1, ThreadWorks, PoolTypes DEF PoolInv, CallsInPlace
<1>3. /\ Len(list) > 0 /\ list # << >> /\ node[t] = list[1] /\ Len(list) \in Nat
      /\ list \in Seq(Nodes)
  <2>1. Len(list) > 0 /\ node[t] = list[1]
    BY <1>1 DEF QueueInv, Between
  <2>2. Len(list) # 0
    BY <2>1, LastInList
  <2> QED BY <2>1, <2>2, LastInList DEF QueueInv, QueueTypeOK
<1>4. /\ Len(list') = Len(list) - 1 /\ Len(list') \in Nat
      /\ \A i \in 1 .. Len(list') : list'[i] = list[i + 1] /\ i + 1 \in 1 .. Len(list)
  <2>1. Len(list') = Len(list) - 1 /\ \A i \in 1 .. Len(list') : list'[i] = list[i + 1]
    BY <1>1, <1>3, HeadTailProperties
  <2> QED BY <1>3, <2>1
<1>5. TypeOK'
  BY <1>1 DEF PoolInv, QueueInv, TypeOK, Numbers, Rows, Texts, input, shared, own, output
<1>6. CallsInPlace' /\ MainInOrder' /\ SharedMutex'
  <2>1. CallsInPlace'
    BY <1>1, <1>2 DEF PoolInv, CallsInPlace
  <2> QED BY <1>1, <2>1 DEF PoolInv, MainInOrder, SharedMutex, Alive, input, shared, output
<1>7. StillEmpty'
  <2>1. \A u \in Threads : ~FoundEmpty(u)
    BY <1>3 DEF PoolInv, StillEmpty
  <2>2. \A u \in Threads : FoundEmpty(u)' => FoundEmpty(u)
    BY <1>1, <1>2 DEF FoundEmpty, locals
  <2> QED BY <2>1, <2>2 DEF StillEmpty
<1>8. StillNumber'
  <2>1. \A u \in Threads : u # t => ~(\A v \in Threads \ {u} : pc'[v] = "new")
    BY <1>1, <1>2
  <2>2. ~FoundNumber(t)'
    BY <1>1, <1>2 DEF FoundNumber
  <2> QED BY <2>1, <2>2 DEF StillNumber
<1>9. /\ \A u \in Threads : ~Taking(u) /\ (Taking(u)' => u = t)
      /\ Taking(t)'
  <2>1. ~Taking(t) /\ Taking(t)'
    BY <1>1, <1>2 DEF Taking
  <2>2. \A u \in Threads : u # t => pc[u] # "count"
    BY <1>2, OneOwner
  <2> QED BY <1>1, <2>1, <2>2 DEF Taking
<1>10. Taken = 0 /\ Taken' = 1 /\ Appended' = Appended /\ Numbers' = Numbers
  BY <1>1, <1>2, <1>9 DEF Taken, Appended, Numbers, input
<1>11. Counted'
  BY <1>1, <1>3, <1>4, <1>10, PoolTypes DEF PoolInv, Counted, input, shared
<1>12. NumbersInOrder'
  <2>1. id_num \in Nat
    BY PoolTypes DEF PoolInv
  <2>2. ASSUME NEW i \in 1 .. Len(list')
        PROVE  /\ product_number'[list'[i]] \in Numbers'
               /\ lost' = {} => product_number'[list'[i]] = id_num' + Taken' + i
    <3>1. /\ product_number[list[i + 1]] \in Numbers
          /\ lost = {} => product_number[list[i + 1]] = id_num + 0 + (i + 1)
      BY <1>4, <1>10 DEF PoolInv, NumbersInOrder
    <3>2. id_num + 0 + (i + 1) = id_num + 1 + i
      BY <2>1
    <3> QED BY <1>1, <1>4, <1>10, <3>1, <3>2 DEF input, shared
  <2>3. call'[Main] = call[Main] /\ call[Main] \notin Fresh
    BY <1>1, <1>2 DEF PoolInv, CallsInPlace, Fresh
  <2>4. data[t] \in Numbers /\ (lost = {} => data[t] = id_num + 1)
    <3>1. data[t] = product_number[list[1]] /\ 1 \in 1 .. Len(list)
      BY <1>1, <1>2, <1>3, LastInList DEF PoolInv, NumbersInOrder
    <3>2. id_num + 0 + 1 = id_num + 1
      BY <2>1
    <3> QED BY <3>1, <3>2, <1>10 DEF PoolInv, NumbersInOrder
  <2>5. ASSUME NEW u \in Threads
        PROVE  /\ (pc'[u] = "count" /\ call'[u] = "unlink") => data'[u] = product_number'[node'[u]]
               /\ Taking(u)' => data'[u] \in Numbers' /\ (lost' = {} => data'[u] = id_num' + 1)
    <3>1. CASE u = t
      BY <1>1, <1>2, <1>10, <2>4, <3>1 DEF locals, input, shared
    <3>2. CASE u # t
      BY <1>1, <1>2, <1>9, <3>2 DEF PoolInv, NumbersInOrder, locals
    <3> QED BY <3>1, <3>2
  <2> QED BY <2>2, <2>3, <2>5 DEF NumbersInOrder
<1>13. RowsTaken' /\ RowsWritten' /\ RowsFollowInput' /\ NoCrashAlone'
  BY <1>1, <1>10 DEF PoolInv, RowsTaken, RowsWritten, RowsFollowInput, NoCrashAlone, HasRow,
                     Alive, input, shared, own, output
<1> QED BY <1>5, <1>6, <1>7, <1>8, <1>11, <1>12, <1>13 DEF PoolInv

(* The steps of sumas_golbach outside the queue that are not quiet change  *)
(* nothing of it.                                                          *)
LEMMA OutsideQueue ==
  ASSUME QueueInv, PoolInv, NEW t \in Threads, pc[t] \in {"count", "number", "sums"},
         NEW to \in {"unlock", "sums", "test"},
         pc' = [pc EXCEPT ![t] = to], call[t] = "idle",
         UNCHANGED <<memory, locals, call, main, index, thread_count, unthreaded>>
  PROVE  /\ CallsInPlace' /\ MainInOrder' /\ StillEmpty' /\ StillNumber'
         /\ pc'[t] = to /\ \A u \in Threads : u # t => pc'[u] = pc[u]
         /\ pc' \in [Threads -> {"new", "test", "tested", "dequeue", "count", "unlock",
                                 "number", "sums", "ended"}]
<1>1. /\ MainInOrder' /\ pc'[t] = to /\ \A u \in Threads : u # t => pc'[u] = pc[u]
  BY ThreadMoves
<1>2. CallsInPlace'
  BY <1>1 DEF PoolInv, CallsInPlace
<1>3. /\ \A u \in Threads : FoundEmpty(u)' => FoundEmpty(u)
      /\ \A u \in Threads : FoundNumber(u)' => FoundNumber(u)
      /\ \A u \in Threads : pc'[u] = "new" => pc[u] = "new"
  BY <1>1 DEF FoundEmpty, FoundNumber, locals
<1>4. StillEmpty' /\ StillNumber'
  BY <1>3 DEF PoolInv, StillEmpty, StillNumber, memory
<1>5. pc' \in [Threads -> {"new", "test", "tested", "dequeue", "count", "unlock",
                           "number", "sums", "ended"}]
  BY ThreadWorks
<1> QED BY <1>1, <1>2, <1>4, <1>5

(* A thread takes the next row for its number. *)
LEMMA CountInv ==
  ASSUME QueueInv, QueueInv', PoolInv, NEW t \in Threads, Count(t)
  PROVE  PoolInv'
<1>1. /\ Alive /\ pc[t] = "count" /\ call[t] = "idle" /\ pc' = [pc EXCEPT ![t] = "unlock"]
      /\ num' = [num EXCEPT ![t] = data[t]] /\ row' = [row EXCEPT ![t] = id_num]
      /\ id_num' = id_num + 1
      /\ UNCHANGED <<queueVars, input, owner, thread_count, main, index, output>>
  BY DEF Count, Goto, Idle
<1>2. /\ CallsInPlace' /\ MainInOrder' /\ StillEmpty' /\ StillNumber'
      /\ pc'[t] = "unlock" /\ \A u \in Threads : u # t => pc'[u] = pc[u]
      /\ pc' \in [Threads -> {"new", "test", "tested", "dequeue", "count", "unlock",
                              "number", "sums", "ended"}]
  BY <1>1, OutsideQueue DEF queueVars, memory, locals, output
<1>3. /\ num'[t] = data[t] /\ row'[t] = id_num
      /\ \A u \in Threads : u # t => num'[u] = num[u] /\ row'[u] = row[u]
      /\ DOMAIN rows = Rows
  BY <1>1, ThreadWorks
<1>4. Taking(t) /\ \A u \in Threads : ~Taking(u)'
  <2>1. \A u \in Threads : u # t => pc[u] # "count"
    BY <1>1, OneOwner
  <2> QED BY <1>1, <1>2, <2>1 DEF Taking
<1>5. Taken = 1 /\ Taken' = 0 /\ Appended' = Appended /\ Numbers' = Numbers
  BY <1>1, <1>4 DEF Taken, Appended, Numbers, input, queueVars
<1>6. data[t] \in Numbers /\ (lost = {} => data[t] = id_num + 1)
  BY <1>4 DEF PoolInv, NumbersInOrder
<1>7. id_num + 1 <= total_num /\ id_num \in Nat /\ total_num \in Nat
  BY <1>5, PoolTypes DEF PoolInv, Counted
<1>8. TypeOK'
  <2>1. id_num' \in 0 .. total_num /\ row' \in [Threads -> 0 .. total_num]
    <3>1. id_num \in 0 .. total_num /\ id_num + 1 \in 0 .. total_num
      BY <1>7
    <3>2. row \in [Threads -> 0 .. total_num]
      BY <1>1, ThreadWorks
    <3> QED BY <1>1, <3>1, <3>2
  <2>2. num' \in [Threads -> Numbers \cup {NoData}]
    BY <1>1, <1>6, ThreadWorks
  <2> QED BY <1>1, <1>2, <2>1, <2>2
          DEF PoolInv, QueueInv, TypeOK, Numbers, Rows, Texts, input, output, queueVars
<1>9. SharedMutex'
  BY <1>1, <1>2 DEF PoolInv, SharedMutex
<1>10. Counted'
  BY <1>1, <1>5, <1>7, PoolTypes DEF PoolInv, Counted, input, queueVars
<1>11. NumbersInOrder'
  <2>1. ASSUME NEW i \in 1 .. Len(list)
        PROVE  /\ product_number[list[i]] \in Numbers
               /\ lost = {} => product_number[list[i]] = id_num' + Taken' + i
    BY <1>1, <1>5, <1>7 DEF PoolInv, NumbersInOrder
  <2>2. \A u \in Threads : pc'[u] = "count" => pc[u] = "count"
    BY <1>2
  <2> QED BY <1>1, <1>4, <1>5, <2>1, <2>2 DEF PoolInv, NumbersInOrder, input, queueVars
<1>12. RowsTaken'
  <2>1. ASSUME NEW u \in Threads, HasRow(u)'
        PROVE  /\ row'[u] < id_num' /\ num'[u] \in Numbers
               /\ lost = {} => num'[u] = row'[u] + 1
               /\ u # t => HasRow(u) /\ row'[u] < id_num
    <3>1. CASE u = t
      BY <1>1, <1>3, <1>6, <1>7, <3>1
    <3>2. CASE u # t
      <4>1. HasRow(u) /\ row'[u] = row[u] /\ num'[u] = num[u]
        BY <1>2, <1>3, <2>1, <3>2 DEF HasRow
      <4>2. row[u] \in 0 .. total_num
        BY <1>1, ThreadWorks
      <4>3. row[u] < id_num /\ num[u] \in Numbers /\ (lost = {} => num[u] = row[u] + 1)
        BY <4>1 DEF PoolInv, RowsTaken
      <4> QED BY <1>1, <1>7, <3>2, <4>1, <4>2, <4>3
    <3> QED BY <3>1, <3>2
  <2>2. ASSUME NEW u \in Threads, NEW v \in Threads, HasRow(u)', HasRow(v)', row'[u] = row'[v]
        PROVE  u = v
    BY <1>3, <1>7, <2>1, <2>2 DEF PoolInv, RowsTaken
  <2> QED BY <1>1, <1>5, <2>1, <2>2 DEF RowsTaken, input
<1>13. RowsWritten'
  <2>1. rows' = rows /\ Alive'
    BY <1>1 DEF output, queueVars, Alive
  <2>2. rows[id_num] = << >>
    BY <1>3, <1>7 DEF PoolInv, RowsWritten, Rows
  <2>3. \A r \in Rows : r \in Nat
    BY <1>7 DEF Rows
  <2>4. \A r \in DOMAIN rows : r >= id_num' => rows[r] = << >>
    BY <1>1, <1>3, <1>7, <2>3 DEF PoolInv, RowsWritten
  <2>5. /\ \A u \in Threads : pc'[u] \in {"unlock", "number"} => rows[row'[u]] = << >>
        /\ \A u \in Threads : pc'[u] = "sums" => rows[row'[u]] = <<num'[u]>>
    <3>1. ASSUME NEW u \in Threads, u # t
          PROVE  /\ pc'[u] \in {"unlock", "number"} => rows[row'[u]] = << >>
                 /\ pc'[u] = "sums" => rows[row'[u]] = <<num'[u]>>
      <4>1. pc'[u] = pc[u] /\ row'[u] = row[u] /\ num'[u] = num[u]
        BY <1>2, <1>3, <3>1
      <4> QED BY <1>1, <4>1 DEF PoolInv, RowsWritten
    <3>2. pc'[t] = "unlock" /\ rows[row'[t]] = << >>
      BY <1>2, <1>3, <2>2
    <3> QED BY <3>1, <3>2
  <2>6. ASSUME NEW r \in DOMAIN rows, r < id_num'
        PROVE  Len(rows[r]) = 2 \/ \E u \in Threads : HasRow(u)' /\ row'[u] = r
    <3>1. CASE r = id_num
      BY <1>2, <1>3, <3>1 DEF HasRow
    <3>2. CASE r < id_num
      <4>1. ASSUME NEW u \in Threads, HasRow(u) PROVE HasRow(u)' /\ row'[u] = row[u]
        BY <1>1, <1>2, <1>3, <4>1 DEF HasRow
      <4> QED BY <1>1, <3>2, <4>1 DEF PoolInv, RowsWritten
    <3> QED BY <1>1, <1>3, <1>7, <2>3, <2>6, <3>1, <3>2
  <2> QED BY <2>1, <2>4, <2>5, <2>6 DEF RowsWritten
<1>14. RowsFollowInput' /\ NoCrashAlone'
  BY <1>1 DEF PoolInv, RowsFollowInput, NoCrashAlone, input, output, queueVars
<1> QED BY <1>2, <1>8, <1>9, <1>10, <1>11, <1>12, <1>13, <1>14 DEF PoolInv

(* A number and the sums are a complete text. *)
LEMMA TextIsComplete ==
  ASSUME NEW n \in Int
  PROVE  Append(<<n>>, "sums") = <<n, "sums">> /\ Len(<<n, "sums">>) = 2 /\ <<n, "sums">>[1] = n
<1> DEFINE s == <<n>>
           d == <<n, "sums">>
           S == Int \cup {"sums"}
<1>1. s \in Seq(S) /\ Len(s) = 1 /\ s[1] = n
  OBVIOUS
<1>2. Append(s, "sums") \in Seq(S) /\ Len(Append(s, "sums")) = 2
  BY <1>1
<1>3. Append(s, "sums")[1] = n /\ Append(s, "sums")[2] = "sums"
  BY <1>1
<1>4. d \in Seq(S) /\ Len(d) = 2 /\ d[1] = n /\ d[2] = "sums"
  OBVIOUS
<1>5. Append(s, "sums") = d
  <2> DEFINE a == Append(s, "sums")
  <2>1. \A i \in 1 .. Len(a) : a[i] = d[i]
    BY <1>2, <1>3, <1>4
  <2> HIDE DEF s, d, S
  <2> QED BY <1>2, <1>4, <2>1, SeqEqual
<1> QED BY <1>4, <1>5

(* The row of a thread is one of the rows. *)
LEMMA RowInRange ==
  ASSUME QueueInv, PoolInv, NEW t \in Threads, HasRow(t)
  PROVE  /\ row[t] \in Rows /\ row[t] \in DOMAIN rows /\ row[t] < id_num /\ num[t] \in Numbers
         /\ num[t] \in Int /\ row[t] \in Nat /\ id_num \in Nat
<1>1. row[t] \in 0 .. total_num /\ DOMAIN rows = Rows
  BY ThreadWorks DEF HasRow
<1>2. row[t] < id_num /\ num[t] \in Numbers /\ id_num \in Nat /\ total_num \in Nat
  BY PoolTypes DEF PoolInv, RowsTaken
<1>3. id_num <= total_num
  BY <1>2 DEF PoolInv, TypeOK
<1> QED BY <1>1, <1>2, <1>3 DEF Rows, Numbers

(* What a thread writes into its own row is seen in no other.              *)
LEMMA RowWriteInv ==
  ASSUME QueueInv, QueueInv', PoolInv, NEW t \in Threads, pc[t] \in {"number", "sums"}, Alive,
         NEW to \in {"sums", "test"}, to = "sums" <=> pc[t] = "number",
         NEW text \in {<<num[t]>>, <<num[t], "sums">>},
         text = <<num[t]>> <=> pc[t] = "number",
         pc' = [pc EXCEPT ![t] = to], rows' = [rows EXCEPT ![row[t]] = text],
         UNCHANGED <<queueVars, input, shared, thread_count, main, index, own, matrix, unthreaded>>
  PROVE  PoolInv'
<1>0. /\ row[t] \in Rows /\ row[t] \in DOMAIN rows /\ row[t] < id_num /\ num[t] \in Numbers
      /\ num[t] \in Int /\ row[t] \in Nat /\ id_num \in Nat
      /\ HasRow(t) /\ DOMAIN rows = Rows
  BY RowInRange, ThreadWorks DEF HasRow
<1>1. /\ CallsInPlace' /\ MainInOrder' /\ StillEmpty' /\ StillNumber'
      /\ pc'[t] = to /\ \A u \in Threads : u # t => pc'[u] = pc[u]
      /\ pc' \in [Threads -> {"new", "test", "tested", "dequeue", "count", "unlock",
                              "number", "sums", "ended"}]
  <2>1. call[t] = "idle"
    BY DEF PoolInv, CallsInPlace
  <2> QED BY <2>1, OutsideQueue DEF queueVars, memory, locals
<1>2. /\ DOMAIN rows' = Rows /\ rows'[row[t]] = text
      /\ \A r \in Rows : r # row[t] => rows'[r] = rows[r]
  BY <1>0
<1>3. text[1] = num[t] /\ text \in Texts /\ text # << >> /\ (pc[t] = "sums" => Len(text) = 2)
  <2>1. CASE text = <<num[t]>>
    BY <1>0, <2>1 DEF Texts
  <2>2. CASE text = <<num[t], "sums">>
    <3>1. text[1] = num[t] /\ Len(text) = 2
      BY <1>0, <2>2, TextIsComplete
    <3>2. text # << >>
      BY <3>1
    <3>3. text \in Texts
      BY <1>0, <2>2 DEF Texts
    <3> QED BY <3>1, <3>2, <3>3
  <2> QED BY <2>1, <2>2
<1>4. TypeOK'
  <2>1. Texts' = Texts /\ Numbers' = Numbers /\ Rows' = Rows
    BY DEF Texts, Numbers, Rows, input
  <2>2. \A r \in Rows : rows'[r] \in Texts
    BY <1>0, <1>2, <1>3 DEF PoolInv, TypeOK
  <2> QED BY <1>1, <1>2, <2>1, <2>2
          DEF PoolInv, QueueInv, TypeOK, input, shared, own, queueVars
<1>5. SharedMutex'
  BY <1>1 DEF PoolInv, SharedMutex, shared
<1>6. /\ \A u \in Threads : Taking(u)' <=> Taking(u)
      /\ \A u \in Threads : pc'[u] = "count" <=> pc[u] = "count"
      /\ \A u \in Threads : HasRow(u)' => HasRow(u)
      /\ \A u \in Threads : u # t => (HasRow(u)' <=> HasRow(u))
  BY <1>1 DEF Taking, HasRow, queueVars
<1>7. Taken' = Taken /\ Appended' = Appended /\ Numbers' = Numbers
  BY <1>6 DEF Taken, Appended, Numbers, input, queueVars
<1>8. Counted' /\ NumbersInOrder'
  BY <1>6, <1>7 DEF PoolInv, Counted, NumbersInOrder, input, shared, queueVars
<1>9. RowsTaken'
  BY <1>6, <1>7 DEF PoolInv, RowsTaken, input, shared, own
<1>10. RowsWritten'
  <2>1. \A r \in DOMAIN rows' : r >= id_num => rows'[r] = << >>
    BY <1>0, <1>2 DEF PoolInv, RowsWritten
  <2>2. ASSUME NEW u \in Threads, u # t
        PROVE  /\ pc'[u] \in {"unlock", "number"} => rows'[row[u]] = << >>
               /\ pc'[u] = "sums" => rows'[row[u]] = <<num[u]>>
    <3>1. CASE HasRow(u)
      <4>1. row[u] # row[t] /\ row[u] \in Rows
        BY <1>0, <2>2, <3>1, RowInRange DEF PoolInv, RowsTaken
      <4> QED BY <1>1, <1>2, <2>2, <4>1 DEF PoolInv, RowsWritten
    <3>2. CASE ~HasRow(u)
      BY <1>1, <2>2, <3>2 DEF HasRow
    <3> QED BY <3>1, <3>2
  <2>3. pc'[t] \notin {"unlock", "number"} /\ (pc'[t] = "sums" => rows'[row[t]] = <<num[t]>>)
    BY <1>1, <1>2
  <2>4. ASSUME NEW r \in DOMAIN rows', r < id_num
        PROVE  Len(rows'[r]) = 2 \/ \E u \in Threads : HasRow(u)' /\ row[u] = r
    <3>1. CASE r = row[t]
      BY <1>1, <1>2, <1>3, <3>1 DEF HasRow
    <3>2. CASE r # row[t]
      <4>1. Len(rows[r]) = 2 \/ \E u \in Threads : HasRow(u) /\ row[u] = r
        BY <1>0, <1>2, <2>4 DEF PoolInv, RowsWritten
      <4> QED BY <1>2, <1>6, <3>2, <4>1
    <3> QED BY <3>1, <3>2
  <2>5. id_num' = id_num /\ row' = row /\ num' = num
    BY DEF shared, own
  <2> QED BY <2>1, <2>2, <2>3, <2>4, <2>5 DEF RowsWritten
<1>11. RowsFollowInput'
  <2>1. lost = {} => num[t] = row[t] + 1
    BY <1>0 DEF PoolInv, RowsTaken
  <2> QED BY <1>0, <1>2, <1>3, <2>1 DEF PoolInv, RowsFollowInput, input
<1>12. NoCrashAlone'
  BY DEF PoolInv, NoCrashAlone, queueVars
<1> QED BY <1>1, <1>4, <1>5, <1>8, <1>9, <1>10, <1>11, <1>12 DEF PoolInv

(* The number is written, if there are rows. *)
LEMMA WriteNumberInv ==
  ASSUME QueueInv, QueueInv', PoolInv, NEW t \in Threads, WriteNumber(t)
  PROVE  PoolInv'
<1>0. /\ Alive /\ pc[t] = "number" /\ pc' = [pc EXCEPT ![t] = "sums"] /\ row[t] \in Rows
      /\ UNCHANGED <<memory, locals, can_access_queue, call, input, shared, thread_count,
                     main, index, own, matrix, unthreaded>>
      /\ call[t] = "idle"
  BY RowInRange DEF WriteNumber, Goto, HasRow, PoolInv, CallsInPlace
<1>1. CASE matrix
  <2>1. rows' = [rows EXCEPT ![row[t]] = <<num[t]>>] /\ UNCHANGED crash
    BY <1>0, <1>1 DEF WriteNumber
  <2> QED BY <1>0, <2>1, RowWriteInv DEF memory, locals, queueVars
<1>2. CASE ~matrix
  <2>1. rows' = rows /\ crash' = "null"
    BY <1>0, <1>2 DEF WriteNumber
  <2>2. /\ CallsInPlace' /\ MainInOrder' /\ StillEmpty' /\ StillNumber'
        /\ pc'[t] = "sums" /\ \A u \in Threads : u # t => pc'[u] = pc[u]
        /\ pc' \in [Threads -> {"new", "test", "tested", "dequeue", "count", "unlock",
                                "number", "sums", "ended"}]
    BY <1>0, OutsideQueue
  <2>3. TypeOK'
    BY <1>0, <2>1, <2>2 DEF PoolInv, QueueInv, TypeOK, Numbers, Rows, Texts, input, shared, own
  <2>4. SharedMutex'
    BY <1>0, <2>2 DEF PoolInv, SharedMutex, shared
  <2>5. \A u \in Threads : /\ Taking(u)' <=> Taking(u)
                           /\ pc'[u] = "count" <=> pc[u] = "count"
                           /\ HasRow(u)' <=> HasRow(u)
    BY <1>0, <2>2 DEF Taking, HasRow
  <2>6. Taken' = Taken /\ Appended' = Appended /\ Numbers' = Numbers
    BY <1>0, <2>5 DEF Taken, Appended, Numbers, input
  <2>7. Counted' /\ NumbersInOrder'
    BY <1>0, <2>5, <2>6 DEF PoolInv, Counted, NumbersInOrder, input, shared, memory, locals
  <2>8. RowsTaken'
    BY <1>0, <2>5, <2>6 DEF PoolInv, RowsTaken, input, shared, own
  <2>9. RowsWritten'
    <3>1. ~Alive'
      BY <2>1 DEF Alive
    <3>2. \A u \in Threads : pc'[u] \in {"unlock", "number"} => pc[u] \in {"unlock", "number"}
      BY <2>2
    <3> QED BY <1>0, <2>1, <3>1, <3>2 DEF PoolInv, RowsWritten, shared, own
  <2>10. RowsFollowInput' /\ NoCrashAlone'
    BY <1>0, <2>1 DEF PoolInv, RowsFollowInput, NoCrashAlone, input
  <2> QED BY <2>2, <2>3, <2>4, <2>7, <2>8, <2>9, <2>10 DEF PoolInv
<1> QED BY <1>1, <1>2

(* The sums are written after the number. *)
LEMMA WriteSumsInv ==
  ASSUME QueueInv, QueueInv', PoolInv, NEW t \in Threads, WriteSums(t)
  PROVE  PoolInv'
<1>1. /\ Alive /\ pc[t] = "sums" /\ pc' = [pc EXCEPT ![t] = "test"]
      /\ rows' = [rows EXCEPT ![row[t]] = Append(@, "sums")]
      /\ UNCHANGED <<queueVars, input, shared, thread_count, main, index, own, matrix, unthreaded>>
  BY DEF WriteSums, Goto
<1>2. rows[row[t]] = <<num[t]>> /\ row[t] \in DOMAIN rows /\ num[t] \in Int
  BY <1>1, RowInRange DEF PoolInv, RowsWritten, HasRow
<1>3. rows' = [rows EXCEPT ![row[t]] = <<num[t], "sums">>]
  BY <1>1, <1>2, TextIsComplete
<1>4. <<num[t], "sums">> # <<num[t]>>
  OBVIOUS
<1> QED BY <1>1, <1>3, <1>4, RowWriteInv

(* Every step keeps the invariant. *)
LEMMA NextPoolInv == QueueInv /\ QueueInv' /\ PoolInv /\ [Next]_vars => PoolInv'
<1> SUFFICES ASSUME QueueInv, QueueInv', PoolInv, [Next]_vars PROVE PoolInv'
  OBVIOUS
<1>1. CASE MainStep
  BY <1>1, AnalyzeInv, ReadNumberInv, EndOfInputInv, CreateThreadInv, CreateFailsInv,
     CreateEndsInv, JoinInv, PrintRowsInv, MainInQueueInv DEF MainStep
<1>2. ASSUME NEW t \in Threads, InQueue(t) PROVE PoolInv'
  BY <1>2, ThreadInQueueSteps, QuietInQueueInv, AssertionInv, TakeNumberInv
<1>3. ASSUME NEW t \in Threads, ThreadStep(t) PROVE PoolInv'
  BY <1>2, <1>3, QuietThreadInv, CountInv, WriteNumberInv, WriteSumsInv DEF ThreadStep
<1>4. CASE UNCHANGED vars
  <2>1. /\ TypeOK' /\ CallsInPlace' /\ MainInOrder' /\ SharedMutex'
    BY <1>4 DEF PoolInv, TypeOK, QueueInv, Numbers, Rows, Texts, CallsInPlace, MainInOrder,
                SharedMutex, Alive, vars, queueVars, input, shared, own, output
  <2>2. StillEmpty' /\ StillNumber'
    BY <1>4 DEF PoolInv, StillEmpty, StillNumber, FoundEmpty, FoundNumber, vars, queueVars
  <2>3. Taken' = Taken /\ Appended' = Appended /\ Numbers' = Numbers
    BY <1>4 DEF Taken, Taking, Appended, Numbers, vars, queueVars, input
  <2>4. Counted' /\ NumbersInOrder'
    BY <1>4, <2>3 DEF PoolInv, Counted, NumbersInOrder, Taking, vars, queueVars, input, shared
  <2>5. RowsTaken' /\ RowsWritten' /\ RowsFollowInput' /\ NoCrashAlone'
    BY <1>4, <2>3 DEF PoolInv, RowsTaken, RowsWritten, RowsFollowInput, NoCrashAlone, HasRow, Alive,
                      vars, queueVars, input, shared, own, output
  <2> QED BY <2>1, <2>2, <2>4, <2>5 DEF PoolInv
<1> QED BY <1>1, <1>3, <1>4 DEF Next

(* The invariants of the queue and of its users hold in every state. *)
LEMMA PoolInvariance == Spec => [](QueueInv /\ PoolInv)
<1>1. Init => QueueInv /\ PoolInv /\ NumbersAreCounted
  BY QueueInitInv, InitPoolInv, NumbersAreCountedInv DEF Init
<1>2. NumbersAreCounted /\ [Next]_vars => [QueueNext]_queueVars
  BY MainStepIsQueueStep, ThreadStepIsQueueStep DEF Next, vars
<1>3. QueueInv /\ PoolInv /\ NumbersAreCounted /\ [Next]_vars =>
        (QueueInv /\ PoolInv /\ NumbersAreCounted)'
  BY <1>2, QueueNextInv, NextPoolInv, NumbersAreCountedInv
<1> QED BY <1>1, <1>3, PTL DEF Spec

(* The state of GoldbachPool keeps its types, whatever fails: no row index *)
(* and no number leaves its range.                                         *)
THEOREM TypeCorrect == Spec => []TypeOK
<1>1. PoolInv => TypeOK
  BY DEF PoolInv
<1> QED BY <1>1, PoolInvariance, PTL

(* Row r is the row of the number read r-th, whichever thread takes it and *)
(* in whatever order they finish.                                          *)
THEOREM OutputFollowsInput == Spec => []RowsFollowInput
<1>1. PoolInv => RowsFollowInput
  BY DEF PoolInv
<1> QED BY <1>1, PoolInvariance, PTL

(* No row index and no pointer is bad, and the assertion of queue_dequeue  *)
(* is tripped only where there are two threads or more.                    *)
THEOREM AssertionNeedsTwoThreads == Spec => []NoCrashAlone
<1>1. PoolInv => NoCrashAlone
  BY DEF PoolInv
<1> QED BY <1>1, PoolInvariance, PTL

(* When a thread was created and none tripped the assertion, main prints   *)
(* every row complete: a thread that has ended left the queue empty, and   *)
(* every row that was given out was written.                               *)
THEOREM EveryRowIsPrinted == Spec => []PrintsCompleteRows
<1>1. QueueInv /\ PoolInv => PrintsCompleteRows
  <2> SUFFICES ASSUME QueueInv, PoolInv, MainAt("print"), lost = {}, matrix, ~unthreaded,
                      thread_count > 0, NEW r \in Rows
               PROVE  Len(rows[r]) = 2
    BY DEF PrintsCompleteRows
  <2>1. Alive /\ main = "print" /\ DOMAIN rows = Rows
    BY DEF MainAt, PoolInv, TypeOK
  <2>2. \A t \in Threads : pc[t] \in {"new", "ended"}
    BY <2>1 DEF PoolInv, MainInOrder
  <2>3. 0 \in Threads /\ pc[0] = "ended"
    <3>1. 0 \in Threads
      BY PoolTypes DEF PoolInv, Threads
    <3> QED BY <2>1, <3>1 DEF PoolInv, MainInOrder
  <2>4. Len(list) = 0
    BY <2>3, LastInList DEF PoolInv, StillEmpty, FoundEmpty
  <2>5. Taken = 0 /\ Appended = 0
    BY <2>1, <2>2 DEF Taken, Taking, Appended, PoolInv, CallsInPlace, Fresh
  <2>6. id_num = total_num
    BY <2>4, <2>5, PoolTypes DEF PoolInv, Counted
  <2>7. r < id_num
    BY <2>6, PoolTypes DEF PoolInv, Rows
  <2> QED BY <2>1, <2>2, <2>7 DEF PoolInv, RowsWritten, HasRow
<1> QED BY <1>1, PoolInvariance, PTL
-----------------------------------------------------------------------------
(* The number of a thread that has one and has not yet written it *)
Holds(t) == Taking(t) \/ pc[t] \in {"unlock", "number"}
NumberOf(t) == IF pc[t] = "count" THEN data[t] ELSE num[t]

(* The number of a place of the queue *)
Queued(i) == product_number[list[i]]

Written == {r \in DOMAIN rows : rows[r] # << >>}

(* No number is in two places. *)
NoNumberTwice ==
  /\ \A i, j \in 1 .. Len(list) : Queued(i) = Queued(j) => i = j
  /\ call[Main] \in Fresh => \A i \in 1 .. Len(list) : Queued(i) # product_number[node[Main]]
  /\ \A t \in Threads, i \in 1 .. Len(list) : Holds(t) => Queued(i) # NumberOf(t)
  /\ \A t, u \in Threads : (Holds(t) /\ Holds(u) /\ NumberOf(t) = NumberOf(u)) => t = u
  /\ \A r \in Written, i \in 1 .. Len(list) : Queued(i) # rows[r][1]
  /\ \A r \in Written, t \in Threads : Holds(t) => NumberOf(t) # rows[r][1]
  /\ \A r, s \in Written : rows[r][1] = rows[s][1] => r = s

(* A number that has a node is in the queue, on its way to it, with a      *)
(* thread or in its row.                                                   *)
Somewhere(n) ==
  \/ \E i \in 1 .. Len(list) : Queued(i) = n
  \/ call[Main] \in Fresh /\ product_number[node[Main]] = n
  \/ \E t \in Threads : Holds(t) /\ NumberOf(t) = n
  \/ \E r \in Written : rows[r][1] = n
NoNumberDropped == Alive => \A n \in Numbers \ lost : Somewhere(n)

PlaceInv == NoNumberTwice /\ NoNumberDropped

(* A step that moves no number *)
LEMMA NothingMoved ==
  ASSUME PlaceInv, UNCHANGED <<list, product_number, input>>, Alive' => Alive,
         Written' = Written, \A r \in Written : rows'[r][1] = rows[r][1],
         call'[Main] \in Fresh <=> call[Main] \in Fresh,
         call[Main] \in Fresh => node'[Main] = node[Main],
         \A t \in Threads : Holds(t)' <=> Holds(t),
         \A t \in Threads : Holds(t) => NumberOf(t)' = NumberOf(t)
  PROVE  PlaceInv'
<1>1. \A i : Queued(i)' = Queued(i)
  BY DEF Queued
<1>2. NoNumberTwice'
  BY <1>1 DEF PlaceInv, NoNumberTwice
<1>3. Numbers' = Numbers /\ lost' = lost
  BY DEF Numbers, input
<1>4. \A n : Somewhere(n) => Somewhere(n)'
  BY <1>1 DEF Somewhere
<1> QED BY <1>2, <1>3, <1>4 DEF PlaceInv, NoNumberDropped

(* Nothing has been read at first. *)
LEMMA InitPlaceInv == Init => PlaceInv
<1> SUFFICES ASSUME Init PROVE PlaceInv
  OBVIOUS
<1>1. Numbers = {} /\ Written = {} /\ Len(list) = 0 /\ call[Main] = "idle"
      /\ \A t \in Threads : pc[t] = "new"
  BY PoolAssumption DEF Init, QueueInit, Numbers, Written
<1>2. \A t \in Threads : ~Holds(t)
  BY <1>1 DEF Holds, Taking
<1> QED BY <1>1, <1>2 DEF PlaceInv, NoNumberTwice, NoNumberDropped, Fresh

(* main alone moves no number: while it allocates the rows there are none. *)
LEMMA MainAloneKeepsPlaces ==
  ASSUME QueueInv, PoolInv, PlaceInv,
         Analyze \/ EndOfInput \/ CreateThread \/ CreateFails \/ CreateEnds \/ Join \/ PrintRows
  PROVE  PlaceInv'
<1>1. /\ Alive /\ UNCHANGED <<memory, locals, call, input, own>>
  BY DEF Analyze, EndOfInput, CreateThread, CreateFails, CreateEnds, Join, PrintRows, MainAt,
         queueVars, memory, locals, Goto
<1>2. Written' = Written /\ \A r \in Written : rows'[r][1] = rows[r][1]
  <2>1. CASE EndOfInput
    <3>1. DOMAIN rows = {}
      BY <2>1 DEF EndOfInput, MainAt, PoolInv, MainInOrder
    <3>2. rows' = [r \in Rows |-> << >>]
      BY <2>1 DEF EndOfInput
    <3> QED BY <3>1, <3>2 DEF Written
  <2>2. CASE rows' = rows
    BY <2>2 DEF Written
  <2> QED BY <2>1, <2>2 DEF Analyze, CreateThread, CreateFails, CreateEnds, Join, PrintRows, output
<1>3. /\ \A t \in Threads : Holds(t)' <=> Holds(t)
      /\ \A t \in Threads : Holds(t) => NumberOf(t)' = NumberOf(t)
  <2>1. CASE CreateThread
    <3>1. /\ pc[index] = "new" /\ pc' = [pc EXCEPT ![index] = "test"]
      BY <2>1 DEF CreateThread, Goto
    <3>2. pc \in [Threads -> {"new", "test", "tested", "dequeue", "count", "unlock", "number",
                              "sums", "ended"}]
      BY DEF PoolInv, TypeOK
    <3>3. \A t \in Threads : (pc'[t] = pc[t]) \/ (pc[t] = "new" /\ pc'[t] = "test")
      BY <3>1, <3>2
    <3> QED BY <1>1, <3>3 DEF Holds, Taking, NumberOf, locals, own
  <2>2. CASE pc' = pc
    BY <1>1, <2>2 DEF Holds, Taking, NumberOf, locals, own
  <2> QED BY <2>1, <2>2 DEF Analyze, EndOfInput, CreateFails, CreateEnds, Join, PrintRows
<1> QED BY <1>1, <1>2, <1>3, NothingMoved DEF memory, locals

(* A number is read into a node of its own, or lost. *)
LEMMA ReadKeepsPlaces ==
  ASSUME QueueInv, PoolInv, PlaceInv, ReadNumber
  PROVE  PlaceInv'
<1>1. /\ Alive /\ main = "read" /\ call[Main] = "idle" /\ total_num' = total_num + 1
      /\ UNCHANGED <<pc, own, output>>
  BY DEF ReadNumber, MainAt, Idle
<1>2. /\ \A t \in Threads : pc[t] = "new"
      /\ DOMAIN rows = {} /\ total_num \in Nat /\ Main \in QueueUsers
  BY <1>1, PoolTypes DEF PoolInv, MainInOrder
<1>3. /\ \A t \in Threads : ~Holds(t) /\ ~Holds(t)'
      /\ Written = {} /\ Written' = {}
  BY <1>1, <1>2 DEF Holds, Taking, Written, output
<1>4. CASE AppendNew(Main, total_num + 1, NewNode) /\ lost' = lost
  <2>1. /\ call'[Main] \in Fresh /\ node'[Main] = NewNode /\ NewNode \in Nodes /\ list' = list
        /\ product_number' = [product_number EXCEPT ![NewNode] = total_num + 1]
        /\ NewNode \notin allocated /\ product_number'[NewNode] = total_num + 1
    BY <1>2, <1>4 DEF AppendNew, Calls, QueueInv, QueueTypeOK, Fresh
  <2>2. \A i \in 1 .. Len(list) : Queued(i)' = Queued(i) /\ Queued(i) \in Numbers
    BY <2>1, LastInList DEF QueueInv, Allocated, QueueTypeOK, Queued, PoolInv, NumbersInOrder
  <2>3. \A n \in Numbers : n # total_num + 1
    BY <1>2 DEF Numbers
  <2>4. NoNumberTwice'
    BY <1>3, <2>1, <2>2, <2>3 DEF PlaceInv, NoNumberTwice
  <2>5. \A n \in Numbers' : n = total_num + 1 \/ n \in Numbers
    BY <1>1, <1>2 DEF Numbers
  <2>6. \A n \in Numbers \ lost : Somewhere(n)'
    BY <1>1, <1>3, <2>1, <2>2, Fresh # {} DEF PlaceInv, NoNumberDropped, Somewhere, Fresh
  <2>7. \A n : n = total_num + 1 => Somewhere(n)'
    BY <2>1 DEF Somewhere
  <2> QED BY <1>4, <2>4, <2>5, <2>6, <2>7 DEF PlaceInv, NoNumberDropped
<1>5. CASE AppendFails(Main) /\ lost' = lost \cup {total_num + 1}
  <2>1. UNCHANGED queueVars
    BY <1>5 DEF AppendFails
  <2>2. \A i : Queued(i)' = Queued(i)
    BY <2>1 DEF Queued, queueVars
  <2>3. NoNumberTwice'
    BY <1>3, <2>1, <2>2 DEF PlaceInv, NoNumberTwice, queueVars
  <2>4. Numbers' \ lost' \subseteq Numbers \ lost
    BY <1>1, <1>2, <1>5 DEF Numbers
  <2>5. \A n \in Numbers \ lost : Somewhere(n)'
    BY <1>1, <1>3, <2>1, <2>2 DEF PlaceInv, NoNumberDropped, Somewhere, queueVars
  <2> QED BY <2>3, <2>4, <2>5 DEF PlaceInv, NoNumberDropped
<1> QED BY <1>4, <1>5 DEF ReadNumber

(* queue_append puts the number at the end of the queue. *)
LEMMA AppendKeepsPlaces ==
  ASSUME QueueInv, QueueInv', PoolInv, PlaceInv, InQueue(Main)
  PROVE  PlaceInv'
<1>1. /\ Alive /\ Main \in QueueUsers /\ Threads \subseteq QueueUsers /\ Main \notin Threads
      /\ call \in [QueueUsers -> {"idle", "append", "link", "store head", "store tail",
                                  "test", "first", "unlink", "free", "unlock"}]
      /\ UNCHANGED <<input, pc, own, output>>
      /\ UNCHANGED <<product_number, locals>>
  BY PoolTypes, MainQueueSteps DEF PoolInv, QueueInv, QueueTypeOK
<1>2. /\ \A t \in Threads : pc[t] = "new"
      /\ \/ list' = list /\ (call'[Main] \in Fresh <=> call[Main] \in Fresh)
         \/ list' = Append(list, node[Main]) /\ call[Main] \in Fresh /\ call'[Main] \notin Fresh
  BY MainQueueSteps
<1>3. /\ \A t \in Threads : ~Holds(t) /\ ~Holds(t)'
      /\ Written' = Written /\ rows' = rows
  BY <1>1, <1>2 DEF Holds, Taking, Written, output
<1>4. CASE list' = list /\ (call'[Main] \in Fresh <=> call[Main] \in Fresh)
  BY <1>1, <1>3, <1>4, NothingMoved DEF locals
<1>5. CASE list' = Append(list, node[Main]) /\ call[Main] \in Fresh /\ call'[Main] \notin Fresh
  <2>1. node[Main] \in Nodes /\ list \in Seq(Nodes) /\ Len(list) \in Nat
    BY <1>1, <1>5, PoolTypes, LastInList DEF PoolInv, QueueInv, Allocated, Pending, QueueTypeOK
  <2>2. /\ Len(list') = Len(list) + 1 /\ list'[Len(list) + 1] = node[Main]
        /\ \A i \in 1 .. Len(list) : list'[i] = list[i]
    BY <1>5, <2>1, AppendProperties
  <2>3. /\ \A i \in 1 .. Len(list) : Queued(i)' = Queued(i)
        /\ \A i : i = Len(list) + 1 => Queued(i)' = product_number[node[Main]]
        /\ 1 .. Len(list') = 1 .. Len(list) \cup {Len(list) + 1}
        /\ Len(list) + 1 \in 1 .. Len(list')
    <3>1. /\ 1 .. Len(list') = 1 .. Len(list) \cup {Len(list) + 1}
          /\ Len(list) + 1 \in 1 .. Len(list')
      BY <2>1, <2>2
    <3>2. \A i : i = Len(list) + 1 => Queued(i)' = product_number[node[Main]]
      BY <1>1, <2>2 DEF Queued
    <3> QED BY <1>1, <2>2, <3>1, <3>2 DEF Queued
  <2>4. Written = {}
    <3>1. main = "read"
      BY <1>5 DEF PoolInv, CallsInPlace, Fresh
    <3> QED BY <1>1, <3>1 DEF Written, PoolInv, MainInOrder
  <2>5. NoNumberTwice'
    BY <1>3, <1>5, <2>3, <2>4 DEF PlaceInv, NoNumberTwice
  <2>6. \A n : Somewhere(n) => Somewhere(n)'
    BY <1>3, <2>3 DEF Somewhere
  <2> QED BY <1>1, <2>5, <2>6 DEF PlaceInv, NoNumberDropped, input, Numbers
<1> QED BY <1>2, <1>4, <1>5

(* What a thread's steps inside the queue leave alone, if they take nothing *)
LEMMA QuietInQueue ==
  ASSUME QueueInv, PoolInv, NEW t \in Threads, InQueue(t), ~DequeueUnlink(t)
  PROVE  /\ UNCHANGED <<list, product_number, input, pc, own, output>> /\ Alive
         /\ call'[Main] = call[Main] /\ node'[Main] = node[Main]
         /\ \A u \in Threads : u # t => call'[u] = call[u] /\ data'[u] = data[u]
         /\ Taking(t)' <=> Taking(t)
         /\ Taking(t) => data'[t] = data[t]
<1>1. /\ Alive /\ t \in QueueUsers /\ Main # t /\ Main \in QueueUsers /\ Threads \subseteq QueueUsers
      /\ IsEmptyRead(t) \/ DequeueFirst(t) \/ DequeueFree(t) \/ QueueUnlock(t)
      /\ UNCHANGED <<input, pc, own, output>>
      /\ call \in [QueueUsers -> {"idle", "append", "link", "store head", "store tail",
                                  "test", "first", "unlink", "free", "unlock"}]
      /\ node \in [QueueUsers -> Nodes \cup {NULL}]
      /\ data \in [QueueUsers -> Data \cup {NoData}]
  BY ThreadInQueueSteps, PoolTypes DEF PoolInv
<1>2. CASE IsEmptyRead(t)
  <2>1. /\ call[t] = "test" /\ call' = [call EXCEPT ![t] = "unlock"]
        /\ UNCHANGED <<list, product_number, node, data>>
    BY <1>2 DEF IsEmptyRead, Calls, memory
  <2>2. pc[t] # "count"
    BY <2>1 DEF PoolInv, CallsInPlace
  <2> QED BY <1>1, <2>1, <2>2 DEF Taking
<1>3. CASE DequeueFirst(t) /\ head \in allocated
  <2>1. /\ call[t] = "first" /\ call' = [call EXCEPT ![t] = "unlink"]
        /\ node' = [node EXCEPT ![t] = head] /\ data' = [data EXCEPT ![t] = product_number[head]]
        /\ UNCHANGED <<list, product_number>>
    BY <1>3 DEF DequeueFirst, Calls, memory
  <2> QED BY <1>1, <2>1 DEF Taking
<1>4. CASE DequeueFirst(t) /\ head \notin allocated
  <2>1. UNCHANGED <<call, node, data, list, product_number>>
    BY <1>4 DEF DequeueFirst, memory
  <2> QED BY <1>1, <2>1 DEF Taking
<1>5. CASE DequeueFree(t)
  <2>1. /\ call[t] = "free" /\ call' = [call EXCEPT ![t] = "unlock"]
        /\ UNCHANGED <<list, product_number, node, data>>
    BY <1>5 DEF DequeueFree, Calls, locals
  <2> QED BY <1>1, <2>1 DEF Taking
<1>6. CASE QueueUnlock(t)
  <2>1. /\ call[t] = "unlock" /\ call' = [call EXCEPT ![t] = "idle"]
        /\ UNCHANGED <<list, product_number, node, data>>
    BY <1>6 DEF QueueUnlock, Calls, memory, locals
  <2> QED BY <1>1, <2>1 DEF Taking
<1> QED BY <1>1, <1>2, <1>3, <1>4, <1>5, <1>6

(* The steps of a thread that move no number *)
LEMMA QuietKeepsPlaces ==
  ASSUME QueueInv, PoolInv, PlaceInv, NEW t \in Threads,
         \/ TestEmpty(t) \/ Leave(t) \/ LockShared(t) \/ Dequeue(t) \/ Count(t)
         \/ UnlockShared(t) \/ WriteSums(t) \/ (InQueue(t) /\ ~DequeueUnlink(t))
  PROVE  PlaceInv'
<1>1. /\ t \in QueueUsers /\ Main \in QueueUsers /\ Main # t /\ Threads \subseteq QueueUsers
      /\ call \in [QueueUsers -> {"idle", "append", "link", "store head", "store tail",
                                  "test", "first", "unlink", "free", "unlock"}]
      /\ data \in [QueueUsers -> Data \cup {NoData}] /\ node \in [QueueUsers -> Nodes \cup {NULL}]
      /\ pc \in [Threads -> {"new", "test", "tested", "dequeue", "count", "unlock", "number",
                             "sums", "ended"}]
      /\ num \in [Threads -> Numbers \cup {NoData}]
  BY PoolTypes DEF PoolInv, TypeOK, QueueInv, QueueTypeOK
<1>2. UNCHANGED <<list, product_number, input>> /\ (Alive' => Alive)
  <2>1. CASE InQueue(t) /\ ~DequeueUnlink(t)
    BY <2>1, QuietInQueue DEF InQueue
  <2> QED BY <2>1, QuietInQueue DEF TestEmpty, Leave, LockShared, Dequeue, Count, UnlockShared, WriteSums, Goto,
                      IsEmptyLock, DequeueLock, memory, queueVars, Alive
<1>3. Written' = Written /\ \A r \in Written : rows'[r][1] = rows[r][1]
  <2>1. CASE WriteSums(t)
    <3>1. pc[t] = "sums" /\ Alive /\ rows' = [rows EXCEPT ![row[t]] = Append(@, "sums")]
      BY <2>1 DEF WriteSums, Goto
    <3>2. rows[row[t]] = <<num[t]>> /\ num[t] \in Int
      BY <3>1, RowInRange DEF HasRow, PoolInv, RowsWritten
    <3>3. rows' = [rows EXCEPT ![row[t]] = <<num[t], "sums">>]
      BY <3>1, <3>2, TextIsComplete
    <3>4. /\ <<num[t], "sums">> # << >> /\ <<num[t]>> # << >>
          /\ <<num[t], "sums">>[1] = <<num[t]>>[1]
      BY <3>2
    <3> QED BY <3>2, <3>3, <3>4 DEF Written
  <2>2. CASE rows' = rows
    BY <2>2 DEF Written
  <2> QED BY <2>1, <2>2 DEF TestEmpty, Leave, LockShared, Dequeue, Count, UnlockShared, InQueue,
                            output
<1>4. call'[Main] = call[Main] /\ node'[Main] = node[Main]
  <2>1. CASE InQueue(t) /\ ~DequeueUnlink(t)
    BY <2>1, QuietInQueue
  <2> QED BY <1>1, <2>1 DEF TestEmpty, Leave, LockShared, Dequeue, Count, UnlockShared, WriteSums,
                      QueueLock, Calls, IsEmptyLock, DequeueLock, locals, queueVars
<1>5. \A u \in Threads : u # t =>
        pc'[u] = pc[u] /\ call'[u] = call[u] /\ data'[u] = data[u] /\ num'[u] = num[u]
  <2>1. CASE InQueue(t) /\ ~DequeueUnlink(t)
    BY <2>1, QuietInQueue DEF own
  <2>2. CASE TestEmpty(t) \/ Dequeue(t)
    BY <1>1, <2>2 DEF TestEmpty, Dequeue, Goto, IsEmptyLock, DequeueLock, QueueLock, Calls, locals, own
  <2>3. CASE Leave(t) \/ LockShared(t) \/ Count(t) \/ UnlockShared(t) \/ WriteSums(t)
    BY <1>1, <2>3 DEF Leave, LockShared, Count, UnlockShared, WriteSums, Goto, queueVars, own
  <2> QED BY <2>1, <2>2, <2>3
<1>6. (Holds(t)' <=> Holds(t)) /\ (Holds(t) => NumberOf(t)' = NumberOf(t))
  <2>1. CASE InQueue(t) /\ ~DequeueUnlink(t)
    <3>1. pc' = pc /\ num' = num
      BY <2>1, QuietInQueue DEF own
    <3> QED BY <2>1, <3>1, QuietInQueue DEF Holds, NumberOf, Taking
  <2>2. CASE TestEmpty(t) \/ Dequeue(t)
    BY <1>1, <2>2 DEF TestEmpty, Dequeue, Goto, IsEmptyLock, DequeueLock, QueueLock, Calls, locals,
                      own, Holds, Taking, NumberOf
  <2>3. CASE Leave(t) \/ LockShared(t) \/ UnlockShared(t) \/ WriteSums(t)
    BY <1>1, <2>3 DEF Leave, LockShared, UnlockShared, WriteSums, Goto, queueVars, own,
                      Holds, Taking, NumberOf
  <2>4. CASE Count(t)
    BY <1>1, <2>4 DEF Count, Goto, Idle, queueVars, Holds, Taking, NumberOf
  <2> QED BY <2>1, <2>2, <2>3, <2>4
<1>7. \A u \in Threads : (Holds(u)' <=> Holds(u)) /\ (Holds(u) => NumberOf(u)' = NumberOf(u))
  BY <1>5, <1>6 DEF Holds, Taking, NumberOf
<1> QED BY <1>2, <1>3, <1>4, <1>7, NothingMoved

(* queue_dequeue hands the first number to its thread. *)
LEMMA TakeKeepsPlaces ==
  ASSUME QueueInv, PoolInv, PlaceInv, NEW t \in Threads, InQueue(t), DequeueUnlink(t)
  PROVE  PlaceInv'
<1>1. /\ Alive /\ t \in QueueUsers /\ Main # t
      /\ UNCHANGED <<input, shared, pc, own, output>>
      /\ call[t] = "unlink" /\ call' = [call EXCEPT ![t] = "free"] /\ list' = Tail(list)
      /\ UNCHANGED <<product_number, locals, crash>>
      /\ call \in [QueueUsers -> {"idle", "append", "link", "store head", "store tail",
                                  "test", "first", "unlink", "free", "unlock"}]
  BY ThreadInQueueSteps DEF DequeueUnlink, Calls
<1>2. /\ pc[t] = "count" /\ call'[t] = "free" /\ Main \in QueueUsers
      /\ \A u \in Threads : u # t => call'[u] = call[u]
      /\ call'[Main] = call[Main] /\ call[Main] \notin Fresh
  <2>1. pc[t] = "count" /\ Main \in QueueUsers /\ Threads \subseteq QueueUsers
    BY <1>1, PoolTypes DEF PoolInv, CallsInPlace
  <2>2. call[Main] = "idle"
    BY <2>1, ThreadWorks
  <2> QED BY <1>1, <2>1, <2>2 DEF Fresh
<1>3. /\ Len(list) > 0 /\ Len(list) # 0 /\ list # << >> /\ Len(list) \in Nat /\ list \in Seq(Nodes)
      /\ data[t] = Queued(1) /\ 1 \in 1 .. Len(list)
  <2>1. Len(list) > 0 /\ node[t] = list[1]
    BY <1>1 DEF QueueInv, Between
  <2>2. Len(list) # 0
    BY <2>1, LastInList
  <2>3. data[t] = product_number[node[t]]
    BY <1>1, <1>2 DEF PoolInv, NumbersInOrder
  <2> QED BY <2>1, <2>2, <2>3, LastInList DEF QueueInv, QueueTypeOK, Queued
<1>4. /\ Len(list') = Len(list) - 1
      /\ \A i \in 1 .. Len(list') : list'[i] = list[i + 1]
  BY <1>1, <1>3, HeadTailProperties
<1>5. /\ \A i \in 1 .. Len(list') : i + 1 \in 1 .. Len(list) /\ i + 1 # 1 /\ i \in Int
      /\ \A i \in 1 .. Len(list) : i # 1 => i - 1 \in 1 .. Len(list') /\ (i - 1) + 1 = i
  BY <1>3, <1>4
<1>6. \A i \in 1 .. Len(list') : Queued(i)' = Queued(i + 1)
  BY <1>1, <1>4 DEF Queued
<1>7. /\ ~Holds(t) /\ Holds(t)' /\ NumberOf(t)' = Queued(1)
      /\ \A u \in Threads : u # t => (Holds(u)' <=> Holds(u)) /\ NumberOf(u)' = NumberOf(u)
      /\ Written' = Written /\ rows' = rows
  BY <1>1, <1>2, <1>3 DEF Holds, Taking, NumberOf, Written, output, own, locals
<1>8. NoNumberTwice'
  <2>1. \A i, j \in 1 .. Len(list') : Queued(i)' = Queued(j)' => i = j
    <3>1. ASSUME NEW i \in 1 .. Len(list'), NEW j \in 1 .. Len(list'), Queued(i + 1) = Queued(j + 1)
          PROVE  i = j
      <4>1. i + 1 = j + 1
        BY <1>5, <3>1 DEF PlaceInv, NoNumberTwice
      <4> QED BY <1>5, <4>1
    <3> QED BY <1>6, <3>1
  <2>2. \A u \in Threads, i \in 1 .. Len(list') : Holds(u)' => Queued(i)' # NumberOf(u)'
    <3>1. ASSUME NEW u \in Threads, NEW i \in 1 .. Len(list'), Holds(u)'
          PROVE  Queued(i + 1) # NumberOf(u)'
      <4>1. CASE u = t
        BY <1>3, <1>5, <1>7, <4>1 DEF PlaceInv, NoNumberTwice
      <4>2. CASE u # t
        BY <1>5, <1>7, <3>1, <4>2 DEF PlaceInv, NoNumberTwice
      <4> QED BY <4>1, <4>2
    <3> QED BY <1>6, <3>1
  <2>3. \A u, v \in Threads : (Holds(u)' /\ Holds(v)' /\ NumberOf(u)' = NumberOf(v)') => u = v
    BY <1>3, <1>7 DEF PlaceInv, NoNumberTwice
  <2>4. \A r \in Written, i \in 1 .. Len(list') : Queued(i)' # rows[r][1]
    BY <1>5, <1>6 DEF PlaceInv, NoNumberTwice
  <2>5. \A r \in Written, u \in Threads : Holds(u)' => NumberOf(u)' # rows[r][1]
    BY <1>3, <1>7 DEF PlaceInv, NoNumberTwice
  <2> QED BY <1>2, <1>7, <2>1, <2>2, <2>3, <2>4, <2>5 DEF PlaceInv, NoNumberTwice
<1>9. ASSUME NEW n, Somewhere(n) PROVE Somewhere(n)'
  <2>1. CASE \E i \in 1 .. Len(list) : Queued(i) = n
    <3>1. PICK i \in 1 .. Len(list) : Queued(i) = n
      BY <2>1
    <3>2. CASE i = 1
      BY <1>7, <3>1, <3>2 DEF Somewhere
    <3>3. CASE i # 1
      <4>1. i - 1 \in 1 .. Len(list') /\ (i - 1) + 1 = i
        BY <1>5, <3>3
      <4>2. \E j \in 1 .. Len(list') : Queued(j)' = n
        BY <1>6, <3>1, <4>1
      <4> QED BY <4>2 DEF Somewhere
    <3> QED BY <3>2, <3>3
  <2>2. CASE ~\E i \in 1 .. Len(list) : Queued(i) = n
    BY <1>2, <1>7, <1>9, <2>2 DEF Somewhere
  <2> QED BY <2>1, <2>2
<1> QED BY <1>1, <1>8, <1>9 DEF PlaceInv, NoNumberDropped, input, Numbers

(* The number goes from the thread into its row, which is empty; without   *)
(* rows the process ends.                                                  *)
LEMMA WriteKeepsPlaces ==
  ASSUME QueueInv, PoolInv, PlaceInv, NEW t \in Threads, WriteNumber(t)
  PROVE  PlaceInv'
<1>0. /\ Alive /\ pc[t] = "number" /\ pc' = [pc EXCEPT ![t] = "sums"]
      /\ row[t] \in Rows /\ row[t] \in DOMAIN rows
      /\ UNCHANGED <<memory, locals, call, input, own>>
      /\ rows[row[t]] = << >>
  BY RowInRange DEF WriteNumber, Goto, HasRow, PoolInv, RowsWritten
<1>1. /\ Holds(t) /\ ~Holds(t)' /\ NumberOf(t) = num[t]
      /\ \A u \in Threads : u # t => (Holds(u)' <=> Holds(u)) /\ NumberOf(u)' = NumberOf(u)
  <2>1. /\ pc'[t] = "sums"
        /\ \A u \in Threads : u # t => pc'[u] = pc[u]
    BY <1>0, ThreadWorks
  <2> QED BY <1>0, <2>1 DEF Holds, Taking, NumberOf, own, locals
<1>2. (\A i : Queued(i)' = Queued(i)) /\ list' = list /\ Numbers' = Numbers
  BY <1>0 DEF Queued, memory, input, Numbers
<1>3. CASE matrix
  <2>1. rows' = [rows EXCEPT ![row[t]] = <<num[t]>>] /\ UNCHANGED crash
    BY <1>0, <1>3 DEF WriteNumber
  <2>2. /\ DOMAIN rows' = DOMAIN rows /\ rows'[row[t]] = <<num[t]>> /\ rows'[row[t]][1] = num[t]
        /\ \A r \in DOMAIN rows : r # row[t] => rows'[r] = rows[r]
        /\ <<num[t]>> # << >>
    BY <1>0, <2>1
  <2>3. /\ Written' = Written \cup {row[t]} /\ row[t] \notin Written
        /\ \A r \in Written : rows'[r] = rows[r]
    BY <1>0, <2>2 DEF Written
  <2>4. NoNumberTwice'
    BY <1>0, <1>1, <1>2, <2>2, <2>3 DEF PlaceInv, NoNumberTwice, memory, locals
  <2>5. \A n : Somewhere(n) => Somewhere(n)'
    BY <1>0, <1>1, <1>2, <2>2, <2>3 DEF Somewhere, memory, locals
  <2> QED BY <1>0, <1>2, <2>4, <2>5 DEF PlaceInv, NoNumberDropped, input
<1>4. CASE ~matrix
  <2>1. rows' = rows /\ crash' = "null"
    BY <1>0, <1>4 DEF WriteNumber
  <2>2. Written' = Written /\ ~Alive'
    BY <2>1 DEF Written, Alive
  <2>3. NoNumberTwice'
    BY <1>0, <1>1, <1>2, <2>1, <2>2 DEF PlaceInv, NoNumberTwice, memory, locals
  <2> QED BY <2>2, <2>3 DEF PlaceInv, NoNumberDropped
<1> QED BY <1>3, <1>4

(* Every step keeps it. *)
LEMMA NextPlaceInv == QueueInv /\ QueueInv' /\ PoolInv /\ PlaceInv /\ [Next]_vars => PlaceInv'
<1> SUFFICES ASSUME QueueInv, QueueInv', PoolInv, PlaceInv, [Next]_vars PROVE PlaceInv'
  OBVIOUS
<1>1. CASE MainStep
  BY <1>1, MainAloneKeepsPlaces, ReadKeepsPlaces, AppendKeepsPlaces DEF MainStep
<1>2. ASSUME NEW t \in Threads, ThreadStep(t) PROVE PlaceInv'
  BY <1>2, QuietKeepsPlaces, TakeKeepsPlaces, WriteKeepsPlaces DEF ThreadStep
<1>3. CASE UNCHANGED vars
  <2>1. /\ UNCHANGED <<list, product_number, input>> /\ (Alive' => Alive)
        /\ Written' = Written /\ rows' = rows /\ call' = call /\ node' = node
        /\ \A t \in Threads : (Holds(t)' <=> Holds(t)) /\ NumberOf(t)' = NumberOf(t)
    BY <1>3 DEF vars, queueVars, input, Alive, Written, Holds, Taking, NumberOf
  <2> QED BY <2>1, NothingMoved
<1> QED BY <1>1, <1>2, <1>3 DEF Next

(* The invariant of the places holds in every state. *)
LEMMA PlaceInvariance == Spec => []PlaceInv
<1>1. QueueInv /\ PoolInv /\ (QueueInv /\ PoolInv)' /\ PlaceInv /\ [Next]_vars => PlaceInv'
  BY NextPlaceInv
<1> QED BY <1>1, InitPlaceInv, PoolInvariance, PTL DEF Spec

(* A number that was read is in one place: in the queue, on its way to it, *)
(* with one thread or in one row.                                          *)
LEMMA OnePlace ==
  ASSUME PoolInv, PlaceInv, Alive, NEW n \in Numbers \ lost
  PROVE  Cardinality(Places(n)) = 1
<1> USE DEF Fresh, Holds, Taking, NumberOf, Queued, Written
<1>1. Places(n) # {}
  <2>1. Somewhere(n)
    BY DEF PlaceInv, NoNumberDropped
  <2>2. CASE \E i \in 1 .. Len(list) : Queued(i) = n
    BY <2>2 DEF Places
  <2>3. CASE call[Main] \in Fresh /\ product_number[node[Main]] = n
    BY <2>3 DEF Places
  <2>4. CASE \E t \in Threads : Holds(t) /\ NumberOf(t) = n
    <3> PICK t \in Threads : Holds(t) /\ NumberOf(t) = n
      BY <2>4
    <3>1. <<"thread", t>> \in Places(n)
      BY DEF Places
    <3> QED BY <3>1
  <2>5. CASE \E r \in Written : rows[r][1] = n
    BY <2>5 DEF Places
  <2> QED BY <2>1, <2>2, <2>3, <2>4, <2>5 DEF Somewhere
<1>2. ASSUME NEW p \in Places(n), NEW q \in Places(n) PROVE p = q
  <2> DEFINE InQueueAt(x) == \E i \in 1 .. Len(list) : x = <<"queue", i>> /\ Queued(i) = n
             InMain(x) == x = <<"main", n>> /\ call[Main] \in Fresh /\ product_number[node[Main]] = n
             InThread(x) == \E t \in Threads : x = <<"thread", t>> /\ Holds(t) /\ NumberOf(t) = n
             InRow(x) == \E r \in Written : x = <<"row", r>> /\ rows[r][1] = n
  <2>1. \A x \in Places(n) : InQueueAt(x) \/ InMain(x) \/ InThread(x) \/ InRow(x)
    BY DEF Places
  <2>2. /\ NoNumberTwice
        /\ call[Main] \in Fresh => Written = {} /\ \A t \in Threads : ~Holds(t)
    BY DEF PlaceInv, PoolInv, CallsInPlace, MainInOrder
  <2> HIDE DEF Fresh, Holds, NumberOf, Queued, Written
  <2>3. \A x, y : InQueueAt(x) => /\ InQueueAt(y) => x = y
                                  /\ ~InMain(y) /\ ~InThread(y) /\ ~InRow(y)
    BY <2>2 DEF NoNumberTwice
  <2>4. \A x, y : InThread(x) => (InThread(y) => x = y) /\ ~InRow(y)
    BY <2>2 DEF NoNumberTwice
  <2>5. \A x, y : InMain(x) => (InMain(y) => x = y) /\ ~InThread(y) /\ ~InRow(y)
    BY <2>2
  <2>6. \A x, y : InRow(x) => (InRow(y) => x = y)
    BY <2>2 DEF NoNumberTwice
  <2> QED BY <2>1, <2>3, <2>4, <2>5, <2>6
<1>3. PICK p \in Places(n) : TRUE
  BY <1>1
<1>4. Places(n) = {p}
  BY <1>2
<1> QED BY <1>4, FS_Singleton

(* Every number that was read is, from then on, in exactly one place: none *)
(* is summed twice and none is dropped, however the threads interleave.    *)
THEOREM EveryNumberOnce == Spec => []NumbersAreInOnePlace
<1>1. PoolInv /\ PlaceInv => NumbersAreInOnePlace
  BY OnePlace DEF NumbersAreInOnePlace
<1> QED BY <1>1, PoolInvariance, PlaceInvariance, PTL
=============================================================================
