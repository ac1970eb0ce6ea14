---------------------------- MODULE LinkedQueue ----------------------------
(***************************************************************************)
(* queue.c of the Goldbach tasks: a singly linked list between head and    *)
(* tail, and one mutex that every call holds from its first access to its  *)
(* last.  A call is a step for the lock, one for each store, and one for   *)
(* the unlock; nodes are addresses that calloc hands out and free takes    *)
(* back.  Any thread may make any call at any time.  Names start with      *)
(* Queue where a module that uses the queue has the same idea of its own.  *)
(***************************************************************************)
EXTENDS Integers, Sequences, FiniteSets

CONSTANTS QueueUsers,  \* the threads that call the functions
          Nodes,       \* the addresses calloc may return
          Data,        \* the values stored
          NULL, NoData, NoUser

ASSUME QueueAssumption == NULL \notin Nodes /\ NoData \notin Data /\ NoUser \notin QueueUsers

VARIABLES head, tail,            \* queue->head and queue->tail
          next, product_number,  \* the fields of each node
          allocated,             \* the nodes calloc returned and free did not take
          can_access_queue,      \* owner of the mutex
          call,                  \* next step of the call each thread is in
          node,                  \* its local pointer: new_node, or first
          data, empty,           \* results of queue_dequeue and queue_is_empty
          list,                  \* history: the nodes in the queue, oldest first
          crash                  \* the assertion or fault that ended the process

queueVars == <<head, tail, next, product_number, allocated, can_access_queue, call,
               node, data, empty, list, crash>>
memory    == <<head, tail, next, product_number, allocated, list>>
locals    == <<node, data, empty>>

QueueTypeOK ==
  /\ {head, tail} \subseteq Nodes \cup {NULL}
  /\ next \in [Nodes -> Nodes \cup {NULL}]
  /\ product_number \in [Nodes -> Data \cup {NoData}]
  /\ allocated \subseteq Nodes
  /\ can_access_queue \in QueueUsers \cup {NoUser}
  /\ call \in [QueueUsers -> {"idle", "append", "link", "store head", "store tail",
                              "test", "first", "unlink", "free", "unlock"}]
  /\ node \in [QueueUsers -> Nodes \cup {NULL}]
  /\ data \in [QueueUsers -> Data \cup {NoData}] /\ empty \in [QueueUsers -> BOOLEAN]
  /\ list \in Seq(Nodes)

(* queue_init, on a queue_t that calloc has zeroed *)
QueueInit == /\ head = NULL /\ tail = NULL
             /\ next = [n \in Nodes |-> NULL]
             /\ product_number = [n \in Nodes |-> NoData]
             /\ allocated = {}
             /\ can_access_queue = NoUser
             /\ call = [u \in QueueUsers |-> "idle"]
             /\ node = [u \in QueueUsers |-> NULL]
             /\ data = [u \in QueueUsers |-> NoData]
             /\ empty = [u \in QueueUsers |-> FALSE]
             /\ list = << >>
             /\ crash = "none"

Alive == crash = "none"
Idle(u) == Alive /\ call[u] = "idle"
Calls(u, from, to) == Alive /\ call[u] = from /\ call' = [call EXCEPT ![u] = to]

(* pthread_mutex_lock at the start of a call *)
QueueLock(u, from, to) ==
  /\ Calls(u, from, to)
  /\ can_access_queue = NoUser /\ can_access_queue' = u

(* A null or a freed pointer is dereferenced *)
WildPointer == crash' = "pointer"

-----------------------------------------------------------------------------
(* queue_append: calloc returns the node n, which gets the number d *)
AppendNew(u, d, n) ==
  /\ Calls(u, "idle", "append")
  /\ n \in Nodes \ allocated
  /\ allocated' = allocated \cup {n}
  /\ product_number' = [product_number EXCEPT ![n] = d]
  /\ next' = [next EXCEPT ![n] = NULL]
  /\ node' = [node EXCEPT ![u] = n]
  /\ UNCHANGED <<head, tail, can_access_queue, data, empty, list, crash>>

(* calloc fails: the error 41 is returned, nothing else happens *)
AppendFails(u) == Idle(u) /\ UNCHANGED queueVars

AppendLock(u) == QueueLock(u, "append", "link") /\ UNCHANGED <<memory, locals, crash>>

(* The test, and the first of two stores: queue->tail of an empty queue,   *)
(* otherwise queue->tail->next                                             *)
AppendLink(u) ==
  /\ \/ /\ head = NULL
        /\ Calls(u, "link", "store head")
        /\ tail' = node[u]
        /\ UNCHANGED <<next, crash>>
     \/ /\ head # NULL /\ tail \in allocated
        /\ Calls(u, "link", "store tail")
        /\ next' = [next EXCEPT ![tail] = node[u]]
        /\ UNCHANGED <<tail, crash>>
     \/ /\ head # NULL /\ tail \notin allocated
        /\ Alive /\ call[u] = "link" /\ WildPointer
        /\ UNCHANGED <<call, next, tail>>
  /\ UNCHANGED <<head, product_number, allocated, can_access_queue, locals, list>>

(* The second store *)
AppendStore(u) ==
  /\ \/ /\ Calls(u, "store head", "unlock")
        /\ head' = node[u] /\ UNCHANGED tail
     \/ /\ Calls(u, "store tail", "unlock")
        /\ tail' = node[u] /\ UNCHANGED head
  /\ list' = Append(list, node[u])
  /\ UNCHANGED <<next, product_number, allocated, can_access_queue, locals, crash>>

-----------------------------------------------------------------------------
(* queue_is_empty *)
IsEmptyLock(u) == QueueLock(u, "idle", "test") /\ UNCHANGED <<memory, locals, crash>>

IsEmptyRead(u) ==
  /\ Calls(u, "test", "unlock")
  /\ empty' = [empty EXCEPT ![u] = head = NULL]
  /\ UNCHANGED <<memory, can_access_queue, node, data, crash>>

-----------------------------------------------------------------------------
(* queue_dequeue *)
DequeueLock(u) == QueueLock(u, "idle", "first") /\ UNCHANGED <<memory, locals, crash>>

(* The assertion, first and its number.  A release build has no assertion  *)
(* and dies one line later, at the null pointer.                           *)
DequeueFirst(u) ==
  /\ \/ /\ head \in allocated
        /\ Calls(u, "first", "unlink")
        /\ node' = [node EXCEPT ![u] = head]
        /\ data' = [data EXCEPT ![u] = product_number[head]]
        /\ UNCHANGED crash
     \/ /\ head \notin allocated
        /\ Alive /\ call[u] = "first"
        /\ crash' = (IF head = NULL THEN "assert" ELSE "pointer")
        /\ UNCHANGED <<call, node, data>>
  /\ UNCHANGED <<memory, can_access_queue, empty>>

(* Fault: reads the first number and leaves its node in the queue *)
DequeuePeek(u) == /\ Calls(u, "unlink", "unlock")
                  /\ UNCHANGED <<memory, can_access_queue, locals, crash>>

(* queue->head = first->next *)
DequeueUnlink(u) ==
  /\ Calls(u, "unlink", "free")
  /\ head' = next[node[u]]
  /\ list' = Tail(list)
  /\ UNCHANGED <<tail, next, product_number, allocated, can_access_queue, locals, crash>>

(* Fault: the tail of an emptied queue is forgotten *)
DequeueFreeOnly(u) ==
  /\ Calls(u, "free", "unlock")
  /\ allocated' = allocated \ {node[u]}
  /\ UNCHANGED <<head, tail, next, product_number, can_access_queue, locals, list, crash>>

(* free(first), and the tail of a queue that is now empty *)
DequeueFree(u) ==
  /\ Calls(u, "free", "unlock")
  /\ allocated' = allocated \ {node[u]}
  /\ tail' = IF head = NULL THEN NULL ELSE tail
  /\ UNCHANGED <<head, next, product_number, can_access_queue, locals, list, crash>>

-----------------------------------------------------------------------------
(* pthread_mutex_unlock, and the return *)
QueueUnlock(u) ==
  /\ Calls(u, "unlock", "idle")
  /\ can_access_queue' = NoUser
  /\ UNCHANGED <<memory, locals, crash>>

(* What a call does after it was made *)
QueueStep(u) == \/ AppendLock(u) \/ AppendLink(u) \/ AppendStore(u) \/ IsEmptyRead(u)
                \/ DequeueFirst(u) \/ DequeueUnlink(u) \/ DequeueFree(u) \/ QueueUnlock(u)

(* The process is ended by something that has nothing to do with the queue *)
ProcessDies == /\ Alive /\ crash' \in {"null", "bounds", "primo"}
               /\ UNCHANGED <<memory, locals, can_access_queue, call>>

QueueNext == \/ \E u \in QueueUsers : \/ \E d \in Data, n \in Nodes : AppendNew(u, d, n)
                                      \/ IsEmptyLock(u) \/ DequeueLock(u) \/ QueueStep(u)
             \/ ProcessDies

QueueSpec == QueueInit /\ [][QueueNext]_queueVars
-----------------------------------------------------------------------------
(* The nodes in use by the queue, and those append has not linked yet *)
Linked   == {list[i] : i \in 1 .. Len(list)}
Unlinked == {node[u] : u \in {u \in QueueUsers : call[u] \in {"append", "link"}}}

(* Whenever nobody is inside a call, head, tail and the next pointers are  *)
(* exactly the list of the nodes appended and not dequeued, in order; no   *)
(* node of it has been freed, none is in it twice and none has leaked.     *)
ListIsWellFormed ==
  (Alive /\ can_access_queue = NoUser) =>
    /\ head = IF list = << >> THEN NULL ELSE list[1]
    /\ tail = IF list = << >> THEN NULL ELSE list[Len(list)]
    /\ \A i \in 1 .. Len(list) :
         next[list[i]] = IF i < Len(list) THEN list[i + 1] ELSE NULL
    /\ \A i, j \in 1 .. Len(list) : list[i] = list[j] => i = j
    /\ allocated = Linked \cup Unlinked

(* No call follows a null pointer or one to freed memory. *)
NoWildPointer == crash # "pointer"
=============================================================================
