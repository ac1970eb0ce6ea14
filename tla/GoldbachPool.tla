---------------------------- MODULE GoldbachPool ----------------------------
(***************************************************************************)
(* tareas/goldbach_optimization: main puts the numbers of stdin in a       *)
(* queue (LinkedQueue), and each thread takes the next number and the next *)
(* row until it finds the queue empty.  can_access_shared makes the call   *)
(* of queue_dequeue and the increment of id_num one critical section, but  *)
(* not the call of queue_is_empty before it.                               *)
(***************************************************************************)
EXTENDS LinkedQueue

CONSTANTS MaxNumbers,  \* bound: numbers on stdin; number k is the k-th read
          MaxThreads,  \* bound: the thread count a user may give
          NoThread     \* owner of can_access_shared when it is free

Main    == -1
Threads == 0 .. MaxThreads - 1

ASSUME PoolAssumption == /\ MaxNumbers \in Nat /\ MaxThreads \in Nat
                         /\ QueueUsers = Threads \cup {Main} /\ Data = 1 .. MaxNumbers
                         /\ IsFiniteSet(Nodes) /\ Cardinality(Nodes) >= MaxNumbers
                         /\ NoThread \notin Threads

VARIABLES total_num,     \* shared_data->total_num
          lost,          \* the numbers queue_append could not store
          asked,         \* the thread count of the command line
          thread_count,  \* shared_data->thread_count, lowered by a failure
          main, index,   \* what main does, and the index of its loops
          pc,            \* next step of each thread
          owner,         \* owner of can_access_shared
          id_num,        \* shared_data->id_num, the next row
          num, row,      \* a thread's number and its local id_num
          matrix,        \* array_sumas could be allocated
          rows,          \* array_sumas: the pieces of text in each row
          unthreaded     \* history: create_threads had no memory

vars == <<queueVars, total_num, lost, asked, thread_count, main, index, pc,
          owner, id_num, num, row, matrix, rows, unthreaded>>
input  == <<total_num, lost, asked>>
shared == <<owner, id_num>>
own    == <<num, row>>
output == <<matrix, rows, unthreaded>>

Numbers == 1 .. total_num
Rows    == 0 .. total_num - 1
Texts   == {<< >>} \cup {<<n>> : n \in Numbers} \cup {<<n, "sums">> : n \in Numbers}

TypeOK ==
  /\ QueueTypeOK
  /\ total_num \in 0 .. MaxNumbers /\ lost \subseteq Numbers
  /\ asked \in 0 .. MaxThreads /\ thread_count \in 0 .. asked
  /\ main \in {"analyze", "read", "create", "join", "print", "exit"}
  /\ index \in 0 .. asked
  /\ pc \in [Threads -> {"new", "test", "tested", "dequeue", "count", "unlock",
                         "number", "sums", "ended"}]
  /\ owner \in Threads \cup {NoThread}
  /\ id_num \in 0 .. total_num
  /\ num \in [Threads -> Numbers \cup {NoData}] /\ row \in [Threads -> 0 .. total_num]
  /\ matrix \in BOOLEAN /\ unthreaded \in BOOLEAN
  /\ main \in {"create", "join", "print"} => DOMAIN rows = Rows
  /\ \A r \in DOMAIN rows : rows[r] \in Texts
  /\ crash \in {"none", "null", "primo", "bounds", "assert", "pointer"}

Init == /\ QueueInit
        /\ total_num = 0 /\ lost = {}
        /\ asked \in 0 .. MaxThreads
        /\ thread_count = asked
        /\ main = "analyze" /\ index = 0
        /\ pc = [t \in Threads |-> "new"]
        /\ owner = NoThread
        /\ id_num = 0
        /\ num = [t \in Threads |-> NoData] /\ row = [t \in Threads |-> 0]
        /\ matrix = FALSE /\ rows = << >> /\ unthreaded = FALSE

MainAt(at) == Alive /\ main = at
Goto(t, from, to) == Alive /\ pc[t] = from /\ pc' = [pc EXCEPT ![t] = to]

-----------------------------------------------------------------------------
(* main: without shared_data it frees fields of a null pointer; a usage    *)
(* error or one of queue_init goes straight to the exit                    *)
Analyze ==
  /\ MainAt("analyze")
  /\ \/ /\ crash' = "null" /\ UNCHANGED main
     \/ /\ main' \in {"exit", "read"} /\ UNCHANGED crash
  /\ UNCHANGED <<memory, locals, can_access_queue, call, input, shared, thread_count,
                 index, pc, own, output>>

(* The node calloc returns.  Nothing is freed while main appends, so which *)
(* of the free addresses it is makes no difference but its name.           *)
NewNode == CHOOSE n \in Nodes : n \notin allocated

(* A number is read, appended (the result is ignored) and counted *)
ReadNumber ==
  /\ MainAt("read") /\ Idle(Main) /\ total_num < MaxNumbers
  /\ \/ AppendNew(Main, total_num + 1, NewNode) /\ UNCHANGED lost
     \/ AppendFails(Main) /\ lost' = lost \cup {total_num + 1}
  /\ total_num' = total_num + 1
  /\ UNCHANGED <<asked, shared, thread_count, main, index, pc, own, output>>

(* The end of stdin: the matrix; the table of primes, which has as many    *)
(* entries as the largest absolute value, and of which the second is set,  *)
(* also when there is none: that ends the process or does no harm; then    *)
(* create_threads                                                          *)
EndOfInput ==
  /\ MainAt("read") /\ Idle(Main)
  /\ matrix' \in BOOLEAN
  /\ rows' = [r \in Rows |-> << >>]
  /\ \/ /\ crash' = "null" /\ UNCHANGED <<main, unthreaded>>
     \/ /\ crash' = "primo" /\ UNCHANGED <<main, unthreaded>>
     \/ /\ unthreaded' \in BOOLEAN
        /\ main' = IF unthreaded' THEN "print" ELSE "create"
        /\ UNCHANGED crash
  /\ UNCHANGED <<memory, locals, can_access_queue, call, input, shared, thread_count,
                 index, pc, own>>

CreateThread ==
  /\ MainAt("create") /\ index < thread_count
  /\ Goto(index, "new", "test")
  /\ index' = index + 1
  /\ UNCHANGED <<queueVars, input, shared, thread_count, main, own, output>>

(* Fault: one created thread too few is remembered *)
CreateFailsMinusOne ==
  /\ MainAt("create") /\ index < thread_count
  /\ thread_count' = index - 1
  /\ UNCHANGED <<queueVars, input, shared, main, index, pc, own, output>>

CreateFails ==
  /\ MainAt("create") /\ index < thread_count
  /\ thread_count' = index
  /\ UNCHANGED <<queueVars, input, shared, main, index, pc, own, output>>

CreateEnds ==
  /\ MainAt("create") /\ index = thread_count
  /\ main' = "join" /\ index' = 0
  /\ UNCHANGED <<queueVars, input, shared, thread_count, pc, own, output>>

(* Fault: joins the first thread only *)
JoinFirst ==
  /\ MainAt("join")
  /\ pc[0] = "ended" \/ thread_count = 0
  /\ main' = "print"
  /\ UNCHANGED <<queueVars, input, shared, thread_count, index, pc, own, output>>

Join ==
  /\ MainAt("join")
  /\ IF index < thread_count
     THEN pc[index] = "ended" /\ index' = index + 1 /\ UNCHANGED main
     ELSE main' = "print" /\ UNCHANGED index
  /\ UNCHANGED <<queueVars, input, shared, thread_count, pc, own, output>>

PrintRows ==
  /\ MainAt("print")
  /\ IF ~matrix /\ total_num > 0
     THEN crash' = "null" /\ UNCHANGED main
     ELSE main' = "exit" /\ UNCHANGED crash
  /\ UNCHANGED <<memory, locals, can_access_queue, call, input, shared, thread_count,
                 index, pc, own, output>>

-----------------------------------------------------------------------------
(* sumas_golbach: while (!queue_is_empty(...)), which is a call and what   *)
(* the thread does with its result                                         *)
TestEmpty(t) ==
  /\ Goto(t, "test", "tested") /\ IsEmptyLock(t)
  /\ UNCHANGED <<input, shared, thread_count, main, index, own, output>>

Leave(t) ==
  /\ Goto(t, "tested", "ended") /\ Idle(t) /\ empty[t]
  /\ UNCHANGED <<queueVars, input, shared, thread_count, main, index, own, output>>

(* Fault: a do-while loop, whose first turn tests nothing *)
LockSharedAlways(t) ==
  /\ Goto(t, "tested", "dequeue") /\ Idle(t)
  /\ owner = NoThread /\ owner' = t
  /\ UNCHANGED <<queueVars, input, id_num, thread_count, main, index, own, output>>

LockShared(t) ==
  /\ Goto(t, "tested", "dequeue") /\ Idle(t) /\ ~empty[t]
  /\ owner = NoThread /\ owner' = t
  /\ UNCHANGED <<queueVars, input, id_num, thread_count, main, index, own, output>>

(* Fault: the mutex covers the call but not the row taken with it *)
DequeueUnlocks(t) ==
  /\ Goto(t, "dequeue", "count") /\ DequeueLock(t)
  /\ owner' = NoThread
  /\ UNCHANGED <<input, id_num, thread_count, main, index, own, output>>

Dequeue(t) ==
  /\ Goto(t, "dequeue", "count") /\ DequeueLock(t)
  /\ UNCHANGED <<input, shared, thread_count, main, index, own, output>>

(* num = the result; id_num = shared_data->id_num++ *)
Count(t) ==
  /\ Goto(t, "count", "unlock") /\ Idle(t)
  /\ num' = [num EXCEPT ![t] = data[t]]
  /\ row' = [row EXCEPT ![t] = id_num]
  /\ id_num' = id_num + 1
  /\ UNCHANGED <<queueVars, input, owner, thread_count, main, index, output>>

(* Fault: the mutex is never released *)
UnlockForgotten(t) ==
  /\ Goto(t, "unlock", "number")
  /\ UNCHANGED <<queueVars, input, shared, thread_count, main, index, own, output>>

UnlockShared(t) ==
  /\ Goto(t, "unlock", "number")
  /\ owner' = NoThread
  /\ UNCHANGED <<queueVars, input, id_num, thread_count, main, index, own, output>>

(* sprintf of the number into its row *)
WriteNumber(t) ==
  /\ Goto(t, "number", "sums")
  /\ \/ /\ matrix /\ row[t] \in Rows
        /\ rows' = [rows EXCEPT ![row[t]] = <<num[t]>>]
        /\ UNCHANGED crash
     \/ /\ ~(matrix /\ row[t] \in Rows)
        /\ crash' = IF matrix THEN "bounds" ELSE "null"
        /\ UNCHANGED rows
  /\ UNCHANGED <<memory, locals, can_access_queue, call, input, shared, thread_count,
                 main, index, own, matrix, unthreaded>>

(* strcat of the sums, or of "NA" *)
WriteSums(t) ==
  /\ Goto(t, "sums", "test")
  /\ rows' = [rows EXCEPT ![row[t]] = Append(@, "sums")]
  /\ UNCHANGED <<queueVars, input, shared, thread_count, main, index, own, matrix,
                 unthreaded>>

(* A call of the queue goes on *)
InQueue(u) == /\ QueueStep(u)
              /\ UNCHANGED <<input, shared, thread_count, main, index, pc, own, output>>

MainStep == \/ Analyze \/ ReadNumber \/ EndOfInput \/ CreateThread \/ CreateFails
            \/ CreateEnds \/ Join \/ PrintRows \/ InQueue(Main)
ThreadStep(t) == \/ TestEmpty(t) \/ Leave(t) \/ LockShared(t) \/ Dequeue(t) \/ Count(t)
                 \/ UnlockShared(t) \/ WriteNumber(t) \/ WriteSums(t) \/ InQueue(t)

Next == MainStep \/ \E t \in Threads : ThreadStep(t)

Spec == Init /\ [][Next]_vars

(* The operating system schedules main and every thread; each thread locks *)
(* the mutexes finitely often, so weak fairness of its steps is enough.    *)
FairSpec == /\ Spec /\ WF_vars(MainStep)
            /\ \A t \in Threads : WF_vars(ThreadStep(t))
-----------------------------------------------------------------------------
(* Row r is the row of the number read r-th, although any thread may take  *)
(* it and they finish in any order: the output is in the order of stdin.   *)
RowsFollowInput ==
  lost = {} => \A r \in DOMAIN rows : rows[r] # << >> => rows[r][1] = r + 1

(* Where number n is: on its way into the queue or in it, with the thread  *)
(* that took it, or in its row                                             *)
Places(n) ==
  {<<"queue", i>> : i \in {i \in 1 .. Len(list) : product_number[list[i]] = n}}
    \cup {<<"main", n>> : m \in {m \in {Main} : call[m] \in {"append", "link", "store head",
                                   "store tail"} /\ product_number[node[m]] = n}}
    \cup {<<"thread", t>> : t \in {t \in Threads :
            \/ pc[t] = "count" /\ call[t] \in {"free", "unlock", "idle"} /\ data[t] = n
            \/ pc[t] \in {"unlock", "number"} /\ num[t] = n}}
    \cup {<<"row", r>> : r \in {r \in DOMAIN rows : rows[r] # << >> /\ rows[r][1] = n}}

(* A number is in one place from the moment it is read: none is summed     *)
(* twice and none is dropped.                                              *)
NumbersAreInOnePlace ==
  Alive => \A n \in Numbers \ lost : Cardinality(Places(n)) = 1

(* No thread writes beyond the rows or follows a bad pointer; and only two *)
(* threads or more can trip the assertion of queue_dequeue.                *)
NoCrashAlone ==
  /\ crash \notin {"pointer", "bounds"}
  /\ crash = "assert" => thread_count > 1

(* When a thread was created and none tripped the assertion, main prints   *)
(* every row complete.                                                     *)
PrintsCompleteRows ==
  (MainAt("print") /\ lost = {} /\ matrix /\ ~unthreaded /\ thread_count > 0) =>
    \A r \in Rows : Len(rows[r]) = 2

(* Every run ends, by its return or by a crash. *)
Termination == <>(main = "exit" \/ ~Alive)

(* queue_dequeue: "Queue must be not empty, otherwise it will crash", and  *)
(* assert(queue_is_empty_private(queue) == false).                         *)
QueueIsNotEmpty == crash # "assert"
=============================================================================
