--------------------------- MODULE GoldbachBlocks ---------------------------
(***************************************************************************)
(* tareas/goldbach_pthread: the numbers read from stdin are cut into one   *)
(* block of consecutive rows per thread; a thread writes the row of each   *)
(* of its numbers, main joins the threads and prints the rows.  size_t     *)
(* arithmetic wraps.  The sums of a number are one piece of text here;     *)
(* GoldbachSums is about what they are.                                    *)
(***************************************************************************)
EXTENDS Integers, Sequences, FiniteSets

CONSTANTS SizeT,       \* number of values of size_t
          MaxNumbers,  \* bound: numbers on stdin
          MaxThreads   \* bound: the thread count a user may give

ASSUME SizeAssumption == /\ SizeT \in Nat /\ MaxNumbers \in Nat /\ MaxThreads \in Nat
                         /\ MaxNumbers < SizeT /\ MaxThreads < SizeT

Allocations == {"shared", "numbers", "matrix", "threads", "private_data"}

VARIABLES total_num,     \* shared_data->total_num
          asked,         \* the thread count of the command line
          thread_count,  \* shared_data->thread_count, lowered by a failure
          failing,       \* the allocations that will fail
          main,          \* what main does next
          index,         \* the index of create_threads' loops
          running,       \* the threads created and not ended
          inicio, final, \* private_data[t].inicio_bloque, .final_bloque
          writing,       \* the threads between the two writes to a row
          rows,          \* array_sumas: the pieces of text in each row
          crash          \* undefined behaviour that was met

vars == <<total_num, asked, thread_count, failing, main, index, running,
          inicio, final, writing, rows, crash>>

Threads == 0 .. MaxThreads - 1
Rows    == 0 .. total_num - 1
Sizes   == 0 .. SizeT - 1
Done    == <<"number", "sums">>   \* the text of a row that is complete

TypeOK ==
  /\ total_num \in 0 .. MaxNumbers
  /\ asked \in 0 .. MaxThreads /\ thread_count \in 0 .. asked
  /\ failing \subseteq Allocations
  /\ main \in {"analyze", "create", "join", "print", "exit"}
  /\ index \in 0 .. asked
  /\ running \subseteq Threads /\ writing \subseteq running
  /\ inicio \in [Threads -> Sizes] /\ final \in [Threads -> Sizes]
  /\ rows \in [Rows -> Seq({"number", "sums"})]
  /\ crash \in {"none", "division", "null", "bounds"}

Init == /\ total_num \in 0 .. MaxNumbers
        /\ asked \in 0 .. MaxThreads
        /\ thread_count = asked
        /\ failing \in SUBSET Allocations
        /\ main = "analyze"
        /\ index = 0
        /\ running = {} /\ writing = {}
        /\ inicio = [t \in Threads |-> 0]
        /\ final = [t \in Threads |-> 0]
        /\ rows = [r \in Rows |-> << >>]
        /\ crash = "none"

input == <<total_num, asked, failing>>
Alive == crash = "none"

-----------------------------------------------------------------------------
(* The block of a thread, in size_t arithmetic *)
tam_bloque == total_num \div asked
First(t) == (tam_bloque * t) % SizeT

(* Fault: a block that ends where the next one begins *)
LastInclusive(t) == IF t + 1 = asked THEN (total_num - 1) % SizeT
                                     ELSE (tam_bloque * (t + 1)) % SizeT

(* Fault: the last block ends after the last number *)
LastPastEnd(t) == IF t + 1 = asked THEN total_num
                                   ELSE (tam_bloque * (t + 1) - 1) % SizeT

Last(t)  == IF t + 1 = asked THEN (total_num - 1) % SizeT
                             ELSE (tam_bloque * (t + 1) - 1) % SizeT

(* main up to create_threads, and its first line, the division.  A usage   *)
(* error goes straight to the exit; without shared_data or room for the    *)
(* numbers a null pointer is used.                                         *)
Analyze ==
  /\ Alive /\ main = "analyze"
  /\ IF "shared" \in failing
     THEN crash' = "null" /\ UNCHANGED main
     ELSE \/ main' = "exit" /\ UNCHANGED crash
          \/ /\ crash' = IF "numbers" \in failing /\ total_num > 0 THEN "null"
                         ELSE IF asked = 0 THEN "division" ELSE "none"
             /\ main' = IF "threads" \in failing THEN "print" ELSE "create"
  /\ UNCHANGED <<input, thread_count, index, running, inicio, final, writing, rows>>

(* One turn of the loop that creates the threads *)
CreateThread ==
  /\ Alive /\ main = "create" /\ index < thread_count
  /\ IF "private_data" \in failing
     THEN crash' = "null" /\ UNCHANGED <<inicio, final, running, index>>
     ELSE /\ inicio' = [inicio EXCEPT ![index] = First(index)]
          /\ final' = [final EXCEPT ![index] = Last(index)]
          /\ running' = running \cup {index}
          /\ index' = index + 1
          /\ UNCHANGED crash
  /\ UNCHANGED <<input, thread_count, main, writing, rows>>

(* Fault: one created thread too few is remembered *)
CreateFailsMinusOne ==
  /\ Alive /\ main = "create" /\ index < thread_count
  /\ "private_data" \notin failing
  /\ thread_count' = index - 1
  /\ UNCHANGED <<input, main, index, running, inicio, final, writing, rows, crash>>

(* pthread_create fails: only the threads created so far are joined *)
CreateFails ==
  /\ Alive /\ main = "create" /\ index < thread_count
  /\ "private_data" \notin failing
  /\ thread_count' = index
  /\ UNCHANGED <<input, main, index, running, inicio, final, writing, rows, crash>>

CreateEnds ==
  /\ Alive /\ main = "create" /\ index = thread_count
  /\ main' = "join" /\ index' = 0
  /\ UNCHANGED <<input, thread_count, running, inicio, final, writing, rows, crash>>

(* Fault: joins one thread less *)
JoinAllButLast ==
  /\ Alive /\ main = "join"
  /\ IF index + 1 < thread_count
     THEN index \notin running /\ index' = index + 1 /\ UNCHANGED main
     ELSE main' = "print" /\ UNCHANGED index
  /\ UNCHANGED <<input, thread_count, running, inicio, final, writing, rows, crash>>

(* pthread_join of each thread in turn, then the return to main *)
Join ==
  /\ Alive /\ main = "join"
  /\ IF index < thread_count
     THEN index \notin running /\ index' = index + 1 /\ UNCHANGED main
     ELSE main' = "print" /\ UNCHANGED index
  /\ UNCHANGED <<input, thread_count, running, inicio, final, writing, rows, crash>>

(* printf of every row; a missing matrix is dereferenced if there is a row *)
PrintRows ==
  /\ Alive /\ main = "print"
  /\ IF "matrix" \in failing /\ total_num > 0
     THEN crash' = "null" /\ UNCHANGED main
     ELSE main' = "exit" /\ UNCHANGED crash
  /\ UNCHANGED <<input, thread_count, index, running, inicio, final, writing, rows>>

-----------------------------------------------------------------------------
(* sumas_golbach: reads the number of its row and writes it with sprintf.  *)
(* Beyond the last row both arrays are indexed out of bounds.              *)
StartRow(t) ==
  /\ Alive /\ t \in running \ writing /\ inicio[t] <= final[t]
  /\ IF inicio[t] \notin Rows
     THEN crash' = "bounds" /\ UNCHANGED <<rows, writing>>
     ELSE IF "matrix" \in failing
     THEN crash' = "null" /\ UNCHANGED <<rows, writing>>
     ELSE /\ rows' = [rows EXCEPT ![inicio[t]] = <<"number">>]
          /\ writing' = writing \cup {t}
          /\ UNCHANGED crash
  /\ UNCHANGED <<input, thread_count, main, index, running, inicio, final>>

(* Fault: the row is finished without going on to the next one *)
FinishRowStays(t) ==
  /\ Alive /\ t \in writing
  /\ rows' = [rows EXCEPT ![inicio[t]] = Append(@, "sums")]
  /\ writing' = writing \ {t}
  /\ UNCHANGED <<input, thread_count, main, index, running, inicio, final, crash>>

(* the sums are appended with strcat; inicio_bloque++ *)
FinishRow(t) ==
  /\ Alive /\ t \in writing
  /\ rows' = [rows EXCEPT ![inicio[t]] = Append(@, "sums")]
  /\ inicio' = [inicio EXCEPT ![t] = (@ + 1) % SizeT]
  /\ writing' = writing \ {t}
  /\ UNCHANGED <<input, thread_count, main, index, running, final, crash>>

EndThread(t) ==
  /\ Alive /\ t \in running \ writing /\ inicio[t] > final[t]
  /\ running' = running \ {t}
  /\ UNCHANGED <<input, thread_count, main, index, inicio, final, writing, rows, crash>>

MainStep == Analyze \/ CreateThread \/ CreateFails \/ CreateEnds \/ Join \/ PrintRows
ThreadStep(t) == StartRow(t) \/ FinishRow(t) \/ EndThread(t)

Next == MainStep \/ \E t \in Threads : ThreadStep(t)

Spec == Init /\ [][Next]_vars

(* The operating system schedules main and every thread *)
FairSpec == /\ Spec /\ WF_vars(MainStep)
            /\ \A t \in Threads : WF_vars(ThreadStep(t))
-----------------------------------------------------------------------------
(* At least one number per thread and memory for everything *)
WellUsed == asked \in 1 .. total_num /\ failing = {}

(* No thread indexes the numbers or the rows out of bounds, and nothing    *)
(* else is undefined, whatever threads cannot be created.                  *)
NoCrash == WellUsed => crash = "none"

(* Two threads never write the same row, although the rows are not locked: *)
(* their current rows differ, and no row gets a second number or sums.     *)
RowsAreOwned ==
  WellUsed =>
    /\ \A t, u \in writing : t # u => inicio[t] # inicio[u]
    /\ \A r \in Rows : rows[r] \in {<< >>, <<"number">>, Done}

(* When every thread could be created, main prints every row complete: the *)
(* joins cover all the threads and the blocks cover all the rows, the      *)
(* remainder of the division included.                                     *)
PrintsCompleteRows ==
  (WellUsed /\ main = "print" /\ thread_count = asked) =>
    \A r \in Rows : rows[r] = Done

(* Every run ends; the loop of a thread does not run past its block.       *)
Termination == WellUsed => <>(main = "exit")

(* "ese ultimo hilo va a procesar la diferencia": a row past the last full *)
(* block is written by the last thread only.                               *)
RemainderIsLastThreads ==
  \A t \in writing : t + 1 < asked => inicio[t] < tam_bloque * asked
=============================================================================
