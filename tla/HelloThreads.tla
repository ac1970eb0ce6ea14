---------------------------- MODULE HelloThreads ----------------------------
(***************************************************************************)
(* The class activity hello_iw_shr.c, and ejercicio2.c, which has the same *)
(* text: main creates threads that greet with what they find in a variable *)
(* on main's stack, and joins them.  A failed creation ends the loop that  *)
(* creates, not the one that joins: it goes on over threads that never     *)
(* existed, whose pthread_t calloc has zeroed.                             *)
(***************************************************************************)
EXTENDS Integers

CONSTANTS MaxThreads   \* bound: the thread count of the command line

ASSUME HelloAssumption == MaxThreads \in Nat

Threads == 0 .. MaxThreads - 1

VARIABLES thread_count,  \* shared_data.thread_count, on main's stack
          main, index,   \* what main does, and the index of its loops
          pc,            \* of each thread
          greetings,     \* the lines each thread has written
          error,         \* the result of create_threads, then the exit status
          crashed        \* the join of what is no thread ended the process

vars == <<thread_count, main, index, pc, greetings, error, crashed>>

TypeOK == /\ thread_count \in 0 .. MaxThreads /\ index \in 0 .. thread_count
          /\ main \in {"arguments", "allocate", "create", "join", "exit"}
          /\ pc \in [Threads -> {"new", "run", "ended"}]
          /\ greetings \in [Threads -> 0 .. 1]
          /\ error \in {0, 1, 21, 22} /\ crashed \in BOOLEAN

(* The count is the one of the command line, or of processors *)
Init == /\ thread_count \in 0 .. MaxThreads
        /\ main = "arguments" /\ index = 0
        /\ pc = [t \in Threads |-> "new"]
        /\ greetings = [t \in Threads |-> 0]
        /\ error = 0 /\ crashed = FALSE

MainAt(at) == ~crashed /\ main = at

(* The argument is refused when it is not a number, and also when sysconf  *)
(* has left something in errno, which nobody resets                        *)
Arguments ==
  /\ MainAt("arguments")
  /\ \/ main' = "allocate" /\ UNCHANGED error
     \/ main' = "exit" /\ error' = 1
  /\ UNCHANGED <<thread_count, index, pc, greetings, crashed>>

Allocate ==
  /\ MainAt("allocate")
  /\ \/ main' = "create" /\ UNCHANGED error
     \/ main' = "exit" /\ error' = 22
  /\ UNCHANGED <<thread_count, index, pc, greetings, crashed>>

CreateThread ==
  /\ MainAt("create") /\ index < thread_count
  /\ pc' = [pc EXCEPT ![index] = "run"]
  /\ index' = index + 1
  /\ UNCHANGED <<thread_count, main, greetings, error, crashed>>

(* Fault: the loop ends without an error *)
CreateFailsSilently ==
  /\ MainAt("create") /\ index < thread_count
  /\ main' = "join" /\ index' = 0
  /\ UNCHANGED <<thread_count, pc, greetings, error, crashed>>

CreateFails ==
  /\ MainAt("create") /\ index < thread_count
  /\ error' = 21
  /\ main' = "join" /\ index' = 0
  /\ UNCHANGED <<thread_count, pc, greetings, crashed>>

CreateEnds ==
  /\ MainAt("create") /\ index = thread_count
  /\ main' = "join" /\ index' = 0
  /\ UNCHANGED <<thread_count, pc, greetings, error, crashed>>

(* Fault: the threads are detached *)
JoinNot ==
  /\ MainAt("join")
  /\ main' = "exit"
  /\ UNCHANGED <<thread_count, index, pc, greetings, error, crashed>>

(* pthread_join of thread index, the ones not created included: there it   *)
(* returns an error, which is ignored, or follows the null pthread_t       *)
Join ==
  /\ MainAt("join") /\ index < thread_count
  /\ \/ pc[index] \in {"ended", "new"} /\ index' = index + 1 /\ UNCHANGED crashed
     \/ pc[index] = "new" /\ crashed' = TRUE /\ UNCHANGED index
  /\ UNCHANGED <<thread_count, main, pc, greetings, error>>

(* main returns, and the process with it *)
Return ==
  /\ MainAt("join") /\ index = thread_count
  /\ main' = "exit"
  /\ UNCHANGED <<thread_count, index, pc, greetings, error, crashed>>

(* Fault: writes a second line *)
RunTwice(t) ==
  /\ ~crashed /\ pc[t] = "run"
  /\ greetings' = [greetings EXCEPT ![t] = @ + 1]
  /\ pc' = [pc EXCEPT ![t] = IF greetings[t] = 0 THEN "run" ELSE "ended"]
  /\ UNCHANGED <<thread_count, main, index, error, crashed>>

Run(t) ==
  /\ ~crashed /\ pc[t] = "run"
  /\ greetings' = [greetings EXCEPT ![t] = @ + 1]
  /\ pc' = [pc EXCEPT ![t] = "ended"]
  /\ UNCHANGED <<thread_count, main, index, error, crashed>>

(* The process is over *)
Over == (crashed \/ main = "exit") /\ UNCHANGED vars

MainStep == \/ Arguments \/ Allocate \/ CreateThread \/ CreateFails \/ CreateEnds
            \/ Join \/ Return

Next == MainStep \/ (\E t \in Threads : Run(t)) \/ Over

Spec == Init /\ [][Next]_vars
-----------------------------------------------------------------------------
(* The threads read a variable of main's stack frame: when main has        *)
(* returned, no thread that was created still runs, also after a failure.  *)
NoThreadOutlivesMain == main = "exit" => \A t \in Threads : pc[t] # "run"

(* The status 0 means that every thread asked for has greeted once; the    *)
(* process dies only after a thread could not be created.                  *)
StatusTellsTheTruth ==
  /\ (main = "exit" /\ error = 0) =>
       \A t \in Threads : greetings[t] = IF t < thread_count THEN 1 ELSE 0
  /\ crashed => error = 21
=============================================================================
