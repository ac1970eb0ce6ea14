---------------------------- MODULE GoldbachOmp ----------------------------
(***************************************************************************)
(* goldbach_omp, from its arguments to its output.  main reads the numbers *)
(* in a queue (only main uses it: LinkedQueue) and takes them one by one;  *)
(* golbach_par and golbach_impar work on one number with all the threads,  *)
(* in a "parallel for" with schedule(static) whose body changes the loop   *)
(* variable, which is private to each thread, and works on a second and a  *)
(* third number, a counter and an array that all the threads share.        *)
(* es_primo is the one of GoldbachSums.                                    *)
(***************************************************************************)
EXTENDS Goldbach

CONSTANTS Cases,          \* pairs <<numbers on stdin, thread_count>>
          DefaultThreads, \* libgomp's team for num_threads(0)
          MaxSumas        \* MAX_SUMAS, the characters of a row with its final 0

ASSUME OmpAssumption ==
  /\ DefaultThreads \in Nat \ {0} /\ MaxSumas \in Nat
  /\ Cases \subseteq Seq(Int) \X Nat

VARIABLES input, thread_count,   \* stdin and the command line
          main,                  \* what main does
          total_num, id_num,     \* of shared_data
          cola_entrada,          \* the queue
          mayor,                 \* the largest absolute value
          matrix, rows,          \* array_sumas of shared_data, if allocated, and its texts
          kept,                  \* history: the numbers the queue took
          par1,           \* the loop variable of each thread (primo1)
          par2,           \* shared by the threads (primo2)
          par3,           \* shared by the threads (primo3)
          cantidad_sumas, \* shared by the threads
          array_sumas,    \* shared by the threads: the primes of the sums
          copy,           \* the value a thread has read of cantidad_sumas
          pc,             \* next step of each thread
          crash           \* the fault that ended the process

inputVars  == <<input, thread_count, total_num, mayor, kept, matrix>>
mainVars   == <<inputVars, main, id_num, cola_entrada, rows>>
regionVars == <<par1, par2, par3, cantidad_sumas, array_sumas, copy, pc>>
vars == <<mainVars, regionVars, crash>>

Team     == IF thread_count = 0 THEN DefaultThreads ELSE thread_count
Threads  == 0 .. Team - 1
signed   == kept[id_num]      \* the number main is at
num      == Abs(signed)       \* its sign removed
mostrar_sumas == signed < 0

Init == /\ \E c \in Cases : input = c[1] /\ thread_count = c[2]
        /\ main = "arguments" /\ total_num = 0 /\ id_num = 0 /\ cola_entrada = << >>
        /\ mayor = 0 /\ matrix = FALSE /\ rows = << >> /\ kept = << >>
        /\ par1 = [t \in Threads |-> 2] /\ par2 = 2 /\ par3 = 2
        /\ cantidad_sumas = 0 /\ array_sumas = << >>
        /\ copy = [t \in Threads |-> 0] /\ pc = [t \in Threads |-> "ended"]
        /\ crash = "none"

MainAt(at) == crash = "none" /\ main = at

-----------------------------------------------------------------------------
(* main: without shared_data it frees the fields of a null pointer; a      *)
(* usage error or one of queue_init leads to the exit                      *)
Analyze ==
  /\ MainAt("arguments")
  /\ \/ crash' = "null" /\ UNCHANGED main
     \/ main' \in {"read", "exit"} /\ UNCHANGED crash
  /\ UNCHANGED <<inputVars, id_num, cola_entrada, rows, regionVars>>

(* A number is read, appended (the result is ignored) and counted *)
ReadNumber ==
  /\ MainAt("read") /\ total_num < Len(input)
  /\ LET n == input[total_num + 1] IN
     /\ \/ kept' = Append(kept, n) /\ cola_entrada' = Append(cola_entrada, n)
        \/ UNCHANGED <<kept, cola_entrada>>
     /\ mayor' = IF Abs(n) > mayor THEN Abs(n) ELSE mayor
  /\ total_num' = total_num + 1
  /\ UNCHANGED <<input, thread_count, main, id_num, matrix, rows, regionVars, crash>>

(* The matrix, and the table of primes, whose second entry is set although *)
(* the table has only mayor entries, which may end it or do no harm        *)
EndOfInput ==
  /\ MainAt("read") /\ total_num = Len(input)
  /\ matrix' \in BOOLEAN
  /\ rows' = [i \in 1 .. total_num |-> << >>]
  /\ \/ crash' \in {"null"} \cup (IF mayor < 2 THEN {"bounds"} ELSE {}) /\ UNCHANGED main
     \/ main' = "take" /\ UNCHANGED crash
  /\ UNCHANGED <<input, thread_count, total_num, mayor, kept, id_num, cola_entrada, regionVars>>

(* sumas_golbach: the next number, and what goes before its sums *)
TakeNumber ==
  /\ MainAt("take") /\ cola_entrada # << >>
  /\ cola_entrada' = Tail(cola_entrada)
  /\ id_num' = id_num + 1
  /\ LET n == Head(cola_entrada) IN
     \/ /\ ~matrix
        /\ crash' = "null" /\ UNCHANGED <<main, rows>>
     \/ /\ matrix /\ Abs(n) <= 5
        /\ rows' = [rows EXCEPT ![id_num'] = <<NumberPiece(n), NA>>]
        /\ UNCHANGED <<main, crash>>
     \/ /\ matrix /\ Abs(n) > 5
        /\ rows' = [rows EXCEPT ![id_num'] = <<NumberPiece(n)>>]
        /\ main' = "fork" /\ UNCHANGED crash
  /\ UNCHANGED <<inputVars, regionVars>>

NoMoreNumbers ==
  /\ MainAt("take") /\ cola_entrada = << >>
  /\ main' = "print"
  /\ UNCHANGED <<inputVars, id_num, cola_entrada, rows, regionVars, crash>>

-----------------------------------------------------------------------------
(* The iterations par1 = 2, 4, 6... of the loop, divided in contiguous     *)
(* blocks, the first ones longer by one when there is a remainder          *)
LastFirst(n)  == IF Even(n) THEN n \div 2 ELSE n \div 3
Iterations(n) == LastFirst(n) \div 2

FirstIteration(n, t) ==
  LET q == Iterations(n) \div Team
      r == Iterations(n) % Team
  IN  IF t < r THEN (q + 1) * t ELSE q * t + r

(* Fault: the loop over the odd numbers only, the jump from 2 forgotten *)
ValueOdd(i) == 2 * i + 3

(* The value of the loop variable in iteration i *)
Value(i) == 2 * i + 2

Start(n, t) == Value(FirstIteration(n, t))
End(n, t)   == Value(FirstIteration(n, t + 1))

(* golbach_par and golbach_impar: array_sumas, which may get no memory,    *)
(* and the start of the team                                               *)
Fork ==
  /\ MainAt("fork")
  /\ \/ /\ crash' = "null"
        /\ UNCHANGED <<main, regionVars>>
     \/ /\ main' = "region"
        /\ cantidad_sumas' = 0 /\ array_sumas' = << >>
        /\ par1' = [t \in Threads |-> Start(num, t)]
        /\ pc' = [t \in Threads |-> IF Start(num, t) < End(num, t) THEN "first" ELSE "ended"]
        /\ UNCHANGED <<par2, par3, copy, crash>>
  /\ UNCHANGED <<inputVars, id_num, cola_entrada, rows>>

(* The barrier at the end of the loop, and imprimir_resultado *)
JoinAndPrint ==
  LET text == rows[id_num] \o Result(Even(num), mostrar_sumas, cantidad_sumas, array_sumas)
  IN
  /\ MainAt("region") /\ \A t \in Threads : pc[t] = "ended"
  /\ \/ /\ TextLength(text) < MaxSumas
        /\ rows' = [rows EXCEPT ![id_num] = text]
        /\ main' = "take" /\ UNCHANGED crash
     \/ /\ crash' = (IF TextLength(text) < MaxSumas THEN "null" ELSE "row")
        /\ UNCHANGED <<rows, main>>
  /\ UNCHANGED <<inputVars, id_num, cola_entrada, regionVars>>

PrintRows ==
  /\ MainAt("print")
  /\ IF ~matrix /\ total_num > 0 THEN crash' = "null" /\ UNCHANGED main
                                 ELSE main' = "exit" /\ UNCHANGED crash
  /\ UNCHANGED <<inputVars, id_num, cola_entrada, rows, regionVars>>

-----------------------------------------------------------------------------
(* The body of the loop *)
At(t, place)  == crash = "none" /\ pc[t] = place
Go(t, place)  == pc' = [pc EXCEPT ![t] = place]

(* The end of the body, par1 = 1 when it is 2, and the loop's step and test *)
NextFirst(t) ==
  /\ par1' = [par1 EXCEPT ![t] = Step(@)]
  /\ Go(t, IF Step(par1[t]) < End(num, t) THEN "first" ELSE "ended")

(* Where the body goes on after a sum, or none, with the second prime *)
NextSecond(t) ==
  IF Even(num) THEN NextFirst(t) /\ UNCHANGED par2
               ELSE par2' = Step(par2) /\ Go(t, "bound") /\ UNCHANGED par1

(* es_primo(par1); then par2 = num - par1, or the inner loop starts *)
TestFirst(t) ==
  /\ At(t, "first")
  /\ IF IsPrime(par1[t])
     THEN /\ par2' = IF Even(num) THEN num - par1[t] ELSE par1[t]
          /\ Go(t, IF Even(num) THEN "second" ELSE "bound")
          /\ UNCHANGED par1
     ELSE NextFirst(t) /\ UNCHANGED par2
  /\ UNCHANGED <<mainVars, crash, par3, cantidad_sumas, array_sumas, copy>>

(* Fault: the inner loop without its condition *)
TestBoundMissing(t) ==
  /\ At(t, "bound") /\ Go(t, "second")
  /\ UNCHANGED <<mainVars, crash, par1, par2, par3, cantidad_sumas, array_sumas, copy>>

(* The condition of the inner loop *)
TestBound(t) ==
  /\ At(t, "bound")
  /\ IF par1[t] + par2 <= num THEN Go(t, "second") /\ UNCHANGED par1
                              ELSE NextFirst(t)
  /\ UNCHANGED <<mainVars, crash, par2, par3, cantidad_sumas, array_sumas, copy>>

(* es_primo(par2); then primo3 = num - primo1 - primo2 *)
TestSecond(t) ==
  /\ At(t, "second")
  /\ IF IsPrime(par2)
     THEN /\ par3' = IF Even(num) THEN par3 ELSE num - par1[t] - par2
          /\ Go(t, IF Even(num) THEN "load" ELSE "third")
          /\ UNCHANGED <<par1, par2>>
     ELSE NextSecond(t) /\ UNCHANGED par3
  /\ UNCHANGED <<mainVars, crash, cantidad_sumas, array_sumas, copy>>

(* Fault: a sum of equal primes is left out *)
TestThirdStrict(t) ==
  /\ At(t, "third")
  /\ IF par3 > par2 /\ IsPrime(par3)
     THEN Go(t, "load") /\ UNCHANGED <<par1, par2>>
     ELSE NextSecond(t)
  /\ UNCHANGED <<mainVars, crash, par3, cantidad_sumas, array_sumas, copy>>

(* primo3 >= primo2 && es_primo(primo3) *)
TestThird(t) ==
  /\ At(t, "third")
  /\ IF par3 >= par2 /\ IsPrime(par3)
     THEN Go(t, "load") /\ UNCHANGED <<par1, par2>>
     ELSE NextSecond(t)
  /\ UNCHANGED <<mainVars, crash, par3, cantidad_sumas, array_sumas, copy>>

(* cantidad_sumas++, a load and a store *)
LoadCount(t) ==
  /\ At(t, "load")
  /\ copy' = [copy EXCEPT ![t] = cantidad_sumas]
  /\ Go(t, "store")
  /\ UNCHANGED <<mainVars, crash, par1, par2, par3, cantidad_sumas, array_sumas>>

StoreCount(t) ==
  /\ At(t, "store")
  /\ cantidad_sumas' = copy[t] + 1
  /\ IF mostrar_sumas THEN Go(t, "append") /\ UNCHANGED <<par1, par2>> ELSE NextSecond(t)
  /\ UNCHANGED <<mainVars, crash, par3, array_sumas, copy>>

(* append_dynamic_array for each prime of the sum, which may get no memory *)
AppendSum(t) ==
  /\ At(t, "append")
  /\ \/ /\ array_sumas' = array_sumas \o IF Even(num) THEN <<par1[t], par2>>
                                                     ELSE <<par1[t], par2, par3>>
        /\ NextSecond(t)
        /\ UNCHANGED crash
     \/ /\ crash' = "null"
        /\ UNCHANGED <<par1, par2, array_sumas, pc>>
  /\ UNCHANGED <<mainVars, par3, cantidad_sumas, copy>>

MainStep == \/ Analyze \/ ReadNumber \/ EndOfInput \/ TakeNumber \/ NoMoreNumbers
            \/ Fork \/ JoinAndPrint \/ PrintRows
ThreadStep(t) == TestFirst(t) \/ TestBound(t) \/ TestSecond(t) \/ TestThird(t)
                 \/ LoadCount(t) \/ StoreCount(t) \/ AppendSum(t)

(* The process is over *)
Over == (main = "exit" \/ crash # "none") /\ UNCHANGED vars

Next == MainStep \/ (\E t \in Threads : ThreadStep(t)) \/ Over

Spec == Init /\ [][Next]_vars
-----------------------------------------------------------------------------
TypeOK ==
  /\ <<input, thread_count>> \in Cases
  /\ main \in {"arguments", "read", "take", "fork", "region", "print", "exit"}
  /\ total_num \in 0 .. Len(input) /\ id_num \in 0 .. total_num
  /\ cola_entrada = SubSeq(kept, id_num + 1, Len(kept)) /\ Len(kept) <= total_num
  /\ mayor \in Nat /\ matrix \in BOOLEAN
  /\ DOMAIN par1 = Threads /\ DOMAIN pc = Threads
  /\ main = "region" =>
       /\ \A t \in Threads :
            /\ par1[t] \in 2 .. LastFirst(num) + 3
            /\ pc[t] \in {"first", "bound", "second", "third", "load", "store", "append", "ended"}
       /\ par2 \in 2 .. mayor + 1 /\ par3 \in -1 .. mayor
  /\ cantidad_sumas \in Nat /\ copy \in [Threads -> Nat]
  /\ crash \in {"none", "null", "bounds", "row"}

(* No two threads are ever inside the part of the body that works on the   *)
(* shared variables, although nothing keeps them out: only the thread with *)
(* the first block, which has the 2, goes on to odd numbers.               *)
SharedByOne ==
  \A t, u \in Threads :
    pc[t] \notin {"first", "ended"} /\ pc[u] \notin {"first", "ended"} => t = u

(* The rows that main has left *)
Done == 1 .. IF main \in {"fork", "region"} \/ crash # "none" THEN id_num - 1 ELSE id_num

(* The sums the first thread's block has a first prime for                 *)
FirstBlock(n) ==
  IF Even(n) THEN {<<p, n - p>> : p \in {p \in Primes(End(n, 0) - 1) : IsPrime(n - p)}}
             ELSE {x \in Partitions(n) : x[1] < End(n, 0)}

(* When n and half of it are even the odd values go one past the half: if  *)
(* the two numbers next to the half are primes, their sum is found again   *)
(* in inverse order, as 5 + 3 after 3 + 5.                                 *)
Repeated(n) ==
  {<<p, n - p>> : p \in {p \in {n \div 2 + 1} : Even(n) /\ Even(p - 1) /\ IsPrime(p) /\ IsPrime(n - p)}}

(* What the program prints for a number: the sums of the first thread's    *)
(* block, in order and counted once each, in the row of the number.  With  *)
(* one thread they are the sums that the tests expect and the repeated one,*)
(* if there is one, and the tests' line is printed only if there is none.  *)
FindsFirstBlock ==
  \A i \in Done :
    LET n == Abs(kept[i]) IN
    /\ IsRow(rows[i], kept[i], FirstBlock(n))
    /\ Team = 1 /\ n > 5 => FirstBlock(n) = Partitions(n) \cup Repeated(n)

(* The tests' outputs do not depend on the number of threads: each sum is  *)
(* counted, and only once, since the loop ends at the half "para evitar    *)
(* repetir pares inversos".  The code counts those of the first block, and *)
(* with one thread the repeated ones.                                      *)
AllSumsAreCounted ==
  \A i \in Done : Abs(kept[i]) > 5 => rows[i][2][2] = Cardinality(Partitions(Abs(kept[i])))
=============================================================================
