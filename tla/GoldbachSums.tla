---------------------------- MODULE GoldbachSums ----------------------------
(***************************************************************************)
(* The sums and the text of their rows, in three versions of the task:     *)
(* golbach_par, golbach_impar, append_dynamic_array and imprimir_resultado *)
(* are the same code in all of them.  In goldbach_optimization es_primo    *)
(* shares a table of primes that the threads read and write without a      *)
(* lock: each access to the table is a step.  In goldbach_pthread, and in  *)
(* goldbach_serial with its one thread, es_primo has no state; the serial  *)
(* version writes to stdout, the others in rows of MAX_SUMAS characters.   *)
(* That a thread takes a number and its row in one step is what            *)
(* GoldbachPool and GoldbachBlocks show.                                   *)
(***************************************************************************)
EXTENDS Goldbach

CONSTANTS Threads,  \* the threads
          Serial,   \* the one thread of the serial version
          Inputs,   \* pairs <<version, the numbers on stdin>>
          MaxSumas, \* MAX_SUMAS, the characters of a row with its final 0
          MinInt    \* INT64_MIN, whose sign cannot be removed

(* The value of num once a negative one has been multiplied by -1, which   *)
(* overflows for MinInt: the builds of the Makefile, debug and release,    *)
(* leave it as it is.                                                      *)
Magnitude(n) == IF n = MinInt THEN MinInt ELSE Abs(n)

(* Fault: the largest number instead of the largest absolute value *)
MayorOfPositives(numbers) ==
  CHOOSE m \in 2 .. 100 : /\ \A i \in DOMAIN numbers : numbers[i] <= m
                          /\ m = 2 \/ \E i \in DOMAIN numbers : numbers[i] = m

Mayor(numbers) ==
  CHOOSE m \in {0} \cup {Magnitude(numbers[i]) : i \in DOMAIN numbers} :
    m >= 0 /\ \A i \in DOMAIN numbers : Magnitude(numbers[i]) <= m

(* With a smaller table no number has sums, and GoldbachPool has its crash *)
ASSUME SumsAssumption ==
  /\ Serial \in Threads /\ MaxSumas \in Nat /\ MinInt \in Int /\ MinInt < -5
  /\ \A in \in Inputs : /\ in \in {"serial", "pthread", "optimization"} \X Seq(Int)
                        /\ in[2] # << >>
                        /\ in[1] = "optimization" => Mayor(in[2]) >= 2

VARIABLES version, \* the program
          input,   \* the numbers on stdin
          next,    \* the next number to be taken
          primo,   \* the table: primo[k] is the code's primo[k-1]
          row,     \* the number a thread works on, 0 for none
          sum,     \* where its loops are, and what they have found
          pc,      \* next step of each thread
          rows,    \* the text of each row
          crash    \* the fault that ended the process

vars == <<version, input, next, primo, row, sum, pc, rows, crash>>

Rows       == 1 .. Len(input)
num(t)     == Magnitude(input[row[t]])
Finished   == [role |-> "none", p1 |-> 0, p2 |-> 0, shown |-> FALSE, count |-> 0,
               array |-> << >>]
HasTable   == version = "optimization"

TypeOK ==
  /\ <<version, input>> \in Inputs /\ next \in 1 .. Len(input) + 1
  /\ \A k \in DOMAIN primo : primo[k] \in 0 .. 1
  /\ row \in [Threads -> 0 .. Len(input)]
  /\ \A t \in Threads : /\ sum[t].role \in {"none", "first", "second", "third"}
                        /\ sum[t].p1 \in {2} \cup 0 .. Mayor(input)
                        /\ sum[t].p2 \in 0 .. Mayor(input) + 1
  /\ pc \in [Threads -> {"take", "ask", "divide", "return", "print", "ended"}]
  /\ DOMAIN rows = Rows
  /\ crash \in {"none", "null", "table", "row"}

(* The serial version's numbers are all read by append_dynamic_array, in a *)
(* growing array, which may fail.                                          *)
Init == /\ \E in \in Inputs : version = in[1] /\ input = in[2]
        /\ next = 1
        /\ primo = [k \in 1 .. IF HasTable THEN Mayor(input) ELSE 0 |-> IF k = 2 THEN 1 ELSE 0]
        /\ row = [t \in Threads |-> 0]
        /\ sum = [t \in Threads |-> Finished]
        /\ pc = [t \in Threads |-> IF version = "serial" /\ t # Serial THEN "ended" ELSE "take"]
        /\ rows = [i \in Rows |-> << >>]
        /\ crash \in IF version = "serial" THEN {"none", "null"} ELSE {"none"}

-----------------------------------------------------------------------------
(* The loops.  s is where they are: role says which of its primes the loop *)
(* is asking es_primo about.                                               *)
(* Fault: stops before the number that is twice or three times a prime *)
AskFirstStrict(n, s) ==
  [s EXCEPT !.role = IF (IF Even(n) THEN 2 ELSE 3) * s.p1 < n THEN "first" ELSE "none"]

(* Fault: no condition on the first prime *)
AskFirstUnbounded(n, s) == [s EXCEPT !.role = "first"]

AskFirst(n, s) ==
  [s EXCEPT !.role = IF (IF Even(n) THEN 2 ELSE 3) * s.p1 <= n THEN "first" ELSE "none"]
NextFirst(n, s) == AskFirst(n, [s EXCEPT !.p1 = Step(@)])

AskSecond(n, s) ==
  IF s.p1 + s.p2 <= n THEN [s EXCEPT !.role = "second"] ELSE NextFirst(n, s)
NextSecond(n, s) == AskSecond(n, [s EXCEPT !.p2 = Step(@)])

(* cantidad_sumas++, and append_dynamic_array for each prime of a number   *)
(* whose sums are shown                                                    *)
Found(s, primes) ==
  [s EXCEPT !.count = @ + 1, !.array = IF s.shown THEN @ \o primes ELSE @]

(* Where the loops go once es_primo has answered *)
golbach_par(n, s, yes) ==
  CASE s.role = "first" /\ yes  -> [s EXCEPT !.role = "second", !.p2 = n - s.p1]
    [] s.role = "first" /\ ~yes -> NextFirst(n, s)
    [] s.role = "second"        -> NextFirst(n, IF yes THEN Found(s, <<s.p1, s.p2>>) ELSE s)

golbach_impar(n, s, yes) ==
  LET primo3 == n - s.p1 - s.p2 IN
  CASE s.role = "first" /\ yes  -> AskSecond(n, [s EXCEPT !.p2 = s.p1])
    [] s.role = "first" /\ ~yes -> NextFirst(n, s)
    [] s.role = "second" -> IF yes /\ primo3 >= s.p2 THEN [s EXCEPT !.role = "third"]
                                                     ELSE NextSecond(n, s)
    [] s.role = "third"  -> NextSecond(n, IF yes THEN Found(s, <<s.p1, s.p2, primo3>>)
                                                 ELSE s)

-----------------------------------------------------------------------------
Running(t, at) == crash = "none" /\ pc[t] = at
InTable(k) == k \in DOMAIN primo

(* The number the thread asks es_primo about *)
Asked(t) == CASE sum[t].role = "first"  -> sum[t].p1
              [] sum[t].role = "second" -> sum[t].p2
              [] sum[t].role = "third"  -> num(t) - sum[t].p1 - sum[t].p2

(* The loops go on with s, or end *)
GoOn(t, s) == /\ sum' = [sum EXCEPT ![t] = s]
              /\ pc' = [pc EXCEPT ![t] = IF s.role = "none" THEN "print" ELSE "ask"]

(* es_primo answers.  The append of a sum that is shown may find no memory *)
Answer(t, yes) ==
  LET s == IF Even(num(t)) THEN golbach_par(num(t), sum[t], yes)
                           ELSE golbach_impar(num(t), sum[t], yes)
  IN  \/ GoOn(t, s) /\ UNCHANGED crash
      \/ s.array # sum[t].array /\ crash' = "null" /\ UNCHANGED <<sum, pc>>

(* sumas_golbach: the next number and what goes before its sums.  For one  *)
(* with sums golbach_par or golbach_impar allocates array_sumas.           *)
TakeNumber(t) ==
  /\ Running(t, "take")
  /\ \/ /\ next > Len(input)
        /\ pc' = [pc EXCEPT ![t] = "ended"]
        /\ UNCHANGED <<next, row, sum, rows, crash>>
     \/ /\ next <= Len(input) /\ Abs(input[next]) <= 5
        /\ next' = next + 1
        /\ rows' = [rows EXCEPT ![next] = <<NumberPiece(input[next]), NA>>]
        /\ UNCHANGED <<row, sum, pc, crash>>
     \/ /\ next <= Len(input) /\ Abs(input[next]) > 5
        /\ next' = next + 1
        /\ row' = [row EXCEPT ![t] = next]
        /\ rows' = [rows EXCEPT ![next] = <<NumberPiece(input[next])>>]
        /\ GoOn(t, AskFirst(Magnitude(input[next]),
                            [Finished EXCEPT !.p1 = 2, !.shown = input[next] < 0]))
        /\ crash' \in {"none", "null"}
  /\ UNCHANGED <<version, input, primo>>

(* imprimir_resultado, with a buffer calloc may not have *)
ImprimirResultado(t) ==
  LET text == rows[row[t]] \o Result(Even(num(t)), sum[t].shown, sum[t].count, sum[t].array)
  IN
  /\ Running(t, "print")
  /\ \/ /\ version = "serial" \/ TextLength(text) < MaxSumas
        /\ rows' = [rows EXCEPT ![row[t]] = text]
        /\ sum' = [sum EXCEPT ![t] = Finished]
        /\ row' = [row EXCEPT ![t] = 0]
        /\ pc' = [pc EXCEPT ![t] = "take"]
        /\ UNCHANGED crash
     \/ /\ version # "serial"
        /\ crash' = IF TextLength(text) < MaxSumas THEN "null" ELSE "row"
        /\ UNCHANGED <<rows, sum, row, pc>>
  /\ UNCHANGED <<version, input, next, primo>>

-----------------------------------------------------------------------------
(* Fault: the trial division misses the square of a prime *)
HasOddDivisorStrict(k) == \E impar \in 3 .. k : /\ ~Even(impar) /\ impar * impar < k
                                                /\ k % impar = 0

HasOddDivisor(k) == \E impar \in 3 .. k : /\ ~Even(impar) /\ impar * impar <= k
                                          /\ k % impar = 0

(* es_primo without a table *)
DividePrime(t) ==
  /\ Running(t, "ask") /\ ~HasTable
  /\ LET k == Asked(t) IN
     Answer(t, k = 2 \/ (k > 1 /\ ~Even(k) /\ ~HasOddDivisor(k)))
  /\ UNCHANGED <<version, input, next, primo, row, rows>>

(* es_primo up to its first look at the table: primo[1] for 2, a write for *)
(* an even number, a read for an odd one                                   *)
AskPrime(t) ==
  /\ Running(t, "ask") /\ HasTable
  /\ LET k == Asked(t) IN
     \/ /\ k <= 1
        /\ Answer(t, FALSE) /\ UNCHANGED primo
     \/ /\ k = 2
        /\ Answer(t, primo[2] = 1) /\ UNCHANGED primo
     \/ /\ k > 2 /\ InTable(k) /\ Even(k)
        /\ primo' = [primo EXCEPT ![k] = 0]
        /\ Answer(t, FALSE)
     \/ /\ k > 2 /\ InTable(k) /\ ~Even(k)
        /\ pc' = [pc EXCEPT ![t] = IF primo[k] = 1 THEN "return" ELSE "divide"]
        /\ UNCHANGED <<primo, sum, crash>>
     \/ /\ k > 2 /\ ~InTable(k)
        /\ crash' = "table"
        /\ UNCHANGED <<primo, sum, pc>>
  /\ UNCHANGED <<version, input, next, row, rows>>

(* the division, which touches no shared data, and the write that ends it *)
Divide(t) ==
  /\ Running(t, "divide")
  /\ LET k == Asked(t) IN
     \/ /\ HasOddDivisor(k)
        /\ primo' = [primo EXCEPT ![k] = 0]
        /\ Answer(t, FALSE)
     \/ /\ ~HasOddDivisor(k)
        /\ primo' = [primo EXCEPT ![k] = 1]
        /\ pc' = [pc EXCEPT ![t] = "return"]
        /\ UNCHANGED <<sum, crash>>
  /\ UNCHANGED <<version, input, next, row, rows>>

(* return shared_data->primo[num-1]: the table is read again *)
ReturnEntry(t) ==
  /\ Running(t, "return")
  /\ Answer(t, primo[Asked(t)] = 1)
  /\ UNCHANGED <<version, input, next, primo, row, rows>>

ThreadStep(t) == \/ TakeNumber(t) \/ DividePrime(t) \/ AskPrime(t) \/ Divide(t)
                 \/ ReturnEntry(t) \/ ImprimirResultado(t)

Next == \E t \in Threads : ThreadStep(t)

Spec == Init /\ [][Next]_vars
-----------------------------------------------------------------------------
(* An entry of the table that says "prime" is right, whatever the threads  *)
(* are doing to it; no thread can spoil the answer of another, although    *)
(* es_primo reads its entry a second time to return it.                    *)
TableTellsTheTruth ==
  /\ \A k \in DOMAIN primo : primo[k] = 1 => IsPrime(k)
  /\ \A t \in Threads : pc[t] = "return" => primo[Asked(t)] = 1

(* The rows no thread is working on any more *)
Done == {i \in Rows : i < next /\ \A t \in Threads : row[t] # i}

(* A finished row is the line the tests expect: all the sums of its        *)
(* number, each once and in order, counted, and shown with their commas if *)
(* the number is negative.  The jump of the loops from 2 to 3, their       *)
(* bounds at the half and the third, the shared table and the regrouping   *)
(* of the flat array lose and repeat none.  MinInt gets no sums.           *)
SumsAreThePartitions ==
  \A i \in Done :
    IF input[i] # MinInt THEN IsRow(rows[i], input[i], Partitions(Abs(input[i])))
                         ELSE rows[i] = <<NumberPiece(MinInt), <<"", 0, " sums:">>>>

(* The table, as long as the largest absolute value, is never left; and a  *)
(* row only when the line of a number above 5, or below -5, has no room.   *)
CrashesOnlyWithoutRoom ==
  /\ crash # "table"
  /\ crash = "row" => \E i \in Rows : Abs(input[i]) > 5 /\ RowLength(input[i]) >= MaxSumas
=============================================================================
