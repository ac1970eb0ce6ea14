------------------------- MODULE GoldbachOmpProofs -------------------------
(***************************************************************************)
(* Proofs about GoldbachOmp, for every input and every team: the shared    *)
(* variables of the loops need no lock, because the thread that has the    *)
(* first block is the only one that reaches them; and what the program     *)
(* prints is exactly the sums of that block.                               *)
(***************************************************************************)
EXTENDS GoldbachOmp, FiniteSetTheorems, SequenceTheorems, TLAPS

(* The body of the loop past its first test *)
Inside == {"bound", "second", "third", "load", "store", "append"}

(* What main has read: the queue has what is left of the numbers kept.     *)
NumbersInOrder ==
  /\ kept \in Seq(Int) /\ Len(kept) <= total_num /\ total_num \in 0 .. Len(input)
  /\ id_num \in 0 .. Len(kept) /\ mayor \in Nat
  /\ \A i \in 1 .. Len(kept) : Abs(kept[i]) <= mayor
  /\ cola_entrada = SubSeq(kept, id_num + 1, Len(kept))
  /\ main \in {"arguments", "read"} => id_num = 0
  /\ main \in {"fork", "region"} => id_num > 0 /\ num > 5

(* Only the first thread has an odd value or the 2, the one even prime.    *)
OthersAreEven ==
  \A t \in Threads \ {0} :
    pc[t] = "ended" \/ (pc[t] = "first" /\ par1[t] >= 4 /\ Even(par1[t]))

(* Outside the region no thread is at work, and in it each one is before   *)
(* the end of its block.                                                   *)
LoopsInOrder ==
  /\ main # "region" => \A t \in Threads : pc[t] = "ended"
  /\ par1 \in [Threads -> Nat] /\ pc \in [Threads -> {"first", "ended"} \cup Inside]
  /\ main = "region" => \A t \in Threads :
       /\ par1[t] \in 2 .. LastFirst(num) + 3
       /\ pc[t] # "ended" => par1[t] < End(num, t)

(* What the second and third numbers are to the first one                  *)
SumsInOrder ==
  /\ par2 = 2 \/ par2 \in 2 .. mayor + 1
  /\ par3 = 2 \/ par3 \in -1 .. mayor
  /\ \A t \in Threads :
       /\ pc[t] \in {"bound", "third"} => ~Even(num)
       /\ pc[t] \in Inside \ {"bound"} /\ Even(num) => par2 = num - par1[t]
       /\ pc[t] \in Inside \ {"bound"} /\ ~Even(num) => par1[t] + par2 <= num

Rest == /\ <<input, thread_count>> \in Cases /\ matrix \in BOOLEAN
        /\ main \in {"arguments", "read", "take", "fork", "region", "print", "exit"}
        /\ cantidad_sumas \in Nat /\ copy \in [Threads -> Nat]
        /\ crash \in {"none", "null", "bounds", "row"}

(* The inductive invariant *)
IInv == Rest /\ NumbersInOrder /\ OthersAreEven /\ LoopsInOrder /\ SumsInOrder
-----------------------------------------------------------------------------
(* The command line and the team *)
LEMMA TeamTypes ==
  ASSUME <<input, thread_count>> \in Cases
  PROVE  /\ input \in Seq(Int) /\ Len(input) \in Nat /\ thread_count \in Nat
         /\ Team \in Nat \ {0} /\ Threads \subseteq Nat /\ \A t \in Threads : t < Team
<1>1. input \in Seq(Int) /\ thread_count \in Nat
  BY OmpAssumption
<1>2. Len(input) \in Nat
  BY <1>1, LenProperties
<1>3. Team \in Nat \ {0}
  BY <1>1, OmpAssumption DEF Team
<1> QED BY <1>1, <1>2, <1>3 DEF Threads

(* A product grows with its second factor. *)
LEMMA ProductGrows ==
  ASSUME NEW q \in Nat, NEW x \in Nat, NEW y \in Nat, x <= y
  PROVE  q * x \in Nat /\ q * y \in Nat /\ q * x <= q * y
<1>1. PICK d \in Nat : y = x + d
  <2>1. y - x \in Nat /\ y = x + (y - x)
    OBVIOUS
  <2> QED BY <2>1
<1>2. q * d \in Nat /\ q * y = q * x + q * d /\ q * x \in Nat
  BY <1>1, SMT
<1> QED BY <1>2

(* A division among the threads *)
LEMMA Quotient ==
  ASSUME NEW n \in Nat, NEW a \in Nat \ {0}
  PROVE  /\ n \div a \in Nat /\ n % a \in Nat /\ n % a < a
         /\ n = (n \div a) * a + (n % a)
<1>1. n \div a \in Nat /\ n % a \in 0 .. a - 1
  OBVIOUS
<1>2. n = (n \div a) * a + (n % a)
  BY Z3
<1> QED BY <1>1, <1>2

(* The values of a block are even and those of the loop; only the block of *)
(* the first thread has the 2.                                             *)
LEMMA Block ==
  ASSUME Team \in Nat \ {0}, NEW n \in Nat, n > 5, NEW t \in Nat, t < Team
  PROVE  /\ Start(n, t) \in 2 .. LastFirst(n) + 2 /\ End(n, t) \in Nat
         /\ Even(Start(n, t)) /\ End(n, t) <= LastFirst(n) + 2
         /\ t # 0 /\ Start(n, t) < End(n, t) => Start(n, t) >= 4
<1> DEFINE q == Iterations(n) \div Team
           r == Iterations(n) % Team
<1>1. /\ LastFirst(n) \in Nat /\ Iterations(n) \in Nat
      /\ 2 * Iterations(n) <= LastFirst(n)
  BY DEF LastFirst, Iterations, Even
<1>2. q \in Nat /\ r \in Nat /\ r < Team /\ Iterations(n) = q * Team + r
  BY <1>1, Quotient
<1>3. /\ \A u : FirstIteration(n, u) = IF u < r THEN (q + 1) * u ELSE q * u + r
      /\ \A u : Start(n, u) = 2 * FirstIteration(n, u) + 2
      /\ End(n, t) = 2 * FirstIteration(n, t + 1) + 2
  BY DEF FirstIteration, Start, End, Value
<1> HIDE DEF q, r
<1>4. ASSUME NEW u \in Nat, u <= Team
      PROVE  FirstIteration(n, u) \in Nat /\ FirstIteration(n, u) <= Iterations(n)
  <2>1. q * u \in Nat /\ q * Team \in Nat /\ q * u <= q * Team
    BY <1>2, <1>4, ProductGrows
  <2>2. CASE u < r
    <3>1. (q + 1) * u = q * u + u
      BY <1>2, SMT
    <3> QED BY <1>2, <1>3, <2>1, <2>2, <3>1
  <2>3. CASE ~(u < r)
    BY <1>2, <1>3, <2>1, <2>3
  <2> QED BY <2>2, <2>3
<1>5. /\ FirstIteration(n, t) \in Nat /\ FirstIteration(n, t) <= Iterations(n)
      /\ FirstIteration(n, t + 1) \in Nat /\ FirstIteration(n, t + 1) <= Iterations(n)
  BY <1>4
<1>6. ASSUME t # 0, FirstIteration(n, t) < FirstIteration(n, t + 1)
      PROVE  FirstIteration(n, t) >= 1
  <2>1. CASE q = 0
    BY <1>2, <1>3, <1>6, <2>1
  <2>2. CASE q > 0
    <3>1. q * 1 <= q * t /\ q * t \in Nat
      BY <1>2, <1>6, ProductGrows
    <3>2. (q + 1) * t = q * t + t
      BY <1>2, SMT
    <3> QED BY <1>2, <1>3, <2>2, <3>1, <3>2, <1>6
  <2> QED BY <2>1, <2>2, <1>2
<1>7. Even(2 * FirstIteration(n, t) + 2)
  BY <1>5 DEF Even
<1> QED BY <1>1, <1>3, <1>5, <1>6, <1>7

(* An even number above 2 is no prime. *)
LEMMA EvenIsNoPrime ==
  ASSUME NEW k \in Nat, k >= 4, Even(k)
  PROVE  ~IsPrime(k)
<1>1. 2 \in 2 .. k - 1 /\ k % 2 = 0
  BY DEF Even
<1> QED BY <1>1 DEF IsPrime
-----------------------------------------------------------------------------
(* The initial states satisfy the invariant. *)
LEMMA InitInv == Init => IInv
<1> SUFFICES ASSUME Init PROVE IInv
  OBVIOUS
<1>1. PICK c \in Cases : input = c[1] /\ thread_count = c[2]
  BY DEF Init
<1>2. <<input, thread_count>> \in Cases
  BY <1>1, OmpAssumption, SMTT(20)
<1>3. Rest
  BY <1>2 DEF Init, Rest
<1>4. NumbersInOrder
  <2>1. kept = << >> /\ << >> \in Seq(Int) /\ Len(kept) = 0 /\ SubSeq(kept, 1, 0) = << >>
    BY DEF Init
  <2> QED BY <1>2, <2>1, TeamTypes DEF Init, NumbersInOrder
<1>5. OthersAreEven /\ LoopsInOrder /\ SumsInOrder
  BY DEF Init, OthersAreEven, LoopsInOrder, SumsInOrder, Inside
<1> QED BY <1>3, <1>4, <1>5 DEF IInv

(* What a thread's step may do: the thread stays in its block, another one *)
(* than the first at its first test, and the numbers of the sum fit.       *)
LEMMA ThreadMoves ==
  ASSUME IInv, main = "region", UNCHANGED mainVars, NEW t \in Threads,
         NEW p \in {"first", "ended"} \cup Inside, NEW x \in 2 .. LastFirst(num) + 3,
         pc' = [pc EXCEPT ![t] = p], par1' = [par1 EXCEPT ![t] = x],
         t # 0 => /\ p = "ended" \/ (p = "first" /\ x >= 4 /\ Even(x))
                  /\ par2' = par2,
         p # "ended" => x < End(num, t),
         par2' = 2 \/ par2' \in 2 .. mayor + 1,
         par3' = 2 \/ par3' \in -1 .. mayor,
         p \in {"bound", "third"} => ~Even(num),
         p \in Inside \ {"bound"} /\ Even(num) => par2' = num - x,
         p \in Inside \ {"bound"} /\ ~Even(num) => x + par2' <= num,
         cantidad_sumas' \in Nat, copy' \in [Threads -> Nat],
         crash' \in {"none", "null", "bounds", "row"}
  PROVE  IInv'
<1>1. /\ num' = num /\ Threads' = Threads /\ main' = main /\ mayor' = mayor
      /\ \A u : End(num, u)' = End(num, u)
  BY DEF mainVars, inputVars, num, signed, Threads, Team, End, FirstIteration
<1>2. LastFirst(num)' = LastFirst(num) /\ Even(num)' = Even(num)
  BY <1>1
<1>3. Threads \subseteq Nat /\ par1 \in [Threads -> Nat]
      /\ pc \in [Threads -> {"first", "ended"} \cup Inside]
  BY TeamTypes DEF IInv, Rest, LoopsInOrder
<1>4. LastFirst(num) \in Nat
  <2>1. num \in Nat
    BY SMTT(20) DEF IInv, NumbersInOrder, num, signed, Abs
  <2> QED BY <2>1 DEF LastFirst
<1>5. /\ \A u \in Threads : pc'[u] = IF u = t THEN p ELSE pc[u]
      /\ \A u \in Threads : par1'[u] = IF u = t THEN x ELSE par1[u]
  BY <1>3
<1>6. Rest'
  BY <1>1 DEF IInv, Rest, mainVars, inputVars
<1>7. NumbersInOrder'
  BY <1>1 DEF IInv, NumbersInOrder, mainVars, inputVars
<1>8. OthersAreEven'
  BY <1>1, <1>5 DEF IInv, OthersAreEven
<1>9. LoopsInOrder'
  <2>1. x \in Nat
    BY <1>4
  <2>2. par1' \in [Threads -> Nat] /\ pc' \in [Threads -> {"first", "ended"} \cup Inside]
    BY <1>3, <2>1
  <2>3. \A u \in Threads : /\ par1'[u] \in 2 .. LastFirst(num) + 3
                           /\ pc'[u] # "ended" => par1'[u] < End(num, u)
    BY <1>5 DEF IInv, LoopsInOrder
  <2> QED BY <1>1, <1>2, <2>2, <2>3 DEF LoopsInOrder
<1>10. SumsInOrder'
  <2>1. ASSUME NEW u \in Threads
        PROVE  /\ pc'[u] \in {"bound", "third"} => ~Even(num)
               /\ pc'[u] \in Inside \ {"bound"} /\ Even(num) => par2' = num - par1'[u]
               /\ pc'[u] \in Inside \ {"bound"} /\ ~Even(num) => par1'[u] + par2' <= num
    <3>1. CASE u = t
      BY <1>5, <3>1
    <3>2. CASE u # t /\ pc[u] \notin Inside
      BY <1>5, <3>2 DEF Inside
    <3>3. CASE u # t /\ pc[u] \in Inside
      <4>1. u = 0 /\ t # 0
        BY <3>3 DEF IInv, OthersAreEven, Inside
      <4> QED BY <1>5, <3>3, <4>1 DEF IInv, SumsInOrder
    <3> QED BY <3>1, <3>2, <3>3
  <2> QED BY <1>1, <2>1 DEF SumsInOrder
<1> QED BY <1>6, <1>7, <1>8, <1>9, <1>10 DEF IInv

(* Where a thread that takes a step is *)
LEMMA AtWork ==
  ASSUME IInv, NEW t \in Threads, pc[t] # "ended"
  PROVE  /\ main = "region" /\ num \in Nat /\ num > 5 /\ num <= mayor /\ mayor \in Nat
         /\ LastFirst(num) \in Nat /\ 2 * LastFirst(num) <= num
         /\ End(num, t) \in Nat /\ End(num, t) <= LastFirst(num) + 2
         /\ par1 \in [Threads -> Nat] /\ par1[t] \in 2 .. LastFirst(num) + 1
         /\ par1[t] < End(num, t)
         /\ pc \in [Threads -> {"first", "ended"} \cup Inside] /\ t \in Nat
         /\ pc[t] \in Inside => t = 0
<1>1. main = "region"
  BY DEF IInv, LoopsInOrder
<1>2. num \in Nat /\ num > 5 /\ num <= mayor /\ mayor \in Nat
  BY <1>1 DEF IInv, NumbersInOrder, num, signed, Abs
<1>3. LastFirst(num) \in Nat /\ 2 * LastFirst(num) <= num
  BY <1>2 DEF LastFirst, Even
<1>4. t \in Nat /\ Team \in Nat \ {0} /\ t < Team
  BY TeamTypes DEF IInv, Rest
<1>5. End(num, t) \in Nat /\ End(num, t) <= LastFirst(num) + 2
  BY <1>2, <1>4, Block
<1>6. /\ par1 \in [Threads -> Nat] /\ pc \in [Threads -> {"first", "ended"} \cup Inside]
      /\ par1[t] \in 2 .. LastFirst(num) + 3 /\ par1[t] < End(num, t)
  BY <1>1 DEF IInv, LoopsInOrder
<1>7. pc[t] \in Inside => t = 0
  BY DEF IInv, OthersAreEven, Inside
<1> QED BY <1>1, <1>2, <1>3, <1>4, <1>5, <1>6, <1>7

(* The end of the body, from its first test or from a sum *)
LEMMA NextFirstInv ==
  ASSUME IInv, NEW t \in Threads, pc[t] # "ended", UNCHANGED mainVars, NextFirst(t),
         t # 0 => par2' = par2,
         par2' = 2 \/ par2' \in 2 .. mayor + 1,
         par3' = 2 \/ par3' \in -1 .. mayor,
         cantidad_sumas' \in Nat, copy' \in [Threads -> Nat],
         crash' \in {"none", "null", "bounds", "row"}
  PROVE  IInv'
<1> DEFINE x == Step(par1[t])
           p == IF x < End(num, t) THEN "first" ELSE "ended"
<1>1. pc' = [pc EXCEPT ![t] = p] /\ par1' = [par1 EXCEPT ![t] = x]
  BY AtWork DEF NextFirst, Go
<1>2. x \in 2 .. LastFirst(num) + 3 /\ (p # "ended" => x < End(num, t))
  BY AtWork DEF Step
<1>3. ASSUME t # 0 PROVE x >= 4 /\ Even(x)
  <2>1. par1[t] >= 4 /\ Even(par1[t]) /\ par1[t] \in Nat
    BY <1>3, AtWork DEF IInv, OthersAreEven
  <2> QED BY <2>1 DEF Step, Even
<1>4. p \in {"first", "ended"} /\ p \notin Inside /\ p \notin {"bound", "third"}
  BY DEF Inside
<1> HIDE DEF x, p
<1> QED BY <1>1, <1>2, <1>3, <1>4, AtWork, ThreadMoves

(* After a sum, or none: the next second number, or the next first one *)
LEMMA NextSecondInv ==
  ASSUME IInv, NEW t \in Threads, pc[t] \in Inside \ {"bound"}, UNCHANGED mainVars,
         NextSecond(t), par3' = par3,
         cantidad_sumas' \in Nat, copy' \in [Threads -> Nat],
         crash' \in {"none", "null", "bounds", "row"}
  PROVE  IInv'
<1>0. pc[t] # "ended" /\ t = 0
  BY AtWork DEF Inside
<1>1. CASE Even(num)
  <2>1. NextFirst(t) /\ par2' = par2
    BY <1>1 DEF NextSecond
  <2>2. (par2' = 2 \/ par2' \in 2 .. mayor + 1) /\ (par3' = 2 \/ par3' \in -1 .. mayor)
    BY <2>1 DEF IInv, SumsInOrder
  <2> QED BY <1>0, <2>1, <2>2, NextFirstInv
<1>2. CASE ~Even(num)
  <2>1. par2' = Step(par2) /\ pc' = [pc EXCEPT ![t] = "bound"] /\ par1' = par1
    BY <1>2 DEF NextSecond, Go
  <2>2. par1[t] \in 2 .. LastFirst(num) + 3 /\ par1[t] < End(num, t)
        /\ par1' = [par1 EXCEPT ![t] = par1[t]]
    BY <1>0, <2>1, AtWork
  <2>3. par2' \in 2 .. mayor + 1
    <3>1. par1[t] + par2 <= num /\ (par2 = 2 \/ par2 \in 2 .. mayor + 1)
      BY <1>2 DEF IInv, SumsInOrder
    <3> QED BY <1>0, <2>1, <3>1, AtWork DEF Step
  <2>4. par3' = 2 \/ par3' \in -1 .. mayor
    BY DEF IInv, SumsInOrder
  <2>5. "bound" \in Inside /\ "bound" \notin Inside \ {"bound"}
    BY DEF Inside
  <2> QED BY <1>0, <1>2, <2>1, <2>2, <2>3, <2>4, <2>5, AtWork, ThreadMoves
<1> QED BY <1>1, <1>2

(* es_primo(par1): only the first thread's can be prime. *)
LEMMA TestFirstInv ==
  ASSUME IInv, NEW t \in Threads, TestFirst(t)
  PROVE  IInv'
<1>1. /\ pc[t] = "first" /\ UNCHANGED mainVars /\ crash' = crash /\ par3' = par3
      /\ cantidad_sumas' = cantidad_sumas /\ copy' = copy
  BY DEF TestFirst, At
<1>2. /\ cantidad_sumas' \in Nat /\ copy' \in [Threads -> Nat] /\ (par3' = 2 \/ par3' \in -1 .. mayor)
      /\ crash' \in {"none", "null", "bounds", "row"} /\ (par2 = 2 \/ par2 \in 2 .. mayor + 1)
  BY <1>1 DEF IInv, Rest, SumsInOrder
<1>3. CASE ~IsPrime(par1[t])
  <2>1. NextFirst(t) /\ par2' = par2
    BY <1>3 DEF TestFirst
  <2> QED BY <1>1, <1>2, <2>1, NextFirstInv
<1>4. CASE IsPrime(par1[t])
  <2> DEFINE p == IF Even(num) THEN "second" ELSE "bound"
  <2>1. /\ par2' = IF Even(num) THEN num - par1[t] ELSE par1[t]
        /\ pc' = [pc EXCEPT ![t] = p] /\ par1' = par1
    BY <1>4 DEF TestFirst, Go
  <2>2. t = 0
    <3>1. SUFFICES ASSUME t # 0 PROVE FALSE
      OBVIOUS
    <3>2. par1[t] \in Nat /\ par1[t] >= 4 /\ Even(par1[t])
      BY <1>1, <3>1, AtWork DEF IInv, OthersAreEven
    <3> QED BY <1>4, <3>2, EvenIsNoPrime
  <2>3. par1[t] \in 2 .. LastFirst(num) + 3 /\ par1[t] < End(num, t)
        /\ par1' = [par1 EXCEPT ![t] = par1[t]]
    BY <1>1, <2>1, AtWork
  <2>4. par2' \in 2 .. mayor + 1
    BY <1>1, <2>1, AtWork
  <2>5. /\ p \in {"first", "ended"} \cup Inside /\ (p \in {"bound", "third"} => ~Even(num))
        /\ p \in Inside \ {"bound"} => Even(num)
    BY DEF Inside
  <2> HIDE DEF p
  <2> QED BY <1>1, <1>2, <2>1, <2>2, <2>3, <2>4, <2>5, AtWork, ThreadMoves
<1> QED BY <1>3, <1>4

(* The condition of the inner loop *)
LEMMA TestBoundInv ==
  ASSUME IInv, NEW t \in Threads, TestBound(t)
  PROVE  IInv'
<1>1. /\ pc[t] = "bound" /\ UNCHANGED mainVars /\ crash' = crash /\ par3' = par3 /\ par2' = par2
      /\ cantidad_sumas' = cantidad_sumas /\ copy' = copy
  BY DEF TestBound, At
<1>2. /\ cantidad_sumas' \in Nat /\ copy' \in [Threads -> Nat] /\ (par3' = 2 \/ par3' \in -1 .. mayor)
      /\ crash' \in {"none", "null", "bounds", "row"} /\ (par2' = 2 \/ par2' \in 2 .. mayor + 1)
      /\ ~Even(num)
  BY <1>1 DEF IInv, Rest, SumsInOrder
<1>3. CASE par1[t] + par2 <= num
  <2>1. pc' = [pc EXCEPT ![t] = "second"] /\ par1' = par1
    BY <1>3 DEF TestBound, Go
  <2>2. /\ par1[t] \in 2 .. LastFirst(num) + 3 /\ par1[t] < End(num, t) /\ t = 0
        /\ par1' = [par1 EXCEPT ![t] = par1[t]]
    BY <1>1, <2>1, AtWork DEF Inside
  <2>3. "second" \in Inside
    BY DEF Inside
  <2> QED BY <1>1, <1>2, <1>3, <2>1, <2>2, <2>3, AtWork, ThreadMoves
<1>4. CASE ~(par1[t] + par2 <= num)
  <2>1. NextFirst(t)
    BY <1>4 DEF TestBound
  <2> QED BY <1>1, <1>2, <2>1, NextFirstInv
<1> QED BY <1>3, <1>4

(* A step that goes on to a place further in the body, with the same sum   *)
LEMMA GoesOn ==
  ASSUME IInv, NEW t \in Threads, pc[t] \in Inside \ {"bound"}, UNCHANGED mainVars,
         NEW p \in Inside \ {"bound"}, Go(t, p), par1' = par1, par2' = par2,
         p = "third" => ~Even(num),
         par3' = 2 \/ par3' \in -1 .. mayor,
         cantidad_sumas' \in Nat, copy' \in [Threads -> Nat],
         crash' \in {"none", "null", "bounds", "row"}
  PROVE  IInv'
<1>1. pc[t] # "ended" /\ t = 0
  BY AtWork DEF Inside
<1>2. /\ par1[t] \in 2 .. LastFirst(num) + 3 /\ par1[t] < End(num, t)
      /\ par1' = [par1 EXCEPT ![t] = par1[t]] /\ pc' = [pc EXCEPT ![t] = p]
  BY <1>1, AtWork DEF Go
<1>3. /\ par2' = 2 \/ par2' \in 2 .. mayor + 1
      /\ Even(num) => par2' = num - par1[t]
      /\ ~Even(num) => par1[t] + par2' <= num
  BY DEF IInv, SumsInOrder
<1> QED BY <1>1, <1>2, <1>3, AtWork, ThreadMoves

(* es_primo(par2) *)
LEMMA TestSecondInv ==
  ASSUME IInv, NEW t \in Threads, TestSecond(t)
  PROVE  IInv'
<1>1. /\ pc[t] = "second" /\ pc[t] \in Inside \ {"bound"} /\ UNCHANGED mainVars
      /\ crash' = crash /\ cantidad_sumas' = cantidad_sumas /\ copy' = copy
  BY DEF TestSecond, At, Inside
<1>2. /\ cantidad_sumas' \in Nat /\ copy' \in [Threads -> Nat]
      /\ crash' \in {"none", "null", "bounds", "row"} /\ (par3 = 2 \/ par3 \in -1 .. mayor)
  BY <1>1 DEF IInv, Rest, SumsInOrder
<1>3. CASE ~IsPrime(par2)
  <2>1. NextSecond(t) /\ par3' = par3
    BY <1>3 DEF TestSecond
  <2> QED BY <1>1, <1>2, <2>1, NextSecondInv
<1>4. CASE IsPrime(par2) /\ Even(num)
  <2>1. par3' = par3 /\ Go(t, "load") /\ par1' = par1 /\ par2' = par2
    BY <1>4 DEF TestSecond
  <2>2. "load" \in Inside \ {"bound"}
    BY DEF Inside
  <2> QED BY <1>1, <1>2, <2>1, <2>2, GoesOn
<1>5. CASE IsPrime(par2) /\ ~Even(num)
  <2>1. par3' = num - par1[t] - par2 /\ Go(t, "third") /\ par1' = par1 /\ par2' = par2
    BY <1>5 DEF TestSecond
  <2>2. "third" \in Inside \ {"bound"}
    BY DEF Inside
  <2>3. par3' \in -1 .. mayor
    <3>1. par1[t] + par2 <= num /\ (par2 = 2 \/ par2 \in 2 .. mayor + 1)
      BY <1>1, <1>5 DEF IInv, SumsInOrder
    <3> QED BY <1>1, <2>1, <3>1, AtWork
  <2> QED BY <1>1, <1>2, <1>5, <2>1, <2>2, <2>3, GoesOn
<1> QED BY <1>3, <1>4, <1>5

(* The steps from the third prime to the sum's own *)
LEMMA SumStepsInv ==
  ASSUME IInv, NEW t \in Threads, TestThird(t) \/ LoadCount(t) \/ StoreCount(t) \/ AppendSum(t)
  PROVE  IInv'
<1>1. pc[t] \in Inside \ {"bound"} /\ UNCHANGED mainVars /\ par3' = par3
  BY DEF TestThird, LoadCount, StoreCount, AppendSum, At, Inside
<1>2. /\ cantidad_sumas \in Nat /\ copy \in [Threads -> Nat] /\ (par3' = 2 \/ par3' \in -1 .. mayor)
      /\ crash \in {"none", "null", "bounds", "row"}
  BY <1>1 DEF IInv, Rest, SumsInOrder
<1>3. CASE TestThird(t)
  <2>1. /\ crash' = crash /\ cantidad_sumas' = cantidad_sumas /\ copy' = copy
        /\ NextSecond(t) \/ (Go(t, "load") /\ par1' = par1 /\ par2' = par2)
    BY <1>3 DEF TestThird
  <2>2. "load" \in Inside \ {"bound"}
    BY DEF Inside
  <2> QED BY <1>1, <1>2, <2>1, <2>2, NextSecondInv, GoesOn
<1>4. CASE LoadCount(t)
  <2>1. /\ crash' = crash /\ cantidad_sumas' = cantidad_sumas
        /\ copy' = [copy EXCEPT ![t] = cantidad_sumas]
        /\ Go(t, "store") /\ par1' = par1 /\ par2' = par2
    BY <1>4 DEF LoadCount
  <2>2. copy' \in [Threads -> Nat] /\ "store" \in Inside \ {"bound"}
    BY <1>2, <2>1 DEF Inside
  <2> QED BY <1>1, <1>2, <2>1, <2>2, GoesOn
<1>5. CASE StoreCount(t)
  <2>1. /\ crash' = crash /\ copy' = copy /\ cantidad_sumas' = copy[t] + 1
        /\ NextSecond(t) \/ (Go(t, "append") /\ par1' = par1 /\ par2' = par2)
    BY <1>5 DEF StoreCount
  <2>2. cantidad_sumas' \in Nat /\ "append" \in Inside \ {"bound"}
    BY <1>2, <2>1 DEF Inside
  <2> QED BY <1>1, <1>2, <2>1, <2>2, NextSecondInv, GoesOn
<1>6. CASE AppendSum(t)
  <2>1. cantidad_sumas' = cantidad_sumas /\ copy' = copy
    BY <1>6 DEF AppendSum
  <2>2. CASE NextSecond(t) /\ crash' = crash
    BY <1>1, <1>2, <2>1, <2>2, NextSecondInv
  <2>3. CASE crash' = "null" /\ UNCHANGED <<par1, par2, array_sumas, pc>>
    <3>1. pc[t] # "ended" /\ pc' = [pc EXCEPT ![t] = pc[t]] /\ Go(t, pc[t])
      BY <1>1, <2>3, AtWork DEF Go, Inside
    <3>2. pc[t] # "third"
      BY <1>6 DEF AppendSum, At
    <3> QED BY <1>1, <1>2, <2>1, <2>3, <3>1, <3>2, GoesOn
  <2> QED BY <1>6, <2>2, <2>3 DEF AppendSum
<1> QED BY <1>3, <1>4, <1>5, <1>6

(* What main's steps outside the region leave alone *)
LEMMA MainMoves ==
  ASSUME IInv, main # "region", main' # "region", UNCHANGED <<input, thread_count, regionVars>>,
         Rest', NumbersInOrder', mayor' >= mayor
  PROVE  IInv'
<1>1. \A t \in Threads : pc[t] = "ended"
  BY DEF IInv, LoopsInOrder
<1>2. /\ Threads' = Threads /\ pc' = pc /\ par1' = par1 /\ par2' = par2 /\ par3' = par3
  BY DEF regionVars, Threads, Team
<1>3. mayor \in Nat /\ mayor' \in Nat
  BY DEF IInv, NumbersInOrder
<1>4. OthersAreEven' /\ LoopsInOrder'
  BY <1>1, <1>2 DEF IInv, OthersAreEven, LoopsInOrder
<1>5. SumsInOrder'
  BY <1>1, <1>2, <1>3 DEF IInv, SumsInOrder, Inside
<1> QED BY <1>4, <1>5 DEF IInv

(* The steps of main that neither read a number nor take one *)
LEMMA MainAloneInv ==
  ASSUME IInv, Analyze \/ EndOfInput \/ NoMoreNumbers \/ PrintRows
  PROVE  IInv'
<1>1. /\ UNCHANGED <<input, thread_count, total_num, mayor, kept, id_num, cola_entrada, regionVars>>
      /\ main \notin {"fork", "region"} /\ main' \notin {"fork", "region"}
      /\ main' \in {"arguments", "read"} => main \in {"arguments", "read"}
      /\ main' \in {"arguments", "read", "take", "print", "exit"}
      /\ matrix' \in BOOLEAN /\ crash' \in {"none", "null", "bounds", "row"}
  BY DEF IInv, Rest, Analyze, EndOfInput, NoMoreNumbers, PrintRows, MainAt, inputVars
<1>2. cantidad_sumas' = cantidad_sumas /\ copy' = copy /\ Threads' = Threads
  BY <1>1 DEF regionVars, Threads, Team
<1>3. Rest'
  BY <1>1, <1>2 DEF IInv, Rest
<1>4. NumbersInOrder'
  BY <1>1 DEF IInv, NumbersInOrder
<1>5. mayor' >= mayor
  BY <1>1 DEF IInv, NumbersInOrder
<1> QED BY <1>1, <1>3, <1>4, <1>5, MainMoves

(* A number is read. *)
LEMMA ReadInv == ASSUME IInv, ReadNumber PROVE IInv'
<1> DEFINE n == input[total_num + 1]
<1>1. /\ main = "read" /\ UNCHANGED <<input, thread_count, main, id_num, matrix, regionVars, crash>>
      /\ total_num < Len(input) /\ total_num' = total_num + 1 /\ id_num = 0
      /\ mayor' = IF Abs(n) > mayor THEN Abs(n) ELSE mayor
      /\ \/ kept' = Append(kept, n) /\ cola_entrada' = Append(cola_entrada, n)
         \/ UNCHANGED <<kept, cola_entrada>>
  BY DEF IInv, NumbersInOrder, ReadNumber, MainAt
<1>2. /\ input \in Seq(Int) /\ Len(input) \in Nat /\ total_num \in Nat /\ mayor \in Nat
      /\ kept \in Seq(Int) /\ Len(kept) \in Nat /\ Len(kept) <= total_num
      /\ cola_entrada = SubSeq(kept, 1, Len(kept))
      /\ \A i \in 1 .. Len(kept) : Abs(kept[i]) <= mayor
  BY <1>1, TeamTypes, LenProperties DEF IInv, Rest, NumbersInOrder
<1>3. n \in Int /\ Abs(n) \in Nat
  BY <1>1, <1>2, ElementOfSeq DEF Abs
<1> HIDE DEF n
<1>4. mayor' \in Nat /\ mayor' >= mayor /\ Abs(n) <= mayor'
  BY <1>1, <1>2, <1>3
<1>5. /\ kept' \in Seq(Int) /\ Len(kept') \in Nat /\ Len(kept') <= total_num'
      /\ cola_entrada' = SubSeq(kept', 1, Len(kept'))
      /\ \A i \in 1 .. Len(kept') : Abs(kept'[i]) <= mayor'
  <2>1. \A i \in 1 .. Len(kept) : Abs(kept[i]) <= mayor'
    <3> SUFFICES ASSUME NEW i \in 1 .. Len(kept) PROVE Abs(kept[i]) <= mayor'
      OBVIOUS
    <3>1. kept[i] \in Int /\ Abs(kept[i]) \in Nat /\ Abs(kept[i]) <= mayor
      BY <1>2, ElementOfSeq DEF Abs
    <3> QED BY <1>2, <1>4, <3>1
  <2>2. CASE UNCHANGED <<kept, cola_entrada>>
    BY <1>1, <1>2, <2>1, <2>2
  <2>3. CASE kept' = Append(kept, n) /\ cola_entrada' = Append(cola_entrada, n)
    <3>1. /\ kept' \in Seq(Int) /\ Len(kept') = Len(kept) + 1 /\ kept'[Len(kept) + 1] = n
          /\ \A i \in 1 .. Len(kept) : kept'[i] = kept[i]
      BY <1>2, <1>3, <2>3, AppendProperties
    <3>2. SubSeq(kept, 1, Len(kept)) = kept /\ SubSeq(kept', 1, Len(kept')) = kept'
      BY <1>2, <3>1, SubSeqFull
    <3>3. cola_entrada' = kept'
      BY <1>2, <2>3, <3>2
    <3>4. \A i \in 1 .. Len(kept') : Abs(kept'[i]) <= mayor'
      <4> SUFFICES ASSUME NEW i \in 1 .. Len(kept') PROVE Abs(kept'[i]) <= mayor'
        OBVIOUS
      <4>1. i \in 1 .. Len(kept) \/ i = Len(kept) + 1
        BY <1>2, <3>1
      <4>2. CASE i \in 1 .. Len(kept)
        BY <2>1, <3>1, <4>2
      <4>3. CASE i = Len(kept) + 1
        BY <1>4, <3>1, <4>3
      <4> QED BY <4>1, <4>2, <4>3
    <3>5. Len(kept') \in Nat /\ Len(kept') <= total_num'
      BY <1>1, <1>2, <3>1
    <3> QED BY <3>1, <3>2, <3>3, <3>4, <3>5
  <2> QED BY <1>1, <2>2, <2>3
<1>6. NumbersInOrder'
  BY <1>1, <1>2, <1>4, <1>5 DEF NumbersInOrder
<1>7. Rest'
  BY <1>1 DEF IInv, Rest, regionVars, Threads, Team
<1> QED BY <1>1, <1>4, <1>6, <1>7, MainMoves

(* The next number is taken from the queue: it is in the order of kept. *)
LEMMA TakeInv == ASSUME IInv, TakeNumber PROVE IInv'
<1>1. /\ main = "take" /\ UNCHANGED <<inputVars, regionVars>>
      /\ cola_entrada # << >> /\ cola_entrada' = Tail(cola_entrada) /\ id_num' = id_num + 1
      /\ main' = "take" \/ (main' = "fork" /\ Abs(Head(cola_entrada)) > 5)
      /\ crash' \in {"none", "null"}
  BY DEF TakeNumber, MainAt
<1>2. /\ kept \in Seq(Int) /\ Len(kept) \in Nat /\ id_num \in 0 .. Len(kept)
      /\ cola_entrada = SubSeq(kept, id_num + 1, Len(kept))
  BY LenProperties DEF IInv, NumbersInOrder
<1>3. id_num < Len(kept)
  <2>1. SUFFICES ASSUME id_num = Len(kept) PROVE FALSE
    BY <1>2
  <2>2. SubSeq(kept, id_num + 1, Len(kept)) = << >>
    BY <1>2, <2>1, SubSeqEmpty
  <2> QED BY <1>1, <1>2, <2>2
<1>4. /\ Head(cola_entrada) = kept[id_num + 1]
      /\ Tail(cola_entrada) = SubSeq(kept, id_num + 2, Len(kept))
  BY <1>2, <1>3, HeadTailOfSubSeq
<1>5. /\ kept' = kept /\ input' = input /\ thread_count' = thread_count /\ mayor' = mayor
      /\ total_num' = total_num /\ matrix' = matrix
      /\ cantidad_sumas' = cantidad_sumas /\ copy' = copy /\ Threads' = Threads
  BY <1>1 DEF inputVars, regionVars, Threads, Team
<1>6. num' = Abs(kept[id_num + 1])
  BY <1>1, <1>5 DEF num, signed
<1>7. NumbersInOrder'
  <2>1. id_num' \in 0 .. Len(kept) /\ id_num' > 0
    BY <1>1, <1>2, <1>3
  <2>2. cola_entrada' = SubSeq(kept, id_num' + 1, Len(kept))
    <3>1. id_num' + 1 = id_num + 2
      BY <1>1, <1>2
    <3> QED BY <1>1, <1>4, <3>1
  <2>3. main' = "fork" => num' > 5
    BY <1>1, <1>4, <1>6
  <2> QED BY <1>1, <1>5, <2>1, <2>2, <2>3 DEF IInv, NumbersInOrder
<1>8. Rest'
  BY <1>1, <1>5 DEF IInv, Rest
<1>9. mayor' >= mayor
  BY <1>5 DEF IInv, NumbersInOrder
<1> QED BY <1>1, <1>5, <1>7, <1>8, <1>9, MainMoves

(* The team starts: each thread at the first value of its block. *)
LEMMA ForkInv == ASSUME IInv, Fork PROVE IInv'
<1>1. /\ main = "fork" /\ UNCHANGED <<inputVars, id_num, cola_entrada>> /\ num' = num
      /\ crash' \in {"null", "none"}
  BY DEF Fork, MainAt, num, signed, inputVars
<1>2. /\ Threads' = Threads /\ Team' = Team /\ mayor' = mayor
      /\ \A t : Start(num, t)' = Start(num, t) /\ End(num, t)' = End(num, t)
  BY <1>1 DEF inputVars, Threads, Team, Start, End, FirstIteration
<1>3. /\ num \in Nat /\ num > 5 /\ Team \in Nat \ {0} /\ Threads \subseteq Nat
      /\ \A t \in Threads : t < Team
      /\ \A t \in Threads : pc[t] = "ended"
  <2>1. Team \in Nat \ {0} /\ Threads \subseteq Nat /\ \A t \in Threads : t < Team
    BY TeamTypes DEF IInv, Rest
  <2>2. num > 5 /\ kept \in Seq(Int) /\ id_num \in 1 .. Len(kept)
    BY <1>1 DEF IInv, NumbersInOrder
  <2>3. kept[id_num] \in Int
    BY <2>2, ElementOfSeq
  <2>4. num \in Nat
    BY <2>3 DEF num, signed, Abs
  <2> QED BY <1>1, <2>1, <2>2, <2>4 DEF IInv, LoopsInOrder
<1>4. CASE main' = "fork" /\ UNCHANGED regionVars
  <2>1. Rest'
    BY <1>1, <1>2, <1>4 DEF IInv, Rest, inputVars, regionVars
  <2>2. NumbersInOrder'
    BY <1>1, <1>4 DEF IInv, NumbersInOrder, inputVars
  <2>3. mayor' >= mayor
    BY <1>2 DEF IInv, NumbersInOrder
  <2> QED BY <1>1, <1>4, <2>1, <2>2, <2>3, MainMoves DEF inputVars
<1>5. CASE /\ main' = "region" /\ cantidad_sumas' = 0 /\ par2' = par2 /\ par3' = par3 /\ copy' = copy
           /\ par1' = [t \in Threads |-> Start(num, t)]
           /\ pc' = [t \in Threads |-> IF Start(num, t) < End(num, t) THEN "first" ELSE "ended"]
  <2>1. \A t \in Threads :
          /\ Start(num, t) \in 2 .. LastFirst(num) + 2 /\ Even(Start(num, t))
          /\ t # 0 /\ Start(num, t) < End(num, t) => Start(num, t) >= 4
    BY <1>3, Block
  <2>2. LastFirst(num) \in Nat
    BY <1>3 DEF LastFirst
  <2>3. /\ par1' \in [Threads -> Nat] /\ pc' \in [Threads -> {"first", "ended"} \cup Inside]
        /\ \A t \in Threads : /\ par1'[t] = Start(num, t) /\ pc'[t] \in {"first", "ended"}
                              /\ pc'[t] = "first" => Start(num, t) < End(num, t)
    BY <1>5, <2>1, <2>2
  <2>4. Rest'
    BY <1>1, <1>2, <1>5 DEF IInv, Rest, inputVars
  <2>5. NumbersInOrder'
    BY <1>1, <1>5 DEF IInv, NumbersInOrder, inputVars
  <2>6. OthersAreEven'
    BY <1>2, <2>1, <2>3 DEF OthersAreEven
  <2>7. LoopsInOrder'
    <3>1. \A t \in Threads : /\ par1'[t] \in 2 .. LastFirst(num) + 3
                             /\ pc'[t] # "ended" => par1'[t] < End(num, t)
      BY <2>1, <2>2, <2>3
    <3> QED BY <1>1, <1>2, <1>5, <2>3, <3>1 DEF LoopsInOrder
  <2>8. SumsInOrder'
    BY <1>2, <1>5, <2>3 DEF IInv, SumsInOrder, Inside
  <2> QED BY <2>4, <2>5, <2>6, <2>7, <2>8 DEF IInv
<1> QED BY <1>1, <1>4, <1>5 DEF Fork

(* The team ends, and the row is written or not. *)
LEMMA JoinInv == ASSUME IInv, JoinAndPrint PROVE IInv'
<1>1. /\ main = "region" /\ \A t \in Threads : pc[t] = "ended"
      /\ UNCHANGED <<inputVars, id_num, cola_entrada, regionVars>>
      /\ \/ main' = "take" /\ crash' = crash
         \/ main' = main /\ crash' \in {"null", "row"}
  BY DEF JoinAndPrint, MainAt
<1>2. /\ Threads' = Threads /\ num' = num /\ mayor' = mayor /\ kept' = kept
      /\ par1' = par1 /\ par2' = par2 /\ par3' = par3 /\ pc' = pc
      /\ \A t : End(num, t)' = End(num, t)
  BY <1>1 DEF inputVars, regionVars, Threads, Team, num, signed, End, FirstIteration
<1>3. Rest'
  BY <1>1, <1>2 DEF IInv, Rest, inputVars, regionVars
<1>4. NumbersInOrder'
  BY <1>1, <1>2 DEF IInv, NumbersInOrder, inputVars
<1>5. OthersAreEven' /\ LoopsInOrder' /\ SumsInOrder'
  BY <1>1, <1>2 DEF IInv, OthersAreEven, LoopsInOrder, SumsInOrder
<1> QED BY <1>3, <1>4, <1>5 DEF IInv

(* Every step keeps the invariant. *)
LEMMA NextInv == IInv /\ [Next]_vars => IInv'
<1> SUFFICES ASSUME IInv, [Next]_vars PROVE IInv'
  OBVIOUS
<1>1. CASE MainStep
  BY <1>1, MainAloneInv, ReadInv, TakeInv, ForkInv, JoinInv DEF MainStep
<1>2. ASSUME NEW t \in Threads, ThreadStep(t) PROVE IInv'
  BY <1>2, TestFirstInv, TestBoundInv, TestSecondInv, SumStepsInv DEF ThreadStep
<1>3. CASE UNCHANGED vars
  <2>1. /\ Threads' = Threads /\ num' = num /\ \A t : End(num, t)' = End(num, t)
    BY <1>3 DEF vars, mainVars, inputVars, Threads, Team, num, signed, End, FirstIteration
  <2>2. Rest' /\ NumbersInOrder'
    BY <1>3, <2>1 DEF IInv, Rest, NumbersInOrder, vars, mainVars, inputVars, regionVars
  <2>3. OthersAreEven' /\ LoopsInOrder' /\ SumsInOrder'
    BY <1>3, <2>1 DEF IInv, OthersAreEven, LoopsInOrder, SumsInOrder, vars, mainVars, inputVars,
                      regionVars
  <2> QED BY <2>2, <2>3 DEF IInv
<1> QED BY <1>1, <1>2, <1>3 DEF Next, Over

(* The invariant holds in every state. *)
LEMMA Invariance == Spec => []IInv
BY InitInv, NextInv, PTL DEF Spec

(* The state of goldbach_omp keeps its types for every input and team: the *)
(* first numbers stay within the loop and the second and third ones within *)
(* the number.                                                             *)
THEOREM TypeCorrect == Spec => []TypeOK
<1>1. IInv => TypeOK
  <2> SUFFICES ASSUME IInv PROVE TypeOK
    OBVIOUS
  <2>1. Rest /\ NumbersInOrder /\ LoopsInOrder /\ SumsInOrder
    BY DEF IInv
  <2>2. kept \in Seq(Int) /\ Len(kept) \in Nat /\ Len(input) \in Nat
    BY <2>1, TeamTypes, LenProperties DEF Rest, NumbersInOrder
  <2>3. id_num \in 0 .. total_num
    BY <2>1, <2>2 DEF NumbersInOrder
  <2>4. DOMAIN par1 = Threads /\ DOMAIN pc = Threads
    BY <2>1 DEF LoopsInOrder
  <2>5. ASSUME main = "region"
        PROVE  /\ \A t \in Threads :
                    /\ par1[t] \in 2 .. LastFirst(num) + 3
                    /\ pc[t] \in {"first", "bound", "second", "third", "load", "store", "append",
                                  "ended"}
               /\ par2 \in 2 .. mayor + 1 /\ par3 \in -1 .. mayor
    <3>1. num \in Nat /\ num > 5 /\ num <= mayor /\ mayor \in Nat
      BY <2>1, <2>2, <2>5 DEF NumbersInOrder, num, signed, Abs
    <3>2. par2 \in 2 .. mayor + 1 /\ par3 \in -1 .. mayor
      BY <2>1, <3>1 DEF SumsInOrder
    <3> QED BY <2>1, <2>5, <3>2 DEF LoopsInOrder, Inside
  <2> QED BY <2>1, <2>3, <2>4, <2>5 DEF TypeOK, Rest, NumbersInOrder
<1> QED BY <1>1, Invariance, PTL

(* No two threads of any team are ever inside the part of the body that    *)
(* works on the shared variables, although nothing keeps them out.         *)
THEOREM NobodyElseInside == Spec => []SharedByOne
<1>1. IInv => SharedByOne
  BY DEF IInv, OthersAreEven, SharedByOne
<1> QED BY <1>1, Invariance, PTL
-----------------------------------------------------------------------------
(* 2 and the odd numbers, where the loops stop *)
Stop(p)  == p = 2 \/ (p > 2 /\ ~Even(p))
Arity(n) == IF Even(n) THEN 2 ELSE 3

(* The sums of S before a first prime, and before a first and a second; *)
(* where the loops are with a and b, and where they go on                  *)
Below(S, a)          == {x \in S : x[1] < a}
BelowSecond(S, a, b) == {x \in S : x[1] < a \/ (x[1] = a /\ x[2] < b)}
Reached(n, S, a, b)  == IF Even(n) THEN Below(S, a) ELSE BelowSecond(S, a, b)
Passed(n, S, a, b)   == IF Even(n) THEN Below(S, Step(a)) ELSE BelowSecond(S, a, Step(b))

(* The sums that the array holds, one after the other                      *)
SumsIn(array, k, count) == [j \in 1 .. count |-> [m \in 1 .. k |-> array[k * (j - 1) + m]]]

(* What was counted and listed are the sums of S, in order                 *)
ListTypes(s) == s.shown \in BOOLEAN /\ s.count \in Nat /\ s.array \in Seq(Int)
Listed(n, s, S) ==
  /\ IsFiniteSet(S) /\ s.count = Cardinality(S)
  /\ ~s.shown => s.array = << >>
  /\ s.shown => /\ Len(s.array) = Arity(n) * s.count
                /\ Lists(SumsIn(s.array, Arity(n), s.count), S)

(* What was found before the sum that is counted and not yet listed        *)
BeforeLast(s) == [s EXCEPT !.count = @ - 1]

(* A thread at a place of the loops for n, with three numbers a, b and c   *)
(* and the count it has read, has found the sums of S before that place.   *)
LoopFinds(n, S, at, a, b, c, read, s) ==
  /\ at = "first" => Stop(a) /\ Listed(n, s, Below(S, a))
  /\ at = "ended" => Listed(n, s, S)
  /\ at \in Inside =>
       /\ Stop(a) /\ IsPrime(a)
       /\ ~Even(n) => Stop(b) /\ b >= a
       /\ at \in {"third", "load", "store", "append"} => IsPrime(b) /\ (~Even(n) => c = n - a - b)
       /\ at \in {"load", "store", "append"} /\ ~Even(n) => c >= b /\ IsPrime(c)
       /\ at = "store" => read = s.count
       /\ at = "append" => s.shown
       /\ Listed(n, IF at = "append" THEN BeforeLast(s) ELSE s, Reached(n, S, a, b))

(* What the team has found, by the first thread                            *)
Found == [shown |-> mostrar_sumas, count |-> cantidad_sumas, array |-> array_sumas]
LoopsFind == LoopFinds(num, FirstBlock(num), pc[0], par1[0], par2, par3, copy[0], Found)

(* The row in work has its number; the others are as they were left.       *)
RowsInOrder ==
  /\ main \in {"take", "fork", "region"} => DOMAIN rows = 1 .. total_num
  /\ main \in {"fork", "region"} => rows[id_num] = <<NumberPiece(signed)>>
  /\ FindsFirstBlock

FindInv == array_sumas \in Seq(Int) /\ (main = "region" => LoopsFind) /\ RowsInOrder
-----------------------------------------------------------------------------
(* Primes: 2, and no other even number                                     *)
LEMMA PrimesAre ==
  /\ IsPrime(2) /\ \A k \in Int : k <= 1 => ~IsPrime(k)
  /\ \A k \in Int : k > 2 /\ Even(k) => ~IsPrime(k)
<1>1. IsPrime(2)
  BY DEF IsPrime
<1>2. ASSUME NEW k \in Int, k > 2, Even(k) PROVE ~IsPrime(k)
  <2>1. 2 \in 2 .. k - 1 /\ k % 2 = 0
    BY <1>2 DEF Even
  <2> QED BY <2>1 DEF IsPrime
<1> QED BY <1>1, <1>2 DEF IsPrime
(* One more sum is counted and, if the sums are shown, listed.             *)
LEMMA AddSum ==
  ASSUME NEW n \in Nat, NEW s, ListTypes(s), NEW S, Listed(n, s, S),
         NEW x \in Seq(Int), Len(x) = Arity(n), x \notin S, \A y \in S : Before(y, x),
         NEW r, r.count = s.count + 1, r.shown = s.shown,
         r.array = IF s.shown THEN s.array \o x ELSE s.array
  PROVE  r.array \in Seq(Int) /\ Listed(n, r, S \cup {x})
<1>1. PICK k \in {2, 3} : k = Arity(n)
  BY DEF Arity
<1>2. /\ x \in Seq(Int) /\ Len(x) = k /\ DOMAIN x = 1 .. k
      /\ s.array \in Seq(Int) /\ s.count \in Nat /\ s.shown \in BOOLEAN
  BY <1>1 DEF ListTypes
<1>3. /\ r.count = s.count + 1 /\ r.shown = s.shown
      /\ r.array = IF s.shown THEN s.array \o x ELSE s.array
  OBVIOUS
<1>4. /\ s.array \o x \in Seq(Int) /\ Len(s.array \o x) = Len(s.array) + k
      /\ \A i \in 1 .. Len(s.array) : (s.array \o x)[i] = s.array[i]
      /\ \A i \in 1 .. k : (s.array \o x)[Len(s.array) + i] = x[i]
  <2>1. PICK a \in Seq(Int) : a = s.array
    BY <1>2
  <2>2. /\ a \o x \in Seq(Int) /\ Len(a \o x) = Len(a) + k
        /\ \A i \in 1 .. Len(a) : (a \o x)[i] = a[i]
        /\ \A i \in 1 .. k : (a \o x)[Len(a) + i] = x[i]
    <3>1. PICK b \in Seq(Int) : b = x /\ Len(b) = k /\ k \in Nat
      BY <1>1, <1>2
    <3>2. PICK c : c = a \o b
      OBVIOUS
    <3>3. /\ c \in Seq(Int) /\ Len(c) = Len(a) + k
          /\ \A i \in 1 .. Len(a) + k : c[i] = IF i <= Len(a) THEN a[i] ELSE b[i - Len(a)]
      BY <2>1, <3>1, <3>2, ConcatProperties
    <3>4. Len(a) \in Nat
      BY LenProperties
    <3> QED BY <3>1, <3>2, <3>3, <3>4
  <2> QED BY <2>1, <2>2
<1>5. r.array \in Seq(Int)
  BY <1>2, <1>3, <1>4
<1>6. IsFiniteSet(S \cup {x}) /\ Cardinality(S \cup {x}) = s.count + 1
  BY FS_AddElement DEF Listed
<1>7. ASSUME s.shown
      PROVE  /\ Len(r.array) = k * (s.count + 1)
             /\ Lists(SumsIn(r.array, k, s.count + 1), S \cup {x})
  <2> DEFINE l == SumsIn(s.array, k, s.count)
             m == SumsIn(r.array, k, s.count + 1)
  <2>1. PICK a \in Seq(Int), b \in Seq(Int), c \in Nat : a = s.array /\ b = r.array /\ c = s.count
    BY <1>2, <1>3, <1>4, <1>7
  <2>2. /\ Len(a) = k * c /\ Len(b) = k * (c + 1)
        /\ \A i \in 1 .. k * c : b[i] = a[i]
        /\ \A i \in 1 .. k : b[k * c + i] = x[i]
    <3>1. Len(a) = k * c
      BY <1>1, <1>7, <2>1 DEF Listed
    <3>2. Len(b) = Len(a) + k /\ (\A i \in 1 .. Len(a) : b[i] = a[i])
          /\ \A i \in 1 .. k : b[Len(a) + i] = x[i]
      BY <1>3, <1>4, <1>7, <2>1
    <3>3. k * c + k = k * (c + 1)
      OBVIOUS
    <3> QED BY <3>1, <3>2, <3>3
  <2>3. ASSUME NEW j \in 1 .. c PROVE m[j] = l[j]
    <3>1. ASSUME NEW i \in 1 .. k PROVE b[k * (j - 1) + i] = a[k * (j - 1) + i]
      <4>1. k * (j - 1) + i \in 1 .. k * c
        <5>1. CASE k = 2
          BY <5>1
        <5>2. CASE k = 3
          BY <5>2
        <5> QED BY <5>1, <5>2
      <4> QED BY <2>2, <4>1
    <3>2. j \in 1 .. c + 1
      OBVIOUS
    <3>3. m[j] = [i \in 1 .. k |-> b[k * (j - 1) + i]]
      BY <2>1, <3>2 DEF SumsIn
    <3>4. l[j] = [i \in 1 .. k |-> a[k * (j - 1) + i]]
      BY <2>1 DEF SumsIn
    <3> QED BY <3>1, <3>3, <3>4, Zenon
  <2>4. m[c + 1] = x
    <3>1. c + 1 \in 1 .. c + 1
      OBVIOUS
    <3>2. m[c + 1] = [i \in 1 .. k |-> b[k * ((c + 1) - 1) + i]]
      BY <2>1, <3>1 DEF SumsIn
    <3>3. \A i \in 1 .. k : b[k * ((c + 1) - 1) + i] = x[i]
      <4>1. (c + 1) - 1 = c
        OBVIOUS
      <4> QED BY <2>2, <4>1
    <3>4. x = [i \in 1 .. k |-> x[i]]
      BY <1>2
    <3> QED BY <3>2, <3>3, <3>4
  <2>5. DOMAIN l = 1 .. c /\ DOMAIN m = 1 .. c + 1
    BY <2>1 DEF SumsIn
  <2>6. Lists(l, S)
    BY <1>1, <1>7 DEF Listed
  <2> HIDE DEF l, m
  <2>7. {m[j] : j \in DOMAIN m} = S \cup {x}
    <3>1. 1 .. c + 1 = (1 .. c) \cup {c + 1}
      OBVIOUS
    <3>2. {l[j] : j \in 1 .. c} = S
      BY <2>5, <2>6 DEF Lists
    <3>3. ASSUME NEW y \in S \cup {x} PROVE \E j \in 1 .. c + 1 : m[j] = y
      <4>1. c + 1 \in 1 .. c + 1
        OBVIOUS
      <4>2. y \in S => \E j \in 1 .. c : m[j] = y
        BY <2>3, <3>2
      <4> QED BY <2>4, <3>1, <4>1, <4>2
    <3>4. ASSUME NEW j \in 1 .. c + 1 PROVE m[j] \in S \cup {x}
      BY <2>3, <2>4, <3>1, <3>2
    <3>5. PICK D : D = DOMAIN m /\ D = 1 .. c + 1
      BY <2>5
    <3>6. ASSUME NEW y PROVE y \in {m[j] : j \in D} <=> y \in S \cup {x}
      <4>1. y \in {m[j] : j \in D} => y \in S \cup {x}
        BY <3>4, <3>5, Zenon
      <4>2. y \in S \cup {x} => y \in {m[j] : j \in D}
        BY <3>3, <3>5, Zenon
      <4> QED BY <4>1, <4>2, Zenon
    <3>7. {m[j] : j \in D} = S \cup {x}
      BY <3>6, Zenon
    <3> QED BY <3>5, <3>7, Zenon
  <2>8. ASSUME NEW j \in 1 .. c + 1, j > 1 PROVE Before(m[j - 1], m[j])
    <3>1. CASE j = c + 1
      <4>1. j - 1 = c /\ c \in 1 .. c
        BY <2>8, <3>1
      <4>2. l[c] \in S
        BY <2>5, <2>6, <4>1 DEF Lists
      <4> QED BY <2>3, <2>4, <3>1, <4>1, <4>2
    <3>2. CASE j # c + 1
      <4>1. j - 1 \in 1 .. c /\ j \in 1 .. c
        BY <2>8, <3>2
      <4>2. Before(l[j - 1], l[j])
        BY <2>5, <2>6, <2>8, <4>1 DEF Lists
      <4> QED BY <2>3, <4>1, <4>2
    <3> QED BY <3>1, <3>2
  <2>9. Lists(m, S \cup {x})
    BY <2>5, <2>7, <2>8 DEF Lists
  <2> QED BY <2>1, <2>2, <2>9 DEF m
<1>8. ~s.shown => r.array = << >>
  BY <1>3 DEF Listed
<1>9. Listed(n, r, S \cup {x})
  BY <1>1, <1>2, <1>3, <1>6, <1>7, <1>8 DEF Listed
<1> QED BY <1>5, <1>9

(* The piece at a place p of a group of k primes, of which q is its prime, *)
(* and what IsRow expects of it, which has that place modulo k + 1         *)
PieceAt(k, p, q) ==
  IF p > k THEN <<",">>
           ELSE <<IF p = 1 THEN " " ELSE "", q, IF p = k THEN "" ELSE " + ">>
IsPieceAt(k, o, g) ==
  CASE o = 0 -> g = <<",">>
    [] o = 1 -> g[1] = " " /\ g[3] = " + "
    [] o = k -> g[1] = "" /\ g[3] = ""
    [] OTHER -> g[1] = "" /\ g[3] = " + "

(* imprimir_resultado's piece is the one IsRow expects.                    *)
LEMMA PieceIs ==
  ASSUME NEW k \in {2, 3}, NEW p \in 1 .. k + 1, NEW o, o = IF p = k + 1 THEN 0 ELSE p, NEW q, NEW g
  PROVE  g = PieceAt(k, p, q) => IsPieceAt(k, o, g)
<1>1. \/ p > k /\ o = 0 /\ o # 1 /\ o # k
      \/ ~(p > k) /\ p = 1 /\ p # k /\ o = 1 /\ o # 0 /\ o # k
      \/ ~(p > k) /\ p # 1 /\ p = k /\ o = k /\ o # 0 /\ o # 1
      \/ ~(p > k) /\ p # 1 /\ p # k /\ o # k /\ o # 0 /\ o # 1
  OBVIOUS
<1>2. \A h, a, b : h = <<a, q, b>> => h[1] = a /\ h[3] = b
  OBVIOUS
<1>3. ASSUME g = PieceAt(k, p, q) PROVE IsPieceAt(k, o, g)
  <2>1. o = 0 => g = <<",">>
    BY <1>1, <1>3, Zenon DEF PieceAt
  <2>2. o = 1 => g[1] = " " /\ g[3] = " + "
    <3>1. o = 1 => g = <<" ", q, " + ">>
      BY <1>1, <1>3, Zenon DEF PieceAt
    <3> QED BY <1>2, <3>1, Zenon
  <2>3. o = k => g[1] = "" /\ g[3] = ""
    <3>1. o = k => g = <<"", q, "">>
      BY <1>1, <1>3, Zenon DEF PieceAt
    <3> QED BY <1>2, <3>1, Zenon
  <2>4. o # 0 /\ o # 1 /\ o # k => g[1] = "" /\ g[3] = " + "
    <3>1. o # 0 /\ o # 1 /\ o # k => g = <<"", q, " + ">>
      BY <1>1, <1>3, Zenon DEF PieceAt
    <3> QED BY <1>2, <3>1, Zenon
  <2> QED BY <2>1, <2>2, <2>3, <2>4, Zenon DEF IsPieceAt
<1> QED BY <1>3, Zenon

(* The pieces imprimir_resultado makes of an array with c sums of k primes *)
WellGrouped(g, k, c, array) ==
  LET len == (k + 1) * c - 1 IN
  /\ g \in Seq({g[i] : i \in 1 .. len}) /\ Len(g) = len
  /\ \A i \in 1 .. len : IsPieceAt(k, i % (k + 1), g[i])
  /\ \A j \in 1 .. c, m \in 1 .. k :
       /\ (j - 1) * (k + 1) + m \in 1 .. len
       /\ g[(j - 1) * (k + 1) + m][2] = array[k * (j - 1) + m]

(* Regrouping the flat array gives each sum its pieces.                    *)
LEMMA GroupsAre ==
  ASSUME NEW n \in Nat, NEW k \in {2, 3}, Even(n) <=> k = 2, NEW c \in Nat \ {0},
         NEW array \in Seq(Int), Len(array) = k * c
  PROVE  WellGrouped(Groups(Even(n), array), k, c, array)
<1> DEFINE Place(i) == ((i - 1) % (k + 1)) + 1
           Prime(i) == array[k * ((i - 1) \div (k + 1)) + Place(i)]
           Group(i) == PieceAt(k, Place(i), Prime(i))
           I == 1 .. (k + 1) * c - 1
<1>1. (k + 1) * c - 1 \in Nat
  <2>1. CASE k = 2
    BY <2>1
  <2>2. CASE k = 3
    BY <2>2
  <2> QED BY <2>1, <2>2
<1>2. Groups(Even(n), array) = [i \in I |-> Group(i)]
  <2>1. array # << >> /\ k * c > 0 /\ (k * c) \div k = c
    <3>1. CASE k = 2
      BY <3>1
    <3>2. CASE k = 3
      BY <3>2
    <3> QED BY <3>1, <3>2
  <2>2. k = IF Even(n) THEN 2 ELSE 3
    OBVIOUS
  <2> QED BY <2>1, <2>2 DEF Groups, PieceAt
<1>3. ASSUME NEW i \in I
      PROVE  /\ Place(i) \in 1 .. k + 1
             /\ i % (k + 1) = IF Place(i) = k + 1 THEN 0 ELSE Place(i)
             /\ Place(i) <= k => k * ((i - 1) \div (k + 1)) + Place(i) \in 1 .. k * c
  <2>1. CASE k = 2
    BY <2>1
  <2>2. CASE k = 3
    BY <2>2
  <2> QED BY <2>1, <2>2
<1>4. ASSUME NEW j \in 1 .. c, NEW m \in 1 .. k
      PROVE  LET i == (j - 1) * (k + 1) + m IN
             i \in I /\ Place(i) = m /\ k * ((i - 1) \div (k + 1)) + Place(i) = k * (j - 1) + m
  <2>1. CASE k = 2
    BY <2>1
  <2>2. CASE k = 3
    BY <2>2
  <2> QED BY <2>1, <2>2
<1>5. /\ Groups(Even(n), array) \in Seq({Groups(Even(n), array)[i] : i \in I})
      /\ Len(Groups(Even(n), array)) = (k + 1) * c - 1
  <2>1. PICK len \in Nat : len = (k + 1) * c - 1
    BY <1>1
  <2>2. PICK g : g = Groups(Even(n), array)
    OBVIOUS
  <2>3. g = [i \in 1 .. len |-> g[i]]
    <3> HIDE DEF Group
    <3> QED BY <1>2, <2>1, <2>2
  <2>4. g \in Seq({g[i] : i \in 1 .. len}) /\ Len(g) = len
    <3>1. PICK S : S = {g[i] : i \in 1 .. len}
      OBVIOUS
    <3>2. \A i \in 1 .. len : g[i] \in S
      BY <3>1
    <3>3. g \in [1 .. len -> S]
      BY <2>3, <3>2, Zenon
    <3>4. g \in Seq(S) /\ Len(g) = len
      BY <3>3
    <3> QED BY <3>1, <3>4
  <2> QED BY <2>1, <2>2, <2>4
<1>6. ASSUME NEW i \in I
      PROVE  Groups(Even(n), array)[i] = PieceAt(k, Place(i), Prime(i))
  BY <1>2, Zenon
<1>7. ASSUME NEW i \in I
      PROVE  IsPieceAt(k, i % (k + 1), Groups(Even(n), array)[i])
  <2>1. PICK p \in 1 .. k + 1 : p = Place(i) /\ i % (k + 1) = IF p = k + 1 THEN 0 ELSE p
    BY <1>3
  <2> HIDE DEF Place, Prime
  <2> QED BY <1>6, <2>1, PieceIs, Zenon
<1>8. ASSUME NEW j \in 1 .. c, NEW m \in 1 .. k
      PROVE  /\ (j - 1) * (k + 1) + m \in I
             /\ Groups(Even(n), array)[(j - 1) * (k + 1) + m][2] = array[k * (j - 1) + m]
  <2>1. PICK i \in I : i = (j - 1) * (k + 1) + m
    BY <1>4
  <2>2. Place(i) = m /\ Prime(i) = array[k * (j - 1) + m]
    BY <1>4, <2>1
  <2>3. PICK q : q = Prime(i)
    OBVIOUS
  <2>4. PICK a, b : a = (IF m = 1 THEN " " ELSE "") /\ b = (IF m = k THEN "" ELSE " + ")
    OBVIOUS
  <2>5. ~(m > k)
    OBVIOUS
  <2>6. Groups(Even(n), array)[i] = <<a, q, b>>
    <3> HIDE DEF Place, Prime, I
    <3> QED BY <1>6, <2>2, <2>3, <2>4, <2>5, Zenon DEF PieceAt
  <2> HIDE DEF Place, Prime
  <2>7. <<a, q, b>>[2] = q
    OBVIOUS
  <2> QED BY <2>1, <2>2, <2>3, <2>6, <2>7
<1> HIDE DEF Place, Group, Prime
<1> QED BY <1>5, <1>7, <1>8 DEF WellGrouped

(* The text of a row is the number, the count, and the groups' pieces.     *)
LEMMA TextIs ==
  ASSUME NEW a, NEW b, NEW g, NEW len \in Nat, g \in Seq({g[i] : i \in 1 .. len}), Len(g) = len
  PROVE  LET text == <<a>> \o (<<b>> \o g) IN
         /\ Len(text) = 2 + len /\ text[1] = a /\ text[2] = b
         /\ \A i \in 3 .. Len(text) : text[i] = g[i - 2] /\ i - 2 \in 1 .. len
<1> DEFINE T == {a, b} \cup {g[i] : i \in 1 .. len}
<1>1. g \in Seq(T) /\ <<a>> \in Seq(T) /\ <<b>> \in Seq(T)
  <2>1. DOMAIN g = 1 .. len /\ \A i \in 1 .. len : g[i] \in T
    BY LenProperties
  <2>2. g = [i \in 1 .. len |-> g[i]]
    BY <2>1
  <2>3. a \in T /\ b \in T
    OBVIOUS
  <2> HIDE DEF T
  <2> QED BY <2>1, <2>2, <2>3
<1> HIDE DEF T
<1>2. PICK t : t = <<b>> \o g
  OBVIOUS
<1>3. /\ t \in Seq(T) /\ Len(t) = 1 + len /\ t[1] = b
      /\ \A i \in 2 .. 1 + len : t[i] = g[i - 1]
  BY <1>1, <1>2, ConcatProperties
<1>4. PICK u : u = <<a>> \o t
  OBVIOUS
<1>5. /\ u \in Seq(T) /\ Len(u) = 2 + len /\ u[1] = a
      /\ \A i \in 2 .. 2 + len : u[i] = t[i - 1]
  BY <1>1, <1>3, <1>4, ConcatProperties
<1>6. ASSUME NEW i \in 3 .. Len(u) PROVE u[i] = g[i - 2] /\ i - 2 \in 1 .. len
  <2>1. i \in 2 .. 2 + len /\ i - 1 \in 2 .. 1 + len /\ (i - 1) - 1 = i - 2 /\ i - 2 \in 1 .. len
    BY <1>5
  <2> QED BY <1>3, <1>5, <2>1
<1> QED BY <1>2, <1>3, <1>4, <1>5, <1>6

(* Two pieces are a text.                                                  *)
LEMMA TwoPieces ==
  ASSUME NEW a, NEW b
  PROVE  <<a>> \o (<<b>> \o << >>) = <<a, b>>
<1>1. <<b>> \in Seq({a, b}) /\ <<a>> \in Seq({a, b})
  OBVIOUS
<1>2. <<b>> \o << >> = <<b>>
  BY <1>1, ConcatEmptySeq
<1>3. <<a>> \o <<b>> = <<a, b>>
  <2>1. PICK t : t = <<a>> \o <<b>>
    OBVIOUS
  <2>2. t \in Seq({a, b}) /\ Len(t) = 2 /\ t[1] = a /\ t[2] = b
    BY <1>1, <2>1, ConcatProperties
  <2>3. t = <<a, b>>
    BY <2>2
  <2> QED BY <2>1, <2>3
<1> QED BY <1>2, <1>3

(* When the loops have ended, imprimir_resultado prints the expected line. *)
LEMMA RowIs ==
  ASSUME NEW number \in Int, NEW n \in Nat, n = Abs(number), n > 5,
         NEW s, ListTypes(s), NEW S, Listed(n, s, S), s.shown = (number < 0)
  PROVE  IsRow(<<NumberPiece(number)>> \o Result(Even(n), s.shown, s.count, s.array), number, S)
<1> DEFINE arity == IF Even(number) THEN 2 ELSE 3
           text  == <<NumberPiece(number)>> \o Result(Even(n), s.shown, s.count, s.array)
<1>1. /\ n > 5 /\ s.count \in Nat /\ s.shown \in BOOLEAN /\ s.array \in Seq(Int) /\ Listed(n, s, S)
  BY DEF ListTypes
<1>2. Even(number) <=> Even(n)
  BY DEF Even, Abs
<1>3. arity \in {2, 3} /\ arity = Arity(n) /\ (Even(n) <=> arity = 2) /\ Even(n) \in BOOLEAN
  BY <1>2 DEF Arity, Even
<1>4. PICK c \in Nat : c = s.count /\ c = Cardinality(S) /\ (c = 0 <=> S = {})
  BY <1>1, FS_EmptySet DEF Listed
<1>5. CASE number > 0
  <2>1. ~s.shown /\ ~(number < 0)
    <3>1. ~(number < 0)
      BY <1>5
    <3> QED BY <3>1, Zenon
  <2>2. Result(Even(n), s.shown, s.count, s.array) = << <<"", c, " sums">> >> \o << >>
    BY <1>4, <2>1 DEF Result, CountPiece
  <2>3. PICK a, b : a = <<"", number, ": ">> /\ b = <<"", c, " sums">>
    OBVIOUS
  <2>4. text = <<a>> \o (<<b>> \o << >>)
    BY <2>2, <2>3, Zenon DEF NumberPiece
  <2>5. number > 5
    BY <1>1, <1>5 DEF Abs
  <2>6. <<a>> \o (<<b>> \o << >>) = <<a, b>>
    BY TwoPieces, Zenon
  <2>7. <<a, b>>[1] = a /\ Tail(<<a, b>>) = <<b>>
    OBVIOUS
  <2> HIDE DEF text
  <2>8. IsRow(text, number, S)
    BY <1>4, <2>3, <2>4, <2>5, <2>6, <2>7, Zenon DEF IsRow
  <2> QED BY <2>8 DEF text
<1>6. CASE number < 0
  <2> DEFINE G == Groups(Even(n), s.array)
  <2>1. s.shown = TRUE /\ number < -5
    <3>1. number < -5
      BY <1>1, <1>6 DEF Abs
    <3> QED BY <1>6, <3>1, Zenon
  <2>b. PICK a, b : a = <<"", number, ": ">> /\ b = <<"", c, " sums:">>
    OBVIOUS
  <2>2. text = <<a>> \o (<<b>> \o G)
    <3> HIDE DEF G
    <3> QED BY <1>4, <2>1, <2>b, Zenon DEF Result, CountPiece, NumberPiece, G
  <2>3. Len(s.array) = arity * c /\ Lists(SumsIn(s.array, arity, c), S)
    BY <1>1, <1>3, <1>4, <2>1 DEF Listed
  <2> DEFINE sums == [j \in 1 .. c |->
                        [k \in 1 .. arity |-> text[2 + (j - 1) * (arity + 1) + k][2]]]
  <2>4. /\ text[1] = a /\ text[2] = b
        /\ Len(text) = IF S = {} THEN 2 ELSE 2 + c * (arity + 1) - 1
        /\ sums = SumsIn(s.array, arity, c)
        /\ \A i \in 3 .. Len(text) : IsPieceAt(arity, (i - 2) % (arity + 1), text[i])
    <3> HIDE DEF arity, text
    <3>1. CASE c = 0
      <4>1. s.array = << >>
        BY <1>1, <1>3, <2>3, <3>1, EmptySeq
      <4>2. G = << >>
        BY <4>1 DEF Groups
      <4> HIDE DEF G
      <4>3. text = <<a, b>>
        BY <2>2, <4>2, TwoPieces, Zenon
      <4>4. text[1] = a /\ text[2] = b /\ Len(text) = 2
        BY <4>3
      <4>5. sums = SumsIn(s.array, arity, c)
        BY <3>1 DEF SumsIn
      <4> QED BY <1>4, <3>1, <4>4, <4>5
    <3>2. CASE c # 0
      <4> DEFINE len == (arity + 1) * c - 1
      <4>1. len \in Nat /\ 2 + c * (arity + 1) - 1 = 2 + len
        <5>1. CASE arity = 2
          BY <3>2, <5>1
        <5>2. CASE arity = 3
          BY <3>2, <5>2
        <5> QED BY <1>3, <5>1, <5>2
      <4>2. /\ G \in Seq({G[i] : i \in 1 .. len}) /\ Len(G) = len
            /\ \A i \in 1 .. len : IsPieceAt(arity, i % (arity + 1), G[i])
            /\ \A j \in 1 .. c, m \in 1 .. arity :
                 /\ (j - 1) * (arity + 1) + m \in 1 .. len
                 /\ G[(j - 1) * (arity + 1) + m][2] = s.array[arity * (j - 1) + m]
        <5>1. c \in Nat \ {0}
          BY <3>2
        <5>2. arity \in {2, 3} /\ (Even(n) <=> arity = 2) /\ Even(n) \in BOOLEAN
          BY <1>3, Zenon
        <5>3. s.array \in Seq(Int) /\ Len(s.array) = arity * c
          BY <1>1, <2>3, Zenon
        <5>4. WellGrouped(Groups(Even(n), s.array), arity, c, s.array)
          BY <5>1, <5>2, <5>3, GroupsAre
        <5> QED BY <5>4, Zenon DEF WellGrouped
      <4> HIDE DEF len, G
      <4>3. /\ Len(text) = 2 + len /\ text[1] = a /\ text[2] = b
            /\ \A i \in 3 .. Len(text) : text[i] = G[i - 2] /\ i - 2 \in 1 .. len
        BY <2>2, <4>1, <4>2, TextIs
      <4>4. ASSUME NEW j \in 1 .. c, NEW k \in 1 .. arity
            PROVE  text[2 + (j - 1) * (arity + 1) + k][2] = s.array[arity * (j - 1) + k]
        <5>1. PICK i \in 1 .. len : i = (j - 1) * (arity + 1) + k
          BY <4>2
        <5>2. 2 + (j - 1) * (arity + 1) + k = 2 + i
          BY <1>3, <5>1
        <5>3. 2 + i \in 3 .. Len(text) /\ (2 + i) - 2 = i
          <6>1. Len(text) = 2 + len
            BY <4>3
          <6> QED BY <4>1, <6>1
        <5>4. text[2 + i] = G[i]
          BY <4>3, <5>3
        <5> QED BY <4>2, <5>1, <5>2, <5>4
      <4>5. sums = SumsIn(s.array, arity, c)
        BY <4>4, Zenon DEF SumsIn
      <4>6. S # {}
        BY <1>4, <3>2
      <4>7. ASSUME NEW i \in 3 .. Len(text)
            PROVE  IsPieceAt(arity, (i - 2) % (arity + 1), text[i])
        BY <4>2, <4>3
      <4> QED BY <4>1, <4>3, <4>5, <4>6, <4>7
    <3> QED BY <3>1, <3>2
  <2> HIDE DEF text, G
  <2>5. IsRow(text, number, S)
    BY <1>4, <2>1, <2>3, <2>4, <2>b, Zenon DEF IsRow, IsPieceAt
  <2> QED BY <2>5 DEF text
<1>7. number < 0 \/ number > 0
  BY <1>1 DEF Abs
<1> QED BY <1>5, <1>6, <1>7
-----------------------------------------------------------------------------
(* The sums of the first block                                             *)
LEMMA BlockIs ==
  ASSUME Team \in Nat \ {0}, NEW n \in Nat, n > 5
  PROVE  /\ End(n, 0) \in Nat /\ End(n, 0) <= LastFirst(n) + 2
         /\ LastFirst(n) \in Nat /\ 2 * LastFirst(n) <= n
         /\ Even(n) => \A x : x \in FirstBlock(n) <=>
              \E p \in 2 .. End(n, 0) - 1 : IsPrime(p) /\ IsPrime(n - p) /\ x = <<p, n - p>>
         /\ ~Even(n) => \A x : x \in FirstBlock(n) <=>
              \E p \in 2 .. End(n, 0) - 1, q \in 2 .. n :
                /\ IsPrime(p) /\ IsPrime(q) /\ IsPrime(n - p - q)
                /\ p <= q /\ q <= n - p - q /\ x = <<p, q, n - p - q>>
<1>1. End(n, 0) \in Nat /\ End(n, 0) <= LastFirst(n) + 2
  BY Block
<1>2. LastFirst(n) \in Nat /\ 2 * LastFirst(n) <= n
  BY DEF LastFirst
<1>3. ASSUME Even(n), NEW x
      PROVE  x \in FirstBlock(n) <=>
              \E p \in 2 .. End(n, 0) - 1 : IsPrime(p) /\ IsPrime(n - p) /\ x = <<p, n - p>>
  BY <1>3 DEF FirstBlock, Primes
<1>4. ASSUME ~Even(n), NEW x
      PROVE  x \in FirstBlock(n) <=>
              \E p \in 2 .. End(n, 0) - 1, q \in 2 .. n :
                /\ IsPrime(p) /\ IsPrime(q) /\ IsPrime(n - p - q)
                /\ p <= q /\ q <= n - p - q /\ x = <<p, q, n - p - q>>
  <2> DEFINE T == {<<p, q, n - p - q>> : p \in Primes(n), q \in Primes(n)}
  <2>1. x \in FirstBlock(n) <=>
          x \in T /\ x[1] <= x[2] /\ x[2] <= x[3] /\ IsPrime(x[3]) /\ x[1] < End(n, 0)
    <3>1. Partitions(n) = {y \in T : y[1] <= y[2] /\ y[2] <= y[3] /\ IsPrime(y[3])}
      BY <1>4 DEF Partitions
    <3>2. FirstBlock(n) = {y \in Partitions(n) : y[1] < End(n, 0)}
      BY <1>4 DEF FirstBlock
    <3> HIDE DEF T
    <3> QED BY <3>1, <3>2, Zenon
  <2>2. x \in T <=> \E p, q \in 2 .. n : IsPrime(p) /\ IsPrime(q) /\ x = <<p, q, n - p - q>>
    BY DEF Primes
  <2>3. \A p, q, r : x = <<p, q, r>> => x[1] = p /\ x[2] = q /\ x[3] = r
    OBVIOUS
  <2> HIDE DEF T
  <2>4. ASSUME x \in FirstBlock(n)
        PROVE  \E p \in 2 .. End(n, 0) - 1, q \in 2 .. n :
                 /\ IsPrime(p) /\ IsPrime(q) /\ IsPrime(n - p - q)
                 /\ p <= q /\ q <= n - p - q /\ x = <<p, q, n - p - q>>
    <3>1. PICK p \in 2 .. n, q \in 2 .. n : IsPrime(p) /\ IsPrime(q) /\ x = <<p, q, n - p - q>>
      BY <2>1, <2>2, <2>4, Zenon
    <3>2. x[1] = p /\ x[2] = q /\ x[3] = n - p - q
      BY <2>3, <3>1, Zenon
    <3>3. p <= q /\ q <= n - p - q /\ IsPrime(n - p - q) /\ p < End(n, 0)
      BY <2>1, <2>4, <3>2, Zenon
    <3>4. p \in 2 .. End(n, 0) - 1
      BY <1>1, <3>3
    <3> QED BY <3>1, <3>3, <3>4, Zenon
  <2>5. ASSUME NEW p \in 2 .. End(n, 0) - 1, NEW q \in 2 .. n, IsPrime(p), IsPrime(q),
               IsPrime(n - p - q), p <= q, q <= n - p - q, x = <<p, q, n - p - q>>
        PROVE  x \in FirstBlock(n)
    <3>1. p \in 2 .. n /\ p < End(n, 0)
      BY <1>1, <2>5
    <3>2. x \in T
      BY <2>2, <2>5, <3>1, Zenon
    <3>3. x[1] = p /\ x[2] = q /\ x[3] = n - p - q
      BY <2>3, <2>5, Zenon
    <3> QED BY <2>1, <2>5, <3>1, <3>2, <3>3, Zenon
  <2> QED BY <2>4, <2>5, Zenon
<1> QED BY <1>1, <1>2, <1>3, <1>4

(* The primes of one of them                                               *)
LEMMA BlockSumIs ==
  ASSUME Team \in Nat \ {0}, NEW n \in Nat, n > 5, NEW x \in FirstBlock(n)
  PROVE  /\ x \in Seq(Int) /\ Len(x) = Arity(n) /\ DOMAIN x = 1 .. Arity(n)
         /\ x[1] \in 2 .. n /\ IsPrime(x[1]) /\ x[2] \in 2 .. n /\ IsPrime(x[2])
         /\ x[1] < End(n, 0)
         /\ Even(n) => x[2] = n - x[1] /\ x = <<x[1], x[2]>>
         /\ ~Even(n) => /\ x[1] <= x[2] /\ x[3] = n - x[1] - x[2] /\ x[2] <= x[3] /\ IsPrime(x[3])
                        /\ x = <<x[1], x[2], x[3]>>
<1>1. CASE Even(n)
  <2>1. PICK p \in 2 .. End(n, 0) - 1 : IsPrime(p) /\ IsPrime(n - p) /\ x = <<p, n - p>>
    BY <1>1, BlockIs
  <2>2. End(n, 0) \in Nat /\ 2 * End(n, 0) <= n + 4
    BY BlockIs
  <2>3. n - p \in 2 .. n /\ p \in 2 .. n
    BY <2>1, <2>2
  <2> QED BY <1>1, <2>1, <2>2, <2>3 DEF Arity
<1>2. CASE ~Even(n)
  <2>1. PICK p \in 2 .. End(n, 0) - 1, q \in 2 .. n :
          /\ IsPrime(p) /\ IsPrime(q) /\ IsPrime(n - p - q)
          /\ p <= q /\ q <= n - p - q /\ x = <<p, q, n - p - q>>
    BY <1>2, BlockIs
  <2>2. End(n, 0) \in Nat
    BY BlockIs
  <2> QED BY <1>2, <2>1, <2>2 DEF Arity
<1> QED BY <1>1, <1>2

(* The block has finitely many.                                            *)
LEMMA BlockIsFinite ==
  ASSUME Team \in Nat \ {0}, NEW n \in Nat, n > 5
  PROVE  IsFiniteSet(FirstBlock(n))
<1> DEFINE D == (2 .. n) \X (2 .. n)
           f == [x \in FirstBlock(n) |-> <<x[1], x[2]>>]
<1>1. IsFiniteSet(D)
  <2>1. IsFiniteSet(2 .. n)
    BY FS_Interval
  <2> QED BY <2>1, FS_Product
<1>2. f \in [FirstBlock(n) -> D]
  BY BlockSumIs
<1>3. ASSUME NEW x \in FirstBlock(n), NEW y \in FirstBlock(n), f[x] = f[y] PROVE x = y
  <2>1. x[1] = y[1] /\ x[2] = y[2]
    BY <1>3
  <2>2. CASE Even(n)
    <3>1. x = <<x[1], x[2]>> /\ y = <<y[1], y[2]>>
      BY <2>2, BlockSumIs
    <3> QED BY <2>1, <3>1, Zenon
  <2>3. CASE ~Even(n)
    <3>1. /\ x = <<x[1], x[2], x[3]>> /\ x[3] = n - x[1] - x[2]
          /\ y = <<y[1], y[2], y[3]>> /\ y[3] = n - y[1] - y[2]
      BY <2>3, BlockSumIs
    <3> QED BY <2>1, <3>1, Zenon
  <2> QED BY <2>2, <2>3
<1>4. f \in Injection(FirstBlock(n), D)
  <2> HIDE DEF f, D
  <2> QED BY <1>2, <1>3 DEF Injection, IsInjective
<1> HIDE DEF f, D
<1> QED BY <1>1, <1>4, FS_Injection

(* From one stop of the loop to the next only the sums of the stop are     *)
(* new, and at the end of the block none is missing.                       *)
LEMMA BelowIs ==
  ASSUME Team \in Nat \ {0}, NEW n \in Nat, n > 5, NEW a \in Nat, Stop(a)
  PROVE  /\ Below(FirstBlock(n), 2) = {}
         /\ a >= End(n, 0) => Below(FirstBlock(n), a) = FirstBlock(n)
         /\ Below(FirstBlock(n), Step(a)) = Below(FirstBlock(n), a) \cup {x \in FirstBlock(n) : x[1] = a}
<1>0. End(n, 0) \in Nat /\ \A x \in FirstBlock(n) : x[1] \in 2 .. n /\ IsPrime(x[1]) /\ x[1] < End(n, 0)
  BY BlockIs, BlockSumIs
<1>1. Below(FirstBlock(n), 2) = {}
  BY <1>0 DEF Below
<1>2. a >= End(n, 0) => Below(FirstBlock(n), a) = FirstBlock(n)
  BY <1>0 DEF Below
<1>3. ASSUME NEW x \in FirstBlock(n)
      PROVE  x[1] < Step(a) <=> x[1] < a \/ x[1] = a
  <2>1. x[1] \in 2 .. n /\ IsPrime(x[1])
    BY <1>0
  <2>2. x[1] > 2 => ~Even(x[1])
    BY <2>1, PrimesAre
  <2>3. a > 2 /\ x[1] = a + 1 => Even(x[1])
    BY DEF Stop, Even
  <2> QED BY <2>1, <2>2, <2>3 DEF Step, Stop
<1> QED BY <1>1, <1>2, <1>3 DEF Below

(* The same for the second prime of an odd number.                         *)
LEMMA BelowSecondIs ==
  ASSUME Team \in Nat \ {0}, NEW n \in Nat, n > 5, ~Even(n),
         NEW a \in Nat, NEW b \in Nat, Stop(a), Stop(b), a <= b
  PROVE  /\ BelowSecond(FirstBlock(n), a, a) = Below(FirstBlock(n), a)
         /\ a + b > n => BelowSecond(FirstBlock(n), a, b) = Below(FirstBlock(n), Step(a))
         /\ BelowSecond(FirstBlock(n), a, Step(b))
              = BelowSecond(FirstBlock(n), a, b) \cup {x \in FirstBlock(n) : x[1] = a /\ x[2] = b}
<1>0. \A x \in FirstBlock(n) :
        /\ x[1] \in 2 .. n /\ x[2] \in 2 .. n /\ IsPrime(x[2]) /\ x[1] <= x[2]
        /\ x[3] = n - x[1] - x[2] /\ x[2] <= x[3]
  BY BlockSumIs
<1>1. BelowSecond(FirstBlock(n), a, a) = Below(FirstBlock(n), a)
  <2>1. ASSUME NEW x \in FirstBlock(n) PROVE ~(x[1] = a /\ x[2] < a)
    BY <1>0
  <2> QED BY <2>1 DEF BelowSecond, Below
<1>2. ASSUME a + b > n PROVE BelowSecond(FirstBlock(n), a, b) = Below(FirstBlock(n), Step(a))
  <2>1. ASSUME NEW x \in FirstBlock(n), x[1] = a PROVE x[2] < b
    BY <1>0, <1>2, <2>1
  <2>2. BelowSecond(FirstBlock(n), a, b) = Below(FirstBlock(n), a) \cup {x \in FirstBlock(n) : x[1] = a}
    BY <2>1 DEF BelowSecond, Below
  <2> QED BY <2>2, BelowIs
<1>3. ASSUME NEW x \in FirstBlock(n)
      PROVE  x[2] < Step(b) <=> x[2] < b \/ x[2] = b
  <2>1. x[2] \in 2 .. n /\ IsPrime(x[2])
    BY <1>0
  <2>2. x[2] > 2 => ~Even(x[2])
    BY <2>1, PrimesAre
  <2>3. b > 2 /\ x[2] = b + 1 => Even(x[2])
    BY DEF Stop, Even
  <2> QED BY <2>1, <2>2, <2>3 DEF Step, Stop
<1>4. BelowSecond(FirstBlock(n), a, Step(b))
        = BelowSecond(FirstBlock(n), a, b) \cup {x \in FirstBlock(n) : x[1] = a /\ x[2] = b}
  BY <1>3 DEF BelowSecond
<1> QED BY <1>1, <1>2, <1>4

(* The next stop is one                                                    *)
LEMMA StepIs ==
  ASSUME NEW a \in Nat, Stop(a)
  PROVE  Step(a) \in Nat /\ Stop(Step(a)) /\ Step(a) > a
BY DEF Stop, Step, Even

(* One thread's block has all the sums, and no other but the repeated one. *)
LEMMA OneThreadHasAll ==
  ASSUME Team = 1, NEW n \in Nat, n > 5
  PROVE  FirstBlock(n) = Partitions(n) \cup Repeated(n)
<1>1. LastFirst(n) \in Nat /\ Iterations(n) \in Nat /\ LastFirst(n) <= 2 * Iterations(n) + 1
      /\ (Even(n) => n = 2 * LastFirst(n)) /\ (~Even(n) => n <= 3 * LastFirst(n) + 2)
  BY DEF LastFirst, Iterations, Even
<1>2. End(n, 0) = 2 * Iterations(n) + 2
  <2>1. Iterations(n) \div 1 = Iterations(n) /\ Iterations(n) % 1 = 0
    BY <1>1
  <2>2. FirstIteration(n, 1) = Iterations(n)
    BY <1>1, <2>1 DEF FirstIteration
  <2> QED BY <2>2 DEF End, Value
<1>3. Team \in Nat \ {0}
  OBVIOUS
<1>4. CASE Even(n)
  <2>1. PICK h \in Nat : n = 2 * h /\ h = n \div 2 /\ h = LastFirst(n) /\ h >= 3
    BY <1>4 DEF Even, LastFirst
  <2>2. End(n, 0) - 1 = IF Even(h) THEN h + 1 ELSE h
    BY <1>2, <2>1 DEF Iterations, Even
  <2>3. ASSUME NEW p \in 2 .. n, IsPrime(p), IsPrime(n - p), p <= n - p
        PROVE  <<p, n - p>> \in FirstBlock(n)
    <3>1. p \in 2 .. End(n, 0) - 1
      BY <2>1, <2>2, <2>3
    <3> QED BY <1>3, <1>4, <2>3, <3>1, BlockIs
  <2>4. ASSUME Even(h), IsPrime(h + 1), IsPrime(n - (h + 1))
        PROVE  <<h + 1, n - (h + 1)>> \in FirstBlock(n)
    <3>1. h + 1 \in 2 .. End(n, 0) - 1
      BY <2>1, <2>2, <2>4
    <3> QED BY <1>3, <1>4, <2>4, <3>1, BlockIs
  <2>5. ASSUME NEW x \in FirstBlock(n) PROVE x \in Partitions(n) \cup Repeated(n)
    <3>1. PICK p \in 2 .. End(n, 0) - 1 : IsPrime(p) /\ IsPrime(n - p) /\ x = <<p, n - p>>
      BY <1>3, <1>4, <2>5, BlockIs
    <3>2. p \in 2 .. n
      BY <2>1, <2>2, <3>1
    <3>3. CASE p <= n - p
      BY <1>4, <3>1, <3>2, <3>3 DEF Partitions, Primes
    <3>4. CASE p > n - p
      <4>1. p = h + 1 /\ Even(h)
        BY <2>1, <2>2, <3>4
      <4> QED BY <1>4, <2>1, <3>1, <4>1 DEF Repeated
    <3> QED BY <3>2, <3>3, <3>4
  <2>6. ASSUME NEW x \in Partitions(n) PROVE x \in FirstBlock(n)
    BY <1>4, <2>3, <2>6 DEF Partitions, Primes
  <2>7. ASSUME NEW x \in Repeated(n) PROVE x \in FirstBlock(n)
    <3>1. PICK p \in {n \div 2 + 1} : Even(p - 1) /\ IsPrime(p) /\ IsPrime(n - p) /\ x = <<p, n - p>>
      BY <2>7 DEF Repeated
    <3>2. p = h + 1 /\ p - 1 = h
      BY <2>1, <3>1
    <3> QED BY <2>4, <3>1, <3>2
  <2> QED BY <2>5, <2>6, <2>7
<1>5. CASE ~Even(n)
  <2>1. ASSUME NEW x \in Partitions(n) PROVE x[1] < End(n, 0)
    <3>1. x \in {<<p, q, n - p - q>> : p \in Primes(n), q \in Primes(n)}
          /\ x[1] <= x[2] /\ x[2] <= x[3]
      BY <1>5 DEF Partitions
    <3>2. PICK p \in 2 .. n, q \in 2 .. n : x = <<p, q, n - p - q>>
      BY <3>1 DEF Primes
    <3>3. p <= q /\ q <= n - p - q /\ x[1] = p
      BY <3>1, <3>2
    <3> QED BY <1>1, <1>2, <1>5, <3>3
  <2>2. Repeated(n) = {}
    BY <1>5 DEF Repeated
  <2> QED BY <1>5, <2>1, <2>2 DEF FirstBlock
<1> QED BY <1>4, <1>5
-----------------------------------------------------------------------------
(* The sum at hand is the next one of the block.                           *)
LEMMA SumAtHand ==
  ASSUME Team \in Nat \ {0}, NEW n \in Nat, n > 5,
         NEW a \in Nat, NEW b \in Nat, NEW c \in Int, Stop(a), a < End(n, 0), IsPrime(a), IsPrime(b),
         Even(n) => b = n - a,
         ~Even(n) => Stop(b) /\ b >= a /\ c = n - a - b /\ c >= b /\ IsPrime(c)
  PROVE  LET x == IF Even(n) THEN <<a, b>> ELSE <<a, b, c>>
             S == Reached(n, FirstBlock(n), a, b)
         IN  /\ x \in Seq(Int) /\ Len(x) = Arity(n) /\ x \notin S
             /\ \A y \in S : Before(y, x)
             /\ Passed(n, FirstBlock(n), a, b) = S \cup {x}
<1> DEFINE F == FirstBlock(n)
<1>1. a \in 2 .. End(n, 0) - 1 /\ End(n, 0) \in Nat /\ 2 * End(n, 0) <= n + 4
  BY BlockIs DEF Stop
<1>2. CASE Even(n)
  <2> DEFINE x == <<a, b>>
  <2>1. x \in F
    <3>1. IsPrime(n - a) /\ x = <<a, n - a>>
      BY <1>2
    <3> HIDE DEF x
    <3> QED BY <1>1, <1>2, <3>1, BlockIs
  <2>2. ASSUME NEW y \in Below(F, a) PROVE Before(y, x)
    <3>1. y \in F /\ y[1] < a /\ 1 \in DOMAIN y
      BY BlockSumIs DEF Below, Arity
    <3>2. y[1] < x[1] /\ \A j \in 1 .. 1 - 1 : y[j] = x[j]
      BY <3>1
    <3> QED BY <3>1, <3>2 DEF Before
  <2>3. x \notin Below(F, a)
    BY DEF Below
  <2>4. {y \in F : y[1] = a} = {x}
    <3>1. ASSUME NEW y \in F, y[1] = a PROVE y = x
      <4>1. y = <<y[1], y[2]>> /\ y[2] = n - y[1]
        BY <1>2, BlockSumIs
      <4> QED BY <1>2, <3>1, <4>1, Zenon
    <3>2. x[1] = a
      OBVIOUS
    <3> HIDE DEF x
    <3> QED BY <2>1, <3>1, <3>2
  <2>5. Below(F, Step(a)) = Below(F, a) \cup {x}
    <3> HIDE DEF x
    <3> QED BY <2>4, BelowIs
  <2>6. x \in Seq(Int) /\ Len(x) = Arity(n)
    BY <1>2 DEF Arity
  <2> HIDE DEF x, F
  <2>7. Reached(n, F, a, b) = Below(F, a) /\ Passed(n, F, a, b) = Below(F, Step(a))
    BY <1>2 DEF Reached, Passed
  <2>8. x = IF Even(n) THEN <<a, b>> ELSE <<a, b, c>>
    BY <1>2 DEF x
  <2> QED BY <2>2, <2>3, <2>5, <2>6, <2>7, <2>8 DEF F
<1>3. CASE ~Even(n)
  <2> DEFINE x == <<a, b, c>>
             S == BelowSecond(F, a, b)
  <2>1. x \in F
    <3>1. b \in 2 .. n /\ a <= b /\ b <= n - a - b
      BY <1>1, <1>3
    <3>2. IsPrime(n - a - b) /\ x = <<a, b, n - a - b>>
      BY <1>3
    <3> HIDE DEF x
    <3> QED BY <1>1, <1>3, <3>1, <3>2, BlockIs
  <2>2. ASSUME NEW y \in S PROVE Before(y, x)
    <3>1. /\ y \in F /\ 1 \in DOMAIN y /\ 2 \in DOMAIN y /\ y[1] \in Int /\ y[2] \in Int
          /\ y[1] < a \/ (y[1] = a /\ y[2] < b)
      BY BlockSumIs DEF BelowSecond, Arity
    <3>2. CASE y[1] < a
      <4>1. y[1] < x[1] /\ \A j \in 1 .. 1 - 1 : y[j] = x[j]
        BY <3>2
      <4> QED BY <3>1, <4>1 DEF Before
    <3>3. CASE y[1] = a /\ y[2] < b
      <4>1. y[2] < x[2] /\ \A j \in 1 .. 2 - 1 : y[j] = x[j]
        BY <3>3
      <4> QED BY <3>1, <4>1 DEF Before
    <3> QED BY <3>1, <3>2, <3>3
  <2>3. x \notin S
    BY DEF BelowSecond
  <2>4. {y \in F : y[1] = a /\ y[2] = b} = {x}
    <3>1. ASSUME NEW y \in F, y[1] = a, y[2] = b PROVE y = x
      <4>1. y = <<y[1], y[2], y[3]>> /\ y[3] = n - y[1] - y[2]
        BY <1>3, BlockSumIs
      <4> QED BY <1>3, <3>1, <4>1, Zenon
    <3>2. x[1] = a /\ x[2] = b
      OBVIOUS
    <3> HIDE DEF x
    <3> QED BY <2>1, <3>1, <3>2
  <2>5. BelowSecond(F, a, Step(b)) = S \cup {x}
    <3> HIDE DEF x
    <3> QED BY <1>3, <2>4, BelowSecondIs
  <2>6. x \in Seq(Int) /\ Len(x) = Arity(n)
    BY <1>3 DEF Arity
  <2>7. Reached(n, F, a, b) = S /\ Passed(n, F, a, b) = BelowSecond(F, a, Step(b))
    BY <1>3 DEF Reached, Passed
  <2> HIDE DEF x, F, S
  <2>8. x = IF Even(n) THEN <<a, b>> ELSE <<a, b, c>>
    BY <1>3 DEF x
  <2> QED BY <2>2, <2>3, <2>5, <2>6, <2>7, <2>8 DEF F
<1> QED BY <1>2, <1>3

(* The loops pass a place that has no sum.                                 *)
LEMMA NoSum ==
  ASSUME Team \in Nat \ {0}, NEW n \in Nat, n > 5, NEW a \in Nat, NEW b \in Nat, Stop(a),
         ~Even(n) => Stop(b) /\ a <= b,
         \A x \in FirstBlock(n) : ~(x[1] = a /\ x[2] = b),
         Even(n) => b = n - a
  PROVE  Passed(n, FirstBlock(n), a, b) = Reached(n, FirstBlock(n), a, b)
<1> DEFINE F == FirstBlock(n)
<1>1. CASE Even(n)
  <2>1. {x \in F : x[1] = a} = {}
    <3>1. \A x \in F : x[2] = n - x[1]
      BY <1>1, BlockSumIs
    <3> QED BY <1>1, <3>1
  <2>2. Below(F, Step(a)) = Below(F, a)
    BY <2>1, BelowIs
  <2> QED BY <1>1, <2>2 DEF Passed, Reached
<1>2. CASE ~Even(n)
  <2>1. {x \in F : x[1] = a /\ x[2] = b} = {}
    OBVIOUS
  <2>2. BelowSecond(F, a, Step(b)) = BelowSecond(F, a, b)
    <3>1. BelowSecond(F, a, Step(b))
            = BelowSecond(F, a, b) \cup {x \in F : x[1] = a /\ x[2] = b}
      BY <1>2, BelowSecondIs
    <3> HIDE DEF F
    <3> QED BY <2>1, <3>1, Zenon
  <2> QED BY <1>2, <2>2 DEF Passed, Reached
<1> QED BY <1>1, <1>2

(* The first loop goes on, or ends.                                        *)
LEMMA NextFirstFinds ==
  ASSUME Team \in Nat \ {0}, NEW n \in Nat, n > 5, NEW a \in Nat, Stop(a), NEW s,
         Listed(n, s, Below(FirstBlock(n), Step(a))), NEW b, NEW c, NEW read
  PROVE  LoopFinds(n, FirstBlock(n), IF Step(a) < End(n, 0) THEN "first" ELSE "ended",
                   Step(a), b, c, read, s)
<1>1. Step(a) \in Nat /\ Stop(Step(a)) /\ End(n, 0) \in Nat
  BY StepIs, BlockIs
<1>2. CASE Step(a) < End(n, 0)
  BY <1>1, <1>2 DEF LoopFinds, Inside
<1>3. CASE ~(Step(a) < End(n, 0))
  <2>1. Below(FirstBlock(n), Step(a)) = FirstBlock(n)
    BY <1>1, <1>3, BelowIs
  <2> QED BY <1>3, <2>1 DEF LoopFinds, Inside
<1> QED BY <1>2, <1>3

(* What the steps of the threads leave alone                               *)
LEMMA TeamStays ==
  ASSUME UNCHANGED mainVars
  PROVE  /\ num' = num /\ signed' = signed /\ mostrar_sumas' = mostrar_sumas
         /\ FirstBlock(num)' = FirstBlock(num) /\ main' = main /\ id_num' = id_num
         /\ rows' = rows /\ kept' = kept /\ total_num' = total_num
<1>1. /\ kept' = kept /\ id_num' = id_num /\ thread_count' = thread_count
      /\ rows' = rows /\ main' = main /\ total_num' = total_num
  BY DEF mainVars, inputVars
<1>2. num' = num /\ signed' = signed /\ mostrar_sumas' = mostrar_sumas
  BY <1>1 DEF num, signed, mostrar_sumas
<1>3. FirstBlock(num)' = FirstBlock(num)
  BY <1>1, <1>2 DEF FirstBlock, End, FirstIteration, Team
<1> QED BY <1>1, <1>2, <1>3

LEMMA ThreadFinds ==
  ASSUME IInv, FindInv, main = "region", UNCHANGED mainVars, array_sumas' \in Seq(Int),
         LoopFinds(num, FirstBlock(num), pc'[0], par1'[0], par2', par3', copy'[0], Found')
  PROVE  FindInv'
<1>1. LoopsFind'
  BY TeamStays DEF LoopsFind
<1>2. RowsInOrder'
  <2>1. thread_count' = thread_count
    BY DEF mainVars, inputVars
  <2>2. Done' = Done
    BY TeamStays DEF Done
  <2>3. FindsFirstBlock'
    <3>1. Team' = Team
      BY <2>1 DEF Team
    <3>2. ASSUME NEW i \in Done PROVE FirstBlock(Abs(kept[i]))' = FirstBlock(Abs(kept[i]))
      BY <3>1, TeamStays DEF FirstBlock, End, FirstIteration
    <3>3. FindsFirstBlock
      BY DEF FindInv, RowsInOrder
    <3> QED BY <2>2, <3>1, <3>2, <3>3, TeamStays, Zenon DEF FindsFirstBlock
  <2> QED BY <2>3, TeamStays DEF FindInv, RowsInOrder
<1> QED BY <1>1, <1>2 DEF FindInv
-----------------------------------------------------------------------------
(* Where the first thread is when it takes a step                          *)
LEMMA FirstAtWork ==
  ASSUME IInv, FindInv, 0 \in Threads, pc[0] # "ended"
  PROVE  /\ main = "region" /\ Team \in Nat \ {0} /\ num \in Nat /\ num > 5
         /\ par1[0] \in Nat /\ par1[0] < End(num, 0) /\ par2 \in Nat /\ par3 \in Int
         /\ 0 \in DOMAIN pc /\ 0 \in DOMAIN par1 /\ 0 \in DOMAIN copy
         /\ ListTypes(Found) /\ LoopsFind
         /\ pc[0] \in {"first"} \cup Inside
<1>1. /\ main = "region" /\ num \in Nat /\ num > 5 /\ mayor \in Nat
      /\ par1[0] < End(num, 0) /\ LastFirst(num) \in Nat
      /\ par1 \in [Threads -> Nat] /\ pc \in [Threads -> {"first", "ended"} \cup Inside]
  BY AtWork
<1>2. Team \in Nat \ {0} /\ copy \in [Threads -> Nat]
  BY TeamTypes DEF IInv, Rest
<1>3. par2 \in Nat /\ par3 \in Int
  BY <1>1 DEF IInv, SumsInOrder
<1>4. ListTypes(Found)
  BY DEF IInv, Rest, FindInv, ListTypes, Found, mostrar_sumas
<1> QED BY <1>1, <1>2, <1>3, <1>4 DEF FindInv

(* NextSecond, after a sum or none                                         *)
LEMMA NextSecondFinds ==
  ASSUME IInv, FindInv, 0 \in Threads, pc[0] \in Inside \ {"bound"}, NextSecond(0),
         UNCHANGED mainVars, array_sumas' \in Seq(Int),
         Listed(num, Found', Passed(num, FirstBlock(num), par1[0], par2))
  PROVE  FindInv'
<1>0. pc[0] # "ended"
  BY DEF Inside
<1>1. CASE Even(num)
  <2>1. /\ pc'[0] = (IF Step(par1[0]) < End(num, 0) THEN "first" ELSE "ended")
        /\ par1'[0] = Step(par1[0])
    BY <1>0, <1>1, FirstAtWork DEF NextSecond, NextFirst, Go
  <2>2. Listed(num, Found', Below(FirstBlock(num), Step(par1[0])))
    BY <1>1 DEF Passed
  <2>3. Stop(par1[0])
    BY <1>0, FirstAtWork DEF LoopsFind, LoopFinds
  <2>4. LoopFinds(num, FirstBlock(num), pc'[0], par1'[0], par2', par3', copy'[0], Found')
    BY <1>0, <2>1, <2>2, <2>3, FirstAtWork, NextFirstFinds
  <2> QED BY <1>0, <2>4, FirstAtWork, ThreadFinds
<1>2. CASE ~Even(num)
  <2>1. pc'[0] = "bound" /\ par1' = par1 /\ par2' = Step(par2)
    BY <1>0, <1>2, FirstAtWork DEF NextSecond, Go
  <2>2. /\ Stop(par1[0]) /\ IsPrime(par1[0]) /\ Stop(par2) /\ par2 >= par1[0]
    BY <1>0, <1>2, FirstAtWork DEF LoopsFind, LoopFinds
  <2>3. Stop(par2') /\ par2' >= par1[0]
    <3>1. par2' \in Nat /\ Stop(par2') /\ par2' > par2
      BY <1>0, <2>1, <2>2, FirstAtWork, StepIs
    <3> QED BY <1>0, <2>2, <3>1, FirstAtWork
  <2>4. Listed(num, Found', Reached(num, FirstBlock(num), par1[0], par2'))
    BY <1>2, <2>1 DEF Passed, Reached
  <2>5. LoopFinds(num, FirstBlock(num), pc'[0], par1'[0], par2', par3', copy'[0], Found')
    BY <1>2, <2>1, <2>2, <2>3, <2>4 DEF LoopFinds, Inside
  <2> QED BY <1>0, <2>5, FirstAtWork, ThreadFinds
<1> QED BY <1>1, <1>2

(* Another thread, whose number is no prime, changes nothing of this.      *)
LEMMA OthersFind ==
  ASSUME IInv, FindInv, NEW t \in Threads, t # 0, ThreadStep(t)
  PROVE  FindInv'
<1>1. pc[t] # "ended"
  BY DEF ThreadStep, TestFirst, TestBound, TestSecond, TestThird, LoadCount, StoreCount, AppendSum, At
<1>2. TestFirst(t) /\ pc[t] = "first" /\ par1[t] >= 4 /\ Even(par1[t])
  <2>1. pc[t] \notin Inside
    BY <1>1, AtWork
  <2> QED BY <1>1, <2>1
          DEF IInv, OthersAreEven, Inside, ThreadStep, TestFirst, TestBound, TestSecond, TestThird,
              LoadCount, StoreCount, AppendSum, At
<1>3. main = "region" /\ par1 \in [Threads -> Nat]
      /\ pc \in [Threads -> {"first", "ended"} \cup Inside]
  BY <1>1, AtWork
<1>4. NextFirst(t) /\ par2' = par2 /\ UNCHANGED <<mainVars, crash, par3, cantidad_sumas, array_sumas, copy>>
  <2>1. ~IsPrime(par1[t])
    BY <1>2, <1>3, EvenIsNoPrime
  <2> QED BY <1>2, <2>1 DEF TestFirst
<1>5. 0 \in Threads
  BY TeamTypes DEF IInv, Rest, Threads
<1>6. pc'[0] = pc[0] /\ par1'[0] = par1[0] /\ copy'[0] = copy[0]
  BY <1>3, <1>4, <1>5 DEF NextFirst, Go
<1>7. Found' = Found
  BY <1>4, TeamStays DEF Found
<1>8. LoopFinds(num, FirstBlock(num), pc'[0], par1'[0], par2', par3', copy'[0], Found')
  BY <1>3, <1>4, <1>6, <1>7 DEF FindInv, LoopsFind
<1>9. array_sumas' \in Seq(Int)
  BY <1>4 DEF FindInv
<1> QED BY <1>3, <1>4, <1>8, <1>9, ThreadFinds

(* es_primo(par1)                                                          *)
LEMMA TestFirstFinds ==
  ASSUME IInv, FindInv, 0 \in Threads, TestFirst(0)
  PROVE  FindInv'
<1>1. pc[0] = "first" /\ UNCHANGED <<mainVars, crash, par3, cantidad_sumas, array_sumas, copy>>
  BY DEF TestFirst, At
<1>2. /\ Stop(par1[0]) /\ Listed(num, Found, Below(FirstBlock(num), par1[0]))
      /\ Found' = Found /\ array_sumas' \in Seq(Int)
  <2>1. Found' = Found
    BY <1>1, TeamStays DEF Found
  <2> QED BY <1>1, <2>1, FirstAtWork DEF FindInv, LoopsFind, LoopFinds
<1>3. CASE IsPrime(par1[0])
  <2>1. /\ par2' = (IF Even(num) THEN num - par1[0] ELSE par1[0]) /\ par1' = par1
        /\ pc'[0] = IF Even(num) THEN "second" ELSE "bound"
    BY <1>1, <1>3, FirstAtWork DEF TestFirst, Go
  <2>2. Listed(num, Found', Reached(num, FirstBlock(num), par1[0], par2'))
    <3>1. CASE Even(num)
      BY <1>2, <3>1 DEF Reached
    <3>2. CASE ~Even(num)
      <4>1. BelowSecond(FirstBlock(num), par1[0], par1[0]) = Below(FirstBlock(num), par1[0])
        BY <1>1, <1>2, <3>2, FirstAtWork, BelowSecondIs
      <4> QED BY <1>2, <2>1, <3>2, <4>1 DEF Reached
    <3> QED BY <3>1, <3>2
  <2>3. LoopFinds(num, FirstBlock(num), pc'[0], par1'[0], par2', par3', copy'[0], Found')
    BY <1>1, <1>2, <1>3, <2>1, <2>2, FirstAtWork DEF LoopFinds, Inside
  <2> QED BY <1>1, <1>2, <2>3, FirstAtWork, ThreadFinds
<1>4. CASE ~IsPrime(par1[0])
  <2>1. /\ pc'[0] = (IF Step(par1[0]) < End(num, 0) THEN "first" ELSE "ended")
        /\ par1'[0] = Step(par1[0])
    BY <1>1, <1>4, FirstAtWork DEF TestFirst, NextFirst, Go
  <2>2. Below(FirstBlock(num), Step(par1[0])) = Below(FirstBlock(num), par1[0])
    <3>1. {x \in FirstBlock(num) : x[1] = par1[0]} = {}
      BY <1>1, <1>4, FirstAtWork, BlockSumIs
    <3> QED BY <1>1, <1>2, <3>1, FirstAtWork, BelowIs
  <2>3. LoopFinds(num, FirstBlock(num), pc'[0], par1'[0], par2', par3', copy'[0], Found')
    <3>1. Listed(num, Found', Below(FirstBlock(num), Step(par1[0])))
      BY <1>2, <2>2
    <3> QED BY <1>1, <1>2, <2>1, <3>1, FirstAtWork, NextFirstFinds
  <2> QED BY <1>1, <1>2, <2>3, FirstAtWork, ThreadFinds
<1> QED BY <1>3, <1>4

(* The condition of the inner loop                                         *)
LEMMA TestBoundFinds ==
  ASSUME IInv, FindInv, 0 \in Threads, TestBound(0)
  PROVE  FindInv'
<1>1. /\ pc[0] = "bound" /\ pc[0] \in Inside
      /\ UNCHANGED <<mainVars, crash, par2, par3, cantidad_sumas, array_sumas, copy>>
  BY DEF TestBound, At, Inside
<1>2. /\ Stop(par1[0]) /\ IsPrime(par1[0]) /\ ~Even(num) /\ Stop(par2) /\ par2 >= par1[0]
      /\ Listed(num, Found, Reached(num, FirstBlock(num), par1[0], par2))
      /\ Found' = Found /\ array_sumas' \in Seq(Int)
  <2>1. Found' = Found
    BY <1>1, TeamStays DEF Found
  <2>2. ~Even(num)
    BY <1>1 DEF IInv, SumsInOrder
  <2> QED BY <1>1, <2>1, <2>2, FirstAtWork DEF FindInv, LoopsFind, LoopFinds
<1>3. CASE par1[0] + par2 <= num
  <2>1. pc'[0] = "second" /\ par1' = par1
    BY <1>1, <1>3, FirstAtWork DEF TestBound, Go
  <2>2. LoopFinds(num, FirstBlock(num), pc'[0], par1'[0], par2', par3', copy'[0], Found')
    BY <1>1, <1>2, <2>1 DEF LoopFinds, Inside
  <2> QED BY <1>1, <1>2, <2>2, FirstAtWork, ThreadFinds
<1>4. CASE ~(par1[0] + par2 <= num)
  <2>1. /\ pc'[0] = (IF Step(par1[0]) < End(num, 0) THEN "first" ELSE "ended")
        /\ par1'[0] = Step(par1[0])
    BY <1>1, <1>4, FirstAtWork DEF TestBound, NextFirst, Go
  <2>2. BelowSecond(FirstBlock(num), par1[0], par2) = Below(FirstBlock(num), Step(par1[0]))
    <3>1. par1[0] + par2 > num /\ par1[0] <= par2
      BY <1>1, <1>2, <1>4, FirstAtWork
    <3> QED BY <1>1, <1>2, <3>1, FirstAtWork, BelowSecondIs
  <2>3. LoopFinds(num, FirstBlock(num), pc'[0], par1'[0], par2', par3', copy'[0], Found')
    <3>1. Listed(num, Found', Below(FirstBlock(num), Step(par1[0])))
      BY <1>2, <2>2 DEF Reached
    <3> QED BY <1>1, <1>2, <2>1, <3>1, FirstAtWork, NextFirstFinds
  <2> QED BY <1>1, <1>2, <2>3, FirstAtWork, ThreadFinds
<1> QED BY <1>3, <1>4

(* Inside the body, past the condition of the inner loop                   *)
LEMMA InsideIs ==
  ASSUME IInv, FindInv, 0 \in Threads, pc[0] \in Inside \ {"bound"}
  PROVE  /\ Stop(par1[0]) /\ IsPrime(par1[0])
         /\ Even(num) => par2 = num - par1[0]
         /\ ~Even(num) => Stop(par2) /\ par2 >= par1[0] /\ par1[0] <= par2
         /\ pc[0] # "append" => Listed(num, Found, Reached(num, FirstBlock(num), par1[0], par2))
<1>1. pc[0] # "ended" /\ pc[0] \in Inside
  BY DEF Inside
<1>2. Even(num) => par2 = num - par1[0]
  BY DEF IInv, SumsInOrder
<1>3. /\ Stop(par1[0]) /\ IsPrime(par1[0]) /\ (~Even(num) => Stop(par2) /\ par2 >= par1[0])
      /\ pc[0] # "append" => Listed(num, Found, Reached(num, FirstBlock(num), par1[0], par2))
  BY <1>1, FirstAtWork DEF LoopsFind, LoopFinds
<1> QED BY <1>1, <1>2, <1>3, FirstAtWork

(* No sum has the numbers at hand, and the loops go on.                    *)
LEMMA PassesFind ==
  ASSUME IInv, FindInv, 0 \in Threads, pc[0] \in Inside \ {"bound", "append"}, NextSecond(0),
         UNCHANGED <<mainVars, cantidad_sumas, array_sumas>>,
         \A x \in FirstBlock(num) : ~(x[1] = par1[0] /\ x[2] = par2)
  PROVE  FindInv'
<1>1. pc[0] # "ended"
  BY DEF Inside
<1>2. Found' = Found
  BY TeamStays DEF Found
<1>3. Passed(num, FirstBlock(num), par1[0], par2) = Reached(num, FirstBlock(num), par1[0], par2)
  BY <1>1, FirstAtWork, InsideIs, NoSum
<1>4. Listed(num, Found', Passed(num, FirstBlock(num), par1[0], par2)) /\ array_sumas' \in Seq(Int)
  BY <1>2, <1>3, InsideIs DEF FindInv
<1> QED BY <1>4, NextSecondFinds

(* es_primo(par2)                                                          *)
LEMMA TestSecondFinds ==
  ASSUME IInv, FindInv, 0 \in Threads, TestSecond(0)
  PROVE  FindInv'
<1>1. /\ pc[0] = "second" /\ pc[0] \in Inside \ {"bound", "append"} /\ pc[0] # "ended"
      /\ UNCHANGED <<mainVars, crash, cantidad_sumas, array_sumas, copy>>
  BY DEF TestSecond, At, Inside
<1>2. Found' = Found /\ array_sumas' \in Seq(Int)
  BY <1>1, TeamStays DEF Found, FindInv
<1>3. CASE IsPrime(par2)
  <2>1. /\ pc'[0] = (IF Even(num) THEN "load" ELSE "third") /\ par1' = par1 /\ par2' = par2
        /\ par3' = IF Even(num) THEN par3 ELSE num - par1[0] - par2
    BY <1>1, <1>3, FirstAtWork DEF TestSecond, Go
  <2>2. LoopFinds(num, FirstBlock(num), pc'[0], par1'[0], par2', par3', copy'[0], Found')
    <3>1. CASE Even(num)
      BY <1>1, <1>2, <1>3, <2>1, <3>1, InsideIs DEF LoopFinds, Inside
    <3>2. CASE ~Even(num)
      BY <1>1, <1>2, <1>3, <2>1, <3>2, InsideIs DEF LoopFinds, Inside
    <3> QED BY <3>1, <3>2
  <2> QED BY <1>1, <1>2, <2>2, FirstAtWork, ThreadFinds
<1>4. CASE ~IsPrime(par2)
  <2>1. NextSecond(0)
    BY <1>4 DEF TestSecond
  <2>2. \A x \in FirstBlock(num) : ~(x[1] = par1[0] /\ x[2] = par2)
    BY <1>1, <1>4, FirstAtWork, BlockSumIs
  <2> QED BY <1>1, <2>1, <2>2, PassesFind
<1> QED BY <1>3, <1>4

(* primo3 >= primo2 && es_primo(primo3)                                    *)
LEMMA TestThirdFinds ==
  ASSUME IInv, FindInv, 0 \in Threads, TestThird(0)
  PROVE  FindInv'
<1>1. /\ pc[0] = "third" /\ pc[0] \in Inside \ {"bound", "append"} /\ pc[0] # "ended"
      /\ UNCHANGED <<mainVars, crash, par3, cantidad_sumas, array_sumas, copy>>
  BY DEF TestThird, At, Inside
<1>2. Found' = Found /\ array_sumas' \in Seq(Int) /\ ~Even(num)
  BY <1>1, TeamStays DEF Found, FindInv, IInv, SumsInOrder
<1>3. IsPrime(par2) /\ par3 = num - par1[0] - par2
  BY <1>1, <1>2, FirstAtWork DEF LoopsFind, LoopFinds
<1>4. CASE par3 >= par2 /\ IsPrime(par3)
  <2>1. pc'[0] = "load" /\ par1' = par1 /\ par2' = par2
    BY <1>1, <1>4, FirstAtWork DEF TestThird, Go
  <2>2. LoopFinds(num, FirstBlock(num), pc'[0], par1'[0], par2', par3', copy'[0], Found')
    BY <1>1, <1>2, <1>3, <1>4, <2>1, InsideIs DEF LoopFinds, Inside
  <2> QED BY <1>1, <1>2, <2>2, FirstAtWork, ThreadFinds
<1>5. CASE ~(par3 >= par2 /\ IsPrime(par3))
  <2>1. NextSecond(0)
    BY <1>5 DEF TestThird
  <2>2. \A x \in FirstBlock(num) : ~(x[1] = par1[0] /\ x[2] = par2)
    <3>1. \A x \in FirstBlock(num) :
            x[3] = num - x[1] - x[2] /\ x[2] <= x[3] /\ IsPrime(x[3]) /\ x[2] \in Int
      BY <1>1, <1>2, FirstAtWork, BlockSumIs
    <3>2. ASSUME NEW x \in FirstBlock(num), x[1] = par1[0], x[2] = par2 PROVE FALSE
      <4>1. x[3] = par3 /\ par2 <= par3 /\ IsPrime(par3)
        BY <1>3, <3>1, <3>2
      <4> QED BY <1>1, <1>5, <4>1, FirstAtWork
    <3> QED BY <3>2
  <2> QED BY <1>1, <2>1, <2>2, PassesFind
<1> QED BY <1>4, <1>5

(* The load of cantidad_sumas++                                            *)
LEMMA LoadFinds ==
  ASSUME IInv, FindInv, 0 \in Threads, LoadCount(0)
  PROVE  FindInv'
<1>1. /\ pc[0] = "load" /\ pc[0] \in Inside \ {"bound", "append"} /\ pc[0] # "ended"
      /\ UNCHANGED <<mainVars, crash, par1, par2, par3, cantidad_sumas, array_sumas>>
  BY DEF LoadCount, At, Inside
<1>2. /\ Found' = Found /\ array_sumas' \in Seq(Int) /\ Found.count = cantidad_sumas
      /\ pc'[0] = "store" /\ copy'[0] = cantidad_sumas
  BY <1>1, TeamStays, FirstAtWork DEF Found, FindInv, LoadCount, Go
<1>3. LoopFinds(num, FirstBlock(num), pc'[0], par1'[0], par2', par3', copy'[0], Found')
  <2>1. Stop(par1[0]) /\ IsPrime(par1[0]) /\ (~Even(num) => Stop(par2) /\ par2 >= par1[0])
        /\ Listed(num, Found, Reached(num, FirstBlock(num), par1[0], par2))
    BY <1>1, InsideIs
  <2>2. IsPrime(par2) /\ (~Even(num) => par3 = num - par1[0] - par2 /\ par3 >= par2 /\ IsPrime(par3))
    BY <1>1, FirstAtWork DEF LoopsFind, LoopFinds, Inside
  <2> HIDE DEF Found
  <2> QED BY <1>1, <1>2, <2>1, <2>2 DEF LoopFinds, Inside
<1> QED BY <1>1, <1>2, <1>3, FirstAtWork, ThreadFinds

(* The sum at hand, in the state                                           *)
AtHand == IF Even(num) THEN <<par1[0], par2>> ELSE <<par1[0], par2, par3>>

LEMMA AtHandIs ==
  ASSUME IInv, FindInv, 0 \in Threads, pc[0] \in {"store", "append"}
  PROVE  LET S == Reached(num, FirstBlock(num), par1[0], par2) IN
         /\ AtHand \in Seq(Int) /\ Len(AtHand) = Arity(num) /\ AtHand \notin S
         /\ \A y \in S : Before(y, AtHand)
         /\ Passed(num, FirstBlock(num), par1[0], par2) = S \cup {AtHand}
<1>1. pc[0] # "ended" /\ pc[0] \in Inside \ {"bound"}
  BY DEF Inside
<1>2. IsPrime(par2) /\ (~Even(num) => par3 = num - par1[0] - par2 /\ par3 >= par2 /\ IsPrime(par3))
  BY <1>1, FirstAtWork DEF LoopsFind, LoopFinds
<1>3. PICK a \in Nat, b \in Nat, c \in Int : a = par1[0] /\ b = par2 /\ c = par3
  BY <1>1, FirstAtWork
<1>4. /\ Stop(a) /\ a < End(num, 0) /\ IsPrime(a) /\ IsPrime(b) /\ (Even(num) => b = num - a)
      /\ ~Even(num) => Stop(b) /\ b >= a /\ c = num - a - b /\ c >= b /\ IsPrime(c)
  BY <1>1, <1>2, <1>3, FirstAtWork, InsideIs
<1>5. LET x == IF Even(num) THEN <<a, b>> ELSE <<a, b, c>>
          S == Reached(num, FirstBlock(num), a, b)
      IN  /\ x \in Seq(Int) /\ Len(x) = Arity(num) /\ x \notin S
          /\ \A y \in S : Before(y, x)
          /\ Passed(num, FirstBlock(num), a, b) = S \cup {x}
  BY <1>1, <1>4, FirstAtWork, SumAtHand
<1>6. AtHand = IF Even(num) THEN <<a, b>> ELSE <<a, b, c>>
  BY <1>3 DEF AtHand
<1> QED BY <1>3, <1>5, <1>6, Zenon

(* The store of cantidad_sumas++: the sum is counted, and listed later.    *)
LEMMA StoreFinds ==
  ASSUME IInv, FindInv, 0 \in Threads, StoreCount(0)
  PROVE  FindInv'
<1>1. /\ pc[0] = "store" /\ pc[0] \in Inside \ {"bound"} /\ pc[0] # "ended" /\ pc[0] # "append"
      /\ UNCHANGED <<mainVars, crash, par3, array_sumas, copy>> /\ cantidad_sumas' = copy[0] + 1
  BY DEF StoreCount, At, Inside
<1>2. copy[0] = cantidad_sumas /\ cantidad_sumas \in Nat
  BY <1>1, FirstAtWork DEF LoopsFind, LoopFinds, Found, IInv, Rest
<1>3. /\ Found' = [shown |-> mostrar_sumas, count |-> cantidad_sumas + 1, array |-> array_sumas]
      /\ array_sumas' \in Seq(Int)
  BY <1>1, <1>2, TeamStays DEF Found, FindInv
<1>4. Listed(num, Found, Reached(num, FirstBlock(num), par1[0], par2))
  BY <1>1, InsideIs
<1>5. CASE ~mostrar_sumas
  <2>1. NextSecond(0)
    BY <1>5 DEF StoreCount
  <2>2. /\ Found'.count = Found.count + 1 /\ Found'.shown = Found.shown
        /\ Found'.array = IF Found.shown THEN Found.array \o AtHand ELSE Found.array
    BY <1>3, <1>5 DEF Found
  <2>3. Listed(num, Found', Passed(num, FirstBlock(num), par1[0], par2))
    <3> HIDE DEF Found
    <3> QED BY <1>1, <1>4, <2>2, FirstAtWork, AtHandIs, AddSum
  <2> QED BY <1>1, <1>3, <2>1, <2>3, NextSecondFinds
<1>6. CASE mostrar_sumas
  <2>1. pc'[0] = "append" /\ par1' = par1 /\ par2' = par2
    BY <1>1, <1>6, FirstAtWork DEF StoreCount, Go
  <2>2. BeforeLast(Found') = Found
    BY <1>2, <1>3 DEF BeforeLast, Found
  <2>3. Found'.shown
    BY <1>3, <1>6
  <2>4. IsPrime(par2) /\ (~Even(num) => par3 = num - par1[0] - par2 /\ par3 >= par2 /\ IsPrime(par3))
    BY <1>1, FirstAtWork DEF LoopsFind, LoopFinds
  <2>5. LoopFinds(num, FirstBlock(num), pc'[0], par1'[0], par2', par3', copy'[0], Found')
    <3>1. Stop(par1[0]) /\ IsPrime(par1[0]) /\ (~Even(num) => Stop(par2) /\ par2 >= par1[0])
      BY <1>1, InsideIs
    <3> HIDE DEF Found
    <3> QED BY <1>1, <1>4, <2>1, <2>2, <2>3, <2>4, <3>1 DEF LoopFinds, Inside
  <2> QED BY <1>1, <1>3, <2>5, FirstAtWork, ThreadFinds
<1> QED BY <1>5, <1>6

(* append_dynamic_array for each prime of the sum                          *)
LEMMA AppendFinds ==
  ASSUME IInv, FindInv, 0 \in Threads, AppendSum(0)
  PROVE  FindInv'
<1>1. /\ pc[0] = "append" /\ pc[0] \in Inside \ {"bound"} /\ pc[0] # "ended"
      /\ UNCHANGED <<mainVars, par3, cantidad_sumas, copy>>
  BY DEF AppendSum, At, Inside
<1>2. /\ mostrar_sumas /\ mostrar_sumas \in BOOLEAN /\ cantidad_sumas \in Nat
      /\ Listed(num, BeforeLast(Found), Reached(num, FirstBlock(num), par1[0], par2))
  BY <1>1, FirstAtWork DEF LoopsFind, LoopFinds, Found, IInv, Rest, mostrar_sumas
<1>3. CASE array_sumas' = array_sumas \o AtHand /\ NextSecond(0)
  <2>1. Found' = [shown |-> mostrar_sumas, count |-> cantidad_sumas, array |-> array_sumas \o AtHand]
    BY <1>1, <1>3, TeamStays DEF Found
  <2>2. BeforeLast(Found) = [shown |-> mostrar_sumas, count |-> cantidad_sumas - 1,
                             array |-> array_sumas]
    BY DEF BeforeLast, Found
  <2>3. ListTypes(BeforeLast(Found))
    <3>1. cantidad_sumas - 1 \in Nat
      BY <1>2, <2>2, FS_CardinalityType DEF Listed
    <3> QED BY <1>2, <2>2, <3>1 DEF ListTypes, FindInv
  <2>4. /\ Found'.count = BeforeLast(Found).count + 1 /\ Found'.shown = BeforeLast(Found).shown
        /\ Found'.array = (IF BeforeLast(Found).shown THEN BeforeLast(Found).array \o AtHand
                                                      ELSE BeforeLast(Found).array)
        /\ Found'.array = array_sumas'
    BY <1>2, <1>3, <2>1, <2>2
  <2>5. PICK s, r : s = BeforeLast(Found) /\ r = Found'
    OBVIOUS
  <2>6. r.array \in Seq(Int) /\ Listed(num, r, Passed(num, FirstBlock(num), par1[0], par2))
    <3>1. PICK S : S = Reached(num, FirstBlock(num), par1[0], par2)
      OBVIOUS
    <3>2. /\ AtHand \in Seq(Int) /\ Len(AtHand) = Arity(num) /\ AtHand \notin S
          /\ \A y \in S : Before(y, AtHand)
          /\ Passed(num, FirstBlock(num), par1[0], par2) = S \cup {AtHand}
      BY <1>1, <3>1, AtHandIs, Zenon
    <3>3. ListTypes(s) /\ Listed(num, s, S) /\ num \in Nat
      BY <1>1, <1>2, <2>3, <2>5, <3>1, FirstAtWork, Zenon
    <3>4. r.count = s.count + 1 /\ r.shown = s.shown
          /\ r.array = IF s.shown THEN s.array \o AtHand ELSE s.array
      BY <2>4, <2>5, Zenon
    <3>5. r.array \in Seq(Int) /\ Listed(num, r, S \cup {AtHand})
      BY <3>2, <3>3, <3>4, AddSum
    <3> QED BY <3>2, <3>5, Zenon
  <2> QED BY <1>1, <1>3, <2>4, <2>5, <2>6, NextSecondFinds
<1>4. CASE UNCHANGED <<par1, par2, array_sumas, pc>>
  <2>1. Found' = Found /\ array_sumas' \in Seq(Int)
    BY <1>1, <1>4, TeamStays DEF Found, FindInv
  <2>2. LoopFinds(num, FirstBlock(num), pc'[0], par1'[0], par2', par3', copy'[0], Found')
    BY <1>1, <1>4, <2>1, FirstAtWork DEF LoopsFind
  <2> QED BY <1>1, <2>1, <2>2, FirstAtWork, ThreadFinds
<1>5. AtHand = IF Even(num) THEN <<par1[0], par2>> ELSE <<par1[0], par2, par3>>
  BY DEF AtHand
<1> QED BY <1>3, <1>4, <1>5 DEF AppendSum

(* The steps of the threads                                                *)
LEMMA TeamFinds ==
  ASSUME IInv, FindInv, NEW t \in Threads, ThreadStep(t)
  PROVE  FindInv'
<1>1. CASE t = 0
  BY <1>1, TestFirstFinds, TestBoundFinds, TestSecondFinds, TestThirdFinds, LoadFinds, StoreFinds,
     AppendFinds DEF ThreadStep
<1>2. CASE t # 0
  BY <1>2, OthersFind
<1> QED BY <1>1, <1>2
-----------------------------------------------------------------------------
(* A row that main leaves is an earlier one, or right.                     *)
LEMMA RowsFind ==
  ASSUME FindsFirstBlock, thread_count' = thread_count,
         \A i \in Done' :
           \/ i \in Done /\ rows'[i] = rows[i] /\ kept'[i] = kept[i]
           \/ /\ IsRow(rows'[i], kept'[i], FirstBlock(Abs(kept'[i])))
              /\ Team = 1 /\ Abs(kept'[i]) > 5 =>
                   FirstBlock(Abs(kept'[i])) = Partitions(Abs(kept'[i])) \cup Repeated(Abs(kept'[i]))
  PROVE  FindsFirstBlock'
<1>1. Team' = Team
  BY DEF Team
<1>2. ASSUME NEW i \in Done' PROVE FirstBlock(Abs(kept[i]))' = FirstBlock(Abs(kept'[i]))
  BY <1>1 DEF FirstBlock, End, FirstIteration
<1>3. ASSUME NEW i \in Done'
      PROVE  /\ IsRow(rows'[i], kept'[i], FirstBlock(Abs(kept'[i])))
             /\ Team = 1 /\ Abs(kept'[i]) > 5 =>
                  FirstBlock(Abs(kept'[i])) = Partitions(Abs(kept'[i])) \cup Repeated(Abs(kept'[i]))
  <2>1. CASE i \in Done /\ rows'[i] = rows[i] /\ kept'[i] = kept[i]
    BY <2>1, Zenon DEF FindsFirstBlock
  <2> QED BY <2>1, Zenon
<1> QED BY <1>1, <1>2, <1>3, Zenon DEF FindsFirstBlock

(* The initial states                                                      *)
LEMMA InitFinds == Init => FindInv
<1> SUFFICES ASSUME Init PROVE FindInv
  OBVIOUS
<1>1. Done = {} /\ main = "arguments" /\ array_sumas = << >>
  BY DEF Init, Done
<1> QED BY <1>1 DEF FindInv, RowsInOrder, FindsFirstBlock

(* Before the first number is taken no row is left.                        *)
LEMMA ReadingFinds ==
  ASSUME IInv, FindInv, Analyze \/ ReadNumber \/ EndOfInput
  PROVE  FindInv'
<1>1. /\ id_num = 0 /\ id_num' = 0 /\ array_sumas' = array_sumas
      /\ main' \in {"arguments", "read", "exit", "take"}
  BY DEF IInv, NumbersInOrder, Analyze, ReadNumber, EndOfInput, MainAt, regionVars
<1>2. main' = "take" => DOMAIN rows' = 1 .. total_num'
  BY DEF Analyze, ReadNumber, EndOfInput, MainAt, inputVars
<1>3. Done' = {}
  BY <1>1 DEF Done
<1>4. FindsFirstBlock'
  BY <1>3 DEF FindsFirstBlock
<1> QED BY <1>1, <1>2, <1>4 DEF FindInv, RowsInOrder

(* The steps that only end something                                       *)
LEMMA EndingFinds ==
  ASSUME IInv, FindInv, NoMoreNumbers \/ PrintRows
  PROVE  FindInv'
<1>1. /\ UNCHANGED <<inputVars, id_num, rows, regionVars>> /\ main \in {"take", "print"}
      /\ main' \in {"print", "exit"} /\ crash = "none"
  BY DEF NoMoreNumbers, PrintRows, MainAt
<1>2. id_num \in Nat
  BY LenProperties DEF IInv, NumbersInOrder
<1>3. FindsFirstBlock'
  <2>1. \A i \in Done' : i \in Done
    BY <1>1, <1>2 DEF Done
  <2> QED BY <1>1, <2>1, RowsFind DEF FindInv, RowsInOrder, inputVars
<1> QED BY <1>1, <1>3 DEF FindInv, RowsInOrder, regionVars

(* The next number: its row has its text, or all of it.                    *)
LEMMA TakeFinds ==
  ASSUME IInv, FindInv, TakeNumber
  PROVE  FindInv'
<1> DEFINE n == Head(cola_entrada)
<1>1. /\ main = "take" /\ crash = "none" /\ UNCHANGED <<inputVars, regionVars>>
      /\ cola_entrada # << >> /\ id_num' = id_num + 1
  BY DEF TakeNumber, MainAt
<1>2. /\ kept \in Seq(Int) /\ Len(kept) \in Nat /\ id_num \in 0 .. Len(kept)
      /\ cola_entrada = SubSeq(kept, id_num + 1, Len(kept)) /\ Len(kept) <= total_num
      /\ total_num \in Nat
  <2>1. Len(input) \in Nat
    BY TeamTypes DEF IInv, Rest
  <2> QED BY <2>1, LenProperties DEF IInv, NumbersInOrder
<1>3. id_num < Len(kept)
  <2>1. SUFFICES ASSUME id_num = Len(kept) PROVE FALSE
    BY <1>2
  <2>2. SubSeq(kept, id_num + 1, Len(kept)) = << >>
    BY <1>2, <2>1, SubSeqEmpty
  <2> QED BY <1>1, <1>2, <2>2
<1>4. n = kept[id_num + 1] /\ n \in Int /\ kept' = kept /\ thread_count' = thread_count
      /\ total_num' = total_num /\ array_sumas' = array_sumas /\ signed' = n
  <2>1. n = kept[id_num + 1]
    BY <1>2, <1>3, HeadTailOfSubSeq
  <2>2. kept[id_num + 1] \in Int
    BY <1>2, <1>3, ElementOfSeq
  <2> QED BY <1>1, <2>1, <2>2 DEF inputVars, regionVars, signed
<1> HIDE DEF n
<1>5. DOMAIN rows = 1 .. total_num /\ FindsFirstBlock /\ array_sumas \in Seq(Int)
  BY <1>1 DEF FindInv, RowsInOrder
<1>6. id_num' \in 1 .. total_num
  BY <1>1, <1>2, <1>3
<1>7. CASE crash' = "null" /\ UNCHANGED <<main, rows>>
  <2>1. Done' = Done
    BY <1>1, <1>2, <1>7 DEF Done
  <2>2. FindsFirstBlock'
    BY <1>4, <1>5, <1>7, <2>1, RowsFind
  <2> QED BY <1>1, <1>4, <1>5, <1>7, <2>2 DEF FindInv, RowsInOrder
<1>8. CASE /\ Abs(n) <= 5 /\ rows' = [rows EXCEPT ![id_num'] = <<NumberPiece(n), NA>>]
           /\ UNCHANGED <<main, crash>>
  <2>1. /\ DOMAIN rows' = DOMAIN rows /\ rows'[id_num'] = <<NumberPiece(n), NA>>
        /\ \A i \in 1 .. id_num : rows'[i] = rows[i]
    BY <1>1, <1>2, <1>3, <1>5, <1>6, <1>8
  <2>2. Done = 1 .. id_num /\ Done' = 1 .. id_num + 1
    BY <1>1, <1>8 DEF Done
  <2>3. IsRow(rows'[id_num'], n, FirstBlock(Abs(n)))
    <3>1. PICK a, b : a = <<"", n, ": ">> /\ b = <<"NA">>
      OBVIOUS
    <3>2. rows'[id_num'] = <<a, b>>
      BY <2>1, <3>1, Zenon DEF NumberPiece, NA
    <3>3. <<a, b>>[1] = a /\ Tail(<<a, b>>) = <<b>>
      OBVIOUS
    <3> QED BY <1>8, <3>1, <3>2, <3>3, Zenon DEF IsRow
  <2>4. ~(Abs(n) > 5)
    BY <1>4, <1>8 DEF Abs
  <2>5. FindsFirstBlock'
    <3>1. ASSUME NEW i \in Done'
          PROVE  i \in Done \/ i = id_num'
      BY <1>1, <1>2, <2>2
    <3>2. kept'[id_num'] = n
      BY <1>1, <1>4
    <3> QED BY <1>4, <1>5, <2>1, <2>2, <2>3, <2>4, <3>1, <3>2, RowsFind
  <2> QED BY <1>1, <1>4, <1>5, <1>8, <2>1, <2>5 DEF FindInv, RowsInOrder
<1>9. CASE /\ rows' = [rows EXCEPT ![id_num'] = <<NumberPiece(n)>>]
           /\ main' = "fork" /\ UNCHANGED crash
  <2>1. /\ DOMAIN rows' = DOMAIN rows /\ rows'[id_num'] = <<NumberPiece(n)>>
        /\ \A i \in 1 .. id_num : rows'[i] = rows[i]
    BY <1>1, <1>2, <1>3, <1>5, <1>6, <1>9
  <2>2. Done = 1 .. id_num /\ Done' = 1 .. id_num
    BY <1>1, <1>2, <1>9 DEF Done
  <2>3. FindsFirstBlock'
    BY <1>4, <1>5, <2>1, <2>2, RowsFind
  <2> QED BY <1>4, <1>5, <1>9, <2>1, <2>3 DEF FindInv, RowsInOrder
<1> QED BY <1>7, <1>8, <1>9 DEF TakeNumber, n

(* Where main is with a number                                             *)
LEMMA NumberAtHand ==
  ASSUME IInv, main \in {"fork", "region"}
  PROVE  /\ Team \in Nat \ {0} /\ 0 \in Threads /\ signed \in Int /\ num = Abs(signed)
         /\ num \in Nat /\ num > 5 /\ id_num \in Nat \ {0} /\ id_num <= total_num
         /\ total_num \in Nat
<1>1. Team \in Nat \ {0} /\ Len(input) \in Nat /\ 0 \in Threads
  BY TeamTypes DEF IInv, Rest, Threads
<1>2. /\ kept \in Seq(Int) /\ Len(kept) \in Nat /\ id_num \in 1 .. Len(kept) /\ num > 5
      /\ Len(kept) <= total_num /\ total_num \in Nat
  BY <1>1, LenProperties DEF IInv, NumbersInOrder
<1>3. signed \in Int
  BY <1>2, ElementOfSeq DEF signed
<1> QED BY <1>1, <1>2, <1>3 DEF num, Abs

(* Nothing is found at the start of the team.                              *)
LEMMA NothingFound ==
  ASSUME NEW n \in Nat, NEW shown \in BOOLEAN
  PROVE  Listed(n, [shown |-> shown, count |-> 0, array |-> << >>], {})
<1>1. Lists(SumsIn(<< >>, Arity(n), 0), {})
  BY DEF Lists, SumsIn
<1>2. Arity(n) * 0 = 0 /\ Len(<< >>) = 0
  BY DEF Arity
<1> QED BY <1>1, <1>2, FS_EmptySet DEF Listed

LEMMA ForkFinds ==
  ASSUME IInv, FindInv, Fork
  PROVE  FindInv'
<1>1. /\ main = "fork" /\ UNCHANGED <<inputVars, id_num, rows>> /\ kept' = kept
      /\ thread_count' = thread_count /\ total_num' = total_num
  BY DEF Fork, MainAt, inputVars
<1>2. /\ Team \in Nat \ {0} /\ num \in Nat /\ num > 5 /\ 0 \in Threads
      /\ num' = num /\ signed' = signed /\ mostrar_sumas' = mostrar_sumas /\ mostrar_sumas \in BOOLEAN
      /\ FirstBlock(num)' = FirstBlock(num)
  <2>1. num' = num /\ signed' = signed /\ mostrar_sumas' = mostrar_sumas
    BY <1>1 DEF num, signed, mostrar_sumas
  <2>2. FirstBlock(num)' = FirstBlock(num)
    BY <1>1, <2>1 DEF FirstBlock, End, FirstIteration, Team
  <2>3. mostrar_sumas \in BOOLEAN
    BY DEF mostrar_sumas
  <2> QED BY <1>1, <2>1, <2>2, <2>3, NumberAtHand
<1>3. main' \in {"fork", "region"}
  BY <1>1 DEF Fork
<1>4. RowsInOrder'
  <2>1. Done' = Done
    BY <1>1, <1>3 DEF Done
  <2>2. FindsFirstBlock'
    BY <1>1, <2>1, RowsFind DEF FindInv, RowsInOrder
  <2> QED BY <1>1, <1>2, <1>3, <2>2 DEF FindInv, RowsInOrder
<1>5. CASE main' = "fork" /\ UNCHANGED regionVars
  BY <1>4, <1>5 DEF FindInv, regionVars
<1>6. CASE /\ cantidad_sumas' = 0 /\ array_sumas' = << >>
           /\ par1' = [t \in Threads |-> Start(num, t)]
           /\ pc' = [t \in Threads |-> IF Start(num, t) < End(num, t) THEN "first" ELSE "ended"]
  <2>1. /\ par1'[0] = Start(num, 0)
        /\ pc'[0] = IF Start(num, 0) < End(num, 0) THEN "first" ELSE "ended"
    BY <1>2, <1>6
  <2>2. Start(num, 0) = 2
    <3>1. LastFirst(num) \in Nat /\ Iterations(num) \in Nat
      BY <1>2 DEF LastFirst, Iterations
    <3>2. PICK q \in Nat, r \in Nat : q = Iterations(num) \div Team /\ r = Iterations(num) % Team
      BY <1>2, <3>1, Quotient
    <3>3. FirstIteration(num, 0) = 0
      BY <3>2 DEF FirstIteration
    <3> QED BY <3>3 DEF Start, Value
  <2>3. Listed(num, Found', {})
    <3>1. Found' = [shown |-> mostrar_sumas, count |-> 0, array |-> << >>]
      BY <1>2, <1>6 DEF Found
    <3> QED BY <1>2, <3>1, NothingFound
  <2>4. /\ Below(FirstBlock(num), 2) = {} /\ Stop(2) /\ End(num, 0) \in Nat
        /\ 2 >= End(num, 0) => FirstBlock(num) = {}
    <3>1. Stop(2)
      BY DEF Stop
    <3> QED BY <1>2, <3>1, BelowIs, BlockIs
  <2>5. LoopFinds(num, FirstBlock(num), pc'[0], par1'[0], par2', par3', copy'[0], Found')
    <3> HIDE DEF Found
    <3>1. CASE 2 < End(num, 0)
      BY <2>1, <2>2, <2>3, <2>4, <3>1 DEF LoopFinds, Inside
    <3>2. CASE ~(2 < End(num, 0))
      BY <2>1, <2>2, <2>3, <2>4, <3>2 DEF LoopFinds, Inside
    <3> QED BY <3>1, <3>2
  <2>6. LoopsFind'
    BY <1>2, <2>5 DEF LoopsFind
  <2> QED BY <1>4, <1>6, <2>6 DEF FindInv
<1> QED BY <1>1, <1>5, <1>6 DEF Fork

(* The team has ended, and the row of the number is what it has found.     *)
LEMMA JoinFinds ==
  ASSUME IInv, FindInv, JoinAndPrint
  PROVE  FindInv'
<1> DEFINE text == rows[id_num] \o Result(Even(num), mostrar_sumas, cantidad_sumas, array_sumas)
<1>1. /\ main = "region" /\ \A t \in Threads : pc[t] = "ended"
      /\ UNCHANGED <<inputVars, id_num, regionVars>> /\ kept' = kept
      /\ thread_count' = thread_count /\ total_num' = total_num
      /\ \/ rows' = [rows EXCEPT ![id_num] = text] /\ main' = "take" /\ crash' = crash
         \/ UNCHANGED <<rows, main>>
      /\ crash = "none"
  BY DEF JoinAndPrint, MainAt, inputVars
<1>2. /\ Team \in Nat \ {0} /\ num \in Nat /\ num > 5 /\ 0 \in Threads /\ signed \in Int
      /\ num = Abs(signed) /\ id_num \in 1 .. total_num /\ total_num \in Nat
  BY <1>1, NumberAtHand
<1>3. /\ DOMAIN rows = 1 .. total_num /\ rows[id_num] = <<NumberPiece(signed)>>
      /\ FindsFirstBlock /\ array_sumas \in Seq(Int) /\ Listed(num, Found, FirstBlock(num))
  BY <1>1, <1>2 DEF FindInv, RowsInOrder, LoopsFind, LoopFinds
<1>4. array_sumas' \in Seq(Int)
  BY <1>1, <1>3 DEF regionVars
<1>5. CASE rows' = [rows EXCEPT ![id_num] = text] /\ main' = "take" /\ crash' = crash
  <2>1. /\ DOMAIN rows' = 1 .. total_num /\ rows'[id_num] = text
        /\ \A i \in 1 .. id_num - 1 : rows'[i] = rows[i]
    <3> HIDE DEF text
    <3> QED BY <1>2, <1>3, <1>5
  <2>2. Done = 1 .. id_num - 1 /\ Done' = 1 .. id_num
    BY <1>1, <1>5 DEF Done
  <2>3. IsRow(text, signed, FirstBlock(num))
    <3>1. ListTypes(Found) /\ Found.shown = (signed < 0)
      BY <1>3 DEF ListTypes, Found, IInv, Rest, mostrar_sumas
    <3>2. IsRow(<<NumberPiece(signed)>> \o Result(Even(num), Found.shown, Found.count, Found.array),
                signed, FirstBlock(num))
      <4> HIDE DEF Found
      <4> QED BY <1>2, <1>3, <3>1, RowIs
    <3>3. text = <<NumberPiece(signed)>> \o Result(Even(num), Found.shown, Found.count, Found.array)
      BY <1>3 DEF Found
    <3> HIDE DEF text
    <3> QED BY <3>2, <3>3, Zenon
  <2>4. Team = 1 => FirstBlock(num) = Partitions(num) \cup Repeated(num)
    BY <1>2, OneThreadHasAll
  <2>5. FindsFirstBlock'
    <3>1. ASSUME NEW i \in Done' PROVE i \in Done \/ i = id_num
      BY <1>2, <2>2
    <3>2. kept'[id_num] = signed
      BY <1>1 DEF signed
    <3> HIDE DEF text
    <3> QED BY <1>1, <1>2, <1>3, <2>1, <2>2, <2>3, <2>4, <3>1, <3>2, RowsFind
  <2> QED BY <1>1, <1>4, <1>5, <2>1, <2>5 DEF FindInv, RowsInOrder
<1>6. CASE UNCHANGED <<rows, main>>
  <2>1. Done' = Done /\ num' = num /\ signed' = signed /\ mostrar_sumas' = mostrar_sumas
    BY <1>1, <1>6 DEF Done, num, signed, mostrar_sumas
  <2>2. FindsFirstBlock'
    BY <1>1, <1>3, <1>6, <2>1, RowsFind
  <2>3. FirstBlock(num)' = FirstBlock(num)
    BY <1>1, <2>1 DEF FirstBlock, End, FirstIteration, Team
  <2>4. LoopsFind'
    BY <1>1, <2>1, <2>3 DEF LoopsFind, Found, regionVars, FindInv
  <2> QED BY <1>1, <1>3, <1>4, <1>6, <2>1, <2>2, <2>4 DEF FindInv, RowsInOrder
<1> QED BY <1>1, <1>5, <1>6

(* Every step keeps what was found.                                        *)
LEMMA NextFinds == IInv /\ FindInv /\ [Next]_vars => FindInv'
<1> SUFFICES ASSUME IInv, FindInv, [Next]_vars PROVE FindInv'
  OBVIOUS
<1>1. CASE MainStep
  BY <1>1, ReadingFinds, EndingFinds, TakeFinds, ForkFinds, JoinFinds DEF MainStep
<1>2. ASSUME NEW t \in Threads, ThreadStep(t) PROVE FindInv'
  BY <1>2, TeamFinds
<1>3. CASE UNCHANGED vars
  <2>1. UNCHANGED mainVars /\ UNCHANGED regionVars /\ crash' = crash
    BY <1>3 DEF vars
  <2>2. Done' = Done /\ thread_count' = thread_count
    BY <2>1 DEF Done, mainVars, inputVars
  <2>3. FindsFirstBlock'
    BY <2>1, <2>2, TeamStays, RowsFind DEF FindInv, RowsInOrder
  <2>4. main = "region" => LoopsFind'
    BY <2>1, TeamStays DEF LoopsFind, Found, regionVars, FindInv
  <2> QED BY <2>1, <2>3, <2>4, TeamStays DEF FindInv, RowsInOrder, regionVars
<1> QED BY <1>1, <1>2, <1>3 DEF Next, Over

(* Every row that main leaves has exactly the sums of the first thread's   *)
(* block, in order and counted once each, for every input and every team,  *)
(* and with one thread those are the sums of the number and, when the two  *)
(* numbers next to an even half are primes, their sum a second time.       *)
THEOREM RowsHaveTheFirstBlock == Spec => []FindsFirstBlock
<1>1. IInv /\ FindInv => FindsFirstBlock
  BY DEF FindInv, RowsInOrder
<1> QED BY <1>1, Invariance, InitFinds, NextFinds, PTL DEF Spec
=============================================================================
