------------------------ MODULE GoldbachSumsProofs ------------------------
(***************************************************************************)
(* Proofs about GoldbachSums, for any numbers, any threads and all three   *)
(* versions: what the loops count and list are the sums, and the table the *)
(* threads share says of no other number that it is a prime.               *)
(***************************************************************************)
EXTENDS GoldbachSums, FiniteSetTheorems, SequenceTheorems, WellFoundedInduction, TLAPS

(* 2 and the odd numbers, where the loops stop *)
Stop(p) == p = 2 \/ (p > 2 /\ ~Even(p))
Arity(n) == IF Even(n) THEN 2 ELSE 3

(* The place where the loops are, while they have not ended                *)
InLoops(n, s) ==
  /\ s.p1 \in 2 .. n /\ Stop(s.p1) /\ Arity(n) * s.p1 <= n
  /\ s.role # "first" => IsPrime(s.p1)
  /\ s.role = "second" /\ Even(n) => s.p2 = n - s.p1
  /\ s.role # "first" /\ ~Even(n) => s.p2 >= s.p1 /\ s.p1 + s.p2 <= n /\ Stop(s.p2)
  /\ s.role = "third" => ~Even(n) /\ IsPrime(s.p2) /\ n - s.p1 - s.p2 >= s.p2

(* The sums before a first prime, and before a first and a second          *)
SumsBelow(n, a)     == {x \in Partitions(n) : x[1] < a}
SumsBefore(n, a, b) == {x \in Partitions(n) : x[1] < a \/ (x[1] = a /\ x[2] < b)}

Counted(n, s) ==
  IF s.role = "first" \/ Even(n) THEN SumsBelow(n, s.p1) ELSE SumsBefore(n, s.p1, s.p2)

(* The sums that the array holds, one after the other                      *)
SumsIn(array, k, count) == [j \in 1 .. count |-> [m \in 1 .. k |-> array[k * (j - 1) + m]]]

(* What the loops have counted and listed are the sums of S, in order      *)
Listed(n, s, S) ==
  /\ IsFiniteSet(S) /\ s.count = Cardinality(S)
  /\ ~s.shown => s.array = << >>
  /\ s.shown => /\ Len(s.array) = Arity(n) * s.count
                /\ Lists(SumsIn(s.array, Arity(n), s.count), S)

(* What a thread's loops are at, for a number with sums                    *)
LoopTypes(n, s) == /\ s \in [role : {"none", "first", "second", "third"}, p1 : 2 .. n, p2 : 0 .. n,
                             shown : BOOLEAN, count : Nat, array : Seq(Int)]
LoopsInv(n, s) ==
  /\ n > 5 /\ LoopTypes(n, s)
  /\ s.role # "none" => InLoops(n, s)
  /\ Listed(n, s, IF s.role = "none" THEN Partitions(n) ELSE Counted(n, s))

(* For MinInt, whose loops end at once                                     *)
NoLoops == AskFirst(MinInt, [Finished EXCEPT !.p1 = 2, !.shown = TRUE])

(* A thread inside es_primo works on an odd number of the table; one that  *)
(* returns the entry finds "prime" there.                                  *)
InTableInOrder(t) ==
  /\ pc[t] \in {"divide", "return"} => HasTable /\ Asked(t) > 2 /\ ~Even(Asked(t))
  /\ pc[t] = "return" => primo[Asked(t)] = 1

(* The number asked about is in the table, and the table is true.          *)
TableInOrder ==
  /\ primo \in [1 .. IF HasTable THEN Mayor(input) ELSE 0 -> {0, 1}]
  /\ HasTable => primo[2] = 1
  /\ \A k \in DOMAIN primo : primo[k] = 1 => IsPrime(k)
  /\ \A t \in Threads : InTableInOrder(t)

(* Where a thread is with its number                                       *)
Idle(t) == pc[t] \in {"take", "ended"}
ThreadInOrder(t) ==
  /\ Idle(t) => row[t] = 0 /\ sum[t] = Finished
  /\ ~Idle(t) =>
       /\ row[t] \in Rows /\ row[t] < next /\ Abs(input[row[t]]) > 5
       /\ sum[t].shown = (input[row[t]] < 0)
       /\ IF input[row[t]] = MinInt THEN pc[t] = "print" /\ sum[t] = NoLoops
                                    ELSE LoopsInv(num(t), sum[t])
       /\ pc[t] = "print" <=> sum[t].role = "none"

ThreadsInOrder ==
  /\ row \in [Threads -> 0 .. Len(input)] /\ DOMAIN sum = Threads
  /\ pc \in [Threads -> {"take", "ask", "divide", "return", "print", "ended"}]
  /\ \A t \in Threads : ThreadInOrder(t)

(* Each row has one thread, which has put the number there; what the       *)
(* threads have left are the lines of the numbers.                         *)
RowsInOrder ==
  /\ DOMAIN rows = Rows
  /\ \A t, u \in Threads : row[t] # 0 /\ row[t] = row[u] => t = u
  /\ \A t \in Threads : row[t] # 0 => rows[row[t]] = <<NumberPiece(input[row[t]])>>
  /\ SumsAreThePartitions

(* The inductive invariant *)
IInv == /\ <<version, input>> \in Inputs /\ next \in 1 .. Len(input) + 1
        /\ crash \in {"none", "null", "row"}
        /\ TableInOrder /\ ThreadsInOrder /\ RowsInOrder
-----------------------------------------------------------------------------
(* A division                                                              *)
LEMMA Quotient ==
  ASSUME NEW n \in Nat, NEW a \in Nat \ {0}
  PROVE  /\ n \div a \in Nat /\ n % a \in Nat /\ n % a < a
         /\ n = a * (n \div a) + (n % a)
<1>1. n \div a \in Nat /\ n % a \in 0 .. a - 1
  OBVIOUS
<1>2. n = a * (n \div a) + (n % a)
  BY Z3
<1> QED BY <1>1, <1>2

(* A product is at least the other factor times any bound of one.          *)
LEMMA ProductGrows ==
  ASSUME NEW a \in Nat, NEW x \in Nat, NEW y \in Nat, x <= y
  PROVE  a * x \in Nat /\ a * y \in Nat /\ a * x <= a * y
<1>1. PICK d \in Nat : y = x + d
  <2>1. y - x \in Nat /\ y = x + (y - x)
    OBVIOUS
  <2> QED BY <2>1
<1>2. a * d \in Nat /\ a * y = a * x + a * d /\ a * x \in Nat
  BY <1>1, SMT
<1> QED BY <1>2

(* A factor divides.                                                       *)
LEMMA FactorDivides ==
  ASSUME NEW a \in Nat \ {0}, NEW b \in Nat
  PROVE  a * b \in Nat /\ (a * b) % a = 0
<1>1. PICK k \in Nat : k = a * b
  <2>1. a * b \in Nat
    BY SMT
  <2> QED BY <2>1
<1>2. PICK q \in Nat, r \in Nat : q = k \div a /\ r = k % a /\ r < a /\ k = a * q + r
  BY Quotient
<1>3. CASE b > q
  <2>1. PICK e \in Nat : b = q + 1 + e
    <3>1. b - q - 1 \in Nat /\ b = q + 1 + (b - q - 1)
      BY <1>3
    <3> QED BY <3>1
  <2>2. a * b = a * q + a + a * e /\ a * e \in Nat /\ a * q \in Nat
    BY <2>1, SMT
  <2> QED BY <1>1, <1>2, <2>2
<1>4. CASE b < q
  <2>1. PICK e \in Nat : q = b + 1 + e
    <3>1. q - b - 1 \in Nat /\ q = b + 1 + (q - b - 1)
      BY <1>4
    <3> QED BY <3>1
  <2>2. a * q = a * b + a + a * e /\ a * e \in Nat /\ a * b \in Nat
    BY <2>1, SMT
  <2> QED BY <1>1, <1>2, <2>2
<1>5. CASE b = q
  <2>1. a * q \in Nat /\ k = a * q
    BY <1>1, <1>5, SMT
  <2>2. r = 0
    BY <1>2, <2>1
  <2> QED BY <1>1, <1>2, <2>2
<1> QED BY <1>3, <1>4, <1>5

(* The factors of an odd number are odd.                                   *)
LEMMA OddFactors ==
  ASSUME NEW a \in Nat, NEW b \in Nat, ~Even(a * b)
  PROVE  ~Even(a) /\ ~Even(b)
<1>1. ASSUME NEW x \in Nat, NEW y \in Nat, Even(x) PROVE Even(x * y)
  <2>1. PICK e \in Nat : x = 2 * e
    <3>1. x \div 2 \in Nat /\ x = 2 * (x \div 2)
      BY <1>1 DEF Even
    <3> QED BY <3>1
  <2>2. PICK f \in Nat : f = e * y
    <3>1. e * y \in Nat
      BY SMT
    <3> QED BY <3>1
  <2>3. x * y = 2 * f
    BY <2>1, <2>2, SMT
  <2>4. Even(2 * f)
    BY DEF Even
  <2> QED BY <2>3, <2>4
<1>2. a * b = b * a
  BY SMT
<1> QED BY <1>1, <1>2

(* The trial division by the odd numbers up to the root decides whether an *)
(* odd number is a prime.                                                  *)
LEMMA TrialDivision ==
  ASSUME NEW k \in Nat, k > 2, ~Even(k)
  PROVE  HasOddDivisor(k) <=> ~IsPrime(k)
<1>1. ASSUME NEW i \in 3 .. k, i * i <= k, k % i = 0 PROVE ~IsPrime(k)
  <2>1. i \in Nat /\ 2 <= i
    OBVIOUS
  <2>2. i * 2 <= i * i
    BY <2>1, ProductGrows
  <2>3. i \in 2 .. k - 1
    <3>1. PICK x \in Nat : x = i * i /\ i * 2 <= x /\ x <= k
      BY <1>1, <2>1, <2>2, ProductGrows
    <3> QED BY <2>1, <3>1
  <2> QED BY <1>1, <2>3 DEF IsPrime
<1>2. ASSUME NEW d \in 2 .. k - 1, k % d = 0 PROVE HasOddDivisor(k)
  <2>1. PICK q \in Nat : q = k \div d /\ k = d * q
    <3>1. k \div d \in Nat /\ k = d * (k \div d) + 0
      BY <1>2, Quotient
    <3>2. d * (k \div d) \in Nat
      BY <3>1, SMT
    <3> QED BY <3>1, <3>2
  <2>2. ~Even(d) /\ ~Even(q) /\ d \in Nat
    <3>1. d \in Nat
      OBVIOUS
    <3>2. ~Even(d * q)
      BY <2>1, Zenon
    <3> QED BY <3>1, <3>2, OddFactors
  <2>3. q # 1
    BY <2>1
  <2>4. q >= 3 /\ d >= 3
    BY <2>2, <2>3 DEF Even
  <2>5. ASSUME NEW x \in Nat, NEW y \in Nat, x >= 3, y >= 3, x <= y, k = x * y, ~Even(x)
        PROVE  HasOddDivisor(k)
    <3>1. x * x <= k /\ k % x = 0
      <4>1. x * x <= x * y
        BY <2>5, ProductGrows
      <4>2. (x * y) % x = 0
        BY <2>5, FactorDivides
      <4> QED BY <2>5, <4>1, <4>2
    <3>2. x * 1 <= x * y /\ x * 1 = x
      BY <2>5, ProductGrows
    <3>3. x \in 3 .. k
      BY <2>5, <3>2
    <3> QED BY <2>5, <3>1, <3>3 DEF HasOddDivisor
  <2>6. k = q * d
    BY <2>1, SMT
  <2> QED BY <2>1, <2>2, <2>4, <2>5, <2>6
<1>3. HasOddDivisor(k) => \E i \in 3 .. k : i * i <= k /\ k % i = 0
  BY Zenon DEF HasOddDivisor
<1>4. ~IsPrime(k) => \E d \in 2 .. k - 1 : k % d = 0
  <2>1. k > 1
    OBVIOUS
  <2> QED BY <2>1, Zenon DEF IsPrime
<1> QED BY <1>1, <1>2, <1>3, <1>4, Zenon

(* Primes: 2, and no other even number                                     *)
LEMMA PrimesAre ==
  /\ IsPrime(2) /\ \A k \in Int : k <= 1 => ~IsPrime(k)
  /\ \A k \in Int : k > 2 /\ Even(k) => ~IsPrime(k)
<1>1. IsPrime(2)
  BY DEF IsPrime
<1>2. ASSUME NEW k \in Int, k > 2, Even(k) PROVE ~IsPrime(k)
  <2>1. 2 \in 2 .. k - 1 /\ k % 2 = 0
    BY <1>2 DEF Even
  <2> QED BY <2>1 DEF IsPrime
<1> QED BY <1>1, <1>2 DEF IsPrime
-----------------------------------------------------------------------------
(* The sums of a number, and their order                                   *)
LEMMA PartitionsAre ==
  ASSUME NEW n \in Nat
  PROVE  /\ Even(n) => \A x : x \in Partitions(n) <=>
              \E p \in 2 .. n : /\ IsPrime(p) /\ IsPrime(n - p) /\ p <= n - p
                                /\ x = <<p, n - p>>
         /\ ~Even(n) => \A x : x \in Partitions(n) <=>
              \E p, q \in 2 .. n : /\ IsPrime(p) /\ IsPrime(q) /\ IsPrime(n - p - q)
                                   /\ p <= q /\ q <= n - p - q /\ x = <<p, q, n - p - q>>
<1>1. ASSUME Even(n), NEW x
      PROVE  x \in Partitions(n) <=>
              \E p \in 2 .. n : /\ IsPrime(p) /\ IsPrime(n - p) /\ p <= n - p
                                /\ x = <<p, n - p>>
  BY <1>1 DEF Partitions, Primes
<1>2. ASSUME ~Even(n), NEW x
      PROVE  x \in Partitions(n) <=>
              \E p, q \in 2 .. n : /\ IsPrime(p) /\ IsPrime(q) /\ IsPrime(n - p - q)
                                   /\ p <= q /\ q <= n - p - q /\ x = <<p, q, n - p - q>>
  <2> DEFINE T == {<<p, q, n - p - q>> : p \in Primes(n), q \in Primes(n)}
  <2>1. x \in Partitions(n) <=> x \in T /\ x[1] <= x[2] /\ x[2] <= x[3] /\ IsPrime(x[3])
    BY <1>2 DEF Partitions
  <2>2. x \in T <=> \E p, q \in 2 .. n : IsPrime(p) /\ IsPrime(q) /\ x = <<p, q, n - p - q>>
    BY DEF Primes
  <2>3. \A p, q, r : x = <<p, q, r>> => x[1] = p /\ x[2] = q /\ x[3] = r
    OBVIOUS
  <2> HIDE DEF T
  <2>4. ASSUME x \in Partitions(n)
        PROVE  \E p, q \in 2 .. n : /\ IsPrime(p) /\ IsPrime(q) /\ IsPrime(n - p - q)
                                    /\ p <= q /\ q <= n - p - q /\ x = <<p, q, n - p - q>>
    <3>1. PICK p \in 2 .. n, q \in 2 .. n : IsPrime(p) /\ IsPrime(q) /\ x = <<p, q, n - p - q>>
      BY <2>1, <2>2, <2>4, Zenon
    <3>2. x[1] = p /\ x[2] = q /\ x[3] = n - p - q
      BY <2>3, <3>1, Zenon
    <3>3. p <= q /\ q <= n - p - q /\ IsPrime(n - p - q)
      BY <2>1, <2>4, <3>2, Zenon
    <3> QED BY <3>1, <3>3, Zenon
  <2>5. ASSUME NEW p \in 2 .. n, NEW q \in 2 .. n, IsPrime(p), IsPrime(q), IsPrime(n - p - q),
               p <= q, q <= n - p - q, x = <<p, q, n - p - q>>
        PROVE  x \in Partitions(n)
    <3>1. x \in T
      BY <2>2, <2>5, Zenon
    <3>2. x[1] = p /\ x[2] = q /\ x[3] = n - p - q
      BY <2>3, <2>5, Zenon
    <3> QED BY <2>1, <2>5, <3>1, <3>2, Zenon
  <2> QED BY <2>4, <2>5, Zenon
<1> QED BY <1>1, <1>2

(* A sum's primes                                                          *)
LEMMA SumIs ==
  ASSUME NEW n \in Nat, NEW x \in Partitions(n)
  PROVE  /\ x \in Seq(Int) /\ Len(x) = Arity(n) /\ DOMAIN x = 1 .. Arity(n)
         /\ x[1] \in 2 .. n /\ IsPrime(x[1]) /\ x[2] \in 2 .. n /\ IsPrime(x[2]) /\ x[1] <= x[2]
         /\ Arity(n) * x[1] <= n
         /\ Even(n) => x[2] = n - x[1] /\ x = <<x[1], x[2]>>
         /\ ~Even(n) => /\ x[3] = n - x[1] - x[2] /\ x[2] <= x[3] /\ IsPrime(x[3])
                        /\ x = <<x[1], x[2], x[3]>>
<1>1. CASE Even(n)
  <2>1. PICK p \in 2 .. n : IsPrime(p) /\ IsPrime(n - p) /\ p <= n - p /\ x = <<p, n - p>>
    BY <1>1, PartitionsAre
  <2> QED BY <1>1, <2>1 DEF Arity
<1>2. CASE ~Even(n)
  <2>1. PICK p \in 2 .. n, q \in 2 .. n :
          /\ IsPrime(p) /\ IsPrime(q) /\ IsPrime(n - p - q)
          /\ p <= q /\ q <= n - p - q /\ x = <<p, q, n - p - q>>
    BY <1>2, PartitionsAre
  <2> QED BY <1>2, <2>1 DEF Arity
<1> QED BY <1>1, <1>2

(* A number has finitely many sums.                                        *)
LEMMA FinitelyMany ==
  ASSUME NEW n \in Nat
  PROVE  IsFiniteSet(Partitions(n))
<1> DEFINE D == (2 .. n) \X (2 .. n)
           f == [x \in Partitions(n) |-> <<x[1], x[2]>>]
<1>1. IsFiniteSet(D)
  <2>1. IsFiniteSet(2 .. n)
    BY FS_Interval
  <2> QED BY <2>1, FS_Product
<1>2. f \in [Partitions(n) -> D]
  BY SumIs
<1>3. ASSUME NEW x \in Partitions(n), NEW y \in Partitions(n), f[x] = f[y] PROVE x = y
  <2>1. x[1] = y[1] /\ x[2] = y[2]
    BY <1>3
  <2>2. CASE Even(n)
    <3>1. x = <<x[1], x[2]>> /\ y = <<y[1], y[2]>>
      BY <2>2, SumIs
    <3> QED BY <2>1, <3>1, Zenon
  <2>3. CASE ~Even(n)
    <3>1. x = <<x[1], x[2], n - x[1] - x[2]>> /\ y = <<y[1], y[2], n - y[1] - y[2]>>
      <4>1. /\ x = <<x[1], x[2], x[3]>> /\ x[3] = n - x[1] - x[2]
            /\ y = <<y[1], y[2], y[3]>> /\ y[3] = n - y[1] - y[2]
        BY <2>3, SumIs
      <4> QED BY <4>1, Zenon
    <3> QED BY <2>1, <3>1, Zenon
  <2> QED BY <2>2, <2>3
<1>4. f \in Injection(Partitions(n), D)
  <2> HIDE DEF f, D
  <2> QED BY <1>2, <1>3 DEF Injection, IsInjective
<1> HIDE DEF f, D
<1> QED BY <1>1, <1>4, FS_Injection

(* The sums below a first prime: none below 2, all of them below one that  *)
(* is too large, and from one stop of the loops to the next only those of  *)
(* the stop are new.                                                       *)
LEMMA Below ==
  ASSUME NEW n \in Nat, NEW p \in 2 .. n, Stop(p)
  PROVE  /\ SumsBelow(n, 2) = {}
         /\ Arity(n) * p > n => SumsBelow(n, p) = Partitions(n)
         /\ SumsBelow(n, Step(p)) = SumsBelow(n, p) \cup {x \in Partitions(n) : x[1] = p}
<1>1. SumsBelow(n, 2) = {}
  BY SumIs DEF SumsBelow
<1>2. ASSUME Arity(n) * p > n PROVE SumsBelow(n, p) = Partitions(n)
  <2>1. ASSUME NEW x \in Partitions(n) PROVE x[1] < p
    <3>1. x[1] \in 2 .. n /\ Arity(n) * x[1] <= n /\ Arity(n) \in {2, 3}
      BY SumIs DEF Arity
    <3> QED BY <1>2, <3>1
  <2> QED BY <2>1 DEF SumsBelow
<1>3. ASSUME NEW x \in Partitions(n)
      PROVE  x[1] < Step(p) <=> x[1] < p \/ x[1] = p
  <2>1. x[1] \in 2 .. n /\ IsPrime(x[1])
    BY SumIs
  <2>2. x[1] > 2 => ~Even(x[1])
    BY <2>1, PrimesAre
  <2>3. p > 2 /\ x[1] = p + 1 => Even(x[1])
    BY DEF Stop, Even
  <2> QED BY <2>1, <2>2, <2>3 DEF Step, Stop
<1> QED BY <1>1, <1>2, <1>3 DEF SumsBelow

(* The same for the second prime of an odd number.                         *)
LEMMA BeforeIs ==
  ASSUME NEW n \in Nat, ~Even(n), NEW p \in 2 .. n, NEW q \in 0 .. n, Stop(p), Stop(q), p <= q
  PROVE  /\ SumsBefore(n, p, p) = SumsBelow(n, p)
         /\ p + q > n => SumsBefore(n, p, q) = SumsBelow(n, Step(p))
         /\ SumsBefore(n, p, Step(q))
              = SumsBefore(n, p, q) \cup {x \in Partitions(n) : x[1] = p /\ x[2] = q}
<1>1. SumsBefore(n, p, p) = SumsBelow(n, p)
  <2>1. ASSUME NEW x \in Partitions(n) PROVE ~(x[1] = p /\ x[2] < p)
    <3>1. x[1] \in 2 .. n /\ x[2] \in 2 .. n /\ x[1] <= x[2]
      BY SumIs
    <3> QED BY <3>1
  <2> QED BY <2>1 DEF SumsBefore, SumsBelow
<1>2. ASSUME p + q > n PROVE SumsBefore(n, p, q) = SumsBelow(n, Step(p))
  <2>1. ASSUME NEW x \in Partitions(n), x[1] = p PROVE x[2] < q
    <3>1. x[1] \in 2 .. n /\ x[2] \in 2 .. n /\ x[3] = n - x[1] - x[2] /\ x[2] <= x[3]
      BY SumIs
    <3> QED BY <1>2, <2>1, <3>1
  <2>2. SumsBefore(n, p, q) = SumsBelow(n, p) \cup {x \in Partitions(n) : x[1] = p}
    BY <2>1 DEF SumsBefore, SumsBelow
  <2> QED BY <2>2, Below
<1>3. ASSUME NEW x \in Partitions(n)
      PROVE  x[2] < Step(q) <=> x[2] < q \/ x[2] = q
  <2>1. x[2] \in 2 .. n /\ IsPrime(x[2])
    BY SumIs
  <2>2. x[2] > 2 => ~Even(x[2])
    BY <2>1, PrimesAre
  <2>3. q > 2 /\ x[2] = q + 1 => Even(x[2])
    BY DEF Stop, Even
  <2> QED BY <2>1, <2>2, <2>3 DEF Step, Stop
<1>4. SumsBefore(n, p, Step(q))
        = SumsBefore(n, p, q) \cup {x \in Partitions(n) : x[1] = p /\ x[2] = q}
  BY <1>3 DEF SumsBefore
<1> QED BY <1>1, <1>2, <1>4
-----------------------------------------------------------------------------
(* One more sum is counted and, if the sums are shown, listed.             *)
LEMMA AddSum ==
  ASSUME NEW n \in Nat, NEW s, LoopTypes(n, s), NEW S \in SUBSET Partitions(n), Listed(n, s, S),
         NEW x \in Partitions(n), x \notin S, \A y \in S : Before(y, x)
  PROVE  LoopTypes(n, Found(s, x)) /\ Listed(n, Found(s, x), S \cup {x})
<1> DEFINE r == Found(s, x)
<1>1. PICK k \in {2, 3} : k = Arity(n)
  BY DEF Arity
<1>2. /\ x \in Seq(Int) /\ Len(x) = k /\ DOMAIN x = 1 .. k
      /\ s.array \in Seq(Int) /\ s.count \in Nat /\ s.shown \in BOOLEAN
  BY <1>1, SumIs DEF LoopTypes
<1>3. /\ r.count = s.count + 1 /\ r.shown = s.shown
      /\ r.array = IF s.shown THEN s.array \o x ELSE s.array
  BY DEF Found, LoopTypes
<1>4. /\ s.array \o x \in Seq(Int) /\ Len(s.array \o x) = Len(s.array) + k
      /\ \A i \in 1 .. Len(s.array) : (s.array \o x)[i] = s.array[i]
      /\ \A i \in 1 .. k : (s.array \o x)[Len(s.array) + i] = x[i]
  <2>1. PICK a \in Seq(Int) : a = s.array
    BY <1>2
  <2>2. /\ a \o x \in Seq(Int) /\ Len(a \o x) = Len(a) + k
        /\ \A i \in 1 .. Len(a) : (a \o x)[i] = a[i]
        /\ \A i \in 1 .. k : (a \o x)[Len(a) + i] = x[i]
    BY <1>2, ConcatProperties
  <2> QED BY <2>1, <2>2
<1>5. LoopTypes(n, r)
  <2>1. r.array \in Seq(Int)
    BY <1>2, <1>3, <1>4
  <2>2. r = [s EXCEPT !.count = s.count + 1, !.array = r.array]
    BY DEF Found, LoopTypes
  <2>3. PICK a \in Seq(Int), c \in Nat : a = r.array /\ c = s.count + 1
    BY <1>2, <2>1
  <2>4. [s EXCEPT !.count = c, !.array = a] \in
          [role : {"none", "first", "second", "third"}, p1 : 2 .. n, p2 : 0 .. n,
           shown : BOOLEAN, count : Nat, array : Seq(Int)]
    BY DEF LoopTypes
  <2> HIDE DEF r
  <2> QED BY <2>2, <2>3, <2>4 DEF LoopTypes
<1>6. IsFiniteSet(S \cup {x}) /\ Cardinality(S \cup {x}) = s.count + 1
  BY FS_AddElement DEF Listed
<1>7. ASSUME s.shown
      PROVE  /\ Len(r.array) = k * (s.count + 1)
             /\ Lists(SumsIn(r.array, k, s.count + 1), S \cup {x})
  <2> DEFINE l == SumsIn(s.array, k, s.count)
             m == SumsIn(r.array, k, s.count + 1)
  <2>1. PICK a \in Seq(Int), b \in Seq(Int), c \in Nat : a = s.array /\ b = r.array /\ c = s.count
    BY <1>2, <1>3, <1>4, <1>7
  <2>2. /\ Len(a) = k * c /\ Len(b) = k * (c + 1)
        /\ \A i \in 1 .. k * c : b[i] = a[i]
        /\ \A i \in 1 .. k : b[k * c + i] = x[i]
    <3>1. Len(a) = k * c
      BY <1>1, <1>7, <2>1 DEF Listed
    <3>2. Len(b) = Len(a) + k /\ (\A i \in 1 .. Len(a) : b[i] = a[i])
          /\ \A i \in 1 .. k : b[Len(a) + i] = x[i]
      BY <1>3, <1>4, <1>7, <2>1
    <3>3. k * c + k = k * (c + 1)
      OBVIOUS
    <3> QED BY <3>1, <3>2, <3>3
  <2>3. ASSUME NEW j \in 1 .. c PROVE m[j] = l[j]
    <3>1. ASSUME NEW i \in 1 .. k PROVE b[k * (j - 1) + i] = a[k * (j - 1) + i]
      <4>1. k * (j - 1) + i \in 1 .. k * c
        <5>1. CASE k = 2
          BY <5>1
        <5>2. CASE k = 3
          BY <5>2
        <5> QED BY <5>1, <5>2
      <4> QED BY <2>2, <4>1
    <3>2. j \in 1 .. c + 1
      OBVIOUS
    <3> QED BY <2>1, <3>1, <3>2 DEF SumsIn
  <2>4. m[c + 1] = x
    <3>1. c + 1 \in 1 .. c + 1
      OBVIOUS
    <3>2. m[c + 1] = [i \in 1 .. k |-> b[k * ((c + 1) - 1) + i]]
      BY <2>1, <3>1 DEF SumsIn
    <3>3. \A i \in 1 .. k : b[k * ((c + 1) - 1) + i] = x[i]
      <4>1. (c + 1) - 1 = c
        OBVIOUS
      <4> QED BY <2>2, <4>1
    <3>4. x = [i \in 1 .. k |-> x[i]]
      BY <1>2
    <3> QED BY <3>2, <3>3, <3>4
  <2>5. DOMAIN l = 1 .. c /\ DOMAIN m = 1 .. c + 1
    BY <2>1 DEF SumsIn
  <2>6. Lists(l, S)
    BY <1>1, <1>7 DEF Listed
  <2> HIDE DEF l, m, r
  <2>7. {m[j] : j \in DOMAIN m} = S \cup {x}
    <3>1. 1 .. c + 1 = (1 .. c) \cup {c + 1}
      OBVIOUS
    <3>2. {l[j] : j \in 1 .. c} = S
      BY <2>5, <2>6 DEF Lists
    <3>3. ASSUME NEW y \in S \cup {x} PROVE \E j \in 1 .. c + 1 : m[j] = y
      <4>1. c + 1 \in 1 .. c + 1
        OBVIOUS
      <4>2. y \in S => \E j \in 1 .. c : m[j] = y
        BY <2>3, <3>2
      <4> QED BY <2>4, <3>1, <4>1, <4>2
    <3>4. ASSUME NEW j \in 1 .. c + 1 PROVE m[j] \in S \cup {x}
      BY <2>3, <2>4, <3>1, <3>2
    <3>5. PICK D : D = DOMAIN m /\ D = 1 .. c + 1
      BY <2>5
    <3>6. ASSUME NEW y PROVE y \in {m[j] : j \in D} <=> y \in S \cup {x}
      <4>1. y \in {m[j] : j \in D} => y \in S \cup {x}
        BY <3>4, <3>5, Zenon
      <4>2. y \in S \cup {x} => y \in {m[j] : j \in D}
        BY <3>3, <3>5, Zenon
      <4> QED BY <4>1, <4>2, Zenon
    <3>7. {m[j] : j \in D} = S \cup {x}
      BY <3>6, Zenon
    <3> QED BY <3>5, <3>7, Zenon
  <2>8. ASSUME NEW j \in 1 .. c + 1, j > 1 PROVE Before(m[j - 1], m[j])
    <3>1. CASE j = c + 1
      <4>1. j - 1 = c /\ c \in 1 .. c
        BY <2>8, <3>1
      <4>2. l[c] \in S
        BY <2>5, <2>6, <4>1 DEF Lists
      <4> QED BY <2>3, <2>4, <3>1, <4>1, <4>2
    <3>2. CASE j # c + 1
      <4>1. j - 1 \in 1 .. c /\ j \in 1 .. c
        BY <2>8, <3>2
      <4>2. Before(l[j - 1], l[j])
        BY <2>5, <2>6, <2>8, <4>1 DEF Lists
      <4> QED BY <2>3, <4>1, <4>2
    <3> QED BY <3>1, <3>2
  <2>9. Lists(m, S \cup {x})
    BY <2>5, <2>7, <2>8 DEF Lists
  <2> QED BY <2>1, <2>2, <2>9 DEF m
<1>8. ~s.shown => r.array = << >>
  BY <1>3 DEF Listed
<1> HIDE DEF r
<1>9. Listed(n, r, S \cup {x})
  BY <1>1, <1>2, <1>3, <1>6, <1>7, <1>8 DEF Listed
<1> QED BY <1>5, <1>9 DEF r

(* The loops go to another place with the same sums.                       *)
LEMMA SameSums ==
  ASSUME NEW n, NEW s, NEW r, NEW S, Listed(n, s, S),
         r.count = s.count, r.shown = s.shown, r.array = s.array
  PROVE  Listed(n, r, S)
BY DEF Listed

(* The next place of a loop                                                *)
LEMMA StepIs ==
  ASSUME NEW p \in Nat, Stop(p)
  PROVE  /\ Step(p) \in Nat /\ p < Step(p) /\ Step(p) <= p + 2 /\ (p = 2 => Step(p) = 3)
         /\ Stop(Step(p))
<1>1. CASE p = 2
  BY <1>1 DEF Step, Stop, Even
<1>2. CASE p > 2 /\ ~Even(p)
  <2>1. ~Even(p + 2)
    BY <1>2 DEF Even
  <2> QED BY <1>2, <2>1 DEF Step, Stop
<1> QED BY <1>1, <1>2 DEF Stop

(* The first loop asks about its prime, or all sums were found.            *)
LEMMA AskFirstKeeps ==
  ASSUME NEW n \in Nat, n > 5, NEW s, LoopTypes(n, s), Stop(s.p1),
         Listed(n, s, SumsBelow(n, s.p1))
  PROVE  LoopsInv(n, AskFirst(n, s))
<1> DEFINE r == AskFirst(n, s)
<1>1. /\ LoopTypes(n, r) /\ r.p1 = s.p1 /\ r.p2 = s.p2 /\ r.count = s.count /\ r.shown = s.shown
      /\ r.array = s.array /\ s.p1 \in 2 .. n
      /\ r.role = IF Arity(n) * s.p1 <= n THEN "first" ELSE "none"
  BY DEF AskFirst, LoopTypes, Arity
<1>2. Arity(n) * s.p1 > n => SumsBelow(n, s.p1) = Partitions(n)
  BY <1>1, Below
<1>3. Listed(n, r, SumsBelow(n, s.p1))
  BY <1>1, SameSums
<1>4. Arity(n) * s.p1 \in Nat
  BY <1>1 DEF Arity
<1> HIDE DEF r
<1>5. CASE r.role = "first"
  <2>1. InLoops(n, r)
    BY <1>1, <1>5 DEF InLoops
  <2>2. Counted(n, r) = SumsBelow(n, s.p1)
    BY <1>1, <1>5 DEF Counted
  <2> QED BY <1>1, <1>3, <1>5, <2>1, <2>2 DEF LoopsInv, r
<1>6. CASE r.role = "none"
  <2>1. SumsBelow(n, s.p1) = Partitions(n)
    BY <1>1, <1>2, <1>4, <1>6
  <2> QED BY <1>1, <1>3, <1>6, <2>1 DEF LoopsInv, r
<1> QED BY <1>1, <1>5, <1>6

(* The first loop goes on.                                                 *)
LEMMA NextFirstKeeps ==
  ASSUME NEW n \in Nat, n > 5, NEW s, LoopTypes(n, s), Stop(s.p1), Arity(n) * s.p1 <= n,
         Listed(n, s, SumsBelow(n, Step(s.p1)))
  PROVE  LoopsInv(n, NextFirst(n, s))
<1> DEFINE r == [s EXCEPT !.p1 = Step(s.p1)]
<1>1. Step(s.p1) \in 2 .. n /\ Stop(Step(s.p1))
  <2>1. s.p1 \in 2 .. n /\ (n >= 2 * s.p1 \/ n >= 3 * s.p1)
    BY DEF LoopTypes, Arity
  <2> QED BY <2>1, StepIs
<1>2. /\ LoopTypes(n, r) /\ r.p1 = Step(s.p1) /\ r.count = s.count /\ r.shown = s.shown
      /\ r.array = s.array
  BY <1>1 DEF LoopTypes
<1>3. Listed(n, r, SumsBelow(n, r.p1))
  BY <1>2, SameSums
<1>4. NextFirst(n, s) = AskFirst(n, r)
  BY DEF NextFirst
<1> HIDE DEF r
<1>5. Stop(r.p1)
  BY <1>1, <1>2
<1> QED BY <1>2, <1>3, <1>4, <1>5, AskFirstKeeps

(* The second loop of an odd number asks about its prime, or ends.         *)
LEMMA AskSecondKeeps ==
  ASSUME NEW n \in Nat, n > 5, ~Even(n), NEW s, LoopTypes(n, s), Stop(s.p1), Arity(n) * s.p1 <= n,
         IsPrime(s.p1), Stop(s.p2), s.p1 <= s.p2, Listed(n, s, SumsBefore(n, s.p1, s.p2))
  PROVE  LoopsInv(n, AskSecond(n, s))
<1>1. s.p1 \in 2 .. n /\ s.p2 \in 0 .. n
  BY DEF LoopTypes
<1>2. CASE s.p1 + s.p2 <= n
  <2> DEFINE r == [s EXCEPT !.role = "second"]
  <2>1. /\ LoopTypes(n, r) /\ r.role = "second" /\ r.p1 = s.p1 /\ r.p2 = s.p2
        /\ r.count = s.count /\ r.shown = s.shown /\ r.array = s.array
    BY DEF LoopTypes
  <2>2. AskSecond(n, s) = r
    BY <1>2 DEF AskSecond
  <2> HIDE DEF r
  <2>3. InLoops(n, r)
    BY <1>1, <1>2, <2>1 DEF InLoops
  <2>4. Listed(n, r, Counted(n, r))
    BY <2>1, SameSums DEF Counted
  <2> QED BY <2>1, <2>2, <2>3, <2>4 DEF LoopsInv
<1>3. CASE s.p1 + s.p2 > n
  <2>1. SumsBefore(n, s.p1, s.p2) = SumsBelow(n, Step(s.p1))
    BY <1>1, <1>3, BeforeIs
  <2>2. LoopsInv(n, NextFirst(n, s))
    BY <2>1, NextFirstKeeps
  <2>3. AskSecond(n, s) = NextFirst(n, s)
    BY <1>1, <1>3 DEF AskSecond
  <2> QED BY <2>2, <2>3
<1> QED BY <1>1, <1>2, <1>3

(* The second loop goes on.                                                *)
LEMMA NextSecondKeeps ==
  ASSUME NEW n \in Nat, n > 5, ~Even(n), NEW s, LoopTypes(n, s), Stop(s.p1), Arity(n) * s.p1 <= n,
         IsPrime(s.p1), Stop(s.p2), s.p1 <= s.p2, s.p1 + s.p2 <= n,
         Listed(n, s, SumsBefore(n, s.p1, Step(s.p2)))
  PROVE  LoopsInv(n, NextSecond(n, s))
<1> DEFINE r == [s EXCEPT !.p2 = Step(s.p2)]
<1>1. Step(s.p2) \in 0 .. n /\ Stop(Step(s.p2)) /\ s.p1 <= Step(s.p2)
  <2>1. s.p1 \in 2 .. n /\ s.p2 \in 0 .. n
    BY DEF LoopTypes
  <2> QED BY <2>1, StepIs
<1>2. /\ LoopTypes(n, r) /\ r.p1 = s.p1 /\ r.p2 = Step(s.p2) /\ r.count = s.count
      /\ r.shown = s.shown /\ r.array = s.array
  BY <1>1 DEF LoopTypes
<1>3. Listed(n, r, SumsBefore(n, r.p1, r.p2))
  BY <1>2, SameSums
<1>4. NextSecond(n, s) = AskSecond(n, r)
  BY DEF NextSecond
<1> HIDE DEF r
<1>5. Stop(r.p1) /\ Arity(n) * r.p1 <= n /\ IsPrime(r.p1) /\ Stop(r.p2) /\ r.p1 <= r.p2
  BY <1>1, <1>2
<1> QED BY <1>2, <1>3, <1>4, <1>5, AskSecondKeeps

(* golbach_par goes on with the right answer of es_primo.                  *)
LEMMA ParKeeps ==
  ASSUME NEW n \in Nat, Even(n), NEW s, LoopsInv(n, s), s.role # "none", NEW yes \in BOOLEAN,
         yes <=> IsPrime(IF s.role = "first" THEN s.p1 ELSE s.p2)
  PROVE  LoopsInv(n, golbach_par(n, s, yes))
<1>1. /\ n > 5 /\ LoopTypes(n, s) /\ s.p1 \in 2 .. n /\ Stop(s.p1) /\ Arity(n) * s.p1 <= n
      /\ s.role \in {"first", "second"}
      /\ s.role = "second" => s.p2 = n - s.p1 /\ IsPrime(s.p1)
      /\ Listed(n, s, SumsBelow(n, s.p1))
  BY DEF LoopsInv, InLoops, LoopTypes, Counted
<1>2. SumsBelow(n, Step(s.p1)) = SumsBelow(n, s.p1) \cup {x \in Partitions(n) : x[1] = s.p1}
  BY <1>1, Below
<1>3. CASE s.role = "first" /\ yes
  <2> DEFINE r == [s EXCEPT !.role = "second", !.p2 = n - s.p1]
  <2>1. golbach_par(n, s, yes) = r
    BY <1>3 DEF golbach_par
  <2>2. /\ LoopTypes(n, r) /\ r.role = "second" /\ r.p1 = s.p1 /\ r.p2 = n - s.p1
        /\ r.count = s.count /\ r.shown = s.shown /\ r.array = s.array
    <3>1. PICK q \in 0 .. n : q = n - s.p1
      <4>1. n - s.p1 \in 0 .. n
        BY <1>1
      <4> QED BY <4>1
    <3> QED BY <1>1, <3>1 DEF LoopTypes
  <2> HIDE DEF r
  <2>3. InLoops(n, r)
    BY <1>1, <1>3, <2>2 DEF InLoops
  <2>4. Listed(n, r, Counted(n, r))
    BY <1>1, <2>2, SameSums DEF Counted
  <2> QED BY <1>1, <2>1, <2>2, <2>3, <2>4 DEF LoopsInv
<1>4. CASE s.role = "first" /\ ~yes
  <2>1. ASSUME NEW x \in Partitions(n) PROVE x[1] # s.p1
    BY <1>4, SumIs
  <2>2. SumsBelow(n, Step(s.p1)) = SumsBelow(n, s.p1)
    BY <1>2, <2>1
  <2>3. LoopsInv(n, NextFirst(n, s))
    BY <1>1, <2>2, NextFirstKeeps
  <2>4. golbach_par(n, s, yes) = NextFirst(n, s)
    BY <1>4 DEF golbach_par
  <2> QED BY <2>3, <2>4
<1>5. CASE s.role = "second" /\ ~yes
  <2>1. ASSUME NEW x \in Partitions(n) PROVE x[1] # s.p1
    BY <1>1, <1>5, SumIs
  <2>2. SumsBelow(n, Step(s.p1)) = SumsBelow(n, s.p1)
    BY <1>2, <2>1
  <2>3. LoopsInv(n, NextFirst(n, s))
    BY <1>1, <2>2, NextFirstKeeps
  <2>4. golbach_par(n, s, yes) = NextFirst(n, s)
    BY <1>5 DEF golbach_par
  <2> QED BY <2>3, <2>4
<1>6. CASE s.role = "second" /\ yes
  <2> DEFINE x == <<s.p1, s.p2>>
             r == Found(s, x)
  <2>1. x \in Partitions(n)
    <3>1. /\ IsPrime(s.p1) /\ IsPrime(n - s.p1) /\ s.p1 <= n - s.p1 /\ x = <<s.p1, n - s.p1>>
      BY <1>1, <1>6 DEF Arity
    <3> QED BY <1>1, <3>1, PartitionsAre
  <2>2. ASSUME NEW y \in SumsBelow(n, s.p1) PROVE Before(y, x)
    <3>1. y \in Partitions(n) /\ y[1] < s.p1 /\ 1 \in DOMAIN y
      BY SumIs DEF SumsBelow, Arity
    <3>2. y[1] < x[1] /\ \A j \in 1 .. 1 - 1 : y[j] = x[j]
      BY <3>1
    <3> QED BY <3>1, <3>2 DEF Before
  <2>3. x \notin SumsBelow(n, s.p1) /\ SumsBelow(n, s.p1) \subseteq Partitions(n)
    BY <1>1 DEF SumsBelow
  <2>4. LoopTypes(n, r) /\ Listed(n, r, SumsBelow(n, s.p1) \cup {x}) /\ r.p1 = s.p1
    <3>1. r.p1 = s.p1
      BY DEF Found, LoopTypes
    <3> HIDE DEF x
    <3> QED BY <1>1, <2>1, <2>2, <2>3, <3>1, AddSum
  <2>5. {y \in Partitions(n) : y[1] = s.p1} = {x}
    <3>1. ASSUME NEW y \in Partitions(n), y[1] = s.p1 PROVE y = x
      <4>1. y = <<y[1], y[2]>> /\ y[2] = n - y[1]
        BY SumIs
      <4> QED BY <1>1, <1>6, <3>1, <4>1, Zenon
    <3>2. x[1] = s.p1
      OBVIOUS
    <3> QED BY <2>1, <3>1, <3>2
  <2>6. LoopsInv(n, NextFirst(n, r))
    <3> HIDE DEF r, x
    <3>1. Listed(n, r, SumsBelow(n, Step(r.p1))) /\ Stop(r.p1) /\ Arity(n) * r.p1 <= n
      BY <1>1, <1>2, <2>4, <2>5
    <3> QED BY <1>1, <2>4, <3>1, NextFirstKeeps
  <2>7. golbach_par(n, s, yes) = NextFirst(n, r)
    BY <1>6 DEF golbach_par
  <2> QED BY <2>6, <2>7
<1>7. s.role = "first" \/ s.role = "second"
  BY <1>1
<1> QED BY <1>3, <1>4, <1>5, <1>6, <1>7, Zenon

(* The second loop of an odd number goes on, and there is no sum with its  *)
(* two primes.                                                             *)
LEMMA PassSecond ==
  ASSUME NEW n \in Nat, n > 5, ~Even(n), NEW s, LoopTypes(n, s), InLoops(n, s), s.role # "first",
         Listed(n, s, SumsBefore(n, s.p1, s.p2)),
         \A x \in Partitions(n) : ~(x[1] = s.p1 /\ x[2] = s.p2)
  PROVE  LoopsInv(n, NextSecond(n, s))
<1>1. /\ s.p1 \in 2 .. n /\ s.p2 \in 0 .. n /\ Stop(s.p1) /\ Arity(n) * s.p1 <= n
      /\ IsPrime(s.p1) /\ s.p1 <= s.p2 /\ s.p1 + s.p2 <= n /\ Stop(s.p2)
  BY DEF InLoops, LoopTypes
<1>2. {x \in Partitions(n) : x[1] = s.p1 /\ x[2] = s.p2} = {}
  OBVIOUS
<1>3. SumsBefore(n, s.p1, Step(s.p2)) = SumsBefore(n, s.p1, s.p2)
  <2>1. SumsBefore(n, s.p1, Step(s.p2))
          = SumsBefore(n, s.p1, s.p2) \cup {x \in Partitions(n) : x[1] = s.p1 /\ x[2] = s.p2}
    BY <1>1, BeforeIs
  <2> QED BY <1>2, <2>1
<1> QED BY <1>1, <1>3, NextSecondKeeps

(* golbach_impar goes on with the right answer of es_primo.                *)
LEMMA ImparKeeps ==
  ASSUME NEW n \in Nat, ~Even(n), NEW s, LoopsInv(n, s), s.role # "none", NEW yes \in BOOLEAN,
         s.role = "first"  => (yes <=> IsPrime(s.p1)),
         s.role = "second" => (yes <=> IsPrime(s.p2)),
         s.role = "third"  => (yes <=> IsPrime(n - s.p1 - s.p2))
  PROVE  LoopsInv(n, golbach_impar(n, s, yes))
<1> DEFINE primo3 == n - s.p1 - s.p2
<1>1. /\ n > 5 /\ LoopTypes(n, s) /\ InLoops(n, s)
      /\ s.p1 \in 2 .. n /\ s.p2 \in 0 .. n /\ Stop(s.p1) /\ Arity(n) * s.p1 <= n
      /\ s.role \in {"first", "second", "third"}
      /\ s.role = "first" => Listed(n, s, SumsBelow(n, s.p1))
      /\ s.role # "first" => Listed(n, s, SumsBefore(n, s.p1, s.p2))
  BY DEF LoopsInv, InLoops, LoopTypes, Counted
<1>2. s.role # "first" => /\ IsPrime(s.p1) /\ s.p1 <= s.p2 /\ s.p1 + s.p2 <= n /\ Stop(s.p2)
  BY <1>1 DEF InLoops
<1>3. CASE s.role = "first" /\ yes
  <2> DEFINE r == [s EXCEPT !.p2 = s.p1]
  <2>1. golbach_impar(n, s, yes) = AskSecond(n, r)
    BY <1>3 DEF golbach_impar
  <2>2. /\ LoopTypes(n, r) /\ r.p1 = s.p1 /\ r.p2 = s.p1
        /\ r.count = s.count /\ r.shown = s.shown /\ r.array = s.array
    <3>1. PICK q \in 0 .. n : q = s.p1
      <4>1. s.p1 \in 0 .. n
        BY <1>1
      <4> QED BY <4>1
    <3> QED BY <1>1, <3>1 DEF LoopTypes
  <2> HIDE DEF r
  <2>3. SumsBefore(n, s.p1, s.p1) = SumsBelow(n, s.p1)
    BY <1>1, BeforeIs
  <2>4. Listed(n, r, SumsBefore(n, r.p1, r.p2))
    BY <1>1, <1>3, <2>2, <2>3, SameSums
  <2>5. Stop(r.p1) /\ Arity(n) * r.p1 <= n /\ IsPrime(r.p1) /\ Stop(r.p2) /\ r.p1 <= r.p2
    BY <1>1, <1>3, <2>2
  <2> QED BY <1>1, <2>1, <2>2, <2>4, <2>5, AskSecondKeeps
<1>4. CASE s.role = "first" /\ ~yes
  <2>1. ASSUME NEW x \in Partitions(n) PROVE x[1] # s.p1
    BY <1>4, SumIs
  <2>2. SumsBelow(n, Step(s.p1)) = SumsBelow(n, s.p1)
    <3>1. SumsBelow(n, Step(s.p1)) = SumsBelow(n, s.p1) \cup {x \in Partitions(n) : x[1] = s.p1}
      BY <1>1, Below
    <3> QED BY <2>1, <3>1
  <2>3. LoopsInv(n, NextFirst(n, s))
    BY <1>1, <1>4, <2>2, NextFirstKeeps
  <2>4. golbach_impar(n, s, yes) = NextFirst(n, s)
    BY <1>4 DEF golbach_impar
  <2> QED BY <2>3, <2>4
<1>5. CASE s.role = "second" /\ yes /\ primo3 >= s.p2
  <2> DEFINE r == [s EXCEPT !.role = "third"]
  <2>1. golbach_impar(n, s, yes) = r
    BY <1>5 DEF golbach_impar
  <2>2. /\ LoopTypes(n, r) /\ r.role = "third" /\ r.p1 = s.p1 /\ r.p2 = s.p2
        /\ r.count = s.count /\ r.shown = s.shown /\ r.array = s.array
    BY <1>1 DEF LoopTypes
  <2> HIDE DEF r
  <2>3. InLoops(n, r)
    BY <1>1, <1>2, <1>5, <2>2 DEF InLoops
  <2>4. Listed(n, r, Counted(n, r))
    BY <1>1, <1>5, <2>2, SameSums DEF Counted
  <2> QED BY <1>1, <2>1, <2>2, <2>3, <2>4 DEF LoopsInv
<1>6. CASE s.role = "second" /\ ~(yes /\ primo3 >= s.p2)
  <2>1. ASSUME NEW x \in Partitions(n), x[1] = s.p1, x[2] = s.p2 PROVE FALSE
    <3>1. IsPrime(s.p2) /\ primo3 >= s.p2
      BY <1>1, <2>1, SumIs
    <3> QED BY <1>6, <3>1
  <2>2. LoopsInv(n, NextSecond(n, s))
    BY <1>1, <1>6, <2>1, PassSecond
  <2>3. golbach_impar(n, s, yes) = NextSecond(n, s)
    BY <1>6 DEF golbach_impar
  <2> QED BY <2>2, <2>3
<1>7. CASE s.role = "third" /\ ~yes
  <2>1. ASSUME NEW x \in Partitions(n), x[1] = s.p1, x[2] = s.p2 PROVE FALSE
    <3>1. IsPrime(x[3]) /\ x[3] = n - s.p1 - s.p2
      BY <2>1, SumIs
    <3> QED BY <1>7, <3>1
  <2>2. LoopsInv(n, NextSecond(n, s))
    BY <1>1, <1>7, <2>1, PassSecond
  <2>3. golbach_impar(n, s, yes) = NextSecond(n, s)
    BY <1>7 DEF golbach_impar
  <2> QED BY <2>2, <2>3
<1>8. CASE s.role = "third" /\ yes
  <2> DEFINE x == <<s.p1, s.p2, primo3>>
             r == Found(s, x)
             S == SumsBefore(n, s.p1, s.p2)
  <2>1. x \in Partitions(n)
    <3>1. IsPrime(s.p1) /\ IsPrime(s.p2) /\ IsPrime(primo3) /\ s.p1 <= s.p2 /\ s.p2 <= primo3
      BY <1>1, <1>2, <1>8 DEF InLoops
    <3>2. s.p2 \in 2 .. n
      BY <1>1, <3>1
    <3> QED BY <1>1, <3>1, <3>2, PartitionsAre
  <2>2. ASSUME NEW y \in S PROVE Before(y, x)
    <3>1. /\ y \in Partitions(n) /\ 1 \in DOMAIN y /\ 2 \in DOMAIN y /\ y[1] \in Int /\ y[2] \in Int
          /\ y[1] < s.p1 \/ (y[1] = s.p1 /\ y[2] < s.p2)
      BY SumIs DEF SumsBefore, Arity
    <3>2. CASE y[1] < s.p1
      <4>1. y[1] < x[1] /\ \A j \in 1 .. 1 - 1 : y[j] = x[j]
        BY <3>2
      <4> QED BY <3>1, <4>1 DEF Before
    <3>3. CASE y[1] = s.p1 /\ y[2] < s.p2
      <4>1. y[2] < x[2] /\ \A j \in 1 .. 2 - 1 : y[j] = x[j]
        BY <3>3
      <4> QED BY <3>1, <4>1 DEF Before
    <3> QED BY <3>1, <3>2, <3>3
  <2>3. x \notin S /\ S \subseteq Partitions(n)
    BY <1>1 DEF SumsBefore
  <2>4. LoopTypes(n, r) /\ Listed(n, r, S \cup {x}) /\ r.p1 = s.p1 /\ r.p2 = s.p2
    <3>1. r.p1 = s.p1 /\ r.p2 = s.p2
      BY DEF Found, LoopTypes
    <3> HIDE DEF x
    <3> QED BY <1>1, <1>8, <2>1, <2>2, <2>3, <3>1, AddSum
  <2>5. {y \in Partitions(n) : y[1] = s.p1 /\ y[2] = s.p2} = {x}
    <3>1. ASSUME NEW y \in Partitions(n), y[1] = s.p1, y[2] = s.p2 PROVE y = x
      <4>1. y = <<y[1], y[2], y[3]>> /\ y[3] = n - y[1] - y[2]
        BY SumIs
      <4> QED BY <3>1, <4>1, Zenon
    <3>2. x[1] = s.p1 /\ x[2] = s.p2
      OBVIOUS
    <3> HIDE DEF x
    <3> QED BY <2>1, <3>1, <3>2
  <2>6. SumsBefore(n, s.p1, Step(s.p2)) = S \cup {x}
    <3> HIDE DEF x
    <3> QED BY <1>1, <1>2, <1>8, <2>5, BeforeIs
  <2>7. LoopsInv(n, NextSecond(n, r))
    <3> HIDE DEF r, x, S
    <3> QED BY <1>1, <1>2, <1>8, <2>4, <2>6, NextSecondKeeps
  <2>8. golbach_impar(n, s, yes) = NextSecond(n, r)
    BY <1>8 DEF golbach_impar
  <2> QED BY <2>7, <2>8
<1> HIDE DEF primo3
<1>9. s.role = "first" \/ s.role = "second" \/ s.role = "third"
  BY <1>1
<1> QED BY <1>3, <1>4, <1>5, <1>6, <1>7, <1>8, <1>9, Zenon
-----------------------------------------------------------------------------
(* The loops begin with nothing found.                                     *)
LEMMA LoopsBegin ==
  ASSUME NEW n \in Nat, n > 5, NEW shown \in BOOLEAN
  PROVE  LoopsInv(n, AskFirst(n, [Finished EXCEPT !.p1 = 2, !.shown = shown]))
<1> DEFINE s == [Finished EXCEPT !.p1 = 2, !.shown = shown]
<1>1. /\ s.p1 = 2 /\ s.count = 0 /\ s.array = << >> /\ s.shown = shown
  BY DEF Finished
<1>2. LoopTypes(n, s)
  <2>1. 2 \in 2 .. n /\ 0 \in 0 .. n /\ 0 \in Nat /\ << >> \in Seq(Int)
    OBVIOUS
  <2> QED BY <2>1 DEF Finished, LoopTypes
<1> HIDE DEF s
<1>3. SumsBelow(n, 2) = {}
  <2>1. 2 \in 2 .. n /\ Stop(2)
    BY DEF Stop
  <2> QED BY <2>1, Below
<1>4. Lists(SumsIn(<< >>, Arity(n), 0), {})
  <2>1. DOMAIN SumsIn(<< >>, Arity(n), 0) = {}
    BY DEF SumsIn
  <2> QED BY <2>1 DEF Lists
<1>5. Arity(n) * 0 = 0 /\ Len(<< >>) = 0
  BY DEF Arity
<1>6. Listed(n, s, {})
  BY <1>1, <1>4, <1>5, FS_EmptySet DEF Listed
<1>7. Stop(s.p1)
  BY <1>1 DEF Stop
<1> QED BY <1>1, <1>2, <1>3, <1>6, <1>7, AskFirstKeeps DEF s

(* For MinInt they end at once.                                            *)
LEMMA LoopsOfMinInt ==
  /\ NoLoops.role = "none" /\ NoLoops.p1 = 2 /\ NoLoops.p2 = 0 /\ NoLoops.shown = TRUE
  /\ NoLoops.count = 0 /\ NoLoops.array = << >>
<1>1. MinInt \in Int /\ MinInt < -5
  BY SumsAssumption
<1> DEFINE s == [Finished EXCEPT !.p1 = 2, !.shown = TRUE]
<1>2. s.p1 = 2
  BY DEF Finished
<1>3. ~((IF Even(MinInt) THEN 2 ELSE 3) * s.p1 <= MinInt)
  BY <1>1, <1>2
<1>4. NoLoops = [s EXCEPT !.role = "none"]
  <2> HIDE DEF s
  <2>1. AskFirst(MinInt, s) = [s EXCEPT !.role = "none"]
    BY <1>3 DEF AskFirst
  <2> QED BY <2>1 DEF NoLoops, s
<1> QED BY <1>4 DEF Finished

(* The piece at a place p of a group of k primes, of which q is its prime, *)
(* and what IsRow expects of it, which has that place modulo k + 1         *)
PieceAt(k, p, q) ==
  IF p > k THEN <<",">>
           ELSE <<IF p = 1 THEN " " ELSE "", q, IF p = k THEN "" ELSE " + ">>
IsPieceAt(k, o, g) ==
  CASE o = 0 -> g = <<",">>
    [] o = 1 -> g[1] = " " /\ g[3] = " + "
    [] o = k -> g[1] = "" /\ g[3] = ""
    [] OTHER -> g[1] = "" /\ g[3] = " + "

(* imprimir_resultado's piece is the one IsRow expects.                    *)
LEMMA PieceIs ==
  ASSUME NEW k \in {2, 3}, NEW p \in 1 .. k + 1, NEW o, o = IF p = k + 1 THEN 0 ELSE p, NEW q, NEW g
  PROVE  g = PieceAt(k, p, q) => IsPieceAt(k, o, g)
<1>1. \/ p > k /\ o = 0 /\ o # 1 /\ o # k
      \/ ~(p > k) /\ p = 1 /\ p # k /\ o = 1 /\ o # 0 /\ o # k
      \/ ~(p > k) /\ p # 1 /\ p = k /\ o = k /\ o # 0 /\ o # 1
      \/ ~(p > k) /\ p # 1 /\ p # k /\ o # k /\ o # 0 /\ o # 1
  OBVIOUS
<1>2. \A h, a, b : h = <<a, q, b>> => h[1] = a /\ h[3] = b
  OBVIOUS
<1>3. ASSUME g = PieceAt(k, p, q) PROVE IsPieceAt(k, o, g)
  <2>1. o = 0 => g = <<",">>
    BY <1>1, <1>3, Zenon DEF PieceAt
  <2>2. o = 1 => g[1] = " " /\ g[3] = " + "
    <3>1. o = 1 => g = <<" ", q, " + ">>
      BY <1>1, <1>3, Zenon DEF PieceAt
    <3> QED BY <1>2, <3>1, Zenon
  <2>3. o = k => g[1] = "" /\ g[3] = ""
    <3>1. o = k => g = <<"", q, "">>
      BY <1>1, <1>3, Zenon DEF PieceAt
    <3> QED BY <1>2, <3>1, Zenon
  <2>4. o # 0 /\ o # 1 /\ o # k => g[1] = "" /\ g[3] = " + "
    <3>1. o # 0 /\ o # 1 /\ o # k => g = <<"", q, " + ">>
      BY <1>1, <1>3, Zenon DEF PieceAt
    <3> QED BY <1>2, <3>1, Zenon
  <2> QED BY <2>1, <2>2, <2>3, <2>4, Zenon DEF IsPieceAt
<1> QED BY <1>3, Zenon

(* The pieces imprimir_resultado makes of an array with c sums of k primes *)
WellGrouped(g, k, c, array) ==
  LET len == (k + 1) * c - 1 IN
  /\ g \in Seq({g[i] : i \in 1 .. len}) /\ Len(g) = len
  /\ \A i \in 1 .. len : IsPieceAt(k, i % (k + 1), g[i])
  /\ \A j \in 1 .. c, m \in 1 .. k :
       /\ (j - 1) * (k + 1) + m \in 1 .. len
       /\ g[(j - 1) * (k + 1) + m][2] = array[k * (j - 1) + m]

(* Regrouping the flat array gives each sum its pieces.                    *)
LEMMA GroupsAre ==
  ASSUME NEW n \in Nat, NEW k \in {2, 3}, Even(n) <=> k = 2, NEW c \in Nat \ {0},
         NEW array \in Seq(Int), Len(array) = k * c
  PROVE  WellGrouped(Groups(Even(n), array), k, c, array)
<1> DEFINE Place(i) == ((i - 1) % (k + 1)) + 1
           Prime(i) == array[k * ((i - 1) \div (k + 1)) + Place(i)]
           Group(i) == PieceAt(k, Place(i), Prime(i))
           I == 1 .. (k + 1) * c - 1
<1>1. (k + 1) * c - 1 \in Nat
  <2>1. CASE k = 2
    BY <2>1
  <2>2. CASE k = 3
    BY <2>2
  <2> QED BY <2>1, <2>2
<1>2. Groups(Even(n), array) = [i \in I |-> Group(i)]
  <2>1. array # << >> /\ k * c > 0 /\ (k * c) \div k = c
    <3>1. CASE k = 2
      BY <3>1
    <3>2. CASE k = 3
      BY <3>2
    <3> QED BY <3>1, <3>2
  <2>2. k = IF Even(n) THEN 2 ELSE 3
    OBVIOUS
  <2> QED BY <2>1, <2>2 DEF Groups, PieceAt
<1>3. ASSUME NEW i \in I
      PROVE  /\ Place(i) \in 1 .. k + 1
             /\ i % (k + 1) = IF Place(i) = k + 1 THEN 0 ELSE Place(i)
             /\ Place(i) <= k => k * ((i - 1) \div (k + 1)) + Place(i) \in 1 .. k * c
  <2>1. CASE k = 2
    BY <2>1
  <2>2. CASE k = 3
    BY <2>2
  <2> QED BY <2>1, <2>2
<1>4. ASSUME NEW j \in 1 .. c, NEW m \in 1 .. k
      PROVE  LET i == (j - 1) * (k + 1) + m IN
             i \in I /\ Place(i) = m /\ k * ((i - 1) \div (k + 1)) + Place(i) = k * (j - 1) + m
  <2>1. CASE k = 2
    BY <2>1
  <2>2. CASE k = 3
    BY <2>2
  <2> QED BY <2>1, <2>2
<1>5. /\ Groups(Even(n), array) \in Seq({Groups(Even(n), array)[i] : i \in I})
      /\ Len(Groups(Even(n), array)) = (k + 1) * c - 1
  <2>1. PICK len \in Nat : len = (k + 1) * c - 1
    BY <1>1
  <2>2. PICK g : g = Groups(Even(n), array)
    OBVIOUS
  <2>3. g = [i \in 1 .. len |-> g[i]]
    <3> HIDE DEF Group
    <3> QED BY <1>2, <2>1, <2>2
  <2>4. g \in Seq({g[i] : i \in 1 .. len}) /\ Len(g) = len
    <3>1. PICK S : S = {g[i] : i \in 1 .. len}
      OBVIOUS
    <3>2. \A i \in 1 .. len : g[i] \in S
      BY <3>1
    <3>3. g \in [1 .. len -> S]
      BY <2>3, <3>2, Zenon
    <3>4. g \in Seq(S) /\ Len(g) = len
      BY <3>3
    <3> QED BY <3>1, <3>4
  <2> QED BY <2>1, <2>2, <2>4
<1>6. ASSUME NEW i \in I
      PROVE  Groups(Even(n), array)[i] = PieceAt(k, Place(i), Prime(i))
  BY <1>2, Zenon
<1>7. ASSUME NEW i \in I
      PROVE  IsPieceAt(k, i % (k + 1), Groups(Even(n), array)[i])
  <2>1. PICK p \in 1 .. k + 1 : p = Place(i) /\ i % (k + 1) = IF p = k + 1 THEN 0 ELSE p
    BY <1>3
  <2> HIDE DEF Place, Prime
  <2> QED BY <1>6, <2>1, PieceIs, Zenon
<1>8. ASSUME NEW j \in 1 .. c, NEW m \in 1 .. k
      PROVE  /\ (j - 1) * (k + 1) + m \in I
             /\ Groups(Even(n), array)[(j - 1) * (k + 1) + m][2] = array[k * (j - 1) + m]
  <2>1. PICK i \in I : i = (j - 1) * (k + 1) + m
    BY <1>4
  <2>2. Place(i) = m /\ Prime(i) = array[k * (j - 1) + m]
    BY <1>4, <2>1
  <2>3. PICK q : q = Prime(i)
    OBVIOUS
  <2>4. PICK a, b : a = (IF m = 1 THEN " " ELSE "") /\ b = (IF m = k THEN "" ELSE " + ")
    OBVIOUS
  <2>5. ~(m > k)
    OBVIOUS
  <2>6. Groups(Even(n), array)[i] = <<a, q, b>>
    <3> HIDE DEF Place, Prime, I
    <3> QED BY <1>6, <2>2, <2>3, <2>4, <2>5, Zenon DEF PieceAt
  <2> HIDE DEF Place, Prime
  <2>7. <<a, q, b>>[2] = q
    OBVIOUS
  <2> QED BY <2>1, <2>2, <2>3, <2>6, <2>7
<1> HIDE DEF Place, Group, Prime
<1> QED BY <1>5, <1>7, <1>8 DEF WellGrouped

(* The text of a row is the number, the count, and the groups' pieces.     *)
LEMMA TextIs ==
  ASSUME NEW a, NEW b, NEW g, NEW len \in Nat, g \in Seq({g[i] : i \in 1 .. len}), Len(g) = len
  PROVE  LET text == <<a>> \o (<<b>> \o g) IN
         /\ Len(text) = 2 + len /\ text[1] = a /\ text[2] = b
         /\ \A i \in 3 .. Len(text) : text[i] = g[i - 2] /\ i - 2 \in 1 .. len
<1> DEFINE T == {a, b} \cup {g[i] : i \in 1 .. len}
<1>1. g \in Seq(T) /\ <<a>> \in Seq(T) /\ <<b>> \in Seq(T)
  <2>1. DOMAIN g = 1 .. len /\ \A i \in 1 .. len : g[i] \in T
    BY LenProperties
  <2>2. g = [i \in 1 .. len |-> g[i]]
    BY <2>1
  <2>3. a \in T /\ b \in T
    OBVIOUS
  <2> HIDE DEF T
  <2> QED BY <2>1, <2>2, <2>3
<1> HIDE DEF T
<1>2. PICK t : t = <<b>> \o g
  OBVIOUS
<1>3. /\ t \in Seq(T) /\ Len(t) = 1 + len /\ t[1] = b
      /\ \A i \in 2 .. 1 + len : t[i] = g[i - 1]
  BY <1>1, <1>2, ConcatProperties
<1>4. PICK u : u = <<a>> \o t
  OBVIOUS
<1>5. /\ u \in Seq(T) /\ Len(u) = 2 + len /\ u[1] = a
      /\ \A i \in 2 .. 2 + len : u[i] = t[i - 1]
  BY <1>1, <1>3, <1>4, ConcatProperties
<1>6. ASSUME NEW i \in 3 .. Len(u) PROVE u[i] = g[i - 2] /\ i - 2 \in 1 .. len
  <2>1. i \in 2 .. 2 + len /\ i - 1 \in 2 .. 1 + len /\ (i - 1) - 1 = i - 2 /\ i - 2 \in 1 .. len
    BY <1>5
  <2> QED BY <1>3, <1>5, <2>1
<1> QED BY <1>2, <1>3, <1>4, <1>5, <1>6

(* Two pieces are a text.                                                  *)
LEMMA TwoPieces ==
  ASSUME NEW a, NEW b
  PROVE  <<a>> \o (<<b>> \o << >>) = <<a, b>>
<1>1. <<b>> \in Seq({a, b}) /\ <<a>> \in Seq({a, b})
  OBVIOUS
<1>2. <<b>> \o << >> = <<b>>
  BY <1>1, ConcatEmptySeq
<1>3. <<a>> \o <<b>> = <<a, b>>
  <2>1. PICK t : t = <<a>> \o <<b>>
    OBVIOUS
  <2>2. t \in Seq({a, b}) /\ Len(t) = 2 /\ t[1] = a /\ t[2] = b
    BY <1>1, <2>1, ConcatProperties
  <2>3. t = <<a, b>>
    BY <2>2
  <2> QED BY <2>1, <2>3
<1> QED BY <1>2, <1>3

(* When the loops have ended, imprimir_resultado prints the expected line. *)
LEMMA RowIs ==
  ASSUME NEW number \in Int, NEW n \in Nat, n = Abs(number), NEW s, LoopsInv(n, s), s.role = "none",
         s.shown = (number < 0)
  PROVE  IsRow(<<NumberPiece(number)>> \o Result(Even(n), s.shown, s.count, s.array),
               number, Partitions(n))
<1> DEFINE arity == IF Even(number) THEN 2 ELSE 3
           S     == Partitions(n)
           text  == <<NumberPiece(number)>> \o Result(Even(n), s.shown, s.count, s.array)
<1>1. /\ n > 5 /\ s.count \in Nat /\ s.shown \in BOOLEAN /\ s.array \in Seq(Int) /\ Listed(n, s, S)
  BY DEF LoopsInv, LoopTypes
<1>2. Even(number) <=> Even(n)
  BY DEF Even, Abs
<1>3. arity \in {2, 3} /\ arity = Arity(n) /\ (Even(n) <=> arity = 2) /\ Even(n) \in BOOLEAN
  BY <1>2 DEF Arity, Even
<1>4. PICK c \in Nat : c = s.count /\ c = Cardinality(S) /\ (c = 0 <=> S = {})
  BY <1>1, FS_EmptySet DEF Listed
<1>5. CASE number > 0
  <2>1. ~s.shown /\ ~(number < 0)
    <3>1. ~(number < 0)
      BY <1>5
    <3> QED BY <3>1, Zenon
  <2>2. Result(Even(n), s.shown, s.count, s.array) = << <<"", c, " sums">> >> \o << >>
    BY <1>4, <2>1 DEF Result, CountPiece
  <2>3. PICK a, b : a = <<"", number, ": ">> /\ b = <<"", c, " sums">>
    OBVIOUS
  <2>4. text = <<a>> \o (<<b>> \o << >>)
    BY <2>2, <2>3, Zenon DEF NumberPiece
  <2>5. number > 5
    BY <1>1, <1>5 DEF Abs
  <2>6. <<a>> \o (<<b>> \o << >>) = <<a, b>>
    BY TwoPieces, Zenon
  <2>7. <<a, b>>[1] = a /\ Tail(<<a, b>>) = <<b>>
    OBVIOUS
  <2> HIDE DEF text, S
  <2>8. IsRow(text, number, S)
    BY <1>4, <2>3, <2>4, <2>5, <2>6, <2>7, Zenon DEF IsRow
  <2> QED BY <2>8 DEF text, S
<1>6. CASE number < 0
  <2> DEFINE G == Groups(Even(n), s.array)
  <2>1. s.shown = TRUE /\ number < -5
    <3>1. number < -5
      BY <1>1, <1>6 DEF Abs
    <3> QED BY <1>6, <3>1, Zenon
  <2>b. PICK a, b : a = <<"", number, ": ">> /\ b = <<"", c, " sums:">>
    OBVIOUS
  <2>2. text = <<a>> \o (<<b>> \o G)
    <3> HIDE DEF G
    <3> QED BY <1>4, <2>1, <2>b, Zenon DEF Result, CountPiece, NumberPiece, G
  <2>3. Len(s.array) = arity * c /\ Lists(SumsIn(s.array, arity, c), S)
    BY <1>1, <1>3, <1>4, <2>1 DEF Listed
  <2> DEFINE sums == [j \in 1 .. c |->
                        [k \in 1 .. arity |-> text[2 + (j - 1) * (arity + 1) + k][2]]]
  <2>4. /\ text[1] = a /\ text[2] = b
        /\ Len(text) = IF S = {} THEN 2 ELSE 2 + c * (arity + 1) - 1
        /\ sums = SumsIn(s.array, arity, c)
        /\ \A i \in 3 .. Len(text) : IsPieceAt(arity, (i - 2) % (arity + 1), text[i])
    <3> HIDE DEF arity, S, text
    <3>1. CASE c = 0
      <4>1. s.array = << >>
        BY <1>1, <1>3, <2>3, <3>1, EmptySeq
      <4>2. G = << >>
        BY <4>1 DEF Groups
      <4> HIDE DEF G
      <4>3. text = <<a, b>>
        BY <2>2, <4>2, TwoPieces, Zenon
      <4>4. text[1] = a /\ text[2] = b /\ Len(text) = 2
        BY <4>3
      <4>5. sums = SumsIn(s.array, arity, c)
        BY <3>1 DEF SumsIn
      <4> QED BY <1>4, <3>1, <4>4, <4>5
    <3>2. CASE c # 0
      <4> DEFINE len == (arity + 1) * c - 1
      <4>1. len \in Nat /\ 2 + c * (arity + 1) - 1 = 2 + len
        <5>1. CASE arity = 2
          BY <3>2, <5>1
        <5>2. CASE arity = 3
          BY <3>2, <5>2
        <5> QED BY <1>3, <5>1, <5>2
      <4>2. /\ G \in Seq({G[i] : i \in 1 .. len}) /\ Len(G) = len
            /\ \A i \in 1 .. len : IsPieceAt(arity, i % (arity + 1), G[i])
            /\ \A j \in 1 .. c, m \in 1 .. arity :
                 /\ (j - 1) * (arity + 1) + m \in 1 .. len
                 /\ G[(j - 1) * (arity + 1) + m][2] = s.array[arity * (j - 1) + m]
        <5>1. c \in Nat \ {0}
          BY <3>2
        <5>2. arity \in {2, 3} /\ (Even(n) <=> arity = 2) /\ Even(n) \in BOOLEAN
          BY <1>3, Zenon
        <5>3. s.array \in Seq(Int) /\ Len(s.array) = arity * c
          BY <1>1, <2>3, Zenon
        <5>4. WellGrouped(Groups(Even(n), s.array), arity, c, s.array)
          BY <5>1, <5>2, <5>3, GroupsAre
        <5> QED BY <5>4, Zenon DEF WellGrouped
      <4> HIDE DEF len, G
      <4>3. /\ Len(text) = 2 + len /\ text[1] = a /\ text[2] = b
            /\ \A i \in 3 .. Len(text) : text[i] = G[i - 2] /\ i - 2 \in 1 .. len
        BY <2>2, <4>1, <4>2, TextIs
      <4>4. ASSUME NEW j \in 1 .. c, NEW k \in 1 .. arity
            PROVE  text[2 + (j - 1) * (arity + 1) + k][2] = s.array[arity * (j - 1) + k]
        <5>1. PICK i \in 1 .. len : i = (j - 1) * (arity + 1) + k
          BY <4>2
        <5>2. 2 + (j - 1) * (arity + 1) + k = 2 + i
          BY <1>3, <5>1
        <5>3. 2 + i \in 3 .. Len(text) /\ (2 + i) - 2 = i
          <6>1. Len(text) = 2 + len
            BY <4>3
          <6> QED BY <4>1, <6>1
        <5>4. text[2 + i] = G[i]
          BY <4>3, <5>3
        <5> QED BY <4>2, <5>1, <5>2, <5>4
      <4>5. sums = SumsIn(s.array, arity, c)
        BY <4>4, Zenon DEF SumsIn
      <4>6. S # {}
        BY <1>4, <3>2
      <4>7. ASSUME NEW i \in 3 .. Len(text)
            PROVE  IsPieceAt(arity, (i - 2) % (arity + 1), text[i])
        BY <4>2, <4>3
      <4> QED BY <4>1, <4>3, <4>5, <4>6, <4>7
    <3> QED BY <3>1, <3>2
  <2> HIDE DEF S, text, G
  <2>5. IsRow(text, number, S)
    BY <1>4, <2>1, <2>3, <2>4, <2>b, Zenon DEF IsRow, IsPieceAt
  <2> QED BY <2>5 DEF text, S
<1>7. number < 0 \/ number > 0
  BY <1>1 DEF Abs
<1> QED BY <1>5, <1>6, <1>7
-----------------------------------------------------------------------------
(* The widths of the fixed texts                                           *)
LEMMA WidthIs ==
  /\ Width("") = 0 /\ Width(" ") = 1 /\ Width(",") = 1 /\ Width(": ") = 2 /\ Width("NA") = 2
  /\ Width(" + ") = 3 /\ Width(" sums") = 5 /\ Width(" sums:") = 6
BY DEF Width

(* A number has a digit, and finitely many; 0 has no more.                 *)
LEMMA DigitsIs ==
  /\ \A x : Digits(x) \in Nat \ {0}
  /\ Digits(0) = 1
<1>1. ASSUME NEW x PROVE Digits(x) \in Nat \ {0}
  <2>1. PICK D : D = {p \in Powers : p <= Abs(x)}
    OBVIOUS
  <2>2. D \in SUBSET Powers
    BY <2>1, Zenon
  <2>3. Cardinality(D) \in Nat
    <3>1. IsFiniteSet(D)
      BY <2>2, PowersAssumption, FS_Subset
    <3> QED BY <3>1, FS_CardinalityType
  <2>4. PICK k \in {1, 2} : k = IF x < 0 THEN 2 ELSE 1
    OBVIOUS
  <2>5. Digits(x) = k + Cardinality(D)
    BY <2>1, <2>4, Zenon DEF Digits
  <2> QED BY <2>3, <2>4, <2>5
<1>2. Digits(0) = 1
  <2>1. {p \in Powers : p <= Abs(0)} = {}
    <3>1. Abs(0) = 0 /\ \A p \in Powers : p \in Nat /\ p # 0
      BY PowersAssumption DEF Abs
    <3> QED BY <3>1
  <2>2. Digits(0) = 1 + Cardinality({})
    BY <2>1 DEF Digits
  <2> QED BY <2>2, FS_EmptySet
<1> QED BY <1>1, <1>2

(* The characters of a number with its texts, and of a comma               *)
LEMMA CharactersAre ==
  /\ Characters(<<",">>) = 1
  /\ \A a, x, b : Characters(<<a, x, b>>) = Width(a) + Digits(x) + Width(b)
<1>1. Characters(<<",">>) = 1
  <2>1. Len(<<",">>) = 1 /\ <<",">>[1] = ","
    OBVIOUS
  <2> QED BY <2>1, WidthIs, Zenon DEF Characters
<1>2. ASSUME NEW a, NEW x, NEW b
      PROVE  Characters(<<a, x, b>>) = Width(a) + Digits(x) + Width(b)
  <2>1. /\ Len(<<a, x, b>>) # 1
        /\ <<a, x, b>>[1] = a /\ <<a, x, b>>[2] = x /\ <<a, x, b>>[3] = b
    OBVIOUS
  <2> QED BY <2>1, Zenon DEF Characters
<1> QED BY <1>1, <1>2

(* A function takes no more values than it has arguments.                  *)
LEMMA NoMoreValues ==
  ASSUME NEW D, IsFiniteSet(D), NEW f, NEW T, \A t \in T : \E x \in D : t = f[x]
  PROVE  IsFiniteSet(T) /\ Cardinality(T) \in Nat /\ Cardinality(T) <= Cardinality(D)
<1> DEFINE V == {f[x] : x \in D}
           g == [x \in D |-> f[x]]
<1>1. g \in Surjection(D, V)
  BY DEF Surjection
<1>2. T \in SUBSET V
  OBVIOUS
<1> HIDE DEF V, g
<1>3. IsFiniteSet(V) /\ Cardinality(V) <= Cardinality(D)
  BY <1>1, FS_Surjection
<1>4. IsFiniteSet(T) /\ Cardinality(T) <= Cardinality(V)
  BY <1>2, <1>3, FS_Subset
<1>5. Cardinality(T) \in Nat /\ Cardinality(V) \in Nat /\ Cardinality(D) \in Nat
  BY <1>3, <1>4, FS_CardinalityType
<1> QED BY <1>3, <1>4, <1>5

(* Two sets have no more elements together than apart.                     *)
LEMMA NoMoreTogether ==
  ASSUME NEW S, NEW T, IsFiniteSet(S), IsFiniteSet(T)
  PROVE  /\ IsFiniteSet(S \cup T) /\ Cardinality(S \cup T) \in Nat
         /\ Cardinality(S) \in Nat /\ Cardinality(T) \in Nat
         /\ Cardinality(S \cup T) <= Cardinality(S) + Cardinality(T)
<1>1. /\ IsFiniteSet(S \cup T)
      /\ Cardinality(S \cup T) = Cardinality(S) + Cardinality(T) - Cardinality(S \cap T)
  BY FS_Union
<1>2. IsFiniteSet(S \cap T)
  BY FS_Intersection
<1>3. /\ Cardinality(S \cup T) \in Nat /\ Cardinality(S \cap T) \in Nat
      /\ Cardinality(S) \in Nat /\ Cardinality(T) \in Nat
  BY <1>1, <1>2, FS_CardinalityType
<1> QED BY <1>1, <1>3

(* The numbers up to a number, and the pairs of them                       *)
LEMMA CountedUp ==
  ASSUME NEW l \in Nat, NEW r \in Nat
  PROVE  /\ IsFiniteSet(1 .. l) /\ Cardinality(1 .. l) = l
         /\ IsFiniteSet((1 .. l) \X (1 .. r)) /\ Cardinality((1 .. l) \X (1 .. r)) = l * r
<1>1. ASSUME NEW h \in Nat PROVE IsFiniteSet(1 .. h) /\ Cardinality(1 .. h) = h
  <2>1. 1 \in Int /\ h \in Int
    OBVIOUS
  <2>2. Cardinality(1 .. h) = IF 1 > h THEN 0 ELSE h - 1 + 1
    BY <2>1, FS_Interval
  <2> QED BY <2>1, <2>2, FS_Interval
<1>2. PICK L, R : L = 1 .. l /\ R = 1 .. r
  OBVIOUS
<1>3. IsFiniteSet(L) /\ Cardinality(L) = l /\ IsFiniteSet(R) /\ Cardinality(R) = r
  BY <1>1, <1>2
<1>4. IsFiniteSet(L \X R) /\ Cardinality(L \X R) = l * r
  BY <1>3, FS_Product
<1> QED BY <1>2, <1>3, <1>4

(* Finitely many rows of finitely many                                     *)
LEMMA FinitelyManyRows ==
  ASSUME NEW S, IsFiniteSet(S), NEW w, w = [x \in S |-> w[x]], \A x \in S : w[x] \in Nat
  PROVE  IsFiniteSet(UNION {{x} \X (1 .. w[x]) : x \in S})
<1> DEFINE f == [x \in S |-> {x} \X (1 .. w[x])]
           T == {{x} \X (1 .. w[x]) : x \in S}
<1>1. \A R \in T : \E x \in S : R = f[x]
  OBVIOUS
<1>2. IsFiniteSet(T)
  <2> HIDE DEF f, T
  <2> QED BY <1>1, NoMoreValues
<1>3. ASSUME NEW R \in T PROVE IsFiniteSet(R)
  <2>1. PICK x \in S : R = {x} \X (1 .. w[x])
    OBVIOUS
  <2>2. IsFiniteSet({x})
    BY FS_Singleton
  <2>3. w[x] \in Nat
    OBVIOUS
  <2>4. IsFiniteSet(1 .. w[x])
    BY <2>3, CountedUp
  <2> QED BY <2>1, <2>2, <2>4, FS_Product
<1> HIDE DEF T
<1>5. IsFiniteSet(UNION T)
  BY <1>2, <1>3, FS_UNION
<1> QED BY <1>5 DEF T

(* The places of a text of two pieces                                      *)
LEMMA TwoPlaces ==
  ASSUME NEW p, NEW q, Characters(p) \in Nat, Characters(q) \in Nat
  PROVE  /\ Places(<<p, q>>) = ({1} \X (1 .. Characters(p))) \cup ({2} \X (1 .. Characters(q)))
         /\ IsFiniteSet(Places(<<p, q>>)) /\ TextLength(<<p, q>>) \in Nat
<1>1. DOMAIN <<p, q>> = {1, 2} /\ <<p, q>>[1] = p /\ <<p, q>>[2] = q
  OBVIOUS
<1>2. Places(<<p, q>>) = ({1} \X (1 .. Characters(p))) \cup ({2} \X (1 .. Characters(q)))
  BY <1>1 DEF Places
<1>3. IsFiniteSet({1} \X (1 .. Characters(p))) /\ IsFiniteSet({2} \X (1 .. Characters(q)))
  <2>1. IsFiniteSet({1}) /\ IsFiniteSet({2})
    BY FS_Singleton
  <2>2. IsFiniteSet(1 .. Characters(p)) /\ IsFiniteSet(1 .. Characters(q))
    BY CountedUp
  <2> QED BY <2>1, <2>2, FS_Product
<1>4. IsFiniteSet(Places(<<p, q>>))
  BY <1>2, <1>3, NoMoreTogether
<1> QED BY <1>2, <1>4, FS_CardinalityType DEF TextLength

(* The flat array of c sums of k primes of n, and its pieces               *)
Flat(n, k, c, array) == /\ n \in Nat /\ k \in {2, 3} /\ (Even(n) <=> k = 2) /\ c \in Nat \ {0}
                        /\ array \in Seq(Int) /\ Len(array) = k * c
PiecesIn(k, c)       == (k + 1) * c - 1

(* The piece i is the m-th of the sum j, or the comma after it.            *)
IsPieceOf(g, i, k, c, array, j, m) ==
  /\ i = (j - 1) * (k + 1) + m /\ (m = k + 1 => j <= c - 1)
  /\ g[i] = PieceAt(k, m, array[k * (j - 1) + m])

(* Every piece of the groups is one of a sum, or the comma after a sum     *)
(* that is not the last.                                                   *)
LEMMA PiecesAre ==
  ASSUME NEW n, NEW k, NEW c, NEW array, Flat(n, k, c, array), NEW i \in 1 .. PiecesIn(k, c)
  PROVE  \E j \in 1 .. c, m \in 1 .. k + 1 :
           IsPieceOf(Groups(Even(n), array), i, k, c, array, j, m)
<1> USE DEF Flat, PiecesIn, IsPieceOf
<1> DEFINE Place == ((i - 1) % (k + 1)) + 1
           Sum   == (i - 1) \div (k + 1)
<1>1. Groups(Even(n), array)[i] = PieceAt(k, Place, array[k * Sum + Place])
  <2>1. array # << >> /\ k * c > 0 /\ (k * c) \div k = c
    <3>1. CASE k = 2
      BY <3>1
    <3>2. CASE k = 3
      BY <3>2
    <3> QED BY <3>1, <3>2
  <2>2. k = IF Even(n) THEN 2 ELSE 3
    OBVIOUS
  <2> QED BY <2>1, <2>2 DEF Groups, PieceAt
<1>2. PICK m \in 1 .. k + 1, h \in 0 .. c - 1 :
        m = Place /\ h = Sum /\ i = h * (k + 1) + m /\ (m = k + 1 => h + 1 <= c - 1)
  <2>1. CASE k = 2
    BY <2>1
  <2>2. CASE k = 3
    BY <2>2
  <2> QED BY <2>1, <2>2
<1> HIDE DEF Place, Sum
<1>3. PICK j \in 1 .. c : j = h + 1 /\ j - 1 = h
  <2>1. h + 1 \in 1 .. c /\ (h + 1) - 1 = h
    OBVIOUS
  <2> QED BY <2>1
<1> QED BY <1>1, <1>2, <1>3

(* The characters of a piece: a comma's, those around a prime and its      *)
(* digits                                                                  *)
LEMMA PieceWidth ==
  ASSUME NEW k \in {2, 3}, NEW m \in 1 .. k + 1, NEW q
  PROVE  /\ m = k + 1 => Characters(PieceAt(k, m, q)) = 1
         /\ m = 1 => Characters(PieceAt(k, m, q)) = Digits(q) + 4
         /\ m # 1 /\ m < k => Characters(PieceAt(k, m, q)) = Digits(q) + 3
         /\ m = k => Characters(PieceAt(k, m, q)) = Digits(q)
<1>1. PICK w : w = Characters(PieceAt(k, m, q))
  OBVIOUS
<1>2. PICK d \in Nat : d = Digits(q)
  BY DigitsIs
<1>3. ASSUME m > k PROVE w = 1
  BY <1>1, <1>3, CharactersAre, Zenon DEF PieceAt
<1>4. ASSUME NEW a, NEW b, a = (IF m = 1 THEN " " ELSE ""), b = (IF m = k THEN "" ELSE " + "), ~(m > k)
      PROVE  w = Width(a) + d + Width(b)
  <2>1. PieceAt(k, m, q) = <<a, q, b>>
    BY <1>4, Zenon DEF PieceAt
  <2> QED BY <1>1, <1>2, <2>1, CharactersAre, Zenon
<1>5. ASSUME m = 1 PROVE w = 1 + d + 3
  <2>1. ~(m > k) /\ m # k
    BY <1>5
  <2> QED BY <1>4, <1>5, <2>1, WidthIs, Zenon
<1>6. ASSUME m # 1, m < k PROVE w = 0 + d + 3
  <2>1. ~(m > k) /\ m # k
    BY <1>6
  <2> QED BY <1>4, <1>6, <2>1, WidthIs, Zenon
<1>7. ASSUME m = k PROVE w = 0 + d + 0
  <2>1. ~(m > k) /\ m # 1
    BY <1>7
  <2> QED BY <1>4, <1>7, <2>1, WidthIs, Zenon
<1> QED BY <1>1, <1>2, <1>3, <1>5, <1>6, <1>7

(* Where the commas, the fixed characters around the primes of a sum and   *)
(* the digits of a prime are in the text                                   *)
PieceOf(k, j, m)    == 2 + (j - 1) * (k + 1) + m
CommaAt(k, j)       == <<PieceOf(k, j, k + 1), 1>>
FixedAt(k, x, j, e) ==
  IF e = 1 THEN <<PieceOf(k, j, 1), 1>>
  ELSE IF e <= 4 THEN <<PieceOf(k, j, 1), Digits(x[1]) + e>>
                 ELSE <<PieceOf(k, j, 2), Digits(x[2]) + (e - 4)>>
DigitAt(k, j, m, d) == <<PieceOf(k, j, m), d + IF m = 1 THEN 1 ELSE 0>>

(* Where those of the c sums f are                                         *)
CommaIn(k, c, place)    == \E j \in 1 .. c - 1 : place = CommaAt(k, j)
FixedIn(k, c, f, place) == \E j \in 1 .. c, e \in 1 .. 3 * k - 2 : place = FixedAt(k, f[j], j, e)
DigitIn(k, c, f, place) ==
  \E j \in 1 .. c, m \in 1 .. k : \E d \in 1 .. Digits(f[j][m]) : place = DigitAt(k, j, m, d)

(* Every character of a piece is one of these.                             *)
LEMMA PlaceIs ==
  ASSUME NEW k \in {2, 3}, NEW c \in Nat \ {0}, NEW j \in 1 .. c, NEW m \in 1 .. k + 1,
         m = k + 1 => j <= c - 1, NEW f, NEW q, m <= k => q = f[j][m],
         NEW p \in 1 .. Characters(PieceAt(k, m, q))
  PROVE  LET place == <<PieceOf(k, j, m), p>> IN
         CommaIn(k, c, place) \/ FixedIn(k, c, f, place) \/ DigitIn(k, c, f, place)
<1> SUFFICES
      \/ j \in 1 .. c - 1 /\ <<PieceOf(k, j, m), p>> = CommaAt(k, j)
      \/ \E e \in 1 .. 3 * k - 2 : <<PieceOf(k, j, m), p>> = FixedAt(k, f[j], j, e)
      \/ m \in 1 .. k /\ \E d \in 1 .. Digits(f[j][m]) : <<PieceOf(k, j, m), p>> = DigitAt(k, j, m, d)
  BY Zenon DEF CommaIn, FixedIn, DigitIn
<1>x. PICK x : x = f[j]
  OBVIOUS
<1>1. PICK D \in Nat \ {0} : D = Digits(q)
  BY DigitsIs
<1>2. CASE m = k + 1
  <2>1. p = 1
    BY <1>2, PieceWidth
  <2>2. j \in 1 .. c - 1
    BY <1>2
  <2> QED BY <1>2, <2>1, <2>2 DEF CommaAt
<1>3. CASE m = 1
  <2>1. p \in 1 .. D + 4 /\ D = Digits(x[1]) /\ m <= k
    <3>1. m <= k
      BY <1>3
    <3> QED BY <1>x, <1>1, <1>3, <3>1, PieceWidth
  <2>2. CASE p = 1
    <3>1. 1 \in 1 .. 3 * k - 2
      OBVIOUS
    <3> QED BY <1>3, <2>2, <3>1 DEF FixedAt
  <2>3. CASE p > 1 /\ p <= D + 1
    <3>1. PICK d \in 1 .. D : p = d + 1
      <4>1. p - 1 \in 1 .. D /\ p = (p - 1) + 1
        BY <2>1, <2>3
      <4> QED BY <4>1
    <3>2. m \in 1 .. k
      BY <2>1
    <3>3. <<PieceOf(k, j, m), p>> = DigitAt(k, j, m, d)
      BY <1>3, <3>1 DEF DigitAt
    <3> QED BY <1>x, <1>3, <2>1, <3>1, <3>2, <3>3
  <2>4. CASE p > D + 1
    <3>1. PICK e \in 2 .. 4 : p = D + e
      <4>1. p - D \in 2 .. 4 /\ p = D + (p - D)
        BY <2>1, <2>4
      <4> QED BY <4>1
    <3>2. e \in 1 .. 3 * k - 2 /\ e # 1 /\ e <= 4
      BY <3>1
    <3>3. <<PieceOf(k, j, m), p>> = FixedAt(k, x, j, e)
      BY <1>3, <2>1, <3>1, <3>2, Zenon DEF FixedAt
    <3> QED BY <1>x, <3>2, <3>3
  <2> QED BY <2>1, <2>2, <2>3, <2>4
<1>4. CASE m # 1 /\ m < k
  <2>1. p \in 1 .. D + 3 /\ m = 2 /\ k = 3 /\ D = Digits(x[2]) /\ m <= k
    <3>1. m = 2 /\ k = 3 /\ m <= k
      BY <1>4
    <3> QED BY <1>x, <1>1, <1>4, <3>1, PieceWidth
  <2>2. CASE p <= D
    <3>1. p \in 1 .. D /\ m \in 1 .. k /\ p + 0 = p
      BY <2>1, <2>2
    <3>2. <<PieceOf(k, j, m), p>> = DigitAt(k, j, m, p)
      BY <2>1, <3>1 DEF DigitAt
    <3> QED BY <1>x, <2>1, <3>1, <3>2
  <2>3. CASE p > D
    <3>1. PICK e \in 5 .. 7 : p = D + (e - 4)
      <4>1. p - D + 4 \in 5 .. 7 /\ p = D + ((p - D + 4) - 4)
        BY <2>1, <2>3
      <4> QED BY <4>1
    <3>2. e \in 1 .. 3 * k - 2 /\ e # 1 /\ ~(e <= 4)
      BY <2>1, <3>1
    <3>3. <<PieceOf(k, j, m), p>> = FixedAt(k, x, j, e)
      BY <2>1, <3>1, <3>2, Zenon DEF FixedAt
    <3> QED BY <1>x, <3>2, <3>3
  <2> QED BY <2>1, <2>2, <2>3
<1>5. CASE m = k
  <2>1. p \in 1 .. D /\ D = Digits(x[m]) /\ m # 1 /\ m \in 1 .. k /\ p + 0 = p
    <3>1. m <= k /\ m # 1
      BY <1>5
    <3> QED BY <1>x, <1>1, <1>5, <3>1, PieceWidth
  <2>2. <<PieceOf(k, j, m), p>> = DigitAt(k, j, m, p)
    BY <2>1 DEF DigitAt
  <2> QED BY <1>x, <2>1, <2>2
<1>6. m = k + 1 \/ m = 1 \/ (m # 1 /\ m < k) \/ m = k
  OBVIOUS
<1> QED BY <1>x, <1>2, <1>3, <1>4, <1>5, <1>6

(* Each sum is listed once, so it has one place in the list.               *)
ListedOnce(f, c, S) == /\ f = [j \in 1 .. c |-> f[j]] /\ S = {f[j] : j \in 1 .. c}
                       /\ Cardinality(S) = c
PlacedBy(J, f, c, S) == J \in [S -> 1 .. c] /\ \A j \in 1 .. c : J[f[j]] = j
LEMMA SumsApart ==
  ASSUME NEW c, c \in Nat, NEW f, NEW S, ListedOnce(f, c, S)
  PROVE  \E J : PlacedBy(J, f, c, S)
<1>s. f = [j \in 1 .. c |-> f[j]] /\ S = {f[j] : j \in 1 .. c} /\ Cardinality(S) = c
  BY DEF ListedOnce
<1>1. IsFiniteSet(1 .. c) /\ Cardinality(1 .. c) = c
  BY CountedUp
<1>2. f \in Surjection(1 .. c, S)
  BY <1>s DEF Surjection
<1>3. f \in Injection(1 .. c, S)
  BY <1>s, <1>1, <1>2, FS_SurjSameCardinalityImpliesInj
<1>4. \A i, j \in 1 .. c : f[i] = f[j] => i = j
  BY <1>3 DEF Injection, IsInjective
<1> DEFINE J == [x \in S |-> CHOOSE j \in 1 .. c : f[j] = x]
<1>5. ASSUME NEW x \in S PROVE J[x] \in 1 .. c /\ f[J[x]] = x
  <2>1. \E j \in 1 .. c : f[j] = x
    BY <1>s
  <2> QED BY <2>1
<1>6. J \in [S -> 1 .. c]
  BY <1>5
<1> HIDE DEF J
<1>7. ASSUME NEW j \in 1 .. c PROVE J[f[j]] = j
  <2>1. f[j] \in S
    BY <1>s
  <2> QED BY <1>4, <1>5, <2>1
<1> QED BY <1>6, <1>7 DEF PlacedBy

(* The digits of the primes of finitely many sums                          *)
LEMMA PrimeDigitsAre ==
  ASSUME NEW S, IsFiniteSet(S), NEW k \in Nat
  PROVE  /\ IsFiniteSet(PrimeDigits(S, k)) /\ Cardinality(PrimeDigits(S, k)) \in Nat
         /\ \A x \in S, m \in 1 .. k : \A d \in 1 .. Digits(x[m]) : <<<<x, m>>, d>> \in PrimeDigits(S, k)
<1>1. IsFiniteSet(S \X (1 .. k))
  <2>1. IsFiniteSet(1 .. k)
    BY CountedUp
  <2> QED BY <2>1, FS_Product
<1> DEFINE w == [y \in S \X (1 .. k) |-> Digits(y[1][y[2]])]
<1>2. \A y \in S \X (1 .. k) : w[y] \in Nat
  BY DigitsIs
<1>3. w = [y \in S \X (1 .. k) |-> w[y]]
  OBVIOUS
<1>4. PrimeDigits(S, k) = UNION {{y} \X (1 .. w[y]) : y \in S \X (1 .. k)}
  BY Zenon DEF PrimeDigits
<1>5. IsFiniteSet(PrimeDigits(S, k))
  <2> HIDE DEF w
  <2> QED BY <1>1, <1>2, <1>3, <1>4, FinitelyManyRows
<1>6. ASSUME NEW x \in S, NEW m \in 1 .. k, NEW d \in 1 .. Digits(x[m])
      PROVE  <<<<x, m>>, d>> \in PrimeDigits(S, k)
  <2>1. PICK y \in S \X (1 .. k) : y = <<x, m>>
    OBVIOUS
  <2>2. y[1] = x /\ y[2] = m
    BY <2>1
  <2>3. <<y, d>> \in {y} \X (1 .. Digits(y[1][y[2]]))
    BY <2>2
  <2> QED BY <2>1, <2>3 DEF PrimeDigits
<1> QED BY <1>5, <1>6, FS_CardinalityType

(* A text's pieces, when its length is known                                *)
LEMMA TextDomain ==
  ASSUME NEW a, NEW b, NEW g, NEW len \in Nat, g \in Seq({g[i] : i \in 1 .. len}), Len(g) = len
  PROVE  DOMAIN (<<a>> \o (<<b>> \o g)) = 1 .. 2 + len
<1>1. PICK T : T = {a, b} \cup {g[i] : i \in 1 .. len}
  OBVIOUS
<1>2. g = [i \in 1 .. len |-> g[i]] /\ \A i \in 1 .. len : g[i] \in T
  BY <1>1
<1>3. a \in T /\ b \in T
  BY <1>1
<1>4. g \in Seq(T)
  BY <1>2
<1>5. <<a>> \in Seq(T) /\ <<b>> \in Seq(T)
  BY <1>3
<1>6. <<a>> \o (<<b>> \o g) \in Seq(T)
  BY <1>4, <1>5
<1>7. Len(<<a>> \o (<<b>> \o g)) = 2 + len
  BY TextIs
<1> QED BY <1>6, <1>7, LenProperties

(* Every character of the text is in one of the two first pieces, a comma, *)
(* around a prime of a sum, or a digit of one.                             *)
LEMMA TextCovered ==
  ASSUME NEW n, NEW k \in {2, 3}, NEW c \in Nat \ {0}, NEW array, Flat(n, k, c, array),
         NEW f, f = SumsIn(array, k, c), NEW a, NEW b,
         NEW q \in Places(<<a>> \o (<<b>> \o Groups(Even(n), array)))
  PROVE  q \in Places(<<a, b>>) \/ CommaIn(k, c, q) \/ FixedIn(k, c, f, q) \/ DigitIn(k, c, f, q)
<1>1. PICK len \in Nat : len = PiecesIn(k, c)
  <2>1. CASE k = 2
    BY <2>1 DEF PiecesIn
  <2>2. CASE k = 3
    BY <2>2 DEF PiecesIn
  <2> QED BY <2>1, <2>2
<1>2. PICK g : g = Groups(Even(n), array)
  OBVIOUS
<1>3. PICK text : text = <<a>> \o (<<b>> \o g)
  OBVIOUS
<1>4. g \in Seq({g[i] : i \in 1 .. len}) /\ Len(g) = len
  <2>1. WellGrouped(Groups(Even(n), array), k, c, array)
    BY GroupsAre DEF Flat
  <2> QED BY <1>1, <1>2, <2>1, Zenon DEF WellGrouped, PiecesIn
<1>5. /\ Len(text) = 2 + len /\ text[1] = a /\ text[2] = b
      /\ \A i \in 3 .. Len(text) : text[i] = g[i - 2] /\ i - 2 \in 1 .. len
  BY <1>3, <1>4, TextIs
<1>6. DOMAIN text = 1 .. 2 + len
  BY <1>3, <1>4, TextDomain
<1>7. PICK i \in 1 .. 2 + len : q \in {i} \X (1 .. Characters(text[i]))
  <2>1. q \in Places(text)
    BY <1>2, <1>3
  <2> QED BY <1>6, <2>1 DEF Places
<1>8. PICK p \in 1 .. Characters(text[i]) : q = <<i, p>>
  BY <1>7
<1>9. CASE i <= 2
  <2>1. DOMAIN <<a, b>> = {1, 2} /\ <<a, b>>[1] = a /\ <<a, b>>[2] = b
    OBVIOUS
  <2>2. i \in {1, 2}
    BY <1>9
  <2>3. text[i] = <<a, b>>[i]
    BY <1>5, <2>1, <2>2
  <2>4. q \in {i} \X (1 .. Characters(<<a, b>>[i]))
    BY <1>7, <2>3
  <2>5. q \in Places(<<a, b>>)
    BY <2>1, <2>2, <2>4, Zenon DEF Places
  <2> QED BY <2>5
<1>10. CASE i > 2
  <2>1. PICK h \in 1 .. len : h = i - 2 /\ i = 2 + h /\ text[i] = g[h]
    <3>1. i \in 3 .. Len(text) /\ i = 2 + (i - 2)
      BY <1>5, <1>10
    <3> QED BY <1>5, <3>1
  <2>2. h \in 1 .. PiecesIn(k, c)
    BY <1>1
  <2>3. PICK j \in 1 .. c, m \in 1 .. k + 1 : IsPieceOf(g, h, k, c, array, j, m)
    BY <1>2, <2>2, PiecesAre
  <2>4. PICK v : v = array[k * (j - 1) + m]
    OBVIOUS
  <2>5. m <= k => v = f[j][m]
    <3>1. m <= k => m \in 1 .. k
      OBVIOUS
    <3>2. \A l \in 1 .. k : f[j][l] = array[k * (j - 1) + l]
      BY DEF SumsIn
    <3> QED BY <2>4, <3>1, <3>2
  <2>6. p \in 1 .. Characters(PieceAt(k, m, v))
    BY <2>1, <2>3, <2>4 DEF IsPieceOf
  <2>7. q = <<PieceOf(k, j, m), p>>
    <3>1. PieceOf(k, j, m) = i
      <4>1. CASE k = 2
        BY <2>1, <2>3, <4>1 DEF PieceOf, IsPieceOf
      <4>2. CASE k = 3
        BY <2>1, <2>3, <4>2 DEF PieceOf, IsPieceOf
      <4> QED BY <4>1, <4>2
    <3> QED BY <1>8, <3>1
  <2>8. m = k + 1 => j <= c - 1
    BY <2>3 DEF IsPieceOf
  <2>9. PICK place : place = <<PieceOf(k, j, m), p>>
    OBVIOUS
  <2>10. CommaIn(k, c, place) \/ FixedIn(k, c, f, place) \/ DigitIn(k, c, f, place)
    BY <2>5, <2>6, <2>8, <2>9, PlaceIs
  <2> QED BY <2>7, <2>9, <2>10, Zenon
<1> QED BY <1>9, <1>10

(* Four sets have no more elements together than apart.                    *)
LEMMA NoMoreOfFour ==
  ASSUME NEW A, NEW B, NEW E, NEW G,
         IsFiniteSet(A), IsFiniteSet(B), IsFiniteSet(E), IsFiniteSet(G),
         NEW b \in Nat, Cardinality(B) <= b, NEW e \in Nat, Cardinality(E) <= e,
         NEW g \in Nat, Cardinality(G) <= g
  PROVE  /\ IsFiniteSet(A \cup (B \cup (E \cup G))) /\ Cardinality(A \cup (B \cup (E \cup G))) \in Nat
         /\ Cardinality(A) \in Nat
         /\ Cardinality(A \cup (B \cup (E \cup G))) <= Cardinality(A) + (b + e + g)
<1>1. /\ IsFiniteSet(E \cup G) /\ Cardinality(E \cup G) \in Nat
      /\ Cardinality(E \cup G) <= e + g
  BY NoMoreTogether
<1>2. PICK R : R = E \cup G
  OBVIOUS
<1>3. /\ IsFiniteSet(B \cup R) /\ Cardinality(B \cup R) \in Nat
      /\ Cardinality(B \cup R) <= b + (e + g)
  BY <1>1, <1>2, NoMoreTogether
<1>4. PICK Q : Q = B \cup R
  OBVIOUS
<1>5. /\ IsFiniteSet(A \cup Q) /\ Cardinality(A \cup Q) \in Nat /\ Cardinality(A) \in Nat
      /\ Cardinality(A \cup Q) <= Cardinality(A) + (b + (e + g))
  BY <1>3, <1>4, NoMoreTogether
<1> QED BY <1>2, <1>4, <1>5

(* The text of a list of sums has no more characters than what goes before *)
(* them, the commas, what is around the primes of each sum, and the digits *)
(* of the primes.                                                          *)
LEMMA TextFits ==
  ASSUME NEW n, NEW k \in {2, 3}, NEW c \in Nat \ {0}, NEW array, Flat(n, k, c, array),
         NEW S, IsFiniteSet(S), ListedOnce(SumsIn(array, k, c), c, S),
         NEW a, NEW b, IsFiniteSet(Places(<<a, b>>)), NEW r \in Nat, r = 3 * k - 2
  PROVE  LET text == <<a>> \o (<<b>> \o Groups(Even(n), array)) IN
         /\ TextLength(text) \in Nat
         /\ TextLength(text) <= TextLength(<<a, b>>) + ((c - 1) + c * r + Cardinality(PrimeDigits(S, k)))
<1>1. PICK f : f = SumsIn(array, k, c) /\ ListedOnce(f, c, S)
  OBVIOUS
<1>2. PICK J : PlacedBy(J, f, c, S)
  <2>1. c \in Nat
    OBVIOUS
  <2> QED BY <1>1, <2>1, SumsApart
<1>3. PICK h \in Nat : h = c - 1
  <2>1. c - 1 \in Nat
    OBVIOUS
  <2> QED BY <2>1
<1>4. PICK P : P = Places(<<a>> \o (<<b>> \o Groups(Even(n), array)))
  OBVIOUS
<1>5. PICK D : D = PrimeDigits(S, k)
  OBVIOUS
<1>6. /\ IsFiniteSet(D) /\ Cardinality(D) \in Nat
      /\ \A x \in S, m \in 1 .. k : \A d \in 1 .. Digits(x[m]) : <<<<x, m>>, d>> \in D
  <2>1. k \in Nat
    OBVIOUS
  <2> QED BY <1>5, <2>1, PrimeDigitsAre
<1> DEFINE B == {q \in P : \E j \in 1 .. h : q = CommaAt(k, j)}
           E == {q \in P : \E j \in 1 .. c, e \in 1 .. r : q = FixedAt(k, f[j], j, e)}
           G == {q \in P : \E j \in 1 .. c, m \in 1 .. k :
                             \E d \in 1 .. Digits(f[j][m]) : q = DigitAt(k, j, m, d)}
<1>7. IsFiniteSet(B) /\ Cardinality(B) <= h
  <2>1. PICK g : g = [j \in 1 .. h |-> CommaAt(k, j)]
    OBVIOUS
  <2>2. \A q \in B : \E j \in 1 .. h : q = g[j]
    BY <2>1
  <2> HIDE DEF B
  <2>3. PICK C : C = 1 .. h /\ IsFiniteSet(C) /\ Cardinality(C) = h
    BY CountedUp
  <2>4. IsFiniteSet(B) /\ Cardinality(B) <= Cardinality(C)
    BY <2>2, <2>3, NoMoreValues
  <2> QED BY <2>3, <2>4
<1>8. IsFiniteSet(E) /\ Cardinality(E) <= c * r
  <2>1. PICK g : g = [y \in (1 .. c) \X (1 .. r) |-> FixedAt(k, f[y[1]], y[1], y[2])]
    OBVIOUS
  <2>2. ASSUME NEW q \in E PROVE \E y \in (1 .. c) \X (1 .. r) : q = g[y]
    <3>1. PICK j \in 1 .. c, e \in 1 .. r : q = FixedAt(k, f[j], j, e)
      OBVIOUS
    <3>2. PICK y \in (1 .. c) \X (1 .. r) : y = <<j, e>>
      OBVIOUS
    <3>3. y[1] = j /\ y[2] = e
      BY <3>2
    <3>4. q = g[y]
      BY <2>1, <3>1, <3>3
    <3> QED BY <3>4
  <2> HIDE DEF E
  <2>3. PICK C : C = (1 .. c) \X (1 .. r) /\ IsFiniteSet(C) /\ Cardinality(C) = c * r
    <3>1. c \in Nat
      OBVIOUS
    <3> QED BY <3>1, CountedUp
  <2>4. IsFiniteSet(E) /\ Cardinality(E) <= Cardinality(C)
    <3>1. \A q \in E : \E y \in C : q = g[y]
      BY <2>2, <2>3, Zenon
    <3> QED BY <2>3, <3>1, NoMoreValues
  <2> QED BY <2>3, <2>4
<1>9. IsFiniteSet(G) /\ Cardinality(G) <= Cardinality(D)
  <2>1. PICK g : g = [z \in D |-> DigitAt(k, J[z[1][1]], z[1][2], z[2])]
    OBVIOUS
  <2>2. ASSUME NEW q \in G PROVE \E z \in D : q = g[z]
    <3>1. PICK j \in 1 .. c, m \in 1 .. k : \E d \in 1 .. Digits(f[j][m]) : q = DigitAt(k, j, m, d)
      OBVIOUS
    <3>2. PICK d \in 1 .. Digits(f[j][m]) : q = DigitAt(k, j, m, d)
      BY <3>1
    <3>3. PICK x \in S : x = f[j]
      BY <1>1 DEF ListedOnce
    <3>4. PICK z \in D : z = <<<<x, m>>, d>>
      BY <1>6, <3>2, <3>3
    <3>5. z[1][1] = x /\ z[1][2] = m /\ z[2] = d
      BY <3>4
    <3>6. J[x] = j
      BY <1>2, <3>3 DEF PlacedBy
    <3>7. q = g[z]
      BY <2>1, <3>2, <3>5, <3>6
    <3> QED BY <3>7
  <2> HIDE DEF G
  <2> QED BY <1>6, <2>2, NoMoreValues
<1>10. P \in SUBSET (Places(<<a, b>>) \cup (B \cup (E \cup G)))
  <2>1. ASSUME NEW q \in P
        PROVE  q \in Places(<<a, b>>) \/ CommaIn(k, c, q) \/ FixedIn(k, c, f, q) \/ DigitIn(k, c, f, q)
    <3> HIDE DEF B, E, G
    <3> QED BY <1>1, <1>4, TextCovered
  <2>2. ASSUME NEW q \in P
        PROVE  q \in Places(<<a, b>>) \/ q \in B \/ q \in E \/ q \in G
    BY <1>3, <2>1, Zenon DEF CommaIn, FixedIn, DigitIn
  <2> HIDE DEF B, E, G
  <2> QED BY <2>2
<1> HIDE DEF B, E, G
<1>11. PICK fixed \in Nat : fixed = c * r
  <2>1. c * r \in Nat
    BY SMT
  <2> QED BY <2>1
<1>12. PICK A : A = Places(<<a, b>>)
  OBVIOUS
<1>13. /\ IsFiniteSet(A \cup (B \cup (E \cup G))) /\ Cardinality(A \cup (B \cup (E \cup G))) \in Nat
       /\ Cardinality(A) \in Nat
       /\ Cardinality(A \cup (B \cup (E \cup G))) <= Cardinality(A) + (h + fixed + Cardinality(D))
  <2>1. IsFiniteSet(A) /\ Cardinality(E) <= fixed
    BY <1>8, <1>11, <1>12
  <2> QED BY <1>6, <1>7, <1>8, <1>9, <2>1, NoMoreOfFour
<1>14. PICK U : U = A \cup (B \cup (E \cup G))
  OBVIOUS
<1>15. IsFiniteSet(P) /\ Cardinality(P) <= Cardinality(U)
  BY <1>10, <1>12, <1>13, <1>14, FS_Subset
<1>16. Cardinality(P) \in Nat
  BY <1>15, FS_CardinalityType
<1>17. Cardinality(P) <= Cardinality(A) + (h + fixed + Cardinality(D))
  BY <1>6, <1>13, <1>14, <1>15, <1>16
<1> QED BY <1>3, <1>4, <1>5, <1>11, <1>12, <1>16, <1>17, Zenon DEF TextLength

(* The two pieces every row of a number with sums begins with              *)
LEMMA FirstPieces ==
  ASSUME NEW number, NEW c, NEW shown \in BOOLEAN
  PROVE  LET two == <<NumberPiece(number), CountPiece(c, shown)>> IN
         /\ IsFiniteSet(Places(two)) /\ TextLength(two) \in Nat
         /\ Places(<<NumberPiece(number), CountPiece(0, shown)>>) \subseteq Places(two)
<1>1. PICK w \in {5, 6} : \A y : Characters(CountPiece(y, shown)) = 0 + Digits(y) + w
  <2>1. \A y : CountPiece(y, shown) = <<"", y, IF shown THEN " sums:" ELSE " sums">>
    BY Zenon DEF CountPiece
  <2>2. CASE shown
    <3>1. \A y : Characters(CountPiece(y, shown)) = 0 + Digits(y) + 6
      BY <2>1, <2>2, CharactersAre, WidthIs, Zenon
    <3> QED BY <3>1, Zenon
  <2>3. CASE ~shown
    <3>1. \A y : Characters(CountPiece(y, shown)) = 0 + Digits(y) + 5
      BY <2>1, <2>3, CharactersAre, WidthIs, Zenon
    <3> QED BY <3>1, Zenon
  <2> QED BY <2>2, <2>3, Zenon
<1>3. Characters(NumberPiece(number)) \in Nat
  <2>1. Characters(NumberPiece(number)) = 0 + Digits(number) + 2
    BY CharactersAre, WidthIs, Zenon DEF NumberPiece
  <2>2. Digits(number) \in Nat
    BY DigitsIs
  <2> QED BY <2>1, <2>2
<1>5. PICK p, q, z : p = NumberPiece(number) /\ q = CountPiece(c, shown) /\ z = CountPiece(0, shown)
  OBVIOUS
<1>6. Characters(q) \in Nat /\ Characters(z) \in Nat /\ Characters(z) <= Characters(q)
  <2>1. Digits(0) \in Nat /\ Digits(c) \in Nat /\ Digits(0) <= Digits(c)
    BY DigitsIs
  <2>2. Characters(q) = 0 + Digits(c) + w /\ Characters(z) = 0 + Digits(0) + w
    BY <1>1, <1>5, Zenon
  <2> QED BY <2>1, <2>2
<1>7. /\ Places(<<p, q>>) = ({1} \X (1 .. Characters(p))) \cup ({2} \X (1 .. Characters(q)))
      /\ Places(<<p, z>>) = ({1} \X (1 .. Characters(p))) \cup ({2} \X (1 .. Characters(z)))
      /\ IsFiniteSet(Places(<<p, q>>)) /\ TextLength(<<p, q>>) \in Nat
  BY <1>3, <1>5, <1>6, TwoPlaces
<1>8. 1 .. Characters(z) \subseteq 1 .. Characters(q)
  BY <1>6
<1>9. Places(<<p, z>>) \subseteq Places(<<p, q>>)
  BY <1>7, <1>8
<1> QED BY <1>5, <1>7, <1>9, Zenon

(* What RowLength adds to those two pieces                                 *)
LEMMA RowLengthIs ==
  ASSUME NEW number \in Int, NEW n \in Nat, n = Abs(number), NEW S, S = Partitions(n), NEW k, k = Arity(n),
         NEW r \in Nat, r = 3 * k - 2, NEW c \in Nat, c = Cardinality(S)
  PROVE  LET two == <<NumberPiece(number), CountPiece(c, number < 0)>>
             D   == Cardinality(PrimeDigits(S, k)) IN
         /\ c * r \in Nat /\ D \in Nat
         /\ number > 0 \/ c = 0 => RowLength(number) = TextLength(two) + 0
         /\ number < 0 /\ c # 0 => RowLength(number) = TextLength(two) + ((c - 1) + c * r + D)
<1>1. (IF Even(number) THEN 2 ELSE 3) = k /\ k \in Nat
  BY DEF Even, Abs, Arity
<1>2. IsFiniteSet(S)
  BY FinitelyMany
<1>3. S = {} <=> c = 0
  BY <1>2, FS_EmptySet
<1>4. Cardinality(PrimeDigits(S, k)) \in Nat
  BY <1>1, <1>2, PrimeDigitsAre
<1>5. c * r \in Nat
  BY SMT
<1>6. PICK more : more = IF number > 0 \/ S = {} THEN 0
                         ELSE (c - 1) + c * (3 * k - 2) + Cardinality(PrimeDigits(S, k))
  OBVIOUS
<1>7. RowLength(number) = TextLength(<<NumberPiece(number), CountPiece(c, number < 0)>>) + more
  BY <1>1, <1>6, Zenon DEF RowLength
<1>8. number > 0 \/ c = 0 => more = 0
  BY <1>3, <1>6, Zenon
<1>9. number < 0 /\ c # 0 => more = (c - 1) + c * r + Cardinality(PrimeDigits(S, k))
  <2>1. number < 0 => ~(number > 0)
    OBVIOUS
  <2> QED BY <1>3, <1>6, <2>1, Zenon
<1> QED BY <1>4, <1>5, <1>7, <1>8, <1>9, Zenon

(* What imprimir_resultado prints is no longer than the row of the number. *)
LEMMA RowFits ==
  ASSUME NEW number \in Int, NEW n \in Nat, n = Abs(number), NEW s, LoopsInv(n, s), s.role = "none",
         s.shown = (number < 0)
  PROVE  LET text == <<NumberPiece(number)>> \o Result(Even(n), s.shown, s.count, s.array) IN
         /\ TextLength(text) \in Nat /\ RowLength(number) \in Nat
         /\ TextLength(text) <= RowLength(number)
<1>1. /\ n > 5 /\ s.count \in Nat /\ s.shown \in BOOLEAN /\ s.array \in Seq(Int)
      /\ Listed(n, s, Partitions(n))
  BY DEF LoopsInv, LoopTypes
<1>2. PICK S : S = Partitions(n)
  OBVIOUS
<1>3. PICK k \in {2, 3}, r \in Nat : k = Arity(n) /\ r = 3 * k - 2 /\ (Even(n) <=> k = 2)
  <2>1. Arity(n) \in {2, 3} /\ (Even(n) <=> Arity(n) = 2) /\ 3 * Arity(n) - 2 \in Nat
    BY DEF Arity
  <2> QED BY <2>1
<1>4. PICK c \in Nat, shown \in BOOLEAN, array \in Seq(Int) :
        c = s.count /\ shown = s.shown /\ array = s.array
  BY <1>1
<1>5. /\ IsFiniteSet(S) /\ c = Cardinality(S)
      /\ shown => Len(array) = k * c /\ Lists(SumsIn(array, k, c), S)
  BY <1>1, <1>2, <1>3, <1>4 DEF Listed
<1>6. PICK a, b : a = NumberPiece(number) /\ b = CountPiece(c, shown)
  OBVIOUS
<1>7. IsFiniteSet(Places(<<a, b>>)) /\ TextLength(<<a, b>>) \in Nat
  BY <1>6, FirstPieces
<1>8. PICK D : D = Cardinality(PrimeDigits(S, k))
  OBVIOUS
<1>9. /\ c * r \in Nat /\ D \in Nat
      /\ number > 0 \/ c = 0 => RowLength(number) = TextLength(<<a, b>>) + 0
      /\ number < 0 /\ c # 0 => RowLength(number) = TextLength(<<a, b>>) + ((c - 1) + c * r + D)
  <2>1. shown = (number < 0)
    BY <1>4
  <2>2. LET two == <<NumberPiece(number), CountPiece(c, number < 0)>>
            E   == Cardinality(PrimeDigits(S, k)) IN
        /\ c * r \in Nat /\ E \in Nat
        /\ number > 0 \/ c = 0 => RowLength(number) = TextLength(two) + 0
        /\ number < 0 /\ c # 0 => RowLength(number) = TextLength(two) + ((c - 1) + c * r + E)
    <3>1. k = Arity(n) /\ r = 3 * k - 2
      BY <1>3
    <3> QED BY <1>2, <1>5, <3>1, RowLengthIs
  <2> QED BY <1>6, <1>8, <2>1, <2>2, Zenon
<1>10. PICK text : text = <<NumberPiece(number)>> \o Result(Even(n), s.shown, s.count, s.array)
  OBVIOUS
<1>11. CASE number > 0 \/ c = 0
  <2>1. text = <<a>> \o (<<b>> \o << >>)
    <3>1. CASE number > 0
      <4>1. ~(number < 0)
        BY <3>1
      <4>2. ~shown
        BY <1>4, <4>1, Zenon
      <4> QED BY <1>4, <1>6, <1>10, <4>2, Zenon DEF Result
    <3>2. CASE c = 0
      <4>1. shown => array = << >>
        <5>1. k * 0 = 0
          OBVIOUS
        <5> QED BY <1>5, <3>2, <5>1, EmptySeq
      <4>2. Groups(Even(n), << >>) = << >>
        BY DEF Groups
      <4> QED BY <1>4, <1>6, <1>10, <4>1, <4>2, Zenon DEF Result
    <3> QED BY <1>11, <3>1, <3>2
  <2>2. text = <<a, b>>
    BY <2>1, TwoPieces, Zenon
  <2>3. TextLength(text) \in Nat /\ RowLength(number) = TextLength(text) + 0
    BY <1>7, <1>9, <1>11, <2>2
  <2> QED BY <1>10, <2>3
<1>12. CASE number < 0 /\ c # 0
  <2>1. shown /\ c \in Nat \ {0}
    BY <1>4, <1>12
  <2>2. text = <<a>> \o (<<b>> \o Groups(Even(n), array))
    BY <1>4, <1>6, <1>10, <2>1, Zenon DEF Result
  <2>3. Flat(n, k, c, array)
    BY <1>3, <1>5, <2>1 DEF Flat
  <2>4. ListedOnce(SumsIn(array, k, c), c, S)
    <3>1. /\ DOMAIN SumsIn(array, k, c) = 1 .. c
          /\ SumsIn(array, k, c) = [j \in 1 .. c |-> SumsIn(array, k, c)[j]]
      BY DEF SumsIn
    <3>2. S = {SumsIn(array, k, c)[j] : j \in 1 .. c}
      BY <1>5, <2>1, <3>1, Zenon DEF Lists
    <3> QED BY <1>5, <3>1, <3>2, Zenon DEF ListedOnce
  <2>5. /\ TextLength(text) \in Nat
        /\ TextLength(text) <= TextLength(<<a, b>>) + ((c - 1) + c * r + D)
    <3>1. LET t == <<a>> \o (<<b>> \o Groups(Even(n), array)) IN
          /\ TextLength(t) \in Nat
          /\ TextLength(t) <= TextLength(<<a, b>>) + ((c - 1) + c * r + Cardinality(PrimeDigits(S, k)))
      <4>1. r = 3 * k - 2 /\ IsFiniteSet(S) /\ c \in Nat \ {0}
        BY <1>3, <1>5, <2>1
      <4> QED BY <1>7, <2>3, <2>4, <4>1, TextFits
    <3> QED BY <1>8, <2>2, <3>1, Zenon
  <2>6. PICK o \in Nat : o = c * r
    BY <1>9
  <2>7. (c - 1) + o + D \in Nat
    BY <1>9, <2>1
  <2>8. RowLength(number) = TextLength(<<a, b>>) + ((c - 1) + o + D)
    BY <1>9, <1>12, <2>6
  <2>9. TextLength(text) <= TextLength(<<a, b>>) + ((c - 1) + o + D)
    BY <2>5, <2>6
  <2> QED BY <1>7, <1>10, <2>5, <2>7, <2>8, <2>9
<1>13. number > 0 \/ number < 0
  BY <1>1 DEF Abs
<1> QED BY <1>11, <1>12, <1>13

(* Nor is the row of MinInt, which has no sums at all.                     *)
LEMMA MinIntFits ==
  LET two == <<NumberPiece(MinInt), CountPiece(0, TRUE)>> IN
  TextLength(two) \in Nat /\ RowLength(MinInt) \in Nat /\ TextLength(two) <= RowLength(MinInt)
<1>1. PICK n \in Nat : n = Abs(MinInt) /\ MinInt \in Int /\ MinInt < 0
  BY SumsAssumption DEF Abs
<1>2. (MinInt < 0) = TRUE
  BY <1>1
<1>3. PICK S : S = Partitions(n) /\ IsFiniteSet(S)
  BY FinitelyMany
<1>4. PICK c \in Nat : c = Cardinality(S)
  BY <1>3, FS_CardinalityType
<1>5. PICK k \in Nat, r \in Nat : k = Arity(n) /\ r = 3 * k - 2
  <2>1. Arity(n) \in Nat /\ 3 * Arity(n) - 2 \in Nat
    BY DEF Arity
  <2> QED BY <2>1
<1>6. PICK D : D = Cardinality(PrimeDigits(S, k))
  OBVIOUS
<1>7. PICK two, none : /\ two = <<NumberPiece(MinInt), CountPiece(c, TRUE)>>
                       /\ none = <<NumberPiece(MinInt), CountPiece(0, TRUE)>>
  OBVIOUS
<1>8. /\ c * r \in Nat /\ D \in Nat
      /\ c = 0 => RowLength(MinInt) = TextLength(two) + 0
      /\ c # 0 => RowLength(MinInt) = TextLength(two) + ((c - 1) + c * r + D)
  <2>1. LET l == <<NumberPiece(MinInt), CountPiece(c, MinInt < 0)>>
            E == Cardinality(PrimeDigits(S, k)) IN
        /\ c * r \in Nat /\ E \in Nat
        /\ MinInt > 0 \/ c = 0 => RowLength(MinInt) = TextLength(l) + 0
        /\ MinInt < 0 /\ c # 0 => RowLength(MinInt) = TextLength(l) + ((c - 1) + c * r + E)
    BY <1>1, <1>3, <1>4, <1>5, RowLengthIs
  <2> QED BY <1>1, <1>2, <1>6, <1>7, <2>1, Zenon
<1>9. IsFiniteSet(Places(two)) /\ TextLength(two) \in Nat /\ Places(none) \in SUBSET Places(two)
  BY <1>7, FirstPieces
<1>10. TextLength(none) \in Nat /\ TextLength(none) <= TextLength(two)
  <2>1. IsFiniteSet(Places(none)) /\ Cardinality(Places(none)) <= Cardinality(Places(two))
    BY <1>9, FS_Subset
  <2> QED BY <2>1, FS_CardinalityType DEF TextLength
<1>11. RowLength(MinInt) \in Nat /\ TextLength(two) <= RowLength(MinInt)
  <2>1. PICK o \in Nat : o = c * r
    BY <1>8
  <2>2. c # 0 => (c - 1) + o + D \in Nat
    BY <1>8
  <2> QED BY <1>8, <1>9, <2>1, <2>2
<1> QED BY <1>7, <1>9, <1>10, <1>11
-----------------------------------------------------------------------------
(* The largest of the first k absolute values, and 0                       *)
HasMayor(numbers, k) ==
  \E m \in {0} \cup {Magnitude(numbers[i]) : i \in 1 .. k} :
    m >= 0 /\ \A i \in 1 .. k : Magnitude(numbers[i]) <= m

(* There is a largest absolute value, so Mayor names one.                  *)
LEMMA MayorIs ==
  ASSUME NEW numbers \in Seq(Int)
  PROVE  /\ Mayor(numbers) \in Nat
         /\ \A i \in DOMAIN numbers : /\ Magnitude(numbers[i]) \in Int
                                      /\ Magnitude(numbers[i]) <= Mayor(numbers)
<1>1. Len(numbers) \in Nat /\ DOMAIN numbers = 1 .. Len(numbers)
  BY LenProperties
<1>2. \A i \in 1 .. Len(numbers) : Magnitude(numbers[i]) \in Int
  BY <1>1, SumsAssumption DEF Magnitude, Abs
<1>3. ASSUME NEW k \in 0 .. Len(numbers), k # 0 => HasMayor(numbers, k - 1)
      PROVE  HasMayor(numbers, k)
  <2>1. CASE k = 0
    BY <2>1 DEF HasMayor
  <2>2. CASE k # 0
    <3>1. PICK m \in {0} \cup {Magnitude(numbers[i]) : i \in 1 .. k - 1} :
            m >= 0 /\ \A i \in 1 .. k - 1 : Magnitude(numbers[i]) <= m
      BY <1>3, <2>2 DEF HasMayor
    <3>2. m \in Int
      BY <1>2, <3>1
    <3>3. PICK l \in Int : l = Magnitude(numbers[k])
      BY <1>2, <2>2
    <3>4. 1 .. k = (1 .. k - 1) \cup {k}
      BY <2>2
    <3>5. CASE l <= m
      BY <3>1, <3>3, <3>4, <3>5 DEF HasMayor
    <3>6. CASE ~(l <= m)
      <4>1. l >= 0 /\ \A i \in 1 .. k - 1 : Magnitude(numbers[i]) <= l
        <5>1. l > m /\ l >= 0
          BY <3>1, <3>2, <3>6
        <5>2. ASSUME NEW i \in 1 .. k - 1 PROVE Magnitude(numbers[i]) <= l
          <6>1. PICK v \in Int : v = Magnitude(numbers[i])
            BY <1>1, <1>2
          <6>2. v <= m
            BY <3>1, <6>1
          <6> QED BY <3>2, <5>1, <6>1, <6>2
        <5> QED BY <5>1, <5>2
      <4>2. l \in {Magnitude(numbers[i]) : i \in 1 .. k}
        BY <3>3, <3>4
      <4>3. l <= l
        OBVIOUS
      <4> QED BY <3>3, <3>4, <4>1, <4>2, <4>3 DEF HasMayor
    <3> QED BY <3>5, <3>6
  <2> QED BY <2>1, <2>2
<1>4. HasMayor(numbers, Len(numbers))
  <2> DEFINE B == {k \in 0 .. Len(numbers) : ~HasMayor(numbers, k)}
             R == {p \in Nat \X Nat : p[1] < p[2]}
  <2>1. SUFFICES ASSUME B # {} PROVE FALSE
    BY <1>1
  <2>2. IsWellFoundedOn(R, Nat)
    BY NatLessThanWellFounded DEF OpToRel
  <2>3. \A m, n \in Nat : m < n => <<m, n>> \in R
    OBVIOUS
  <2>4. B \in SUBSET Nat
    OBVIOUS
  <2> HIDE DEF R
  <2>5. PICK k \in B : \A m \in B : ~(<<m, k>> \in R)
    BY <2>1, <2>2, <2>4, WFMin
  <2>6. k # 0 => HasMayor(numbers, k - 1)
    <3>1. k # 0 => k - 1 \in 0 .. Len(numbers) /\ <<k - 1, k>> \in R
      BY <1>1, <2>3
    <3> QED BY <2>5, <3>1
  <2> QED BY <1>3, <2>6
<1>5. \E m \in {0} \cup {Magnitude(numbers[i]) : i \in DOMAIN numbers} :
        m >= 0 /\ \A i \in DOMAIN numbers : Magnitude(numbers[i]) <= m
  BY <1>1, <1>4, Zenon DEF HasMayor
<1>6. /\ Mayor(numbers) \in {0} \cup {Magnitude(numbers[i]) : i \in DOMAIN numbers}
      /\ Mayor(numbers) >= 0 /\ \A i \in DOMAIN numbers : Magnitude(numbers[i]) <= Mayor(numbers)
  BY <1>5, Zenon DEF Mayor
<1>7. Mayor(numbers) \in Int
  BY <1>1, <1>2, <1>6
<1> QED BY <1>1, <1>2, <1>6, <1>7

(* What is known of the numbers read                                       *)
LEMMA InputIs ==
  ASSUME <<version, input>> \in Inputs
  PROVE  /\ input \in Seq(Int) /\ Len(input) \in Nat /\ DOMAIN input = Rows
         /\ Mayor(input) \in Nat /\ (HasTable => Mayor(input) >= 2)
         /\ \A i \in Rows : input[i] \in Int /\ Magnitude(input[i]) <= Mayor(input)
         /\ \A i \in Rows : input[i] # MinInt => Magnitude(input[i]) = Abs(input[i])
         /\ \A i \in Rows : Abs(input[i]) \in Nat
<1>1. PICK in \in Inputs : in = <<version, input>>
  OBVIOUS
<1>2. in[1] = version /\ in[2] = input
  BY <1>1
<1>3. input \in Seq(Int) /\ (HasTable => Mayor(input) >= 2)
  BY <1>2, SumsAssumption DEF HasTable
<1>4. Len(input) \in Nat /\ DOMAIN input = Rows /\ \A i \in Rows : input[i] \in Int
  BY <1>3, LenProperties DEF Rows
<1> QED BY <1>3, <1>4, MayorIs DEF Magnitude, Abs

(* What a thread inside its loops asks about                               *)
LEMMA AskedIs ==
  ASSUME IInv, NEW t \in Threads, pc[t] \in {"ask", "divide", "return"}
  PROVE  /\ num(t) \in Nat /\ num(t) <= Mayor(input) /\ LoopsInv(num(t), sum[t])
         /\ input[row[t]] # MinInt /\ sum[t].role \in {"first", "second", "third"}
         /\ Asked(t) \in 2 .. num(t)
<1>1. ThreadInOrder(t) /\ <<version, input>> \in Inputs /\ ~Idle(t) /\ pc[t] # "print"
  BY DEF IInv, ThreadsInOrder, Idle
<1>2. row[t] \in Rows /\ input[row[t]] # MinInt /\ LoopsInv(num(t), sum[t]) /\ sum[t].role # "none"
  BY <1>1 DEF ThreadInOrder
<1>3. num(t) \in Nat /\ num(t) <= Mayor(input)
  BY <1>1, <1>2, InputIs DEF num
<1>4. PICK n \in Nat, s \in {sum[t]} : n = num(t)
  BY <1>3
<1>5. LoopsInv(n, s) /\ s.role # "none"
  BY <1>2, <1>4
<1>6. /\ s.role \in {"first", "second", "third"} /\ s.p1 \in 2 .. n /\ s.p2 \in 0 .. n
      /\ Arity(n) * s.p1 <= n
      /\ s.role = "second" /\ Even(n) => s.p2 = n - s.p1
      /\ s.role # "first" /\ ~Even(n) => s.p2 >= s.p1 /\ s.p1 + s.p2 <= n
      /\ s.role = "third" => ~Even(n) /\ n - s.p1 - s.p2 >= s.p2
  BY <1>5 DEF LoopsInv, LoopTypes, InLoops
<1>7. (CASE s.role = "first"  -> s.p1
         [] s.role = "second" -> s.p2
         [] s.role = "third"  -> n - s.p1 - s.p2) \in 2 .. n
  <2>1. CASE s.role = "first"
    BY <1>6, <2>1
  <2>2. CASE s.role = "second"
    BY <1>6, <2>2 DEF Arity
  <2>3. CASE s.role = "third"
    BY <1>6, <2>3
  <2> QED BY <1>6, <2>1, <2>2, <2>3
<1> QED BY <1>2, <1>3, <1>4, <1>6, <1>7 DEF Asked

(* The fields of a place of the loops                                      *)
Shaped(r) == /\ DOMAIN r = {"role", "p1", "p2", "shown", "count", "array"}
             /\ r = [x \in DOMAIN r |-> r[x]]

(* No step of the loops touches the field.                                 *)
LEMMA ShownIs ==
  ASSUME NEW n, NEW s, LoopTypes(n, s), NEW yes \in BOOLEAN
  PROVE  /\ s.role \in {"first", "second"} => golbach_par(n, s, yes).shown = s.shown
         /\ s.role \in {"first", "second", "third"} => golbach_impar(n, s, yes).shown = s.shown
<1>1. Shaped(s)
  BY DEF LoopTypes, Shaped
<1>2. ASSUME NEW r, Shaped(r)
      PROVE  \A v : /\ Shaped([r EXCEPT !.role = v]) /\ [r EXCEPT !.role = v].shown = r.shown
                    /\ Shaped([r EXCEPT !.p1 = v]) /\ [r EXCEPT !.p1 = v].shown = r.shown
                    /\ Shaped([r EXCEPT !.p2 = v]) /\ [r EXCEPT !.p2 = v].shown = r.shown
  BY <1>2 DEF Shaped
<1>3. ASSUME NEW r, Shaped(r) PROVE AskFirst(n, r).shown = r.shown
  BY <1>2, <1>3, Zenon DEF AskFirst
<1>4. ASSUME NEW r, Shaped(r) PROVE NextFirst(n, r).shown = r.shown
  <2>1. PICK q : q = [r EXCEPT !.p1 = Step(r.p1)]
    OBVIOUS
  <2>2. Shaped(q) /\ q.shown = r.shown
    BY <1>2, <1>4, <2>1, Zenon
  <2>3. NextFirst(n, r) = AskFirst(n, q)
    BY <2>1, Zenon DEF NextFirst
  <2> QED BY <1>3, <2>2, <2>3, Zenon
<1>5. ASSUME NEW r, Shaped(r) PROVE AskSecond(n, r).shown = r.shown
  BY <1>2, <1>4, <1>5, Zenon DEF AskSecond
<1>6. ASSUME NEW r, Shaped(r) PROVE NextSecond(n, r).shown = r.shown
  <2>1. PICK q : q = [r EXCEPT !.p2 = Step(r.p2)]
    OBVIOUS
  <2>2. Shaped(q) /\ q.shown = r.shown
    BY <1>2, <1>6, <2>1, Zenon
  <2>3. NextSecond(n, r) = AskSecond(n, q)
    BY <2>1, Zenon DEF NextSecond
  <2> QED BY <1>5, <2>2, <2>3, Zenon
<1>7. ASSUME NEW x PROVE Shaped(Found(s, x)) /\ Found(s, x).shown = s.shown
  <2>1. PICK v, w : v = s.count + 1 /\ w = IF s.shown THEN s.array \o x ELSE s.array
    OBVIOUS
  <2>2. Found(s, x) = [s EXCEPT !.count = v, !.array = w]
    BY <2>1, Zenon DEF Found
  <2>3. /\ Shaped([s EXCEPT !.count = v, !.array = w])
        /\ [s EXCEPT !.count = v, !.array = w].shown = s.shown
    BY <1>1 DEF Shaped
  <2> QED BY <2>2, <2>3
<1>8. s.role \in {"first", "second"} => golbach_par(n, s, yes).shown = s.shown
  <2>1. CASE s.role = "first" /\ yes
    <3>1. PICK q : q = [s EXCEPT !.role = "second", !.p2 = n - s.p1]
      OBVIOUS
    <3>2. golbach_par(n, s, yes) = q
      BY <2>1, <3>1 DEF golbach_par
    <3>3. Shaped(q) /\ q.shown = s.shown
      BY <1>1, <3>1 DEF Shaped
    <3> QED BY <3>2, <3>3
  <2>2. CASE s.role = "first" /\ ~yes
    <3>1. golbach_par(n, s, yes) = NextFirst(n, s)
      BY <2>2 DEF golbach_par
    <3> QED BY <1>1, <1>4, <3>1, Zenon
  <2>3. CASE s.role = "second"
    <3>1. PICK q : q = IF yes THEN Found(s, <<s.p1, s.p2>>) ELSE s
      OBVIOUS
    <3>2. golbach_par(n, s, yes) = NextFirst(n, q)
      BY <2>3, <3>1 DEF golbach_par
    <3>3. Shaped(q) /\ q.shown = s.shown
      BY <1>1, <1>7, <3>1, Zenon
    <3> QED BY <1>4, <3>2, <3>3
  <2> QED BY <2>1, <2>2, <2>3
<1>9. s.role \in {"first", "second", "third"} => golbach_impar(n, s, yes).shown = s.shown
  <2>1. CASE s.role = "first" /\ yes
    <3>1. PICK q : q = [s EXCEPT !.p2 = s.p1]
      OBVIOUS
    <3>2. golbach_impar(n, s, yes) = AskSecond(n, q)
      BY <2>1, <3>1 DEF golbach_impar
    <3>3. Shaped(q) /\ q.shown = s.shown
      BY <1>1, <1>2, <3>1, Zenon
    <3> QED BY <1>5, <3>2, <3>3
  <2>2. CASE s.role = "first" /\ ~yes
    <3>1. golbach_impar(n, s, yes) = NextFirst(n, s)
      BY <2>2 DEF golbach_impar
    <3> QED BY <1>1, <1>4, <3>1, Zenon
  <2>3. CASE s.role = "second"
    <3>1. \/ golbach_impar(n, s, yes) = [s EXCEPT !.role = "third"]
          \/ golbach_impar(n, s, yes) = NextSecond(n, s)
      BY <2>3 DEF golbach_impar
    <3>2. [s EXCEPT !.role = "third"].shown = s.shown /\ NextSecond(n, s).shown = s.shown
      BY <1>1, <1>2, <1>6, Zenon
    <3> QED BY <3>1, <3>2
  <2>4. CASE s.role = "third"
    <3>1. PICK q : q = IF yes THEN Found(s, <<s.p1, s.p2, n - s.p1 - s.p2>>) ELSE s
      OBVIOUS
    <3>2. golbach_impar(n, s, yes) = NextSecond(n, q)
      BY <2>4, <3>1 DEF golbach_impar
    <3>3. Shaped(q) /\ q.shown = s.shown
      BY <1>1, <1>7, <3>1, Zenon
    <3> QED BY <1>6, <3>2, <3>3, Zenon
  <2> QED BY <2>1, <2>2, <2>3, <2>4
<1> QED BY <1>8, <1>9

(* The loops go on rightly with a right answer of es_primo.                *)
GoesOn(t, yes) == IF Even(num(t)) THEN golbach_par(num(t), sum[t], yes)
                                  ELSE golbach_impar(num(t), sum[t], yes)

(* With a right answer, what they have counted stays right.                *)
LEMMA RightAnswer ==
  ASSUME IInv, NEW t \in Threads, pc[t] \in {"ask", "divide", "return"},
         NEW yes \in BOOLEAN, yes <=> IsPrime(Asked(t))
  PROVE  LoopsInv(num(t), GoesOn(t, yes)) /\ GoesOn(t, yes).shown = sum[t].shown
<1>1. PICK n \in Nat, s \in {sum[t]} : n = num(t)
  BY AskedIs
<1>2. /\ LoopsInv(n, s) /\ s.role \in {"first", "second", "third"}
      /\ s.role # "none" /\ LoopTypes(n, s)
      /\ Even(n) => s.role # "third"
  <2>1. LoopsInv(n, s) /\ s.role \in {"first", "second", "third"}
    BY <1>1, AskedIs
  <2> QED BY <2>1 DEF LoopsInv, InLoops
<1>3. /\ s.role = "first"  => (yes <=> IsPrime(s.p1))
      /\ s.role = "second" => (yes <=> IsPrime(s.p2))
      /\ s.role = "third"  => (yes <=> IsPrime(n - s.p1 - s.p2))
  <2>1. /\ s.role = "first"  => Asked(t) = s.p1
        /\ s.role = "second" => Asked(t) = s.p2
        /\ s.role = "third"  => Asked(t) = n - s.p1 - s.p2
    BY <1>1 DEF Asked
  <2> QED BY <2>1
<1>4. CASE Even(n)
  <2>1. LoopsInv(n, golbach_par(n, s, yes)) /\ golbach_par(n, s, yes).shown = s.shown
    <3>1. yes <=> IsPrime(IF s.role = "first" THEN s.p1 ELSE s.p2)
      BY <1>2, <1>3, <1>4
    <3> QED BY <1>2, <1>4, <3>1, ParKeeps, ShownIs
  <2> QED BY <1>1, <1>4, <2>1, Zenon DEF GoesOn
<1>5. CASE ~Even(n)
  <2>1. LoopsInv(n, golbach_impar(n, s, yes)) /\ golbach_impar(n, s, yes).shown = s.shown
    BY <1>2, <1>3, <1>5, ImparKeeps, ShownIs
  <2> QED BY <1>1, <1>5, <2>1, Zenon DEF GoesOn
<1> QED BY <1>4, <1>5
-----------------------------------------------------------------------------
(* A thread's loops are at s, and its next step is q; the others' stay.    *)
Moves(t, s, q) ==
  /\ DOMAIN sum' = Threads
  /\ pc' \in [Threads -> {"take", "ask", "divide", "return", "print", "ended"}]
  /\ sum'[t] = s /\ pc'[t] = q
  /\ \A u \in Threads \ {t} : sum'[u] = sum[u] /\ pc'[u] = pc[u]

(* Nothing is written in the table, or what is right of one number.        *)
WritesRightly ==
  \/ primo' = primo
  \/ \E k \in DOMAIN primo, v \in {0, 1} :
       primo' = [primo EXCEPT ![k] = v] /\ (v = 1 <=> IsPrime(k))

Working(t) == t \in Threads /\ pc[t] \in {"ask", "divide", "return"}

(* A thread inside its loops moves on; the threads stay in order.          *)
LEMMA ThreadsKeep ==
  ASSUME IInv, NEW t, Working(t), NEW s, LoopsInv(num(t), s), s.shown = sum[t].shown,
         NEW q \in {"ask", "divide", "return", "print"}, q = "print" <=> s.role = "none",
         Moves(t, s, q), UNCHANGED <<version, input, next, row, rows>>
  PROVE  ThreadsInOrder' /\ RowsInOrder'
<1>1. t \in Threads /\ pc[t] \in {"ask", "divide", "return"} /\ ThreadsInOrder
  BY DEF Working, IInv
<1>2. RowsInOrder'
  BY DEF IInv, RowsInOrder, Rows, SumsAreThePartitions, Done
<1>3. ASSUME NEW u \in Threads PROVE ThreadInOrder(u)'
  <2>1. ThreadInOrder(u)
    BY <1>1 DEF ThreadsInOrder
  <2>2. CASE u # t
    BY <2>1, <2>2 DEF Moves, ThreadInOrder, Idle, num, Rows
  <2>3. CASE u = t
    <3>1. ~Idle(t) /\ ~Idle(t)' /\ pc[t] # "print"
      BY <1>1 DEF Idle, Moves
    <3>2. /\ row[t] \in Rows /\ row[t] < next /\ Abs(input[row[t]]) > 5
          /\ sum[t].shown = (input[row[t]] < 0) /\ input[row[t]] # MinInt
      BY <2>1, <2>3, <3>1 DEF ThreadInOrder
    <3>3. /\ row'[t] \in Rows' /\ row'[t] < next' /\ Abs(input'[row'[t]]) > 5
          /\ sum'[t].shown = (input'[row'[t]] < 0) /\ input'[row'[t]] # MinInt
          /\ LoopsInv(num(t)', sum'[t]) /\ (pc'[t] = "print" <=> sum'[t].role = "none")
      <4>1. sum'[t] = s /\ pc'[t] = q /\ num(t)' = num(t) /\ Rows' = Rows
        BY DEF Moves, num, Rows
      <4> QED BY <3>2, <4>1
    <3> QED BY <2>3, <3>1, <3>3 DEF ThreadInOrder
  <2> QED BY <2>2, <2>3
<1> QED BY <1>1, <1>2, <1>3 DEF ThreadsInOrder, Moves

(* What one thread writes rightly spoils the answer of no other.           *)
LEMMA TableKeeps ==
  ASSUME IInv, NEW t, Working(t), NEW s,
         NEW q \in {"ask", "divide", "return", "print"}, Moves(t, s, q), WritesRightly,
         q \in {"divide", "return"} =>
            s = sum[t] /\ HasTable /\ Asked(t) > 2 /\ ~Even(Asked(t)),
         q = "return" => primo'[Asked(t)] = 1,
         UNCHANGED <<version, input, row>>
  PROVE  TableInOrder'
<1> DEFINE D == 1 .. IF HasTable THEN Mayor(input) ELSE 0
<1>1. /\ primo \in [D -> {0, 1}] /\ (HasTable => primo[2] = 1)
      /\ \A k \in D : primo[k] = 1 => IsPrime(k)
      /\ \A u \in Threads : InTableInOrder(u)
      /\ <<version, input>> \in Inputs
  BY DEF IInv, TableInOrder
<1>2. HasTable' = HasTable /\ Mayor(input)' = Mayor(input)
  BY DEF HasTable
<1> HIDE DEF D
<1>3. /\ primo' \in [D -> {0, 1}]
      /\ \A k \in D : primo'[k] = 1 => IsPrime(k)
      /\ \A k \in D : primo[k] = 1 => primo'[k] = 1
  <2>1. CASE primo' = primo
    BY <1>1, <2>1
  <2>2. CASE primo' # primo
    <3>1. PICK k \in D, v \in {0, 1} : primo' = [primo EXCEPT ![k] = v] /\ (v = 1 <=> IsPrime(k))
      BY <1>1, <2>2 DEF WritesRightly
    <3> QED BY <1>1, <3>1
  <2> QED BY <2>1, <2>2
<1>4. HasTable => primo'[2] = 1
  <2>1. HasTable => 2 \in D
    BY <1>1, InputIs DEF D
  <2> QED BY <1>1, <1>3, <2>1
<1>5. ASSUME NEW u \in Threads PROVE InTableInOrder(u)'
  <2>1. CASE u = t
    <3>1. pc'[t] = q /\ sum'[t] = s
      BY DEF Moves
    <3>2. s = sum[t] => Asked(t)' = Asked(t)
      BY <3>1 DEF Asked, num
    <3> QED BY <1>2, <2>1, <3>1, <3>2 DEF InTableInOrder
  <2>2. CASE u # t
    <3>1. pc'[u] = pc[u] /\ sum'[u] = sum[u] /\ InTableInOrder(u)
      BY <1>1, <2>2 DEF Moves
    <3>2. Asked(u)' = Asked(u)
      BY <3>1 DEF Asked, num
    <3>3. pc[u] = "return" => Asked(u) \in D
      <4>1. pc[u] = "return" => HasTable
        BY <3>1 DEF InTableInOrder
      <4>2. Mayor(input) \in Nat
        BY <1>1, InputIs
      <4> QED BY <4>1, <4>2, AskedIs DEF D
    <3> QED BY <1>2, <1>3, <3>1, <3>2, <3>3 DEF InTableInOrder
  <2> QED BY <2>1, <2>2
<1>6. DOMAIN primo' = D /\ D' = D
  BY <1>2, <1>3 DEF D
<1> QED BY <1>2, <1>3, <1>4, <1>5, <1>6 DEF TableInOrder, D

(* es_primo has given a right answer, and maybe written it.                *)
LEMMA AnswerKeeps ==
  ASSUME IInv, NEW t, Working(t), NEW yes \in BOOLEAN, yes <=> IsPrime(Asked(t)),
         Answer(t, yes), WritesRightly, UNCHANGED <<version, input, next, row, rows>>
  PROVE  IInv'
<1>1. t \in Threads /\ pc[t] \in {"ask", "divide", "return"} /\ ThreadsInOrder /\ TableInOrder
  BY DEF Working, IInv
<1>2. /\ DOMAIN sum = Threads
      /\ pc \in [Threads -> {"take", "ask", "divide", "return", "print", "ended"}]
  BY <1>1 DEF ThreadsInOrder
<1>3. /\ LoopsInv(num(t), sum[t]) /\ sum[t].role # "none"
      /\ LoopsInv(num(t), GoesOn(t, yes)) /\ GoesOn(t, yes).shown = sum[t].shown
  BY <1>1, AskedIs, RightAnswer
<1>4. \/ GoOn(t, GoesOn(t, yes)) /\ UNCHANGED crash
      \/ crash' = "null" /\ UNCHANGED <<sum, pc>>
  BY DEF Answer, GoesOn
<1>5. CASE GoOn(t, GoesOn(t, yes)) /\ UNCHANGED crash
  <2>1. PICK s : s = GoesOn(t, yes)
    OBVIOUS
  <2>2. PICK q \in {"ask", "print"} : q = IF s.role = "none" THEN "print" ELSE "ask"
    OBVIOUS
  <2>3. Moves(t, s, q)
    BY <1>1, <1>2, <1>5, <2>1, <2>2 DEF GoOn, Moves
  <2>4. ThreadsInOrder' /\ RowsInOrder'
    BY <1>3, <2>1, <2>2, <2>3, ThreadsKeep
  <2>5. TableInOrder'
    BY <2>2, <2>3, TableKeeps
  <2> QED BY <1>5, <2>4, <2>5 DEF IInv
<1>6. CASE crash' = "null" /\ UNCHANGED <<sum, pc>>
  <2>1. Moves(t, sum[t], pc[t])
    BY <1>1, <1>2, <1>6 DEF Moves
  <2>2. ThreadsInOrder' /\ RowsInOrder'
    <3>1. pc[t] = "print" <=> sum[t].role = "none"
      BY <1>1, <1>3
    <3> QED BY <1>1, <1>3, <2>1, <3>1, ThreadsKeep
  <2>3. TableInOrder'
    <3>1. InTableInOrder(t)
      BY <1>1 DEF TableInOrder
    <3>2. pc[t] = "return" => primo'[Asked(t)] = 1
      <4>1. pc[t] = "return" => HasTable /\ primo[Asked(t)] = 1
        BY <3>1 DEF InTableInOrder
      <4>2. Mayor(input) \in Nat
        BY InputIs DEF IInv
      <4>3. pc[t] = "return" => Asked(t) \in 1 .. Mayor(input)
        BY <1>1, <4>2, AskedIs
      <4>4. pc[t] = "return" => Asked(t) \in DOMAIN primo /\ IsPrime(Asked(t))
        BY <1>1, <4>1, <4>3 DEF TableInOrder
      <4> QED BY <1>1, <4>1, <4>4 DEF WritesRightly, TableInOrder
    <3> QED BY <1>1, <2>1, <3>1, <3>2, TableKeeps DEF InTableInOrder
  <2> QED BY <1>6, <2>2, <2>3 DEF IInv
<1> QED BY <1>4, <1>5, <1>6
-----------------------------------------------------------------------------
(* es_primo without a table                                                *)
LEMMA DividePrimeKeeps ==
  ASSUME IInv, NEW t \in Threads, DividePrime(t)
  PROVE  IInv'
<1> DEFINE k   == Asked(t)
           yes == k = 2 \/ (k > 1 /\ ~Even(k) /\ ~HasOddDivisor(k))
<1>1. Working(t)
  BY DEF DividePrime, Running, Working
<1>2. PICK l \in Nat : l = k /\ l >= 2
  <2>1. Asked(t) \in 2 .. num(t) /\ num(t) \in Nat
    BY <1>1, AskedIs DEF Working
  <2> QED BY <2>1
<1>3. yes <=> IsPrime(k)
  <2>1. CASE l = 2
    BY <1>2, <2>1, PrimesAre
  <2>2. CASE l > 2 /\ Even(l)
    BY <1>2, <2>2, PrimesAre
  <2>3. CASE l > 2 /\ ~Even(l)
    BY <1>2, <2>3, TrialDivision
  <2> QED BY <1>2, <2>1, <2>2, <2>3
<1>4. yes \in BOOLEAN /\ Answer(t, yes) /\ UNCHANGED <<version, input, next, primo, row, rows>>
  BY DEF DividePrime
<1> HIDE DEF yes
<1> QED BY <1>1, <1>3, <1>4, AnswerKeeps DEF WritesRightly

(* A thread's next look at the table, with no answer yet                   *)
LEMMA LookKeeps ==
  ASSUME IInv, NEW t, Working(t), NEW q \in {"divide", "return"}, HasTable,
         Asked(t) > 2, ~Even(Asked(t)), pc' = [pc EXCEPT ![t] = q], WritesRightly,
         q = "return" => primo'[Asked(t)] = 1,
         UNCHANGED <<version, input, next, row, rows, sum, crash>>
  PROVE  IInv'
<1>1. t \in Threads /\ pc[t] \in {"ask", "divide", "return"}
  BY DEF Working
<1>2. /\ LoopsInv(num(t), sum[t]) /\ sum[t].role # "none"
  BY <1>1, AskedIs
<1>3. Moves(t, sum[t], q)
  BY <1>1 DEF Moves, IInv, ThreadsInOrder
<1>4. ThreadsInOrder' /\ RowsInOrder'
  BY <1>2, <1>3, ThreadsKeep
<1>5. TableInOrder'
  BY <1>3, TableKeeps
<1> QED BY <1>4, <1>5 DEF IInv

(* es_primo with the table, up to its first look at it                     *)
LEMMA AskPrimeKeeps ==
  ASSUME IInv, NEW t \in Threads, AskPrime(t)
  PROVE  IInv'
<1>1. Working(t) /\ HasTable /\ UNCHANGED <<version, input, next, row, rows>>
  BY DEF AskPrime, Running, Working
<1>2. PICK k \in Nat : k = Asked(t) /\ k >= 2 /\ k <= Mayor(input)
  <2>1. Asked(t) \in 2 .. num(t) /\ num(t) \in Nat /\ num(t) <= Mayor(input)
    BY <1>1, AskedIs DEF Working
  <2>2. Mayor(input) \in Nat
    BY InputIs DEF IInv
  <2> QED BY <2>1, <2>2
<1>3. TableInOrder /\ DOMAIN primo = 1 .. Mayor(input)
  BY <1>1 DEF IInv, TableInOrder
<1>4. InTable(k) /\ primo[k] \in {0, 1} /\ (primo[k] = 1 => IsPrime(k))
  <2>1. k \in 1 .. Mayor(input)
    <3>1. Mayor(input) \in Nat
      BY InputIs DEF IInv
    <3> QED BY <1>2, <3>1
  <2> QED BY <1>1, <1>3, <2>1 DEF InTable, TableInOrder
<1>5. \/ k = 2 /\ Answer(t, primo[2] = 1) /\ UNCHANGED primo
      \/ k > 2 /\ Even(k) /\ primo' = [primo EXCEPT ![k] = 0] /\ Answer(t, FALSE)
      \/ /\ k > 2 /\ ~Even(k) /\ UNCHANGED <<primo, sum, crash>>
         /\ pc' = [pc EXCEPT ![t] = IF primo[k] = 1 THEN "return" ELSE "divide"]
  <2>1. ~(k <= 1)
    BY <1>2
  <2>2. k = Asked(t)
    BY <1>2
  <2> QED BY <1>4, <2>1, <2>2, Zenon DEF AskPrime
<1>6. CASE k = 2 /\ Answer(t, primo[2] = 1) /\ UNCHANGED primo
  <2>1. primo[2] = 1 /\ IsPrime(2)
    BY <1>1, <1>3, PrimesAre DEF TableInOrder
  <2>2. /\ Answer(t, primo[2] = 1) /\ (primo[2] = 1) \in BOOLEAN
        /\ ((primo[2] = 1) <=> IsPrime(Asked(t)))
    BY <1>2, <1>6, <2>1
  <2>3. WritesRightly
    BY <1>6 DEF WritesRightly
  <2> QED BY <1>1, <2>2, <2>3, AnswerKeeps
<1>7. CASE k > 2 /\ Even(k) /\ primo' = [primo EXCEPT ![k] = 0] /\ Answer(t, FALSE)
  <2>1. ~IsPrime(k)
    BY <1>7, PrimesAre
  <2>2. WritesRightly
    <3>1. (0 = 1 <=> IsPrime(k)) /\ 0 \in {0, 1}
      BY <2>1
    <3> QED BY <1>4, <1>7, <3>1, Zenon DEF WritesRightly, InTable
  <2> QED BY <1>1, <1>2, <1>7, <2>1, <2>2, AnswerKeeps
<1>8. CASE /\ k > 2 /\ ~Even(k) /\ UNCHANGED <<primo, sum, crash>>
           /\ pc' = [pc EXCEPT ![t] = IF primo[k] = 1 THEN "return" ELSE "divide"]
  <2>1. PICK q \in {"divide", "return"} : q = IF primo[k] = 1 THEN "return" ELSE "divide"
    OBVIOUS
  <2>2. pc' = [pc EXCEPT ![t] = q] /\ (q = "return" => primo'[Asked(t)] = 1)
    BY <1>2, <1>8, <2>1
  <2>3. WritesRightly
    BY <1>8 DEF WritesRightly
  <2> QED BY <1>1, <1>2, <1>8, <2>2, <2>3, LookKeeps
<1> QED BY <1>5, <1>6, <1>7, <1>8

(* The division, and the write that ends it                                *)
LEMMA DivideKeeps ==
  ASSUME IInv, NEW t \in Threads, Divide(t)
  PROVE  IInv'
<1>1. Working(t) /\ pc[t] = "divide" /\ UNCHANGED <<version, input, next, row, rows>>
  BY DEF Divide, Running, Working
<1>2. PICK k \in Nat : k = Asked(t) /\ k <= Mayor(input)
  <2>1. Asked(t) \in 2 .. num(t) /\ num(t) \in Nat /\ num(t) <= Mayor(input)
    BY <1>1, AskedIs DEF Working
  <2>2. Mayor(input) \in Nat
    BY InputIs DEF IInv
  <2> QED BY <2>1, <2>2
<1>3. TableInOrder /\ HasTable /\ k > 2 /\ ~Even(k)
  BY <1>1, <1>2 DEF IInv, TableInOrder, InTableInOrder
<1>4. k \in DOMAIN primo
  <2>1. Mayor(input) \in Nat /\ DOMAIN primo = 1 .. Mayor(input)
    BY <1>3, InputIs DEF IInv, TableInOrder
  <2> QED BY <1>2, <1>3, <2>1
<1>5. HasOddDivisor(k) <=> ~IsPrime(k)
  BY <1>3, TrialDivision
<1>6. CASE HasOddDivisor(k)
  <2>1. primo' = [primo EXCEPT ![k] = 0] /\ Answer(t, FALSE)
    BY <1>2, <1>6 DEF Divide
  <2>2. WritesRightly
    <3>1. (0 = 1 <=> IsPrime(k)) /\ 0 \in {0, 1}
      BY <1>5, <1>6
    <3> QED BY <1>4, <2>1, <3>1, Zenon DEF WritesRightly
  <2> QED BY <1>1, <1>2, <1>5, <1>6, <2>1, <2>2, AnswerKeeps
<1>7. CASE ~HasOddDivisor(k)
  <2>1. /\ primo' = [primo EXCEPT ![k] = 1] /\ pc' = [pc EXCEPT ![t] = "return"]
        /\ UNCHANGED <<sum, crash>>
    BY <1>2, <1>7 DEF Divide
  <2>2. WritesRightly
    <3>1. IsPrime(k) /\ 1 \in {0, 1}
      BY <1>5, <1>7
    <3> QED BY <1>4, <2>1, <3>1, Zenon DEF WritesRightly
  <2>3. primo'[Asked(t)] = 1
    BY <1>2, <1>3, <1>4, <2>1 DEF TableInOrder
  <2> QED BY <1>1, <1>2, <1>3, <2>1, <2>2, <2>3, LookKeeps
<1> QED BY <1>6, <1>7

(* The second look at the table                                            *)
LEMMA ReturnEntryKeeps ==
  ASSUME IInv, NEW t \in Threads, ReturnEntry(t)
  PROVE  IInv'
<1>1. /\ Working(t) /\ pc[t] = "return" /\ Answer(t, primo[Asked(t)] = 1)
      /\ UNCHANGED <<version, input, next, primo, row, rows>>
  BY DEF ReturnEntry, Running, Working
<1>2. TableInOrder /\ HasTable /\ primo[Asked(t)] = 1
  BY <1>1 DEF IInv, TableInOrder, InTableInOrder
<1>3. IsPrime(Asked(t))
  <2>1. Asked(t) \in 2 .. num(t) /\ num(t) \in Nat /\ num(t) <= Mayor(input)
    BY <1>1, AskedIs DEF Working
  <2>2. Mayor(input) \in Nat /\ DOMAIN primo = 1 .. Mayor(input)
    BY <1>2, InputIs DEF IInv, TableInOrder
  <2> QED BY <1>2, <2>1, <2>2 DEF TableInOrder
<1>4. (primo[Asked(t)] = 1) \in BOOLEAN /\ ((primo[Asked(t)] = 1) <=> IsPrime(Asked(t)))
  BY <1>2, <1>3
<1> QED BY <1>1, <1>4, AnswerKeeps DEF WritesRightly
-----------------------------------------------------------------------------
(* What a finished row holds                                               *)
RowOf(i, text) ==
  IF input[i] # MinInt THEN IsRow(text, input[i], Partitions(Abs(input[i])))
                       ELSE text = <<NumberPiece(MinInt), <<"", 0, " sums:">>>>

(* The row of a number that has no sums by definition                      *)
LEMMA RowWithoutSums ==
  ASSUME NEW i, input[i] \in Int, Abs(input[i]) <= 5
  PROVE  RowOf(i, <<NumberPiece(input[i]), NA>>)
<1>1. input[i] # MinInt
  BY SumsAssumption DEF Abs
<1>2. PICK a, b : a = NumberPiece(input[i]) /\ b = NA
  OBVIOUS
<1>3. <<a, b>>[1] = a /\ Tail(<<a, b>>) = <<b>>
  OBVIOUS
<1>4. IsRow(<<a, b>>, input[i], Partitions(Abs(input[i])))
  BY <1>2, <1>3, Zenon DEF IsRow, NumberPiece, NA
<1> QED BY <1>1, <1>2, <1>4 DEF RowOf

(* What imprimir_resultado puts in the row of a thread                     *)
LEMMA RowWithSums ==
  ASSUME IInv, NEW t \in Threads, pc[t] = "print"
  PROVE  RowOf(row[t], rows[row[t]] \o
                         Result(Even(num(t)), sum[t].shown, sum[t].count, sum[t].array))
<1>1. /\ row[t] \in Rows /\ row[t] # 0 /\ sum[t].shown = (input[row[t]] < 0)
      /\ IF input[row[t]] = MinInt THEN sum[t] = NoLoops ELSE LoopsInv(num(t), sum[t])
      /\ sum[t].role = "none" /\ Abs(input[row[t]]) > 5
  <2>1. ThreadInOrder(t) /\ ~Idle(t)
    BY DEF IInv, ThreadsInOrder, Idle
  <2> QED BY <2>1 DEF ThreadInOrder, Rows
<1>2. rows[row[t]] = <<NumberPiece(input[row[t]])>>
  BY <1>1 DEF IInv, RowsInOrder
<1>3. input[row[t]] \in Int /\ (input[row[t]] # MinInt => num(t) = Abs(input[row[t]]))
  BY <1>1, InputIs DEF IInv, num
<1>4. CASE input[row[t]] # MinInt
  <2>1. PICK n \in Nat, number \in Int, s \in {sum[t]} : n = num(t) /\ number = input[row[t]]
    BY <1>3, <1>4 DEF Abs
  <2>2. IsRow(<<NumberPiece(number)>> \o Result(Even(n), s.shown, s.count, s.array),
              number, Partitions(n))
    <3>1. n = Abs(number) /\ LoopsInv(n, s) /\ s.role = "none" /\ s.shown = (number < 0)
      BY <1>1, <1>3, <1>4, <2>1
    <3> QED BY <3>1, RowIs
  <2> QED BY <1>2, <1>3, <1>4, <2>1, <2>2, Zenon DEF RowOf
<1>5. CASE input[row[t]] = MinInt
  <2>1. sum[t].shown = TRUE /\ sum[t].count = 0 /\ sum[t].array = << >>
    BY <1>1, <1>5, LoopsOfMinInt
  <2>2. PICK a, b : a = NumberPiece(MinInt) /\ b = <<"", 0, " sums:">>
    OBVIOUS
  <2>3. Groups(Even(num(t)), << >>) = << >>
    BY DEF Groups
  <2>4. Result(Even(num(t)), sum[t].shown, sum[t].count, sum[t].array) = <<b>> \o << >>
    BY <2>1, <2>2, <2>3, Zenon DEF Result, CountPiece
  <2>5. rows[row[t]] \o Result(Even(num(t)), sum[t].shown, sum[t].count, sum[t].array) = <<a, b>>
    BY <1>2, <1>5, <2>2, <2>4, TwoPieces, Zenon
  <2> QED BY <1>5, <2>2, <2>5, Zenon DEF RowOf
<1> QED BY <1>4, <1>5

(* sumas_golbach takes the next number.                                    *)
LEMMA TakeKeeps ==
  ASSUME IInv, NEW t \in Threads, TakeNumber(t)
  PROVE  IInv'
<1>1. /\ pc[t] = "take" /\ UNCHANGED <<version, input, primo>>
      /\ TableInOrder /\ ThreadsInOrder /\ RowsInOrder /\ <<version, input>> \in Inputs
      /\ next \in 1 .. Len(input) + 1 /\ Len(input) \in Nat /\ crash \in {"none", "null", "row"}
  BY InputIs DEF TakeNumber, Running, IInv
<1>2. /\ ThreadInOrder(t) /\ row[t] = 0 /\ sum[t] = Finished
      /\ DOMAIN sum = Threads /\ row \in [Threads -> 0 .. Len(input)]
      /\ pc \in [Threads -> {"take", "ask", "divide", "return", "print", "ended"}]
  BY <1>1 DEF ThreadsInOrder, ThreadInOrder, Idle
<1>3. HasTable' = HasTable /\ Mayor(input)' = Mayor(input) /\ Rows' = Rows
  BY <1>1 DEF HasTable, Rows
<1>4. ASSUME NEW u \in Threads, row'[u] = row[u], sum'[u] = sum[u], pc'[u] = pc[u], next' >= next
      PROVE  ThreadInOrder(u)' /\ InTableInOrder(u)'
  <2>1. ThreadInOrder(u) /\ InTableInOrder(u)
    BY <1>1 DEF ThreadsInOrder, TableInOrder
  <2>2. num(u)' = num(u) /\ Asked(u)' = Asked(u) /\ Idle(u)' = Idle(u)
    BY <1>1, <1>4 DEF num, Asked, Idle
  <2>3. ThreadInOrder(u)'
    <3>1. row[u] \in Rows /\ row[u] < next => row[u] < next'
      BY <1>1, <1>4 DEF Rows, TakeNumber
    <3> QED BY <1>1, <1>3, <1>4, <2>1, <2>2, <3>1 DEF ThreadInOrder
  <2> QED BY <1>1, <1>3, <1>4, <2>1, <2>2, <2>3 DEF InTableInOrder
<1>5. CASE next > Len(input)
  <2>1. pc' = [pc EXCEPT ![t] = "ended"] /\ UNCHANGED <<next, row, sum, rows, crash>>
    BY <1>1, <1>5 DEF TakeNumber
  <2>2. ASSUME NEW u \in Threads PROVE ThreadInOrder(u)' /\ InTableInOrder(u)'
    <3>1. CASE u # t
      BY <1>1, <1>2, <1>4, <2>1, <3>1
    <3>2. CASE u = t
      BY <1>2, <2>1, <3>2 DEF ThreadInOrder, InTableInOrder, Idle
    <3> QED BY <3>1, <3>2
  <2>3. ThreadsInOrder'
    BY <1>1, <1>2, <2>1, <2>2 DEF ThreadsInOrder
  <2>4. TableInOrder'
    BY <1>1, <1>3, <2>2 DEF TableInOrder
  <2>5. RowsInOrder'
    BY <1>1, <1>3, <2>1 DEF RowsInOrder, SumsAreThePartitions, Done
  <2> QED BY <1>1, <2>1, <2>3, <2>4, <2>5 DEF IInv
<1>6. CASE next <= Len(input)
  <2>1. next \in Rows /\ input[next] \in Int /\ Abs(input[next]) \in Nat
    BY <1>1, <1>6, InputIs DEF Rows
  <2>2. ASSUME NEW u \in Threads PROVE row[u] # next
    <3>1. ThreadInOrder(u)
      BY <1>1 DEF ThreadsInOrder
    <3> QED BY <1>1, <3>1 DEF ThreadInOrder, Rows
  <2>3. next \notin Done
    BY <1>1 DEF Done
  <2>4. CASE Abs(input[next]) <= 5
    <3>1. /\ next' = next + 1 /\ rows' = [rows EXCEPT ![next] = <<NumberPiece(input[next]), NA>>]
          /\ UNCHANGED <<row, sum, pc, crash>>
      BY <1>1, <1>6, <2>1, <2>4 DEF TakeNumber
    <3>2. ASSUME NEW u \in Threads PROVE ThreadInOrder(u)' /\ InTableInOrder(u)'
      BY <1>1, <1>4, <3>1
    <3>3. ThreadsInOrder'
      BY <1>1, <1>2, <3>1, <3>2 DEF ThreadsInOrder
    <3>4. TableInOrder'
      BY <1>1, <1>3, <3>2 DEF TableInOrder
    <3>5. Done' = Done \cup {next}
      BY <1>1, <1>3, <2>1, <2>2, <3>1 DEF Done, Rows
    <3>6. ASSUME NEW i \in Done' PROVE RowOf(i, rows[i])'
      <4>1. CASE i = next
        <5>1. RowOf(i, <<NumberPiece(input[next]), NA>>)
          BY <2>1, <2>4, <4>1, RowWithoutSums
        <5>2. rows'[i] = <<NumberPiece(input[next]), NA>>
          BY <1>1, <2>1, <3>1, <4>1 DEF RowsInOrder
        <5> QED BY <1>1, <5>1, <5>2 DEF RowOf
      <4>2. CASE i # next
        <5>1. i \in Done /\ rows'[i] = rows[i]
          BY <1>1, <3>1, <3>5, <4>2 DEF RowsInOrder, Done
        <5> QED BY <1>1, <5>1 DEF RowOf, RowsInOrder, SumsAreThePartitions
      <4> QED BY <4>1, <4>2
    <3>7. RowsInOrder'
      <4>1. SumsAreThePartitions'
        BY <3>6 DEF SumsAreThePartitions, RowOf
      <4>2. DOMAIN rows' = Rows
        BY <1>1, <3>1 DEF RowsInOrder
      <4>3. ASSUME NEW u \in Threads, row[u] # 0
            PROVE  rows'[row[u]] = <<NumberPiece(input[row[u]])>>
        <5>1. row[u] \in Rows
          BY <1>1, <1>2, <4>3 DEF Rows
        <5> QED BY <1>1, <2>2, <3>1, <4>3, <5>1 DEF RowsInOrder
      <4> QED BY <1>1, <1>3, <3>1, <4>1, <4>2, <4>3 DEF RowsInOrder
    <3> QED BY <1>1, <1>6, <3>1, <3>3, <3>4, <3>7 DEF IInv
  <2>5. CASE Abs(input[next]) > 5
    <3> DEFINE s == AskFirst(Magnitude(input[next]),
                             [Finished EXCEPT !.p1 = 2, !.shown = input[next] < 0])
               q == IF s.role = "none" THEN "print" ELSE "ask"
    <3>1. /\ next' = next + 1 /\ row' = [row EXCEPT ![t] = next]
          /\ rows' = [rows EXCEPT ![next] = <<NumberPiece(input[next])>>]
          /\ sum' = [sum EXCEPT ![t] = s] /\ pc' = [pc EXCEPT ![t] = q]
          /\ crash' \in {"none", "null"}
      BY <1>1, <1>6, <2>1, <2>5 DEF TakeNumber, GoOn
    <3>2. IF input[next] = MinInt THEN s = NoLoops /\ s.role = "none" /\ s.shown = TRUE
          ELSE LoopsInv(Magnitude(input[next]), s) /\ s.shown = (input[next] < 0)
      <4>1. CASE input[next] = MinInt
        <5>1. (input[next] < 0) = TRUE /\ Magnitude(input[next]) = MinInt
          BY <4>1, SumsAssumption DEF Magnitude
        <5>2. s = NoLoops
          BY <5>1, Zenon DEF NoLoops
        <5> QED BY <4>1, <5>2, LoopsOfMinInt
      <4>2. CASE input[next] # MinInt
        <5>0. PICK n \in Nat : n = Magnitude(input[next]) /\ n > 5
          BY <2>1, <2>5, <4>2 DEF Magnitude
        <5>1. PICK shown \in BOOLEAN : shown = (input[next] < 0)
          <6>1. (input[next] < 0) \in BOOLEAN
            OBVIOUS
          <6> QED BY <6>1, Zenon
        <5>2. LoopsInv(n, AskFirst(n, [Finished EXCEPT !.p1 = 2, !.shown = shown]))
          BY <5>0, LoopsBegin
        <5>3. AskFirst(n, [Finished EXCEPT !.p1 = 2, !.shown = shown]).shown = shown
          BY DEF AskFirst, Finished
        <5> QED BY <4>2, <5>0, <5>1, <5>2, <5>3, Zenon
      <4> QED BY <4>1, <4>2
    <3> HIDE DEF s
    <3>3. pc'[t] = q /\ sum'[t] = s /\ row'[t] = next /\ q \in {"ask", "print"}
      BY <1>2, <3>1
    <3>4. ASSUME NEW u \in Threads PROVE ThreadInOrder(u)' /\ InTableInOrder(u)'
      <4>1. CASE u # t
        BY <1>1, <1>2, <1>4, <3>1, <4>1
      <4>2. CASE u = t
        <5>1. InTableInOrder(u)' /\ ~Idle(u)'
          BY <3>3, <4>2 DEF InTableInOrder, Idle
        <5>2. num(u)' = Magnitude(input[next]) /\ input'[row'[u]] = input[next]
          BY <1>1, <3>3, <4>2 DEF num
        <5>3. next < next'
          BY <1>1, <3>1
        <5>4. input[next] = MinInt => input[next] < 0
          BY SumsAssumption
        <5>5. /\ row'[u] \in Rows' /\ row'[u] < next' /\ Abs(input'[row'[u]]) > 5
              /\ sum'[u].shown = (input'[row'[u]] < 0)
          BY <1>3, <2>1, <2>5, <3>2, <3>3, <4>2, <5>2, <5>3, <5>4
        <5>6. /\ IF input'[row'[u]] = MinInt THEN pc'[u] = "print" /\ sum'[u] = NoLoops
                                             ELSE LoopsInv(num(u)', sum'[u])
              /\ pc'[u] = "print" <=> sum'[u].role = "none"
          BY <3>2, <3>3, <4>2, <5>2
        <5> QED BY <5>1, <5>5, <5>6 DEF ThreadInOrder
      <4> QED BY <4>1, <4>2
    <3>5. ThreadsInOrder'
      BY <1>1, <1>2, <1>3, <2>1, <3>1, <3>3, <3>4 DEF ThreadsInOrder, Rows
    <3>6. TableInOrder'
      BY <1>1, <1>3, <3>4 DEF TableInOrder
    <3>7. ASSUME NEW i \in Done' PROVE i \in Done /\ i # next
      <4>1. i \in Rows /\ i < next + 1 /\ \A u \in Threads : row'[u] # i
        BY <1>3, <3>1, <3>7 DEF Done
      <4>2. i # next
        BY <3>3, <4>1
      <4>3. \A u \in Threads : row[u] # i
        BY <1>2, <3>1, <4>1 DEF Rows
      <4> QED BY <1>1, <4>1, <4>2, <4>3 DEF Done, Rows
    <3>8. RowsInOrder'
      <4>1. SumsAreThePartitions'
        <5>1. ASSUME NEW i \in Done' PROVE RowOf(i, rows[i])'
          <6>1. i \in Done /\ rows'[i] = rows[i]
            BY <1>1, <3>1, <3>7, <5>1 DEF RowsInOrder, Done
          <6> QED BY <1>1, <6>1 DEF RowOf, RowsInOrder, SumsAreThePartitions
        <5> QED BY <5>1 DEF SumsAreThePartitions, RowOf
      <4>2. DOMAIN rows' = Rows
        BY <1>1, <3>1 DEF RowsInOrder
      <4>3. ASSUME NEW u \in Threads, row'[u] # 0
            PROVE  rows'[row'[u]] = <<NumberPiece(input[row'[u]])>>
        <5>1. CASE u = t
          BY <1>1, <2>1, <3>1, <3>3, <5>1 DEF RowsInOrder
        <5>2. CASE u # t
          <6>1. row'[u] = row[u] /\ row[u] \in Rows /\ row[u] # next
            BY <1>1, <1>2, <2>2, <3>1, <4>3, <5>2 DEF Rows
          <6> QED BY <1>1, <3>1, <4>3, <6>1 DEF RowsInOrder
        <5> QED BY <5>1, <5>2
      <4>4. ASSUME NEW u \in Threads, NEW v \in Threads, row'[u] # 0, row'[u] = row'[v] PROVE u = v
        BY <1>1, <1>2, <2>2, <3>1, <4>4 DEF RowsInOrder
      <4> QED BY <1>1, <1>3, <4>1, <4>2, <4>3, <4>4 DEF RowsInOrder
    <3> QED BY <1>1, <1>6, <3>1, <3>5, <3>6, <3>8 DEF IInv
  <2> QED BY <2>1, <2>4, <2>5
<1> QED BY <1>1, <1>5, <1>6

(* imprimir_resultado prints the row.                                      *)
LEMMA ImprimirKeeps ==
  ASSUME IInv, NEW t \in Threads, ImprimirResultado(t)
  PROVE  IInv'
<1> DEFINE text == rows[row[t]] \o
                     Result(Even(num(t)), sum[t].shown, sum[t].count, sum[t].array)
<1>1. /\ pc[t] = "print" /\ UNCHANGED <<version, input, next, primo>>
      /\ TableInOrder /\ ThreadsInOrder /\ RowsInOrder /\ <<version, input>> \in Inputs
      /\ next \in 1 .. Len(input) + 1 /\ Len(input) \in Nat
  BY InputIs DEF ImprimirResultado, Running, IInv
<1>2. /\ DOMAIN sum = Threads /\ row \in [Threads -> 0 .. Len(input)]
      /\ pc \in [Threads -> {"take", "ask", "divide", "return", "print", "ended"}]
  BY <1>1 DEF ThreadsInOrder
<1>3. row[t] \in Rows /\ row[t] # 0 /\ row[t] < next
  <2>1. ThreadInOrder(t)
    BY <1>1 DEF ThreadsInOrder
  <2> QED BY <1>1, <2>1 DEF ThreadInOrder, Idle, Rows
<1>4. HasTable' = HasTable /\ Mayor(input)' = Mayor(input) /\ Rows' = Rows
  BY <1>1 DEF HasTable, Rows
<1>5. RowOf(row[t], text)
  BY <1>1, RowWithSums
<1> HIDE DEF text
<1>6. CASE UNCHANGED <<rows, sum, row, pc>> /\ crash' \in {"null", "row"}
  <2>1. TableInOrder'
    <3>1. \A u \in Threads : Asked(u)' = Asked(u)
      BY <1>1, <1>6 DEF Asked, num
    <3> QED BY <1>1, <1>4, <1>6, <3>1 DEF TableInOrder, InTableInOrder
  <2>2. ThreadsInOrder'
    BY <1>1, <1>4, <1>6 DEF ThreadsInOrder, ThreadInOrder, Idle, num
  <2>3. RowsInOrder'
    BY <1>1, <1>4, <1>6 DEF RowsInOrder, SumsAreThePartitions, Done
  <2> QED BY <1>1, <1>6, <2>1, <2>2, <2>3 DEF IInv
<1>7. CASE /\ rows' = [rows EXCEPT ![row[t]] = text] /\ sum' = [sum EXCEPT ![t] = Finished]
           /\ row' = [row EXCEPT ![t] = 0] /\ pc' = [pc EXCEPT ![t] = "take"] /\ UNCHANGED crash
  <2>1. ASSUME NEW u \in Threads PROVE ThreadInOrder(u)' /\ InTableInOrder(u)'
    <3>1. ThreadInOrder(u) /\ InTableInOrder(u)
      BY <1>1 DEF ThreadsInOrder, TableInOrder
    <3>2. CASE u # t
      <4>1. row'[u] = row[u] /\ sum'[u] = sum[u] /\ pc'[u] = pc[u]
        BY <1>2, <1>7, <3>2
      <4>2. num(u)' = num(u) /\ Asked(u)' = Asked(u) /\ Idle(u)' = Idle(u)
        BY <1>1, <4>1 DEF num, Asked, Idle
      <4> QED BY <1>1, <1>4, <3>1, <4>1, <4>2 DEF ThreadInOrder, InTableInOrder
    <3>3. CASE u = t
      BY <1>2, <1>7, <3>3 DEF ThreadInOrder, InTableInOrder, Idle
    <3> QED BY <3>2, <3>3
  <2>2. ThreadsInOrder'
    BY <1>1, <1>2, <1>7, <2>1 DEF ThreadsInOrder
  <2>3. TableInOrder'
    BY <1>1, <1>4, <2>1 DEF TableInOrder
  <2>4. ASSUME NEW i \in Done' PROVE RowOf(i, rows[i])'
    <3>1. i \in Rows /\ i < next /\ \A u \in Threads : row'[u] # i
      BY <1>1, <1>4, <2>4 DEF Done
    <3>2. CASE i = row[t]
      <4>1. rows'[i] = text
        BY <1>1, <1>3, <1>7, <3>2 DEF RowsInOrder
      <4> QED BY <1>1, <1>5, <3>2, <4>1 DEF RowOf
    <3>3. CASE i # row[t]
      <4>1. rows'[i] = rows[i] /\ \A u \in Threads : row[u] # i
        BY <1>1, <1>2, <1>7, <3>1, <3>3 DEF RowsInOrder
      <4>2. i \in Done
        BY <3>1, <4>1 DEF Done
      <4> QED BY <1>1, <4>1, <4>2 DEF RowOf, RowsInOrder, SumsAreThePartitions
    <3> QED BY <3>2, <3>3
  <2>5. RowsInOrder'
    <3>1. SumsAreThePartitions'
      BY <2>4 DEF SumsAreThePartitions, RowOf
    <3>2. DOMAIN rows' = Rows
      BY <1>1, <1>7 DEF RowsInOrder
    <3>3. ASSUME NEW u \in Threads, row'[u] # 0
          PROVE  rows'[row'[u]] = <<NumberPiece(input[row'[u]])>>
      <4>1. u # t /\ row'[u] = row[u] /\ row[u] \in Rows
        BY <1>2, <1>7, <3>3 DEF Rows
      <4>2. row[u] # row[t]
        BY <1>1, <1>3, <4>1 DEF RowsInOrder
      <4> QED BY <1>1, <1>7, <3>3, <4>1, <4>2 DEF RowsInOrder
    <3>4. ASSUME NEW u \in Threads, NEW v \in Threads, row'[u] # 0, row'[u] = row'[v] PROVE u = v
      BY <1>1, <1>2, <1>7, <3>4 DEF RowsInOrder
    <3> QED BY <1>1, <1>4, <3>1, <3>2, <3>3, <3>4 DEF RowsInOrder
  <2> QED BY <1>1, <1>7, <2>2, <2>3, <2>5 DEF IInv
<1> QED BY <1>6, <1>7 DEF ImprimirResultado, text
-----------------------------------------------------------------------------
(* Nothing is wrong before the first number is taken.                      *)
LEMMA InitInv ==
  ASSUME Init
  PROVE  IInv
<1>1. <<version, input>> \in Inputs
  <2>1. PICK in \in Inputs : version = in[1] /\ input = in[2]
    BY DEF Init
  <2>2. in = <<in[1], in[2]>>
    BY SumsAssumption
  <2> QED BY <2>1, <2>2
<1>2. Len(input) \in Nat /\ Mayor(input) \in Nat /\ (HasTable => Mayor(input) >= 2)
  BY <1>1, InputIs
<1>3. pc \in [Threads -> {"take", "ended"}] /\ row = [t \in Threads |-> 0]
  BY DEF Init
<1>4. TableInOrder
  <2>1. primo = [k \in 1 .. IF HasTable THEN Mayor(input) ELSE 0 |-> IF k = 2 THEN 1 ELSE 0]
    BY DEF Init
  <2>2. ASSUME NEW t \in Threads PROVE InTableInOrder(t)
    BY <1>3 DEF InTableInOrder
  <2>3. HasTable => primo[2] = 1
    BY <1>2, <2>1
  <2>4. primo \in [1 .. IF HasTable THEN Mayor(input) ELSE 0 -> {0, 1}]
    BY <2>1
  <2>5. ASSUME NEW k \in DOMAIN primo, primo[k] = 1 PROVE IsPrime(k)
    BY <2>1, <2>5, PrimesAre
  <2> QED BY <2>2, <2>3, <2>4, <2>5 DEF TableInOrder
<1>5. ThreadsInOrder
  <2>1. sum = [t \in Threads |-> Finished]
    BY DEF Init
  <2>2. ASSUME NEW t \in Threads PROVE ThreadInOrder(t)
    BY <1>3, <2>1 DEF ThreadInOrder, Idle
  <2>3. 0 \in 0 .. Len(input)
    BY <1>2
  <2> QED BY <1>3, <2>1, <2>2, <2>3 DEF ThreadsInOrder
<1>6. RowsInOrder
  <2>1. Done = {}
    BY <1>2 DEF Done, Init, Rows
  <2> QED BY <1>3, <2>1 DEF RowsInOrder, SumsAreThePartitions, Init
<1> QED BY <1>1, <1>2, <1>4, <1>5, <1>6 DEF IInv, Init

(* No step makes anything wrong.                                           *)
LEMMA NextInv ==
  ASSUME IInv, [Next]_vars
  PROVE  IInv'
<1>1. ASSUME NEW t \in Threads, ThreadStep(t) PROVE IInv'
  BY <1>1, TakeKeeps, DividePrimeKeeps, AskPrimeKeeps, DivideKeeps, ReturnEntryKeeps,
     ImprimirKeeps DEF ThreadStep
<1>2. CASE UNCHANGED vars
  <2>1. \A t \in Threads : num(t)' = num(t) /\ Asked(t)' = Asked(t) /\ Idle(t)' = Idle(t)
    BY <1>2 DEF vars, num, Asked, Idle
  <2>2. Rows' = Rows /\ HasTable' = HasTable /\ Mayor(input)' = Mayor(input)
    BY <1>2 DEF vars, Rows, HasTable
  <2>3. TableInOrder'
    BY <1>2, <2>1, <2>2 DEF vars, IInv, TableInOrder, InTableInOrder
  <2>4. ThreadsInOrder'
    BY <1>2, <2>1, <2>2 DEF vars, IInv, ThreadsInOrder, ThreadInOrder
  <2>5. RowsInOrder'
    BY <1>2, <2>2 DEF vars, IInv, RowsInOrder, SumsAreThePartitions, Done
  <2> QED BY <1>2, <2>3, <2>4, <2>5 DEF vars, IInv
<1> QED BY <1>1, <1>2 DEF Next

(* So nothing ever is.                                                     *)
LEMMA Invariance == Spec => []IInv
BY InitInv, NextInv, PTL DEF Spec
-----------------------------------------------------------------------------
(* The variables keep their types: no prime of the loops goes past the     *)
(* largest absolute value, but for the 2 they begin with.                  *)
THEOREM TypeCorrect == Spec => []TypeOK
<1>1. ASSUME IInv PROVE TypeOK
  <2>1. <<version, input>> \in Inputs /\ ThreadsInOrder /\ TableInOrder /\ RowsInOrder
    BY <1>1 DEF IInv
  <2>2. Mayor(input) \in Nat
    BY <2>1, InputIs
  <2>3. ASSUME NEW t \in Threads
        PROVE  /\ sum[t].role \in {"none", "first", "second", "third"}
               /\ sum[t].p1 \in {2} \cup 0 .. Mayor(input)
               /\ sum[t].p2 \in 0 .. Mayor(input) + 1
    <3>1. ThreadInOrder(t)
      BY <2>1 DEF ThreadsInOrder
    <3>2. CASE sum[t] = Finished
      BY <2>2, <3>2 DEF Finished
    <3>3. CASE sum[t] = NoLoops
      BY <2>2, <3>3, LoopsOfMinInt
    <3>4. CASE row[t] \in Rows /\ input[row[t]] # MinInt /\ LoopsInv(num(t), sum[t])
      <4>1. num(t) \in Int /\ num(t) <= Mayor(input)
        BY <2>1, <3>4, InputIs DEF num, Abs
      <4> QED BY <2>2, <3>4, <4>1 DEF LoopsInv, LoopTypes
    <3> QED BY <3>1, <3>2, <3>3, <3>4 DEF ThreadInOrder
  <2>4. \A k \in DOMAIN primo : primo[k] \in 0 .. 1
    BY <2>1 DEF TableInOrder
  <2>5. DOMAIN rows = Rows /\ crash \in {"none", "null", "table", "row"}
    BY <1>1, <2>1 DEF IInv, RowsInOrder
  <2> QED BY <1>1, <2>1, <2>3, <2>4, <2>5 DEF IInv, TypeOK, ThreadsInOrder
<1> QED BY <1>1, Invariance, PTL

(* Whatever the threads do to the table they share without a lock, an      *)
(* entry that says "prime" is right, and stays so until it is returned.    *)
THEOREM TheTableIsTrue == Spec => []TableTellsTheTruth
<1>1. ASSUME IInv PROVE TableTellsTheTruth
  BY <1>1 DEF IInv, TableInOrder, InTableInOrder, TableTellsTheTruth
<1> QED BY <1>1, Invariance, PTL

(* For any numbers, in any version and any interleaving, a finished row is *)
(* the line with all the sums of its number, each once and in order.       *)
THEOREM AllSumsAreFound == Spec => []SumsAreThePartitions
<1>1. ASSUME IInv PROVE SumsAreThePartitions
  BY <1>1 DEF IInv, RowsInOrder
<1> QED BY <1>1, Invariance, PTL

(* es_primo never indexes past its table, which is as long as the largest  *)
(* absolute value.                                                         *)
THEOREM TableIsLargeEnough == Spec => [](crash # "table")
<1>1. ASSUME IInv PROVE crash # "table"
  BY <1>1 DEF IInv
<1> QED BY <1>1, Invariance, PTL
-----------------------------------------------------------------------------
(* A row of a thread that prints has no more characters than that of its   *)
(* number.                                                                 *)
LEMMA PrintedFits ==
  ASSUME IInv, NEW t \in Threads, pc[t] = "print"
  PROVE  LET text   == rows[row[t]] \o
                         Result(Even(num(t)), sum[t].shown, sum[t].count, sum[t].array)
             number == input[row[t]] IN
         /\ row[t] \in Rows /\ Abs(number) > 5
         /\ TextLength(text) \in Nat /\ RowLength(number) \in Nat
         /\ TextLength(text) <= RowLength(number)
<1>1. /\ row[t] \in Rows /\ row[t] # 0 /\ sum[t].shown = (input[row[t]] < 0)
      /\ IF input[row[t]] = MinInt THEN sum[t] = NoLoops ELSE LoopsInv(num(t), sum[t])
      /\ sum[t].role = "none" /\ Abs(input[row[t]]) > 5
  <2>1. ThreadInOrder(t) /\ ~Idle(t)
    BY DEF IInv, ThreadsInOrder, Idle
  <2> QED BY <2>1 DEF ThreadInOrder, Rows
<1>2. rows[row[t]] = <<NumberPiece(input[row[t]])>>
  BY <1>1 DEF IInv, RowsInOrder
<1>3. input[row[t]] \in Int /\ (input[row[t]] # MinInt => num(t) = Abs(input[row[t]]))
  BY <1>1, InputIs DEF IInv, num
<1>4. CASE input[row[t]] # MinInt
  <2>1. PICK n \in Nat, number \in Int, s \in {sum[t]} : n = num(t) /\ number = input[row[t]]
    BY <1>3, <1>4 DEF Abs
  <2>2. LET text == <<NumberPiece(number)>> \o Result(Even(n), s.shown, s.count, s.array) IN
        /\ TextLength(text) \in Nat /\ RowLength(number) \in Nat
        /\ TextLength(text) <= RowLength(number)
    <3>1. n = Abs(number) /\ LoopsInv(n, s) /\ s.role = "none" /\ s.shown = (number < 0)
      BY <1>1, <1>3, <1>4, <2>1
    <3> QED BY <3>1, RowFits
  <2> QED BY <1>1, <1>2, <2>1, <2>2, Zenon
<1>5. CASE input[row[t]] = MinInt
  <2>1. sum[t].shown = TRUE /\ sum[t].count = 0 /\ sum[t].array = << >>
    BY <1>1, <1>5, LoopsOfMinInt
  <2>2. PICK a, b : a = NumberPiece(MinInt) /\ b = CountPiece(0, TRUE)
    OBVIOUS
  <2>3. Groups(Even(num(t)), << >>) = << >>
    BY DEF Groups
  <2>4. Result(Even(num(t)), sum[t].shown, sum[t].count, sum[t].array) = <<b>> \o << >>
    BY <2>1, <2>2, <2>3, Zenon DEF Result
  <2>5. rows[row[t]] \o Result(Even(num(t)), sum[t].shown, sum[t].count, sum[t].array) = <<a, b>>
    BY <1>2, <1>5, <2>2, <2>4, TwoPieces, Zenon
  <2> QED BY <1>1, <1>5, <2>2, <2>5, MinIntFits, Zenon
<1> QED BY <1>4, <1>5

(* The process ends at a row only when one of its numbers has no room.     *)
Room == crash = "row" => \E i \in Rows : Abs(input[i]) > 5 /\ RowLength(input[i]) >= MaxSumas

(* It begins so, and no step ends it so otherwise.                         *)
LEMMA InitRoom ==
  ASSUME Init
  PROVE  Room
BY DEF Init, Room

LEMMA NextRoom ==
  ASSUME IInv, Room, [Next]_vars
  PROVE  Room'
<1>1. input' = input /\ Rows' = Rows
  BY DEF Next, vars, ThreadStep, TakeNumber, DividePrime, AskPrime, Divide, ReturnEntry,
         ImprimirResultado, Rows
<1>2. CASE crash' = crash
  BY <1>1, <1>2, Zenon DEF Room
<1>3. CASE crash' \in {"none", "null", "table"}
  BY <1>3 DEF Room
<1>4. ASSUME NEW t \in Threads, ImprimirResultado(t) PROVE Room'
  <2> DEFINE text == rows[row[t]] \o
                       Result(Even(num(t)), sum[t].shown, sum[t].count, sum[t].array)
  <2>1. /\ pc[t] = "print"
        /\ \/ UNCHANGED crash
           \/ crash' = IF TextLength(text) < MaxSumas THEN "null" ELSE "row"
    BY <1>4 DEF ImprimirResultado, Running
  <2>2. /\ row[t] \in Rows /\ Abs(input[row[t]]) > 5
        /\ TextLength(text) \in Nat /\ RowLength(input[row[t]]) \in Nat
        /\ TextLength(text) <= RowLength(input[row[t]])
    BY <2>1, PrintedFits
  <2> HIDE DEF text
  <2>3. CASE ~(TextLength(text) < MaxSumas)
    <3>1. RowLength(input[row[t]]) >= MaxSumas
      BY <2>2, <2>3, SumsAssumption
    <3> QED BY <1>1, <2>2, <3>1 DEF Room
  <2>4. CASE TextLength(text) < MaxSumas
    BY <1>2, <1>3, <2>1, <2>4
  <2> QED BY <2>3, <2>4
<1>5. ASSUME NEW t \in Threads, ThreadStep(t), ~ImprimirResultado(t)
      PROVE  crash' = crash \/ crash' \in {"none", "null", "table"}
  BY <1>5 DEF ThreadStep, TakeNumber, DividePrime, AskPrime, Divide, ReturnEntry, Answer
<1> QED BY <1>2, <1>3, <1>4, <1>5 DEF Next, ThreadStep, vars

(* The table is never left, as long as the largest absolute value; and a   *)
(* row's buffer only when the line of a number above 5, or below -5, has   *)
(* no room in it: what is printed is never longer than the count, the      *)
(* commas and the primes of all its sums.                                  *)
THEOREM RowsEndOnlyWithoutRoom == Spec => []CrashesOnlyWithoutRoom
<1>1. ASSUME IInv, Room PROVE CrashesOnlyWithoutRoom
  BY <1>1 DEF IInv, Room, CrashesOnlyWithoutRoom
<1> QED BY <1>1, Invariance, InitRoom, NextRoom, PTL DEF Spec
=============================================================================
