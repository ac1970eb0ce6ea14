------------------------------ MODULE Goldbach ------------------------------
(* What the versions of the Goldbach task have in common: the stride of    *)
(* their loops and the text of a row, translated; and reference            *)
(* definitions of the sums and of the row.                                 *)
EXTENDS Integers, FiniteSets, Sequences

CONSTANT Powers  \* the powers of ten that a number may reach: 10 to 10^18 for int64_t

ASSUME PowersAssumption == IsFiniteSet(Powers) /\ Powers \subseteq Nat \ {0}

Abs(n)  == IF n < 0 THEN -n ELSE n
Even(n) == n % 2 = 0

(* x += 2, after x = 1 when x is 2 *)
Step(x) == IF x = 2 THEN 3 ELSE x + 2

-----------------------------------------------------------------------------
(* The text of a row is a sequence of pieces, what one sprintf or strcat   *)
(* adds: fixed text, a number, fixed text; or fixed text alone.            *)
NumberPiece(num)  == <<"", num, ": ">>
NA                == <<"NA">>
CountPiece(count, shown) == <<"", count, IF shown THEN " sums:" ELSE " sums">>

(* How imprimir_resultado regroups the flat array of primes: by two for an *)
(* even number, by three for an odd one, with a comma after every group    *)
(* but the one that ends the array                                         *)
Groups(even, array) ==
  LET k == IF even THEN 2 ELSE 3
      Place(i) == ((i - 1) % (k + 1)) + 1             \* k + 1 is the comma's
      Prime(i) == array[k * ((i - 1) \div (k + 1)) + Place(i)]
      Group(i) == IF Place(i) > k THEN <<",">>
                  ELSE <<IF Place(i) = 1 THEN " " ELSE "", Prime(i),
                         IF Place(i) = k THEN "" ELSE " + ">>
  IN  IF array = << >> THEN << >>
      ELSE [i \in 1 .. (k + 1) * (Len(array) \div k) - 1 |-> Group(i)]

(* imprimir_resultado *)
Result(even, shown, count, array) ==
  <<CountPiece(count, shown)>> \o (IF shown THEN Groups(even, array) ELSE << >>)

(* The characters of a fixed text, of a number, of a piece and of a text,  *)
(* which are the places of its pieces with the places in each              *)
Width(fixed) == CASE fixed = ""             -> 0
                  [] fixed \in {" ", ","}   -> 1
                  [] fixed \in {": ", "NA"} -> 2
                  [] fixed = " + "          -> 3
                  [] fixed = " sums"        -> 5
                  [] fixed = " sums:"       -> 6
Digits(n) == (IF n < 0 THEN 2 ELSE 1) + Cardinality({p \in Powers : p <= Abs(n)})
Characters(piece) ==
  IF Len(piece) = 1 THEN Width(piece[1]) ELSE Width(piece[1]) + Digits(piece[2]) + Width(piece[3])
Places(text)     == UNION {{i} \X (1 .. Characters(text[i])) : i \in DOMAIN text}
TextLength(text) == Cardinality(Places(text))

-----------------------------------------------------------------------------
(* Reference definitions *)
IsPrime(k) == k > 1 /\ \A d \in 2 .. k - 1 : k % d # 0
Primes(n)  == {k \in 2 .. n : IsPrime(k)}

(* The sums of n: two primes for an even number, three for an odd one *)
Partitions(n) ==
  IF Even(n)
  THEN {<<p, n - p>> : p \in {p \in Primes(n) : p <= n - p /\ IsPrime(n - p)}}
  ELSE {x \in {<<p, q, n - p - q>> : p \in Primes(n), q \in Primes(n)} :
          x[1] <= x[2] /\ x[2] <= x[3] /\ IsPrime(x[3])}

(* x is printed before y *)
Before(x, y) == \E k \in DOMAIN x : x[k] < y[k] /\ \A j \in 1 .. k - 1 : x[j] = y[j]

(* s is the list of the sums in S, each once, as the tests expect it *)
Lists(s, S) == /\ {s[j] : j \in DOMAIN s} = S
               /\ \A j \in DOMAIN s : j > 1 => Before(s[j - 1], s[j])

(* The text is "num: " and then, as in the tests' outputs, "NA", or the    *)
(* count of the sums in S, followed for a negative number by the sums, as  *)
(* in " 3 + 11, 7 + 7"                                                     *)
IsRow(text, num, S) ==
  LET arity  == IF Even(num) THEN 2 ELSE 3
      sums   == [j \in 1 .. Cardinality(S) |->
                   [k \in 1 .. arity |-> text[2 + (j - 1) * (arity + 1) + k][2]]]
      Pieces == 2 + Cardinality(S) * (arity + 1) - 1
  IN  /\ text[1] = <<"", num, ": ">>
      /\ \/ Abs(num) <= 5 /\ Tail(text) = << <<"NA">> >>
         \/ num > 5 /\ Tail(text) = << <<"", Cardinality(S), " sums">> >>
         \/ /\ num < -5 /\ text[2] = <<"", Cardinality(S), " sums:">>
            /\ Len(text) = IF S = {} THEN 2 ELSE Pieces
            /\ Lists(sums, S)
            /\ \A i \in 3 .. Len(text) :
                 CASE (i - 2) % (arity + 1) = 0     -> text[i] = <<",">>
                   [] (i - 2) % (arity + 1) = 1     -> text[i][1] = " " /\ text[i][3] = " + "
                   [] (i - 2) % (arity + 1) = arity -> text[i][1] = "" /\ text[i][3] = ""
                   [] OTHER                         -> text[i][1] = "" /\ text[i][3] = " + "

(* The characters of that row: what goes before the sums, and for those of *)
(* a negative number the commas, what is around their primes, and the      *)
(* digits of a prime of a sum                                              *)
PrimeDigits(S, arity) == UNION {{y} \X (1 .. Digits(y[1][y[2]])) : y \in S \X (1 .. arity)}
RowLength(num) ==
  LET S     == Partitions(Abs(num))
      arity == IF Even(num) THEN 2 ELSE 3
  IN  TextLength(<<NumberPiece(num), CountPiece(Cardinality(S), num < 0)>>)
        + IF num > 0 \/ S = {} THEN 0
          ELSE (Cardinality(S) - 1) + Cardinality(S) * (3 * arity - 2)
                 + Cardinality(PrimeDigits(S, arity))
=============================================================================
