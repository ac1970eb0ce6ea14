--------------------------- MODULE MCGoldbachSums ---------------------------
(* Instance of GoldbachSums for TLC: two threads, and numbers chosen so    *)
(* that they work on the same entries at the same time, that one goes on   *)
(* to a third number with the table the others filled, that the largest    *)
(* absolute value is negative, and that a prime's square, double and       *)
(* triple occur.  A row has 71 characters: the line of -21 just fits in,   *)
(* those of -27 and -33 do not.  Integers have seven bits.                 *)
EXTENDS GoldbachSums
CONSTANTS t1, t2

MCThreads == {t1, t2}
MCMinInt  == -64
MCShared  == {<<13, -13>>, <<-22, 22>>, <<-9, 3, 12>>, <<10, 9, -18>>, <<7, -8, 6>>,
              <<6, -21>>, <<-27>>, <<38>>, <<5, 2>>, <<-64, 6>>}
MCAlone   == {<<-33, 10>>, <<4, -38, 0>>, <<-64, 17>>, <<-21, -16>>}
MCInputs == {"optimization"} \X MCShared \cup {"serial", "pthread"} \X MCAlone
=============================================================================
