--------------------------- MODULE MCGoldbachPool ---------------------------
(* Instance of GoldbachPool for TLC: up to three numbers, as many nodes,   *)
(* and three threads, so that several can pass the test for the last       *)
(* number.  calloc's choice of addresses is not a question here.           *)
EXTENDS GoldbachPool
CONSTANTS n1, n2, n3

MCNodes == {n1, n2, n3}
MCUsers == -1 .. MaxThreads - 1
MCData  == 1 .. MaxNumbers
=============================================================================
