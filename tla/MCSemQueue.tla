----------------------------- MODULE MCSemQueue -----------------------------
(* Instance of SemQueue for TLC: two producers and three consumers, so     *)
(* that pops outnumber pushes and two claims can be open at once.          *)
EXTENDS SemQueue
CONSTANTS p1, p2, c1, c2, c3

MCProducers == {p1, p2}
MCConsumers == {c1, c2, c3}
=============================================================================
