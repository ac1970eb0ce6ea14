----------------------------- MODULE MCPipeline -----------------------------
(* Instance of Pipeline for TLC: no package or no consumer, more consumers *)
(* than packages and more packages than consumers, and, with a target of   *)
(* two bits, as many consumers as targets so that the last one wraps to 0. *)
EXTENDS Pipeline

MCArguments == {<<0, 0>>, <<1, 0>>, <<0, 2>>, <<4, 1>>, <<3, 2>>, <<2, 3>>, <<1, 4>>}
=============================================================================
