---------------------------- MODULE MCGoldbachOmp ---------------------------
(* Instances of GoldbachOmp for TLC: one to three threads, with as many    *)
(* iterations, fewer, and one more than a multiple of them, the default    *)
(* team of two for a thread count of 0, and tables too small for their     *)
(* second entry; MCTests are two numbers of test 1, whose rows are not the *)
(* expected ones with two threads and with one.                            *)
EXTENDS GoldbachOmp
MCInputs == {<<-6, 7>>, <<9, -10>>, <<-15>>, <<-22>>, <<25>>, <<-27>>, <<-31>>, <<-34, 3>>}
MCCases == MCInputs \X (0 .. 3) \cup {<< << >>, 1>>, << <<-1>>, 2>>, << <<4, -8>>, 1>>, << <<12>>, 2>>}
MCTests == { << <<10>>, 2>>, << <<-8>>, 1>> }
=============================================================================
