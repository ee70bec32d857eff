------------------------------ MODULE MCMemory ------------------------------
(* Memory for TLC: the goroutines of the run, named a and b. *)
EXTENDS Memory
CONSTANTS a, b

Two    == {a, b}
OnlyA  == {a}
Nobody == {}

Cancellable == {"live"}
=============================================================================
