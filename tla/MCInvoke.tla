------------------------------ MODULE MCInvoke ------------------------------
(* Invoke for TLC: the goroutines of the runs, named a, b and c. *)
EXTENDS Invoke
CONSTANTS a, b, c

Two   == {a, b}
Three == {a, b, c}
OnlyA == {a}
Nobody == {}
=============================================================================
