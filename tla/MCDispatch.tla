----------------------------- MODULE MCDispatch -----------------------------
(* Dispatch for TLC: the goroutines of the run, named a, b and c. *)
EXTENDS Dispatch
CONSTANTS a, b, c

Two   == {a, b}
Three == {a, b, c}
=============================================================================
