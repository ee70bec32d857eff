---------------------------- MODULE MCInterrupt ----------------------------
(* Interrupt for TLC: the goroutines of the runs, named a and b. *)
EXTENDS Interrupt
CONSTANTS a, b

One    == {a}
Two    == {a, b}
OnlyA  == {a}
Nobody == {}

Cancellable == {"live"}
AnyContext  == {"background", "live"}
=============================================================================
