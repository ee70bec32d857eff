----------------------------- MODULE MCHandles -----------------------------
(* Handles for TLC: goroutines a and b, handles p, q and r. *)
EXTENDS Handles, TLC
CONSTANTS a, b, p, q, r, x, y

Two    == {a, b}
OnlyA  == {a}
OnlyB  == {b}
Nobody == {}

TwoHandles   == {p, q}
ThreeHandles == {p, q, r}
OneObject    == {x}
TwoObjects   == {x, y}

(* Which handle stands for which pin makes no difference, nor which object *)
(* is which.                                                               *)
Symmetry == Permutations({p, q, r}) \cup Permutations({x, y})
=============================================================================
