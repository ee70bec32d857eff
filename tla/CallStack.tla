------------------------------ MODULE CallStack ------------------------------
(***************************************************************************)
(* What the comment on Module (src/internal/python.go:489-506) promises of *)
(* the transpiled interpreter: one activation of it runs at a time, an     *)
(* activation may call out to the host and be suspended, other activations *)
(* may then run on top of it, and each of those has left before the one    *)
(* beneath it resumes.  The interpreter has one C stack, so this last-in   *)
(* first-out order is what keeps a suspended activation's frames intact.   *)
(*                                                                         *)
(* level[a] is the position of activation a on the C stack, counted from   *)
(* 1; it is 0 when a is not there.                                         *)
(***************************************************************************)
EXTENDS Naturals

CONSTANTS Activations,  \* the entries into the interpreter there can be
          Nothing       \* "no activation is running", none of Activations

VARIABLES running,  \* the activation whose guest code executes, or Nothing
          level,    \* level[a]: where activation a lies on the C stack
          height    \* how much of the C stack is in use

stackVars == <<running, level, height>>

StackInit ==
  /\ running = Nothing
  /\ level = [a \in Activations |-> 0]
  /\ height = 0

(* A call into the interpreter pushes a new activation. *)
Enter(a) ==
  /\ running = Nothing
  /\ level[a] = 0
  /\ running' = a
  /\ level' = [level EXCEPT ![a] = height + 1]
  /\ height' = height + 1

(* The running activation calls out to the host. *)
CallOut(a) ==
  /\ running = a
  /\ running' = Nothing
  /\ UNCHANGED <<level, height>>

(* The host answers the innermost activation; only that one may resume. *)
Resume(a) ==
  /\ running = Nothing
  /\ level[a] > 0
  /\ level[a] = height
  /\ running' = a
  /\ UNCHANGED <<level, height>>

(* The running activation returns and its part of the C stack is free. *)
Leave(a) ==
  /\ running = a
  /\ level[a] = height
  /\ running' = Nothing
  /\ level' = [level EXCEPT ![a] = 0]
  /\ height' = height - 1

StackNext ==
  \E a \in Activations : Enter(a) \/ CallOut(a) \/ Resume(a) \/ Leave(a)

StackSpec == StackInit /\ [][StackNext]_stackVars
=============================================================================
