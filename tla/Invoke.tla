------------------------------- MODULE Invoke -------------------------------
(***************************************************************************)
(* How goroutines enter one CPython instance (src/internal/python.go,      *)
(* src/internal/instance.go).                                              *)
(*                                                                         *)
(* The transpiled interpreter is single-threaded.  Module.mu serialises    *)
(* every entry, and handleCallback gives the mutex up while a bound Go     *)
(* function runs, so that the function may call back in.  An operation of  *)
(* the public API is Python.valueOp: check that the instance is open,      *)
(* release the handles whose wrappers the Go collector freed (one guest    *)
(* call of its own), arm the interrupt, make the guest call, disarm.       *)
(*                                                                         *)
(* A goroutine g has depth[g] operations open, each but the innermost      *)
(* suspended in a Go function that called back in.  frame[g][d] says what  *)
(* the d-th of them is doing.                                              *)
(*                                                                         *)
(* All guest code runs on one C stack.  sp counts the activations on it:   *)
(* an activation that starts takes the next position, and one that ends    *)
(* puts sp back to where it found it, as a C function's epilogue does.     *)
(***************************************************************************)
EXTENDS Naturals

CONSTANTS
  Goroutines,     \* the goroutines that use the instance
  NoOne,          \* the owner of an unlocked mutex
  CallbackUsers,  \* the goroutines whose guest code calls bound Go functions
  Closers,        \* the goroutines that may call Close
  CloseRaces,     \* TRUE: Close may be called while operations are open
  Collects,       \* TRUE: the Go collector frees wrappers of handles
  MaxDepth,       \* bound: operations one goroutine has open at once
  MaxStack        \* bound: no operation begins when sp has reached it

ASSUME NoOneAssumption == NoOne \notin Goroutines
ASSUME RolesAssumption == CallbackUsers \subseteq Goroutines
                          /\ Closers \subseteq Goroutines
ASSUME SwitchesAssumption == CloseRaces \in BOOLEAN /\ Collects \in BOOLEAN
ASSUME BoundsAssumption == MaxDepth \in Nat \ {0} /\ MaxStack \in Nat \ {0}

VARIABLES
  mu,         \* Module.mu: the goroutine that holds it, or NoOne
  sp,         \* the C stack pointer, as the number of positions in use
  closed,     \* Python.closed
  finalized,  \* py_close has run: the CPython runtime is gone
  queued,     \* Python.pendingRel holds handles to release
  depth,      \* depth[g]: operations goroutine g has open
  frame       \* frame[g][d]: the d-th operation of g

vars == <<mu, sp, closed, finalized, queued, depth, frame>>

(***************************************************************************)
(* The guest call an operation is concerned with, and where it stands:     *)
(* "queue" about to empty the release queue, "arm" about to arm, "wait"    *)
(* in m.mu.Lock() of invoke, "guest" executing guest code, "handler" in a  *)
(* bound Go function, "relock" in m.mu.Lock() of handleCallback, "disarm"  *)
(* back from the guest.                                                    *)
(***************************************************************************)
Calls  == {"none", "drain", "op", "close"}
Points == {"none", "queue", "arm", "wait", "guest", "handler", "relock",
           "disarm"}

Frame == [call : Calls, at : Points, base : Nat]

NoFrame == [call |-> "none", at |-> "none", base |-> 0]

Depths == 1 .. MaxDepth

Init ==
  /\ mu = NoOne
  /\ sp = 0
  /\ closed = FALSE
  /\ finalized = FALSE
  /\ queued = FALSE
  /\ depth = [g \in Goroutines |-> 0]
  /\ frame = [g \in Goroutines |-> [d \in Depths |-> NoFrame]]

Top(g) == frame[g][depth[g]]

At(g, point) == depth[g] > 0 /\ Top(g).at = point

(* Goroutine g executes Go code that may call the API: it has nothing open *)
(* or its innermost operation is suspended in a Go function.               *)
InHostCode(g) == depth[g] = 0 \/ At(g, "handler")

(* No operation is open, a Close possibly is. *)
NothingOpen ==
  \A g \in Goroutines : \A d \in Depths : frame[g][d].call \in {"none", "close"}

Push(g, call, point) ==
  /\ depth[g] < MaxDepth
  /\ depth' = [depth EXCEPT ![g] = @ + 1]
  /\ frame' = [frame EXCEPT ![g][depth[g] + 1] =
                 [call |-> call, at |-> point, base |-> 0]]

GoTo(g, call, point) ==
  /\ frame' = [frame EXCEPT ![g][depth[g]] =
                 [call |-> call, at |-> point, base |-> Top(g).base]]
  /\ UNCHANGED depth

Pop(g) ==
  /\ frame' = [frame EXCEPT ![g][depth[g]] = NoFrame]
  /\ depth' = [depth EXCEPT ![g] = @ - 1]

(***************************************************************************)
(* The operations of the host.                                             *)
(***************************************************************************)

(* A wrapper's finalizer queues its handle; it never enters the guest. *)
QueueRelease ==
  /\ Collects
  /\ ~queued
  /\ queued' = TRUE
  /\ UNCHANGED <<mu, sp, closed, finalized, depth, frame>>

(* valueOp begins.  On a closed instance, or with a context that is done,  *)
(* it returns at once and changes nothing.                                 *)
BeginOp(g) ==
  /\ InHostCode(g)
  /\ ~closed
  /\ sp < MaxStack
  /\ Push(g, "op", "queue")
  /\ UNCHANGED <<mu, sp, closed, finalized, queued>>

(* drainReleases: take the whole queue; a guest call releases the handles  *)
(* unless there are none or the instance has been closed meanwhile.        *)
Drain(g) ==
  /\ At(g, "queue")
  /\ queued' = FALSE
  /\ IF queued /\ ~closed THEN GoTo(g, "drain", "wait")
                          ELSE GoTo(g, "op", "arm")
  /\ UNCHANGED <<mu, sp, closed, finalized>>

(* armInterrupt, before m.mu is taken; its effect is module Interrupt's. *)
Arm(g) ==
  /\ At(g, "arm")
  /\ GoTo(g, "op", "wait")
  /\ UNCHANGED <<mu, sp, closed, finalized, queued>>

(* Mutant: Close does not mark the instance closed. *)
CloseWithoutFlag(g) ==
  /\ g \in Closers
  /\ InHostCode(g)
  /\ CloseRaces \/ NothingOpen
  /\ ~closed
  /\ ~finalized
  /\ Push(g, "close", "wait")
  /\ UNCHANGED <<mu, sp, closed, finalized, queued>>

(* Mutant: Close stores TRUE in closed without looking at what was there. *)
CloseUnconditionally(g) ==
  /\ g \in Closers
  /\ InHostCode(g)
  /\ CloseRaces \/ NothingOpen
  /\ closed' = TRUE
  /\ Push(g, "close", "wait")
  /\ UNCHANGED <<mu, sp, finalized, queued>>

(* The first Close flips closed and goes on to the guest; a later one      *)
(* returns nil at once.                                                    *)
BeginClose(g) ==
  /\ g \in Closers
  /\ InHostCode(g)
  /\ CloseRaces \/ NothingOpen
  /\ ~closed
  /\ closed' = TRUE
  /\ Push(g, "close", "wait")
  /\ UNCHANGED <<mu, sp, finalized, queued>>

(***************************************************************************)
(* invoke and handleCallback.                                              *)
(***************************************************************************)

(* m.mu.Lock() in invoke succeeds and the guest call starts. *)
Lock(g) ==
  /\ At(g, "wait")
  /\ mu = NoOne
  /\ mu' = g
  /\ frame' = [frame EXCEPT ![g][depth[g]] =
                 [call |-> Top(g).call, at |-> "guest", base |-> sp]]
  /\ sp' = sp + 1
  /\ UNCHANGED <<closed, finalized, queued, depth>>

(* Mutant: the mutex is held while the Go function runs. *)
CallbackKeepsLock(g) ==
  /\ g \in CallbackUsers
  /\ At(g, "guest")
  /\ GoTo(g, Top(g).call, "handler")
  /\ UNCHANGED <<mu, sp, closed, finalized, queued>>

(* The guest calls a bound Go function: handleCallback unlocks m.mu. *)
Callback(g) ==
  /\ g \in CallbackUsers
  /\ At(g, "guest")
  /\ mu' = NoOne
  /\ GoTo(g, Top(g).call, "handler")
  /\ UNCHANGED <<sp, closed, finalized, queued>>

(* The Go function returns or panics; either way the deferred m.mu.Lock()  *)
(* is next.                                                                *)
HandlerReturn(g) ==
  /\ At(g, "handler")
  /\ GoTo(g, Top(g).call, "relock")
  /\ UNCHANGED <<mu, sp, closed, finalized, queued>>

(* Mutant: the guest call resumes without the mutex. *)
RelockWithoutLock(g) ==
  /\ At(g, "relock")
  /\ GoTo(g, Top(g).call, "guest")
  /\ UNCHANGED <<mu, sp, closed, finalized, queued>>

(* The m.mu.Lock() of handleCallback succeeds and the guest call resumes. *)
Relock(g) ==
  /\ At(g, "relock")
  /\ mu = NoOne
  /\ mu' = g
  /\ GoTo(g, Top(g).call, "guest")
  /\ UNCHANGED <<sp, closed, finalized, queued>>

(* Mutants: a trap abandons the activation on the C stack; the stack is    *)
(* put back to where the outermost call found it; one position too many is *)
(* freed.                                                                  *)
LeaveAbandoned(g) == At(g, "guest") /\ mu' = NoOne /\ UNCHANGED sp
LeaveToBottom(g)  == At(g, "guest") /\ mu' = NoOne /\ sp' = 0
LeaveOneMore(g)   == At(g, "guest") /\ mu' = NoOne /\ sp' = Top(g).base - 1

(* The guest call returns or traps: the activation's part of the C stack   *)
(* is free again and the deferred m.mu.Unlock() runs.                      *)
LeaveGuest(g) ==
  /\ At(g, "guest")
  /\ mu' = NoOne
  /\ sp' = Top(g).base

(* The release call is back; its outcome is ignored. *)
ReturnDrain(g) ==
  /\ LeaveGuest(g)
  /\ Top(g).call = "drain"
  /\ GoTo(g, "op", "arm")
  /\ UNCHANGED <<closed, finalized, queued>>

ReturnOp(g) ==
  /\ LeaveGuest(g)
  /\ Top(g).call = "op"
  /\ GoTo(g, "op", "disarm")
  /\ UNCHANGED <<closed, finalized, queued>>

(* py_close has dropped every pin and finalized the runtime. *)
ReturnClose(g) ==
  /\ LeaveGuest(g)
  /\ Top(g).call = "close"
  /\ finalized' = TRUE
  /\ Pop(g)
  /\ UNCHANGED <<closed, queued>>

(* disarm, and valueOp returns to its caller. *)
Disarm(g) ==
  /\ At(g, "disarm")
  /\ Pop(g)
  /\ UNCHANGED <<mu, sp, closed, finalized, queued>>

HostStep(g) ==
  BeginOp(g) \/ Drain(g) \/ Arm(g) \/ BeginClose(g) \/ Disarm(g)

CallStep(g) ==
  \/ Lock(g) \/ Callback(g) \/ HandlerReturn(g) \/ Relock(g)
  \/ ReturnDrain(g) \/ ReturnOp(g) \/ ReturnClose(g)

Next ==
  \/ QueueRelease
  \/ \E g \in Goroutines : HostStep(g) \/ CallStep(g)

Spec == Init /\ [][Next]_vars

(***************************************************************************)
(* A goroutine that can run does, and sync.Mutex hands a waiting goroutine *)
(* the lock in the end (its starvation mode), whoever else contends; a     *)
(* goroutine has one such step to take at a time.  The guest code and the  *)
(* Go functions are assumed to return in the end, each at its own depth d: *)
(* what runs in between may call back again.                               *)
(***************************************************************************)
Proceed(g) == Drain(g) \/ Arm(g) \/ Lock(g) \/ Relock(g) \/ Disarm(g)

GuestReturn(g) == ReturnDrain(g) \/ ReturnOp(g) \/ ReturnClose(g)

Fairness ==
  \A g \in Goroutines :
    /\ SF_vars(Proceed(g))
    /\ \A d \in Depths : /\ SF_vars(depth[g] = d /\ HandlerReturn(g))
                         /\ SF_vars(depth[g] = d /\ GuestReturn(g))

FairSpec == Spec /\ Fairness
-----------------------------------------------------------------------------
(* Types of the variables. *)
TypeOK ==
  /\ mu \in Goroutines \cup {NoOne}
  /\ sp \in Nat
  /\ closed \in BOOLEAN
  /\ finalized \in BOOLEAN
  /\ queued \in BOOLEAN
  /\ depth \in [Goroutines -> 0 .. MaxDepth]
  /\ frame \in [Goroutines -> [Depths -> Frame]]

(* The operation has an activation on the C stack. *)
Entered(f) == f.at \in {"guest", "handler", "relock"}

(* Every path that touches interpreter state holds m.mu for the whole      *)
(* guest call, and m.mu is held by nobody else: a goroutine that executes  *)
(* guest code does so in its innermost operation and owns m.mu, and a      *)
(* goroutine that owns m.mu executes guest code.  The unlock and relock of *)
(* handleCallback keep this through every nesting.                         *)
GuestOwnsLock ==
  /\ \A g \in Goroutines : \A d \in Depths :
       frame[g][d].at = "guest" => mu = g /\ d = depth[g]
  /\ \A g \in Goroutines : mu = g => At(g, "guest")

(* "The nested call exits before the outer call resumes, so the outer call *)
(* never observes a mid-flight inner call" (comment on Module): the        *)
(* activation that executes is the last one on the C stack.                *)
InnermostRuns ==
  \A g \in Goroutines : At(g, "guest") => sp = Top(g).base + 1

(* "The nested call balances its own state changes": when no operation is  *)
(* open the C stack is empty, however the calls and callbacks interleaved. *)
IdleStackEmpty ==
  (\A g \in Goroutines : depth[g] = 0) => sp = 0

(* Two activations never lie at the same position of the C stack, and none *)
(* lies above the stack pointer: a suspended activation's frames are never *)
(* handed to another one.                                                  *)
FramesDisjoint ==
  \A g, h \in Goroutines : \A d, e \in Depths :
    Entered(frame[g][d]) /\ Entered(frame[h][e]) =>
      /\ frame[g][d].base < sp
      /\ frame[g][d].base = frame[h][e].base => g = h /\ d = e

(* "Every entry point checks closed so a straggler errors out instead of   *)
(* calling into a finalized runtime" (comment on Python.closed): no guest  *)
(* code executes once the runtime is finalized.                            *)
RunsLive ==
  \A g \in Goroutines : At(g, "guest") => ~finalized

(* Close is idempotent under concurrent calls: py_close runs at most once. *)
CloseOnce ==
  /\ \A g, h \in Goroutines : \A d, e \in Depths :
       frame[g][d].call = "close" /\ frame[h][e].call = "close" =>
         g = h /\ d = e
  /\ finalized => \A g \in Goroutines : \A d \in Depths :
                    frame[g][d].call # "close"

(* No deadlock and no starvation on m.mu: given that guest code and Go     *)
(* functions return, every operation of every goroutine returns, with any  *)
(* number of goroutines in callbacks that call back in.                    *)
OperationsReturn ==
  \A g \in Goroutines : (depth[g] > 0) ~> (depth[g] = 0)

-----------------------------------------------------------------------------
(***************************************************************************)
(* The refinement mapping onto CallStack: an activation is a goroutine's   *)
(* d-th operation, the running one is that of the owner of m.mu.           *)
(***************************************************************************)
Activations == Goroutines \X Depths

NoActivation == <<NoOne, 0>>

Running == IF mu = NoOne THEN NoActivation ELSE <<mu, depth[mu]>>

Level == [a \in Activations |->
            IF Entered(frame[a[1]][a[2]]) THEN frame[a[1]][a[2]].base + 1
                                          ELSE 0]

Stack == INSTANCE CallStack WITH Nothing <- NoActivation, running <- Running,
                                 level <- Level, height <- sp

(* invoke and handleCallback implement the last-in first-out stack of      *)
(* activations that the comment on Module promises.                        *)
ImplementsStack == Stack!StackSpec
=============================================================================
