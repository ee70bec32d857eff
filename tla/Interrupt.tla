------------------------------ MODULE Interrupt ------------------------------
(***************************************************************************)
(* Context cancellation (src/internal/instance.go:383-408, 610-682): the   *)
(* operations of module Invoke, with the watchdog that valueOp arms for a  *)
(* cancellable context.                                                    *)
(*                                                                         *)
(* The guest has one async_exc slot and one eval-breaker bit, both in      *)
(* linear memory.  armInterrupt stages KeyboardInterrupt in the slot and   *)
(* starts a watchdog goroutine; when the context is done the watchdog sets *)
(* the bit; the guest, which tests the bit at every back-edge, clears it,  *)
(* empties the slot and raises what it found there.  After the call disarm *)
(* stops the watchdog and clears what is left.                             *)
(*                                                                         *)
(* An operation's context, its watchdog and the answer of its guest call   *)
(* are intr[g][d].                                                         *)
(***************************************************************************)
EXTENDS Invoke

CONSTANTS
  Overlap,            \* TRUE: goroutines may have operations open together
  Contexts,           \* the kinds of context the operations are given
  GuestWritesBreaker  \* TRUE: guest code updates other bits of the breaker

ASSUME OverlapAssumption == Overlap \in BOOLEAN /\ GuestWritesBreaker \in BOOLEAN
ASSUME ContextsAssumption == Contexts \subseteq {"background", "live"}

VARIABLES
  staged,  \* the async_exc slot holds KeyboardInterrupt
  bit,     \* _PY_ASYNC_EXCEPTION_BIT of the eval breaker
  erased,  \* such an update has erased a bit that the watchdog had set
  loaded,  \* the breaker as guest code loaded it to update other bits of it:
           \* "clear" or "set" from the load to the store, "no" otherwise
  intr     \* intr[g][d]: context, watchdog and answer of an operation

ivars == <<staged, bit, loaded, erased, intr>>

allVars == <<mu, sp, closed, finalized, queued, depth, frame,
             staged, bit, loaded, erased, intr>>

(* loops: the guest code runs forever unless it is interrupted.  dog: the  *)
(* watchdog goroutine has sent TRUE ("fired") or FALSE ("quit") or neither *)
(* ("armed").                                                              *)
Interruptible ==
  [ctx : {"none", "background", "live", "done"},
   loops : BOOLEAN,
   dog : {"off", "armed", "fired", "quit"},
   answer : {"none", "value", "error", "interrupt"}]

NoCall == [ctx |-> "none", loops |-> FALSE, dog |-> "off", answer |-> "none"]

IInit ==
  /\ Init
  /\ staged = FALSE
  /\ bit = FALSE
  /\ loaded = "no"
  /\ erased = FALSE
  /\ intr = [g \in Goroutines |-> [d \in Depths |-> NoCall]]

Current(g) == intr[g][depth[g]]

(***************************************************************************)
(* The host: contexts, arming, the watchdog, disarming.                    *)
(***************************************************************************)

(* An operation begins with a context that is not done; one whose context  *)
(* is done already returns ctx.Err() and changes nothing.  Only code that  *)
(* can be stopped may run forever, and only that of an outermost           *)
(* operation: what it calls back is assumed to return by itself.           *)
StartOp(g) ==
  /\ Overlap \/ \A h \in Goroutines \ {g} : depth[h] = 0
  /\ BeginOp(g)
  /\ \E ctx \in Contexts, loops \in BOOLEAN :
       /\ loops => ctx = "live" /\ depth[g] = 0
       /\ intr' = [intr EXCEPT ![g][depth[g] + 1] =
                     [NoCall EXCEPT !.ctx = ctx, !.loops = loops]]
  /\ UNCHANGED <<staged, bit, loaded, erased>>

CancelContext(g, d) ==
  /\ intr[g][d].ctx = "live"
  /\ intr' = [intr EXCEPT ![g][d].ctx = "done"]
  /\ UNCHANGED <<vars, staged, bit, loaded, erased>>

(* Mutant: the exception is not staged. *)
ArmWithoutStaging(g) ==
  /\ Arm(g)
  /\ IF Current(g).ctx = "background"
     THEN UNCHANGED ivars
     ELSE /\ intr' = [intr EXCEPT ![g][depth[g]].dog = "armed"]
          /\ UNCHANGED <<staged, bit, loaded, erased>>

(* armInterrupt: nothing for a context that cannot be cancelled. *)
ArmInterrupt(g) ==
  /\ Arm(g)
  /\ IF Current(g).ctx = "background"
     THEN UNCHANGED ivars
     ELSE /\ staged' = TRUE
          /\ intr' = [intr EXCEPT ![g][depth[g]].dog = "armed"]
          /\ UNCHANGED <<bit, loaded, erased>>

(* The watchdog sees the context done, also when disarm has closed stop:   *)
(* select takes either of two ready cases.                                 *)
FireInterrupt(g, d) ==
  /\ intr[g][d].dog = "armed"
  /\ intr[g][d].ctx = "done"
  /\ bit' = TRUE
  /\ intr' = [intr EXCEPT ![g][d].dog = "fired"]
  /\ UNCHANGED <<vars, staged, loaded, erased>>

(* The watchdog sees stop closed. *)
Quit(g) ==
  /\ At(g, "disarm")
  /\ Current(g).dog = "armed"
  /\ intr' = [intr EXCEPT ![g][depth[g]].dog = "quit"]
  /\ UNCHANGED <<vars, staged, bit, loaded, erased>>

(* Mutants: disarm clears nothing, or only what a watchdog that fired left. *)
DisarmWithoutClear(g) ==
  /\ Disarm(g)
  /\ Current(g).dog # "armed"
  /\ intr' = [intr EXCEPT ![g][depth[g]] = NoCall]
  /\ UNCHANGED <<staged, bit, loaded, erased>>

DisarmOnlyIfFired(g) ==
  /\ Disarm(g)
  /\ Current(g).dog # "armed"
  /\ staged' = (staged /\ Current(g).dog # "fired")
  /\ bit' = (bit /\ Current(g).dog # "fired")
  /\ intr' = [intr EXCEPT ![g][depth[g]] = NoCall]
  /\ UNCHANGED <<loaded, erased>>

(* disarm has received from the watchdog; clearInterrupt. *)
DisarmInterrupt(g) ==
  /\ Disarm(g)
  /\ Current(g).dog # "armed"
  /\ staged' = (staged /\ Current(g).dog = "off")
  /\ bit' = (bit /\ Current(g).dog # "fired")
  /\ intr' = [intr EXCEPT ![g][depth[g]] = NoCall]
  /\ UNCHANGED <<loaded, erased>>

(* Mutant: the watchdog's answer is not asked for. *)
OutcomeWithoutWatchdog(call) ==
  IF call.answer \in {"error", "interrupt"} THEN "PythonError" ELSE "value"

(* What the caller gets (decodeEnvelope): a raised envelope is the         *)
(* cancellation if the watchdog fired.                                     *)
Outcome(call) ==
  IF call.answer \in {"error", "interrupt"}
  THEN IF call.dog = "fired" THEN "ctx.Err" ELSE "PythonError"
  ELSE "value"

(***************************************************************************)
(* The guest (CPython's eval breaker; not under src/).                     *)
(***************************************************************************)

(* A back-edge with the bit set: clear it, empty the slot, raise what was  *)
(* there.  An exception raised while handles are released or the runtime   *)
(* is finalized is reported and dropped.                                   *)
Poll(g) ==
  /\ At(g, "guest")
  /\ loaded = "no"
  /\ bit
  /\ bit' = FALSE
  /\ staged' = FALSE
  /\ IF staged /\ Top(g).call = "op"
     THEN intr' = [intr EXCEPT ![g][depth[g]].answer = "interrupt"]
     ELSE UNCHANGED intr
  /\ UNCHANGED <<vars, loaded, erased>>

(* Guest code sets or clears another bit of the breaker word: a load and a *)
(* store of the whole word, with no lock the watchdog's store respects.    *)
LoadBreaker(g) ==
  /\ GuestWritesBreaker
  /\ At(g, "guest")
  /\ loaded = "no"
  /\ loaded' = IF bit THEN "set" ELSE "clear"
  /\ UNCHANGED <<vars, staged, bit, erased, intr>>

StoreBreaker(g) ==
  /\ At(g, "guest")
  /\ loaded # "no"
  /\ bit' = (loaded = "set")
  /\ erased' = (erased \/ (bit /\ loaded = "clear"))
  /\ loaded' = "no"
  /\ UNCHANGED <<vars, staged, intr>>

(* The guest call of an operation returns: with a value, or with an error  *)
(* of its own, or with the interrupt, unless Python code caught that.      *)
FinishOp(g) ==
  /\ loaded = "no"
  /\ ReturnOp(g)
  /\ Current(g).loops => Current(g).answer = "interrupt"
  /\ \E answer \in {"value", "error", "interrupt"} :
       /\ answer = "interrupt" => Current(g).answer = "interrupt"
       /\ intr' = [intr EXCEPT ![g][depth[g]].answer = answer]
  /\ UNCHANGED <<staged, bit, loaded, erased>>

(* The steps of Invoke that interruption does not touch. *)
OtherStep(g) ==
  /\ \/ Drain(g) \/ BeginClose(g) \/ Lock(g) \/ HandlerReturn(g) \/ Relock(g)
     \/ loaded = "no" /\ (Callback(g) \/ ReturnDrain(g) \/ ReturnClose(g))
  /\ UNCHANGED ivars

INext ==
  \/ QueueRelease /\ UNCHANGED ivars
  \/ \E g \in Goroutines :
       \/ StartOp(g) \/ ArmInterrupt(g) \/ Quit(g) \/ DisarmInterrupt(g)
       \/ Poll(g) \/ LoadBreaker(g) \/ StoreBreaker(g) \/ FinishOp(g)
       \/ OtherStep(g)
       \/ \E d \in Depths : CancelContext(g, d) \/ FireInterrupt(g, d)

ISpec == IInit /\ [][INext]_allVars

(***************************************************************************)
(* As in Invoke; the watchdog goroutine runs when it can, and guest code   *)
(* that runs forever passes a back-edge again and again.                   *)
(***************************************************************************)
IProceed(g) ==
  \/ ArmInterrupt(g) \/ Quit(g) \/ DisarmInterrupt(g) \/ StoreBreaker(g)
  \/ (Drain(g) \/ Lock(g) \/ Relock(g)) /\ UNCHANGED ivars

IFairness ==
  \A g \in Goroutines :
    /\ SF_allVars(IProceed(g))
    /\ SF_allVars(Poll(g))
    /\ \A d \in Depths :
         /\ WF_allVars(FireInterrupt(g, d))
         /\ SF_allVars(depth[g] = d /\ HandlerReturn(g) /\ UNCHANGED ivars)
         /\ SF_allVars(depth[g] = d /\ FinishOp(g))
         /\ SF_allVars(depth[g] = d /\ (ReturnDrain(g) \/ ReturnClose(g))
                                    /\ UNCHANGED ivars)

IFairSpec == ISpec /\ IFairness
-----------------------------------------------------------------------------
(* Types of the variables this module adds. *)
ITypeOK ==
  /\ staged \in BOOLEAN
  /\ bit \in BOOLEAN
  /\ loaded \in {"no", "set", "clear"}
  /\ erased \in BOOLEAN
  /\ intr \in [Goroutines -> [Depths -> Interruptible]]

(* "A lingering flag would poison the next call" (comment on               *)
(* armInterrupt): whatever calls overlap and however their watchdogs race  *)
(* with completion, an interrupt is staged only while a cancellable        *)
(* operation is between arming and disarming, and the bit is set only      *)
(* while one whose watchdog fired is.                                      *)
NothingLingers ==
  /\ staged => \E g \in Goroutines : \E d \in Depths :
                 intr[g][d].dog # "off"
  /\ bit => \E g \in Goroutines : \E d \in Depths :
              intr[g][d].dog = "fired"

(* An interrupt reaches only the code it is meant for: KeyboardInterrupt   *)
(* is raised in an operation whose own context is done.                    *)
NoStrayInterrupt ==
  \A g \in Goroutines : \A d \in Depths :
    intr[g][d].answer = "interrupt" => intr[g][d].ctx = "done"

(* "Cancelling ctx raises KeyboardInterrupt at the next back-edge and Eval *)
(* returns ctx.Err()" (comment on Eval): an operation whose context is     *)
(* done returns, even if its code would run forever, unless the guest's    *)
(* own update of the breaker erased the bit.                               *)
CancelledReturns ==
  \A g \in Goroutines : \A d \in Depths :
    (intr[g][d].ctx = "done") ~> (intr[g][d].ctx # "done" \/ erased)

(* An operation that was interrupted reports its context's error; an       *)
(* exception of the Python code itself is reported as such, provided the   *)
(* context is not done by the time of disarm (if it is, the exception may  *)
(* be dropped in favour of the context's error).                           *)
OutcomeHonest ==
  [][\A g \in Goroutines : DisarmInterrupt(g) =>
       /\ Current(g).answer = "interrupt" => Outcome(Current(g)) = "ctx.Err"
       /\ Current(g).answer = "error" /\ Current(g).ctx # "done" =>
            Outcome(Current(g)) = "PythonError"]_allVars
=============================================================================
