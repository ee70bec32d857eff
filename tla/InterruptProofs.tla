--------------------------- MODULE InterruptProofs ---------------------------
(***************************************************************************)
(* Theorems about module Interrupt: interruption adds nothing to what      *)
(* module Invoke allows, and no interrupt outlives or strays from the      *)
(* operations whose context is done.                                       *)
(***************************************************************************)
EXTENDS Interrupt, InvokeProofs

(***************************************************************************)
(* What the records of the operations say, given where the operations are: *)
(* none for a frame that is not in use or is Close's, no watchdog before   *)
(* arming, and a watchdog that fired has seen its context done.            *)
(***************************************************************************)
Suits(f, call) ==
  /\ f.call \in {"none", "close"} => call = NoCall
  /\ f.call = "drain" => call.dog = "off"
  /\ f.at \in {"queue", "arm"} => call.dog = "off"
  /\ call.dog = "fired" => call.ctx = "done"

Fits ==
  \A g \in Goroutines, d \in Depths : Suits(frame[g][d], intr[g][d])

(* Every open operation is concerned with some guest call. *)
InUse ==
  \A g \in Goroutines, d \in Depths :
    d <= depth[g] => frame[g][d].call # "none"

(* Guest code that has loaded the breaker executes until it has stored it. *)
Loading == loaded # "no" => \E g \in Goroutines : At(g, "guest")

IInv == CloseInv /\ ITypeOK /\ Fits /\ InUse /\ Loading

(* One goroutine at a time has operations open. *)
Solo ==
  \A g, h \in Goroutines : depth[g] > 0 /\ depth[h] > 0 => g = h

Fired == \E g \in Goroutines, d \in Depths : intr[g][d].dog = "fired"
Armed == \E g \in Goroutines, d \in Depths : intr[g][d].dog # "off"

StagedByArmed == staged => Armed
BitByFired    == bit \/ loaded = "set" => Fired

(* An operation that was interrupted is one whose watchdog fired or has    *)
(* been called back from inside one.                                       *)
InterruptsMeant ==
  \A g \in Goroutines, d \in Depths :
    intr[g][d].answer = "interrupt" =>
      \E e \in 1 .. d : intr[g][e].dog = "fired"

-----------------------------------------------------------------------------
(***************************************************************************)
(* Every step of an interruptible operation is a step of Invoke, or leaves *)
(* the state of Invoke alone.                                              *)
(***************************************************************************)

LEMMA StepOfInvoke == [INext]_allVars => [Next]_vars
<1> SUFFICES ASSUME [INext]_allVars PROVE [Next]_vars
  OBVIOUS
<1>1. CASE UNCHANGED allVars
  BY <1>1 DEF allVars, vars
<1>2. CASE QueueRelease
  BY <1>2 DEF Next
<1>3. ASSUME NEW g \in Goroutines,
             \/ StartOp(g) \/ ArmInterrupt(g) \/ DisarmInterrupt(g)
             \/ FinishOp(g) \/ OtherStep(g)
      PROVE  Next
  <2>1. HostStep(g) \/ CallStep(g)
    BY <1>3 DEF StartOp, ArmInterrupt, DisarmInterrupt, FinishOp, OtherStep,
       HostStep, CallStep
  <2>2. QED
    BY <2>1 DEF Next
<1>4. ASSUME NEW g \in Goroutines,
             \/ Quit(g) \/ Poll(g) \/ LoadBreaker(g) \/ StoreBreaker(g)
             \/ \E d \in Depths : CancelContext(g, d) \/ FireInterrupt(g, d)
      PROVE  UNCHANGED vars
  BY <1>4 DEF Quit, Poll, LoadBreaker, StoreBreaker, CancelContext,
     FireInterrupt
<1>5. QED
  BY <1>1, <1>2, <1>3, <1>4 DEF INext

(* Contexts, watchdogs and the breaker add no entry into the interpreter:  *)
(* what is proved of Invoke holds of interruptible operations.             *)
THEOREM InterruptsInvoke == ISpec => Spec
<1>1. IInit => Init
  BY DEF IInit
<1>2. QED
  BY <1>1, StepOfInvoke, PTL DEF ISpec, Spec

-----------------------------------------------------------------------------
(***************************************************************************)
(* What a step does to the frame and the record of one operation.          *)
(***************************************************************************)

(* The other operations' frames and records stay as they are. *)
FrameOnly(g, d) ==
  \A h \in Goroutines, e \in Depths :
    h # g \/ e # d => frame'[h][e] = frame[h][e]

CallOnly(g, d) ==
  \A h \in Goroutines, e \in Depths :
    h # g \/ e # d => intr'[h][e] = intr[h][e]

LEMMA NoCallType == NoCall \in Interruptible
BY DEF NoCall, Interruptible

LEMMA SetCall ==
  ASSUME ITypeOK, NEW g \in Goroutines, NEW d \in Depths,
         NEW new \in Interruptible, intr' = [intr EXCEPT ![g][d] = new]
  PROVE  /\ intr' \in [Goroutines -> [Depths -> Interruptible]]
         /\ intr'[g][d] = new /\ CallOnly(g, d)
BY DEF ITypeOK, CallOnly

(* The assignments to one field of a record. *)
LEMMA SetField ==
  ASSUME ITypeOK, NEW g \in Goroutines, NEW d \in Depths
  PROVE  LET old == intr[g][d]
             Set(new) == /\ intr' \in [Goroutines -> [Depths -> Interruptible]]
                         /\ intr'[g][d] = new /\ CallOnly(g, d)
         IN  /\ old \in Interruptible
             /\ \A x \in {"none", "background", "live", "done"} :
                  intr' = [intr EXCEPT ![g][d].ctx = x] =>
                    Set([old EXCEPT !.ctx = x])
             /\ \A x \in {"off", "armed", "fired", "quit"} :
                  intr' = [intr EXCEPT ![g][d].dog = x] =>
                    Set([old EXCEPT !.dog = x])
             /\ \A x \in {"none", "value", "error", "interrupt"} :
                  intr' = [intr EXCEPT ![g][d].answer = x] =>
                    Set([old EXCEPT !.answer = x])
<1> DEFINE old == intr[g][d]
<1>1. old \in Interruptible
  BY DEF ITypeOK
<1>2. ASSUME NEW x \in {"none", "background", "live", "done"},
             intr' = [intr EXCEPT ![g][d].ctx = x]
      PROVE  /\ intr' \in [Goroutines -> [Depths -> Interruptible]]
             /\ intr'[g][d] = [old EXCEPT !.ctx = x] /\ CallOnly(g, d)
  <2>1. [old EXCEPT !.ctx = x] \in Interruptible
    BY <1>1 DEF Interruptible
  <2>2. intr' = [intr EXCEPT ![g][d] = [old EXCEPT !.ctx = x]]
    BY <1>2
  <2>3. QED
    BY <2>1, <2>2, SetCall
<1>3. ASSUME NEW x \in {"off", "armed", "fired", "quit"},
             intr' = [intr EXCEPT ![g][d].dog = x]
      PROVE  /\ intr' \in [Goroutines -> [Depths -> Interruptible]]
             /\ intr'[g][d] = [old EXCEPT !.dog = x] /\ CallOnly(g, d)
  <2>1. [old EXCEPT !.dog = x] \in Interruptible
    BY <1>1 DEF Interruptible
  <2>2. intr' = [intr EXCEPT ![g][d] = [old EXCEPT !.dog = x]]
    BY <1>3
  <2>3. QED
    BY <2>1, <2>2, SetCall
<1>4. ASSUME NEW x \in {"none", "value", "error", "interrupt"},
             intr' = [intr EXCEPT ![g][d].answer = x]
      PROVE  /\ intr' \in [Goroutines -> [Depths -> Interruptible]]
             /\ intr'[g][d] = [old EXCEPT !.answer = x] /\ CallOnly(g, d)
  <2>1. [old EXCEPT !.answer = x] \in Interruptible
    BY <1>1 DEF Interruptible
  <2>2. intr' = [intr EXCEPT ![g][d] = [old EXCEPT !.answer = x]]
    BY <1>4
  <2>3. QED
    BY <2>1, <2>2, SetCall
<1>5. QED
  BY <1>1, <1>2, <1>3, <1>4

(* The invariant from one step that deals with one operation. *)
LEMMA FitsKept ==
  ASSUME Fits, NEW g \in Goroutines, NEW d \in Depths, FrameOnly(g, d),
         CallOnly(g, d), Suits(frame'[g][d], intr'[g][d])
  PROVE  Fits'
BY DEF Fits, FrameOnly, CallOnly

LEMMA LoadingKept ==
  ASSUME TypeOK, Loading, NEW g \in Goroutines, ~At(g, "guest"),
         NEW d \in Depths, FrameOnly(g, d), loaded' = loaded,
         \A h \in Goroutines \ {g} : depth'[h] = depth[h]
  PROVE  Loading'
<1> SUFFICES ASSUME loaded' # "no" PROVE \E h \in Goroutines : At(h, "guest")'
  BY DEF Loading
<1>1. PICK h \in Goroutines : At(h, "guest")
  BY DEF Loading
<1>2. h # g /\ depth[h] \in Depths /\ depth'[h] = depth[h]
  BY <1>1, TopType DEF At
<1>3. At(h, "guest")'
  BY <1>1, <1>2 DEF At, Top, FrameOnly
<1>4. QED
  BY <1>3

-----------------------------------------------------------------------------
(***************************************************************************)
(* The steps that change the record of an operation.                       *)
(***************************************************************************)
CallType == intr' \in [Goroutines -> [Depths -> Interruptible]]

(* The record of d but for its field answer, dog or ctx. *)
SameButAnswer(g, d) ==
  intr'[g][d].ctx = intr[g][d].ctx /\ intr'[g][d].dog = intr[g][d].dog
SameButDog(g, d) ==
  intr'[g][d].ctx = intr[g][d].ctx /\ intr'[g][d].answer = intr[g][d].answer
SameButCtx(g, d) ==
  intr'[g][d].dog = intr[g][d].dog /\ intr'[g][d].answer = intr[g][d].answer

LEMMA StartEffect ==
  ASSUME TypeOK, ITypeOK, NEW g \in Goroutines, StartOp(g)
  PROVE  \E d \in Depths :
           /\ d = depth[g] + 1 /\ depth'[g] = d
           /\ \A h \in Goroutines \ {g} : depth'[h] = depth[h]
           /\ FrameOnly(g, d) /\ CallOnly(g, d) /\ CallType
           /\ frame'[g][d].call = "op" /\ frame'[g][d].at = "queue"
           /\ intr'[g][d].dog = "off" /\ intr'[g][d].answer = "none"
<1>1. Push(g, "op", "queue")
  BY DEF StartOp, BeginOp
<1>2. /\ depth[g] + 1 \in Depths /\ depth'[g] = depth[g] + 1
      /\ \A h \in Goroutines \ {g} : depth'[h] = depth[h]
      /\ frame'[g][depth[g] + 1] =
           [call |-> "op", at |-> "queue", base |-> 0]
      /\ FrameOnly(g, depth[g] + 1)
  BY <1>1, PushFrame DEF Calls, Points, FrameOnly
<1>3. PICK ctx \in Contexts, loops \in BOOLEAN :
        intr' = [intr EXCEPT ![g][depth[g] + 1] =
                   [NoCall EXCEPT !.ctx = ctx, !.loops = loops]]
  BY DEF StartOp
<1> DEFINE new == [NoCall EXCEPT !.ctx = ctx, !.loops = loops]
<1>4. new \in Interruptible /\ new.dog = "off" /\ new.answer = "none"
  <2> DEFINE r == [NoCall EXCEPT !.ctx = ctx]
  <2>1. r \in Interruptible /\ r.dog = "off" /\ r.answer = "none"
    BY NoCallType, ContextsAssumption DEF Interruptible, NoCall
  <2>2. new = [r EXCEPT !.loops = loops]
    OBVIOUS
  <2> HIDE DEF r, new
  <2>3. QED
    BY <2>1, <2>2 DEF Interruptible
<1>5. intr' = [intr EXCEPT ![g][depth[g] + 1] = new]
  BY <1>3
<1> HIDE DEF new
<1>6. CallType /\ intr'[g][depth[g] + 1] = new /\ CallOnly(g, depth[g] + 1)
  BY <1>2, <1>4, <1>5, SetCall DEF CallType
<1>7. QED
  BY <1>2, <1>4, <1>6

LEMMA ArmEffect ==
  ASSUME TypeOK, ITypeOK, NEW g \in Goroutines, ArmInterrupt(g)
  PROVE  \E d \in Depths :
           /\ d = depth[g] /\ depth' = depth /\ FrameOnly(g, d)
           /\ frame[g][d].at = "arm"
           /\ frame'[g][d].call = "op" /\ frame'[g][d].at = "wait"
           /\ UNCHANGED <<bit, loaded, erased>>
           /\ \/ UNCHANGED <<staged, intr>>
              \/ /\ CallOnly(g, d) /\ CallType /\ SameButDog(g, d)
                 /\ intr'[g][d].dog = "armed" /\ staged' = TRUE
<1>1. depth[g] > 0 /\ Top(g).at = "arm" /\ GoTo(g, "op", "wait")
  BY DEF ArmInterrupt, Arm, At
<1>2. PICK d \in Depths : d = depth[g]
  BY <1>1, TopType
<1>3. /\ depth' = depth /\ FrameOnly(g, d) /\ frame[g][d].at = "arm"
      /\ frame'[g][d].call = "op" /\ frame'[g][d].at = "wait"
  <2>1. "op" \in Calls /\ "wait" \in Points
    BY DEF Calls, Points
  <2>2. /\ depth' = depth
        /\ frame'[g][d] = [call |-> "op", at |-> "wait", base |-> Top(g).base]
        /\ \A h \in Goroutines, e \in Depths :
             h # g \/ e # d => frame'[h][e] = frame[h][e]
    BY <1>1, <1>2, <2>1, GoToFrame
  <2>3. QED
    BY <1>1, <1>2, <2>2 DEF FrameOnly, Top
<1>4. CASE Current(g).ctx = "background"
  BY <1>2, <1>3, <1>4 DEF ArmInterrupt, ivars
<1>5. CASE Current(g).ctx # "background"
  <2>1. /\ UNCHANGED <<bit, loaded, erased>> /\ staged' = TRUE
        /\ intr' = [intr EXCEPT ![g][d].dog = "armed"]
    BY <1>2, <1>5 DEF ArmInterrupt
  <2>2. /\ CallType /\ CallOnly(g, d) /\ intr[g][d] \in Interruptible
        /\ intr'[g][d] = [intr[g][d] EXCEPT !.dog = "armed"]
    BY <2>1, SetField DEF CallType
  <2>3. SameButDog(g, d) /\ intr'[g][d].dog = "armed"
    BY <2>2 DEF SameButDog, Interruptible
  <2>4. QED
    BY <1>2, <1>3, <2>1, <2>2, <2>3
<1>6. QED
  BY <1>4, <1>5

LEMMA DisarmEffect ==
  ASSUME TypeOK, ITypeOK, NEW g \in Goroutines, DisarmInterrupt(g)
  PROVE  \E d \in Depths :
           /\ d = depth[g] /\ depth'[g] = d - 1
           /\ \A h \in Goroutines \ {g} : depth'[h] = depth[h]
           /\ FrameOnly(g, d) /\ CallOnly(g, d) /\ CallType
           /\ frame[g][d].at = "disarm" /\ frame'[g][d] = NoFrame
           /\ intr'[g][d] = NoCall
           /\ staged' = (staged /\ intr[g][d].dog = "off")
           /\ bit' = (bit /\ intr[g][d].dog # "fired")
           /\ UNCHANGED <<loaded, erased>>
<1>1. depth[g] > 0 /\ Top(g).at = "disarm" /\ Pop(g)
  BY DEF DisarmInterrupt, Disarm, At
<1>2. PICK d \in Depths : d = depth[g]
  BY <1>1, TopType
<1>3. /\ depth'[g] = d - 1 /\ FrameOnly(g, d) /\ frame[g][d].at = "disarm"
      /\ \A h \in Goroutines \ {g} : depth'[h] = depth[h]
      /\ frame'[g][d] = NoFrame
  BY <1>1, <1>2, PopFrame DEF FrameOnly, Top
<1>4. /\ intr' = [intr EXCEPT ![g][d] = NoCall]
      /\ staged' = (staged /\ intr[g][d].dog = "off")
      /\ bit' = (bit /\ intr[g][d].dog # "fired")
      /\ UNCHANGED <<loaded, erased>>
  BY <1>2 DEF DisarmInterrupt, Current
<1>5. CallType /\ intr'[g][d] = NoCall /\ CallOnly(g, d)
  BY <1>4, SetCall, NoCallType DEF CallType
<1>6. QED
  BY <1>2, <1>3, <1>4, <1>5

LEMMA CancelEffect ==
  ASSUME ITypeOK, NEW g \in Goroutines, NEW d \in Depths, CancelContext(g, d)
  PROVE  /\ CallOnly(g, d) /\ CallType /\ SameButCtx(g, d)
         /\ intr[g][d].ctx = "live" /\ intr'[g][d].ctx = "done"
         /\ UNCHANGED <<vars, staged, bit, loaded, erased>>
<1>1. /\ intr' = [intr EXCEPT ![g][d].ctx = "done"] /\ intr[g][d].ctx = "live"
      /\ UNCHANGED <<vars, staged, bit, loaded, erased>>
  BY DEF CancelContext
<1>2. /\ CallType /\ CallOnly(g, d) /\ intr[g][d] \in Interruptible
      /\ intr'[g][d] = [intr[g][d] EXCEPT !.ctx = "done"]
  BY <1>1, SetField DEF CallType
<1>3. SameButCtx(g, d) /\ intr'[g][d].ctx = "done"
  BY <1>2 DEF SameButCtx, Interruptible
<1>4. QED
  BY <1>1, <1>2, <1>3

LEMMA FireEffect ==
  ASSUME ITypeOK, NEW g \in Goroutines, NEW d \in Depths, FireInterrupt(g, d)
  PROVE  /\ CallOnly(g, d) /\ CallType /\ SameButDog(g, d)
         /\ intr[g][d].dog = "armed" /\ intr'[g][d].dog = "fired"
         /\ intr[g][d].ctx = "done" /\ bit' = TRUE
         /\ UNCHANGED <<vars, staged, loaded, erased>>
<1>1. /\ intr' = [intr EXCEPT ![g][d].dog = "fired"] /\ bit' = TRUE
      /\ intr[g][d].dog = "armed" /\ intr[g][d].ctx = "done"
      /\ UNCHANGED <<vars, staged, loaded, erased>>
  BY DEF FireInterrupt
<1>2. /\ CallType /\ CallOnly(g, d) /\ intr[g][d] \in Interruptible
      /\ intr'[g][d] = [intr[g][d] EXCEPT !.dog = "fired"]
  BY <1>1, SetField DEF CallType
<1>3. SameButDog(g, d) /\ intr'[g][d].dog = "fired"
  BY <1>2 DEF SameButDog, Interruptible
<1>4. QED
  BY <1>1, <1>2, <1>3

LEMMA QuitEffect ==
  ASSUME TypeOK, ITypeOK, NEW g \in Goroutines, Quit(g)
  PROVE  \E d \in Depths :
           /\ CallOnly(g, d) /\ CallType /\ SameButDog(g, d)
           /\ intr[g][d].dog = "armed" /\ intr'[g][d].dog = "quit"
           /\ UNCHANGED <<vars, staged, bit, loaded, erased>>
<1>1. depth[g] > 0 /\ Top(g).at = "disarm"
  BY DEF Quit, At
<1>2. PICK d \in Depths : d = depth[g]
  BY <1>1, TopType
<1>3. /\ intr' = [intr EXCEPT ![g][d].dog = "quit"] /\ intr[g][d].dog = "armed"
      /\ UNCHANGED <<vars, staged, bit, loaded, erased>>
  BY <1>2 DEF Quit, Current
<1>4. /\ CallType /\ CallOnly(g, d) /\ intr[g][d] \in Interruptible
      /\ intr'[g][d] = [intr[g][d] EXCEPT !.dog = "quit"]
  BY <1>3, SetField DEF CallType
<1>5. SameButDog(g, d) /\ intr'[g][d].dog = "quit"
  BY <1>4 DEF SameButDog, Interruptible
<1>6. QED
  BY <1>3, <1>4, <1>5

(* Poll's only effect on the records: an operation of g's own whose slot   *)
(* was full gets the interrupt.                                            *)
LEMMA PollEffect ==
  ASSUME TypeOK, ITypeOK, NEW g \in Goroutines, Poll(g)
  PROVE  \E d \in Depths :
           /\ d = depth[g] /\ frame[g][d].at = "guest" /\ bit
           /\ bit' = FALSE /\ staged' = FALSE
           /\ UNCHANGED <<vars, loaded, erased>>
           /\ \/ intr' = intr
              \/ /\ CallOnly(g, d) /\ CallType /\ SameButAnswer(g, d)
                 /\ frame[g][d].call = "op"
                 /\ intr'[g][d].answer = "interrupt"
<1>1. depth[g] > 0 /\ Top(g).at = "guest"
  BY DEF Poll, At
<1>2. PICK d \in Depths : d = depth[g]
  BY <1>1, TopType
<1>3. /\ bit /\ bit' = FALSE /\ staged' = FALSE /\ frame[g][d].at = "guest"
      /\ UNCHANGED <<vars, loaded, erased>>
  BY <1>1, <1>2 DEF Poll, Top
<1>4. CASE staged /\ Top(g).call = "op"
  <2>1. intr' = [intr EXCEPT ![g][d].answer = "interrupt"]
    BY <1>2, <1>4 DEF Poll
  <2>2. /\ CallType /\ CallOnly(g, d) /\ intr[g][d] \in Interruptible
        /\ intr'[g][d] = [intr[g][d] EXCEPT !.answer = "interrupt"]
    BY <2>1, SetField DEF CallType
  <2>3. SameButAnswer(g, d) /\ intr'[g][d].answer = "interrupt"
    BY <2>2 DEF SameButAnswer, Interruptible
  <2>4. QED
    BY <1>2, <1>3, <1>4, <2>2, <2>3 DEF Top
<1>5. CASE ~(staged /\ Top(g).call = "op")
  <2>1. intr' = intr
    BY <1>5 DEF Poll
  <2>2. QED
    BY <1>2, <1>3, <2>1
<1>6. QED
  BY <1>4, <1>5

LEMMA FinishEffect ==
  ASSUME TypeOK, ITypeOK, NEW g \in Goroutines, FinishOp(g)
  PROVE  \E d \in Depths :
           /\ d = depth[g] /\ depth' = depth /\ FrameOnly(g, d)
           /\ frame[g][d].at = "guest" /\ frame[g][d].call = "op"
           /\ frame'[g][d].call = "op" /\ frame'[g][d].at = "disarm"
           /\ loaded = "no" /\ UNCHANGED <<staged, bit, loaded, erased>>
           /\ CallOnly(g, d) /\ CallType /\ SameButAnswer(g, d)
           /\ intr'[g][d].answer = "interrupt" =>
                intr[g][d].answer = "interrupt"
<1>1. /\ depth[g] > 0 /\ Top(g).at = "guest" /\ Top(g).call = "op"
      /\ GoTo(g, "op", "disarm")
  BY DEF FinishOp, ReturnOp, LeaveGuest, At
<1>2. PICK d \in Depths : d = depth[g]
  BY <1>1, TopType
<1>3. /\ depth' = depth /\ FrameOnly(g, d)
      /\ frame[g][d].at = "guest" /\ frame[g][d].call = "op"
      /\ frame'[g][d].call = "op" /\ frame'[g][d].at = "disarm"
  <2>1. "op" \in Calls /\ "disarm" \in Points
    BY DEF Calls, Points
  <2>2. /\ depth' = depth
        /\ frame'[g][d] =
             [call |-> "op", at |-> "disarm", base |-> Top(g).base]
        /\ \A h \in Goroutines, e \in Depths :
             h # g \/ e # d => frame'[h][e] = frame[h][e]
    BY <1>1, <1>2, <2>1, GoToFrame
  <2>3. QED
    BY <1>1, <1>2, <2>2 DEF FrameOnly, Top
<1>4. loaded = "no" /\ UNCHANGED <<staged, bit, loaded, erased>>
  BY DEF FinishOp
<1>5. PICK answer \in {"value", "error", "interrupt"} :
        /\ answer = "interrupt" => intr[g][d].answer = "interrupt"
        /\ intr' = [intr EXCEPT ![g][d].answer = answer]
  BY <1>2 DEF FinishOp, Current
<1>6. /\ CallType /\ CallOnly(g, d) /\ intr[g][d] \in Interruptible
      /\ intr'[g][d] = [intr[g][d] EXCEPT !.answer = answer]
  BY <1>5, SetField DEF CallType
<1>7. SameButAnswer(g, d) /\ intr'[g][d].answer = answer
  BY <1>6 DEF SameButAnswer, Interruptible
<1>8. QED
  BY <1>2, <1>3, <1>4, <1>5, <1>6, <1>7

(* The other steps of Invoke, Close's first and last apart. *)
LEMMA OtherEffect ==
  ASSUME CloseInv, NEW g \in Goroutines, OtherStep(g),
         ~BeginClose(g), ~ReturnClose(g)
  PROVE  \E d \in Depths :
           /\ d = depth[g] /\ depth' = depth /\ FrameOnly(g, d)
           /\ frame[g][d].at = "guest" => loaded = "no"
           /\ \/ /\ frame'[g][d].call = frame[g][d].call
                 /\ frame'[g][d].at \notin {"queue", "arm"}
                 /\ frame[g][d].at # "none"
              \/ /\ frame'[g][d].call \in {"op", "drain"}
                 /\ \/ frame[g][d].at = "queue"
                    \/ frame[g][d].call = "drain"
<1>1. TypeOK
  BY DEF CloseInv, LockInv
<1>2. /\ depth[g] > 0
      /\ \/ Drain(g) \/ Lock(g) \/ HandlerReturn(g) \/ Relock(g)
         \/ loaded = "no" /\ (Callback(g) \/ ReturnDrain(g))
  BY DEF OtherStep, Drain, Lock, HandlerReturn, Relock, Callback, ReturnDrain,
     LeaveGuest, At
<1>3. PICK d \in Depths : d = depth[g] /\ Top(g) = frame[g][d]
  BY <1>1, <1>2, TopType DEF Top
<1>4. Top(g).call \in Calls
  BY <1>1, <1>2, TopType DEF Frame
<1>5. ASSUME NEW call \in Calls, NEW point \in Points, GoTo(g, call, point)
      PROVE  /\ depth' = depth /\ FrameOnly(g, d)
             /\ frame'[g][d].call = call /\ frame'[g][d].at = point
  <2>1. /\ depth' = depth
        /\ frame'[g][d] = [call |-> call, at |-> point, base |-> Top(g).base]
        /\ \A h \in Goroutines, e \in Depths :
             h # g \/ e # d => frame'[h][e] = frame[h][e]
    BY <1>1, <1>2, <1>3, <1>5, GoToFrame
  <2>2. QED
    BY <2>1 DEF FrameOnly
<1>6. CASE Drain(g)
  <2>1. PICK call \in {"drain", "op"}, point \in {"wait", "arm"} :
          GoTo(g, call, point)
    BY <1>6 DEF Drain
  <2>2. Top(g).at = "queue"
    BY <1>6 DEF Drain, At
  <2>3. call \in Calls /\ point \in Points
    BY DEF Calls, Points
  <2>4. /\ depth' = depth /\ FrameOnly(g, d)
        /\ frame'[g][d].call = call /\ frame'[g][d].at = point
    BY <1>5, <2>1, <2>3
  <2>5. QED
    BY <1>3, <2>2, <2>4
<1>7. CASE Lock(g)
  <2>1. /\ depth' = depth
        /\ frame'[g][d] = [call |-> Top(g).call, at |-> "guest", base |-> sp]
        /\ \A h \in Goroutines, e \in Depths :
             h # g \/ e # d => frame'[h][e] = frame[h][e]
    BY <1>1, <1>3, <1>7, LockFrame
  <2>2. Top(g).at = "wait"
    BY <1>7 DEF Lock, At
  <2>3. QED
    BY <1>3, <2>1, <2>2 DEF FrameOnly
<1>8. CASE \/ HandlerReturn(g) \/ Relock(g)
           \/ loaded = "no" /\ Callback(g)
  <2>1. PICK point \in {"guest", "handler", "relock"} :
          GoTo(g, Top(g).call, point)
    BY <1>8 DEF HandlerReturn, Relock, Callback
  <2>2. Top(g).at # "none" /\ (Top(g).at = "guest" => loaded = "no")
    BY <1>8 DEF HandlerReturn, Relock, Callback, At
  <2>3. /\ depth' = depth /\ FrameOnly(g, d)
        /\ frame'[g][d].call = Top(g).call /\ frame'[g][d].at = point
    BY <1>4, <1>5, <2>1 DEF Points
  <2>4. QED
    BY <1>3, <2>2, <2>3
<1>9. CASE loaded = "no" /\ ReturnDrain(g)
  <2>1. GoTo(g, "op", "arm") /\ Top(g).call = "drain"
    BY <1>9 DEF ReturnDrain
  <2>2. /\ depth' = depth /\ FrameOnly(g, d)
        /\ frame'[g][d].call = "op" /\ frame'[g][d].at = "arm"
    BY <1>5, <2>1 DEF Calls, Points
  <2>3. QED
    BY <1>3, <1>9, <2>1, <2>2
<1>10. QED
  BY <1>2, <1>6, <1>7, <1>8, <1>9

(* Close's frame takes the place above the innermost one, and leaves it.   *)
LEMMA CloseEffect ==
  ASSUME CloseInv, NEW g \in Goroutines, BeginClose(g) \/ ReturnClose(g)
  PROVE  \E d \in Depths :
           /\ FrameOnly(g, d)
           /\ \A h \in Goroutines \ {g} : depth'[h] = depth[h]
           /\ \/ /\ BeginClose(g)
                 /\ d = depth[g] + 1 /\ depth'[g] = d
                 /\ frame[g][d] = NoFrame
                 /\ frame'[g][d].call = "close" /\ frame'[g][d].at = "wait"
              \/ /\ ReturnClose(g)
                 /\ d = depth[g] /\ depth'[g] = d - 1
                 /\ frame[g][d].call = "close" /\ frame[g][d].at = "guest"
                 /\ frame'[g][d] = NoFrame
<1>1. TypeOK /\ Nested
  BY DEF CloseInv, LockInv
<1>2. CASE BeginClose(g)
  <2>1. Push(g, "close", "wait")
    BY <1>2 DEF BeginClose
  <2>2. /\ depth[g] + 1 \in Depths /\ depth'[g] = depth[g] + 1
        /\ \A h \in Goroutines \ {g} : depth'[h] = depth[h]
        /\ frame'[g][depth[g] + 1] =
             [call |-> "close", at |-> "wait", base |-> 0]
        /\ FrameOnly(g, depth[g] + 1)
    BY <1>1, <2>1, PushFrame DEF Calls, Points, FrameOnly
  <2>3. frame[g][depth[g] + 1] = NoFrame
    BY <1>1, <2>2 DEF Nested, TypeOK
  <2>4. QED
    BY <1>2, <2>2, <2>3
<1>3. CASE ReturnClose(g)
  <2>1. /\ depth[g] > 0 /\ Top(g).at = "guest" /\ Top(g).call = "close"
        /\ Pop(g)
    BY <1>3 DEF ReturnClose, LeaveGuest, At
  <2>2. PICK d \in Depths : d = depth[g]
    BY <1>1, <2>1, TopType
  <2>3. /\ depth'[g] = d - 1 /\ FrameOnly(g, d) /\ frame'[g][d] = NoFrame
        /\ \A h \in Goroutines \ {g} : depth'[h] = depth[h]
    BY <1>1, <2>1, <2>2, PopFrame DEF FrameOnly
  <2>4. QED
    BY <1>3, <2>1, <2>2, <2>3 DEF Top
<1>4. QED
  BY <1>2, <1>3

-----------------------------------------------------------------------------
(***************************************************************************)
(* The invariant.                                                          *)
(***************************************************************************)
LEMMA InUseKept ==
  ASSUME TypeOK, InUse, NEW g \in Goroutines, NEW d \in Depths,
         FrameOnly(g, d), \A h \in Goroutines \ {g} : depth'[h] = depth[h],
         depth'[g] \in Nat, depth'[g] <= d, d <= depth[g] + 1,
         d <= depth'[g] => frame'[g][d].call # "none"
  PROVE  InUse'
<1> SUFFICES ASSUME NEW h \in Goroutines, NEW e \in Depths, e <= depth'[h]
             PROVE  frame'[h][e].call # "none"
  BY DEF InUse
<1>1. CASE h # g
  BY <1>1 DEF InUse, FrameOnly
<1>2. CASE h = g /\ e # d
  <2>1. e <= depth[g]
    <3>1. e \in Nat /\ d \in Nat /\ depth[g] \in Nat /\ depth'[g] <= d
      BY DEF Depths, TypeOK
    <3>2. e <= d
      BY <1>2 DEF Depths
    <3>3. QED
      BY <1>2, <3>1, <3>2
  <2>2. QED
    BY <1>2, <2>1 DEF InUse, FrameOnly
<1>3. QED
  BY <1>1, <1>2

LEMMA InitIInv ==
  IInit => /\ IInv /\ Solo /\ StagedByArmed /\ BitByFired /\ InterruptsMeant
<1> SUFFICES ASSUME IInit
             PROVE  /\ IInv /\ Solo /\ StagedByArmed /\ BitByFired
                    /\ InterruptsMeant
  OBVIOUS
<1>1. CloseInv
  BY InitClose DEF IInit
<1>2. \A g \in Goroutines, d \in Depths :
        frame[g][d] = NoFrame /\ intr[g][d] = NoCall /\ depth[g] = 0
  BY DEF IInit, Init
<1>3. ITypeOK
  BY NoCallType DEF IInit, ITypeOK
<1>4. Fits
  BY <1>2 DEF Fits, Suits, NoFrame, NoCall
<1>5. InUse
  BY <1>2 DEF InUse, Depths
<1>6. Loading /\ StagedByArmed /\ BitByFired
  BY DEF IInit, Loading, StagedByArmed, BitByFired
<1>7. Solo
  BY DEF IInit, Init, Solo
<1>8. InterruptsMeant
  BY <1>2 DEF InterruptsMeant, NoCall
<1>9. QED
  BY <1>1, <1>3, <1>4, <1>5, <1>6, <1>7, <1>8 DEF IInv

(* The host's steps that change a record. *)
LEMMA HostKeeps ==
  ASSUME IInv, NEW g \in Goroutines,
         \/ StartOp(g) \/ ArmInterrupt(g) \/ Quit(g) \/ DisarmInterrupt(g)
         \/ \E d \in Depths : CancelContext(g, d) \/ FireInterrupt(g, d)
  PROVE  ITypeOK' /\ Fits' /\ InUse' /\ Loading'
<1>1. /\ TypeOK /\ ITypeOK /\ Fits /\ InUse /\ Loading
      /\ depth \in [Goroutines -> Nat]
  BY DEF IInv, CloseInv, LockInv, TypeOK
<1>2. CASE StartOp(g)
  <2>1. PICK d \in Depths :
          /\ d = depth[g] + 1 /\ depth'[g] = d
          /\ \A h \in Goroutines \ {g} : depth'[h] = depth[h]
          /\ FrameOnly(g, d) /\ CallOnly(g, d) /\ CallType
          /\ frame'[g][d].call = "op" /\ frame'[g][d].at = "queue"
          /\ intr'[g][d].dog = "off" /\ intr'[g][d].answer = "none"
    BY <1>1, <1>2, StartEffect
  <2>2. UNCHANGED <<staged, bit, loaded, erased>> /\ ~At(g, "guest")
    <3>1. InHostCode(g)
      BY <1>2 DEF StartOp, BeginOp
    <3>2. ~At(g, "guest")
      BY <1>1, <3>1 DEF InHostCode, At
    <3>3. QED
      BY <1>2, <3>2 DEF StartOp
  <2>3. ITypeOK'
    BY <1>1, <2>1, <2>2 DEF ITypeOK, CallType
  <2>4. Fits'
    BY <1>1, <2>1, FitsKept DEF Suits
  <2>5. InUse'
    BY <1>1, <2>1, InUseKept DEF Depths
  <2>6. Loading'
    BY <1>1, <2>1, <2>2, LoadingKept
  <2>7. QED
    BY <2>3, <2>4, <2>5, <2>6
<1>3. CASE ArmInterrupt(g)
  <2>1. PICK d \in Depths :
          /\ d = depth[g] /\ depth' = depth /\ FrameOnly(g, d)
          /\ frame[g][d].at = "arm"
          /\ frame'[g][d].call = "op" /\ frame'[g][d].at = "wait"
          /\ UNCHANGED <<bit, loaded, erased>>
          /\ \/ UNCHANGED <<staged, intr>>
             \/ /\ CallOnly(g, d) /\ CallType /\ SameButDog(g, d)
                /\ intr'[g][d].dog = "armed" /\ staged' = TRUE
    BY <1>1, <1>3, ArmEffect
  <2>2. CallOnly(g, d) /\ ITypeOK'
    BY <1>1, <2>1 DEF CallOnly, ITypeOK, CallType
  <2>3. Suits(frame'[g][d], intr'[g][d])
    BY <1>1, <2>1 DEF Fits, Suits
  <2>4. Fits'
    BY <1>1, <2>1, <2>2, <2>3, FitsKept
  <2>5. InUse'
    BY <1>1, <2>1, InUseKept DEF Depths
  <2>6. Loading'
    BY <1>1, <2>1, LoadingKept DEF At, Top
  <2>7. QED
    BY <2>2, <2>4, <2>5, <2>6
<1>4. CASE DisarmInterrupt(g)
  <2>1. PICK d \in Depths :
          /\ d = depth[g] /\ depth'[g] = d - 1
          /\ \A h \in Goroutines \ {g} : depth'[h] = depth[h]
          /\ FrameOnly(g, d) /\ CallOnly(g, d) /\ CallType
          /\ frame[g][d].at = "disarm" /\ frame'[g][d] = NoFrame
          /\ intr'[g][d] = NoCall
          /\ staged' = (staged /\ intr[g][d].dog = "off")
          /\ bit' = (bit /\ intr[g][d].dog # "fired")
          /\ UNCHANGED <<loaded, erased>>
    BY <1>1, <1>4, DisarmEffect
  <2>2. ITypeOK'
    <3>1. staged' \in BOOLEAN
      BY <2>1
    <3>2. bit' \in BOOLEAN
      BY <2>1
    <3>3. QED
      BY <1>1, <2>1, <3>1, <3>2 DEF ITypeOK, CallType
  <2>3. Fits'
    BY <1>1, <2>1, FitsKept DEF Suits, NoCall, NoFrame
  <2>4. InUse'
    BY <1>1, <2>1, InUseKept DEF Depths
  <2>5. Loading'
    BY <1>1, <2>1, LoadingKept DEF At, Top
  <2>6. QED
    BY <2>2, <2>3, <2>4, <2>5
<1>5. ASSUME NEW h \in Goroutines, NEW d \in Depths, UNCHANGED vars,
             CallOnly(h, d), CallType, staged' \in BOOLEAN, bit' \in BOOLEAN,
             UNCHANGED <<loaded, erased>>,
             SameButDog(h, d) \/ SameButCtx(h, d),
             intr[h][d].dog = "armed" \/ intr[h][d].ctx = "live",
             intr'[h][d].dog = "fired" => intr'[h][d].ctx = "done",
             intr[h][d].dog = "off" => intr'[h][d].dog = "off"
      PROVE  ITypeOK' /\ Fits' /\ InUse' /\ Loading'
  <2>1. ITypeOK'
    BY <1>1, <1>5 DEF ITypeOK, CallType
  <2>2. frame' = frame /\ depth' = depth
    BY <1>5 DEF vars
  <2>3. intr[h][d] # NoCall
    BY <1>5 DEF NoCall
  <2>4. Suits(frame'[h][d], intr'[h][d])
    BY <1>1, <1>5, <2>2, <2>3 DEF Fits, Suits
  <2>5. Fits'
    BY <1>1, <1>5, <2>2, <2>4, FitsKept DEF FrameOnly
  <2>6. InUse' /\ Loading'
    BY <1>1, <1>5, <2>2 DEF InUse, Loading, At, Top
  <2>7. QED
    BY <2>1, <2>5, <2>6
<1>6. CASE Quit(g)
  <2>1. PICK d \in Depths :
          /\ CallOnly(g, d) /\ CallType /\ SameButDog(g, d)
          /\ intr[g][d].dog = "armed" /\ intr'[g][d].dog = "quit"
          /\ UNCHANGED <<vars, staged, bit, loaded, erased>>
    BY <1>1, <1>6, QuitEffect
  <2>2. staged' \in BOOLEAN /\ bit' \in BOOLEAN
    BY <1>1, <2>1 DEF ITypeOK
  <2>3. QED
    BY <1>5, <2>1, <2>2
<1>7. ASSUME NEW d \in Depths, CancelContext(g, d)
      PROVE  ITypeOK' /\ Fits' /\ InUse' /\ Loading'
  <2>1. /\ CallOnly(g, d) /\ CallType /\ SameButCtx(g, d)
        /\ intr[g][d].ctx = "live" /\ intr'[g][d].ctx = "done"
        /\ UNCHANGED <<vars, staged, bit, loaded, erased>>
    BY <1>1, <1>7, CancelEffect
  <2>2. staged' \in BOOLEAN /\ bit' \in BOOLEAN
    BY <1>1, <2>1 DEF ITypeOK
  <2>3. QED
    BY <1>5, <2>1, <2>2 DEF SameButCtx
<1>8. ASSUME NEW d \in Depths, FireInterrupt(g, d)
      PROVE  ITypeOK' /\ Fits' /\ InUse' /\ Loading'
  <2>1. /\ CallOnly(g, d) /\ CallType /\ SameButDog(g, d)
        /\ intr[g][d].dog = "armed" /\ intr'[g][d].dog = "fired"
        /\ intr[g][d].ctx = "done" /\ bit' = TRUE
        /\ UNCHANGED <<vars, staged, loaded, erased>>
    BY <1>1, <1>8, FireEffect
  <2>2. staged' \in BOOLEAN /\ bit' \in BOOLEAN
    BY <1>1, <2>1 DEF ITypeOK
  <2>3. QED
    BY <1>5, <2>1, <2>2 DEF SameButDog
<1>9. QED
  BY <1>2, <1>3, <1>4, <1>6, <1>7, <1>8

(* The guest's steps, and those of Invoke that interruption does not       *)
(* touch.                                                                  *)
LEMMA GuestKeeps ==
  ASSUME IInv, NEW g \in Goroutines,
         \/ Poll(g) \/ LoadBreaker(g) \/ StoreBreaker(g) \/ FinishOp(g)
         \/ OtherStep(g)
  PROVE  ITypeOK' /\ Fits' /\ InUse' /\ Loading'
<1>1. /\ TypeOK /\ ITypeOK /\ Fits /\ InUse /\ Loading /\ Named /\ CloseFrames
      /\ CloseInv /\ depth \in [Goroutines -> Nat]
  BY DEF IInv, CloseInv, LockInv, TypeOK
<1>2. CASE Poll(g)
  <2>1. PICK d \in Depths :
          /\ d = depth[g] /\ frame[g][d].at = "guest" /\ bit
          /\ bit' = FALSE /\ staged' = FALSE
          /\ UNCHANGED <<vars, loaded, erased>>
          /\ \/ intr' = intr
             \/ /\ CallOnly(g, d) /\ CallType /\ SameButAnswer(g, d)
                /\ frame[g][d].call = "op"
                /\ intr'[g][d].answer = "interrupt"
    BY <1>1, <1>2, PollEffect
  <2>2. ITypeOK' /\ CallOnly(g, d)
    BY <1>1, <2>1 DEF ITypeOK, CallType, CallOnly
  <2>3. frame' = frame /\ depth' = depth
    BY <2>1 DEF vars
  <2>4. Suits(frame'[g][d], intr'[g][d])
    BY <1>1, <2>1, <2>3 DEF Fits, Suits, SameButAnswer
  <2>5. Fits'
    BY <1>1, <2>2, <2>3, <2>4, FitsKept DEF FrameOnly
  <2>6. InUse' /\ Loading'
    BY <1>1, <2>1, <2>3 DEF InUse, Loading, At, Top
  <2>7. QED
    BY <2>2, <2>5, <2>6
<1>3. CASE LoadBreaker(g) \/ StoreBreaker(g)
  <2>1. /\ UNCHANGED <<vars, intr>>
        /\ staged' = staged /\ bit' \in BOOLEAN /\ erased' \in BOOLEAN
        /\ loaded' \in {"no", "set", "clear"}
        /\ At(g, "guest")
    BY <1>1, <1>3 DEF LoadBreaker, StoreBreaker, ITypeOK
  <2>2. frame' = frame /\ depth' = depth /\ intr' = intr
    BY <2>1 DEF vars
  <2>3. ITypeOK'
    BY <1>1, <2>1, <2>2 DEF ITypeOK
  <2>4. At(g, "guest")'
    BY <2>1, <2>2 DEF At, Top
  <2>5. Fits' /\ InUse' /\ Loading'
    BY <1>1, <2>2, <2>4 DEF Fits, InUse, Loading
  <2>6. QED
    BY <2>3, <2>5
<1>4. CASE FinishOp(g)
  <2>1. PICK d \in Depths :
          /\ d = depth[g] /\ depth' = depth /\ FrameOnly(g, d)
          /\ frame[g][d].at = "guest" /\ frame[g][d].call = "op"
          /\ frame'[g][d].call = "op" /\ frame'[g][d].at = "disarm"
          /\ loaded = "no" /\ UNCHANGED <<staged, bit, loaded, erased>>
          /\ CallOnly(g, d) /\ CallType /\ SameButAnswer(g, d)
          /\ intr'[g][d].answer = "interrupt" =>
               intr[g][d].answer = "interrupt"
    BY <1>1, <1>4, FinishEffect
  <2>2. ITypeOK'
    BY <1>1, <2>1 DEF ITypeOK, CallType
  <2>3. Suits(frame'[g][d], intr'[g][d])
    BY <1>1, <2>1 DEF Fits, Suits, SameButAnswer
  <2>4. Fits'
    BY <1>1, <2>1, <2>3, FitsKept
  <2>5. InUse'
    BY <1>1, <2>1, InUseKept DEF Depths
  <2>6. Loading'
    BY <2>1 DEF Loading
  <2>7. QED
    BY <2>2, <2>4, <2>5, <2>6
<1>5. CASE OtherStep(g)
  <2>1. /\ UNCHANGED <<staged, bit, loaded, erased>> /\ intr' = intr
    BY <1>5 DEF OtherStep, ivars
  <2>2. ITypeOK' /\ \A d \in Depths : CallOnly(g, d)
    BY <1>1, <2>1 DEF ITypeOK, CallOnly
  <2>3. CASE ~BeginClose(g) /\ ~ReturnClose(g)
    <3>1. PICK d \in Depths :
            /\ d = depth[g] /\ depth' = depth /\ FrameOnly(g, d)
            /\ frame[g][d].at = "guest" => loaded = "no"
            /\ \/ /\ frame'[g][d].call = frame[g][d].call
                  /\ frame'[g][d].at \notin {"queue", "arm"}
                  /\ frame[g][d].at # "none"
               \/ /\ frame'[g][d].call \in {"op", "drain"}
                  /\ \/ frame[g][d].at = "queue"
                     \/ frame[g][d].call = "drain"
      BY <1>1, <1>5, <2>3, OtherEffect
    <3>2. Suits(frame[g][d], intr[g][d])
      BY <1>1 DEF Fits
    <3>3. Suits(frame'[g][d], intr'[g][d])
      BY <2>1, <3>1, <3>2 DEF Suits
    <3>4. Fits'
      BY <1>1, <2>2, <3>1, <3>3, FitsKept
    <3>5. frame[g][d].call # "none"
      BY <1>1, <3>1 DEF InUse
    <3>6. InUse'
      BY <1>1, <3>1, <3>5, InUseKept DEF Depths
    <3>7. CASE At(g, "guest")
      <4>1. loaded' = "no"
        BY <2>1, <3>1, <3>7 DEF At, Top
      <4>2. QED
        BY <2>2, <3>4, <3>6, <4>1 DEF Loading
    <3>8. CASE ~At(g, "guest")
      <4>1. Loading'
        BY <1>1, <2>1, <3>1, <3>8, LoadingKept
      <4>2. QED
        BY <2>2, <3>4, <3>6, <4>1
    <3>9. QED
      BY <3>7, <3>8
  <2>4. CASE BeginClose(g) \/ ReturnClose(g)
    <3>1. PICK d \in Depths :
            /\ FrameOnly(g, d)
            /\ \A h \in Goroutines \ {g} : depth'[h] = depth[h]
            /\ \/ /\ BeginClose(g)
                  /\ d = depth[g] + 1 /\ depth'[g] = d
                  /\ frame[g][d] = NoFrame
                  /\ frame'[g][d].call = "close" /\ frame'[g][d].at = "wait"
               \/ /\ ReturnClose(g)
                  /\ d = depth[g] /\ depth'[g] = d - 1
                  /\ frame[g][d].call = "close" /\ frame[g][d].at = "guest"
                  /\ frame'[g][d] = NoFrame
      BY <1>1, <2>4, CloseEffect
    <3>2. Suits(frame[g][d], intr[g][d])
      BY <1>1 DEF Fits
    <3>3. Suits(frame'[g][d], intr'[g][d])
      <4>1. intr[g][d] = NoCall
        BY <3>1, <3>2 DEF Suits, NoFrame
      <4>2. QED
        BY <2>1, <3>1, <4>1 DEF Suits, NoFrame, NoCall
    <3>4. Fits'
      BY <1>1, <2>2, <3>1, <3>3, FitsKept
    <3>5. InUse'
      BY <1>1, <3>1, InUseKept DEF Depths
    <3>6. Loading'
      <4>1. CASE BeginClose(g)
        <5>1. ~At(g, "guest")
          BY <1>1, <4>1 DEF BeginClose, InHostCode, At
        <5>2. QED
          BY <1>1, <2>1, <3>1, <5>1, LoadingKept
      <4>2. CASE ReturnClose(g)
        <5>1. At(g, "guest") /\ ~BeginClose(g)
          BY <1>1, <4>2 DEF ReturnClose, LeaveGuest, BeginClose, InHostCode, At
        <5>2. loaded = "no"
          BY <1>5, <5>1 DEF OtherStep, Drain, Lock, HandlerReturn, Relock, At
        <5>3. QED
          BY <2>1, <5>2 DEF Loading
      <4>3. QED
        BY <2>4, <4>1, <4>2
    <3>7. QED
      BY <2>2, <3>4, <3>5, <3>6
  <2>5. QED
    BY <2>3, <2>4
<1>6. QED
  BY <1>2, <1>3, <1>4, <1>5

LEMMA NextIInv == IInv /\ [INext]_allVars => IInv'
<1> SUFFICES ASSUME IInv, [INext]_allVars PROVE IInv'
  OBVIOUS
<1>1. CloseInv'
  BY StepOfInvoke, NextClose DEF IInv
<1>2. ASSUME \/ UNCHANGED allVars
             \/ QueueRelease /\ UNCHANGED ivars
      PROVE  IInv'
  <2>1. UNCHANGED <<staged, bit, loaded, erased, intr, frame, depth>>
    BY <1>2 DEF allVars, QueueRelease, ivars
  <2>2. QED
    BY <1>1, <2>1 DEF IInv, ITypeOK, Fits, InUse, Loading, At, Top
<1>3. ASSUME NEW g \in Goroutines,
             \/ StartOp(g) \/ ArmInterrupt(g) \/ Quit(g) \/ DisarmInterrupt(g)
             \/ Poll(g) \/ LoadBreaker(g) \/ StoreBreaker(g) \/ FinishOp(g)
             \/ OtherStep(g)
             \/ \E d \in Depths : CancelContext(g, d) \/ FireInterrupt(g, d)
      PROVE  IInv'
  <2>1. ITypeOK' /\ Fits' /\ InUse' /\ Loading'
    BY <1>3, HostKeeps, GuestKeeps
  <2>2. QED
    BY <1>1, <2>1 DEF IInv
<1>4. QED
  BY <1>2, <1>3 DEF INext

(* The variables of Interrupt have their types. *)
THEOREM InterruptTypes == ISpec => []ITypeOK
<1>1. IInit => IInv
  BY InitIInv
<1>2. IInv /\ [INext]_allVars => IInv'
  BY NextIInv
<1>3. IInv => ITypeOK
  BY DEF IInv
<1>4. QED
  BY <1>1, <1>2, <1>3, PTL DEF ISpec

-----------------------------------------------------------------------------
(***************************************************************************)
(* What becomes of a watchdog and of an answer.                            *)
(***************************************************************************)

(* The record is in use, so its frame is that of an open operation.        *)
LEMMA FiredOpen ==
  ASSUME IInv, NEW g \in Goroutines, NEW d \in Depths, intr[g][d] # NoCall
  PROVE  d <= depth[g]
<1>1. frame[g][d] # NoFrame
  BY DEF IInv, Fits, Suits, NoFrame
<1>2. depth[g] \in Nat /\ d \in Nat
  BY DEF IInv, CloseInv, LockInv, TypeOK, Depths
<1>3. QED
  BY <1>1, <1>2 DEF IInv, CloseInv, LockInv, Nested

(* No step but its own disarm stops a watchdog that fired or puts a        *)
(* watchdog off, and only Poll interrupts.                                 *)
Lasts(g, d) ==
  /\ intr[g][d].dog = "fired" => intr'[g][d].dog = "fired"
  /\ intr[g][d].dog # "off" => intr'[g][d].dog # "off"

LEMMA DogLasts ==
  ASSUME IInv, [INext]_allVars, NEW g \in Goroutines, NEW d \in Depths,
         ~(DisarmInterrupt(g) /\ d = depth[g])
  PROVE  Lasts(g, d)
<1>1. TypeOK /\ ITypeOK /\ Fits
  BY DEF IInv, CloseInv, LockInv
<1>2. ASSUME intr' = intr PROVE Lasts(g, d)
  BY <1>2 DEF Lasts
<1>3. ASSUME NEW h \in Goroutines, NEW e \in Depths, CallOnly(h, e),
             h = g /\ e = d => Lasts(g, d)
      PROVE  Lasts(g, d)
  BY <1>3 DEF CallOnly, Lasts
<1>4. ASSUME NEW h \in Goroutines, StartOp(h) PROVE Lasts(g, d)
  <2>1. PICK e \in Depths : e = depth[h] + 1 /\ CallOnly(h, e)
    BY <1>1, <1>4, StartEffect
  <2>2. depth[h] \in Nat
    BY <1>1 DEF TypeOK
  <2>3. intr[h][e] = NoCall
    BY <2>1, <2>2, FiredOpen
  <2>4. QED
    BY <1>3, <2>1, <2>3 DEF Lasts, NoCall
<1>5. ASSUME NEW h \in Goroutines, ArmInterrupt(h) PROVE Lasts(g, d)
  <2>1. PICK e \in Depths :
          /\ frame[h][e].at = "arm"
          /\ intr' = intr \/ CallOnly(h, e)
    BY <1>1, <1>5, ArmEffect
  <2>2. intr[h][e].dog = "off"
    BY <1>1, <2>1 DEF Fits, Suits
  <2>3. QED
    BY <1>2, <1>3, <2>1, <2>2 DEF Lasts
<1>6. ASSUME NEW h \in Goroutines, DisarmInterrupt(h) PROVE Lasts(g, d)
  <2>1. PICK e \in Depths : e = depth[h] /\ CallOnly(h, e)
    BY <1>1, <1>6, DisarmEffect
  <2>2. QED
    BY <1>3, <1>6, <2>1
<1>7. ASSUME NEW h \in Goroutines,
             \/ Quit(h) \/ Poll(h) \/ FinishOp(h)
             \/ \E e \in Depths : CancelContext(h, e) \/ FireInterrupt(h, e)
      PROVE  Lasts(g, d)
  <2>1. \/ intr' = intr
        \/ \E e \in Depths :
             /\ CallOnly(h, e)
             /\ \/ SameButAnswer(h, e) \/ SameButCtx(h, e)
                \/ intr[h][e].dog = "armed" /\ intr'[h][e].dog # "off"
    BY <1>1, <1>7, QuitEffect, PollEffect, FinishEffect, CancelEffect,
       FireEffect
  <2>2. ASSUME NEW e \in Depths, CallOnly(h, e),
               \/ SameButAnswer(h, e) \/ SameButCtx(h, e)
               \/ intr[h][e].dog = "armed" /\ intr'[h][e].dog # "off"
        PROVE  Lasts(g, d)
    BY <1>3, <2>2 DEF Lasts, SameButAnswer, SameButCtx
  <2>3. QED
    BY <1>2, <2>1, <2>2
<1>8. ASSUME NEW h \in Goroutines,
             LoadBreaker(h) \/ StoreBreaker(h) \/ OtherStep(h)
      PROVE  intr' = intr
  BY <1>8 DEF LoadBreaker, StoreBreaker, OtherStep, ivars
<1>9. CASE UNCHANGED allVars \/ UNCHANGED ivars
  BY <1>2, <1>9 DEF allVars, ivars
<1>10. QED
  BY <1>2, <1>4, <1>5, <1>6, <1>7, <1>8, <1>9 DEF INext

LEMMA OnlyPollInterrupts ==
  ASSUME IInv, [INext]_allVars, NEW g \in Goroutines, NEW d \in Depths,
         intr'[g][d].answer = "interrupt", intr[g][d].answer # "interrupt"
  PROVE  Poll(g) /\ d = depth[g]
<1>1. TypeOK /\ ITypeOK
  BY DEF IInv, CloseInv, LockInv
<1>2. ASSUME NEW h \in Goroutines, NEW e \in Depths, CallOnly(h, e)
      PROVE  h = g /\ e = d
  BY <1>2 DEF CallOnly
<1>3. ASSUME NEW h \in Goroutines, StartOp(h) \/ DisarmInterrupt(h)
      PROVE  FALSE
  <2>1. PICK e \in Depths :
          CallOnly(h, e) /\ intr'[h][e].answer = "none"
    BY <1>1, <1>3, StartEffect, DisarmEffect DEF NoCall
  <2>2. QED
    BY <1>2, <2>1
<1>4. ASSUME NEW h \in Goroutines,
             \/ ArmInterrupt(h) \/ Quit(h)
             \/ \E e \in Depths : CancelContext(h, e) \/ FireInterrupt(h, e)
      PROVE  FALSE
  <2>1. \/ intr' = intr
        \/ \E e \in Depths :
             CallOnly(h, e) /\ intr'[h][e].answer = intr[h][e].answer
    <3>1. CASE ArmInterrupt(h)
      <4>1. PICK e \in Depths :
              \/ intr' = intr
              \/ CallOnly(h, e) /\ SameButDog(h, e)
        BY <1>1, <3>1, ArmEffect
      <4>2. QED
        BY <4>1 DEF SameButDog
    <3>2. CASE Quit(h)
      BY <1>1, <3>2, QuitEffect DEF SameButDog
    <3>3. ASSUME NEW e \in Depths, CancelContext(h, e) \/ FireInterrupt(h, e)
          PROVE  CallOnly(h, e) /\ intr'[h][e].answer = intr[h][e].answer
      BY <1>1, <3>3, CancelEffect, FireEffect DEF SameButDog, SameButCtx
    <3>4. QED
      BY <1>4, <3>1, <3>2, <3>3
  <2>2. QED
    BY <1>2, <2>1
<1>5. ASSUME NEW h \in Goroutines, FinishOp(h) PROVE FALSE
  <2>1. PICK e \in Depths :
          /\ CallOnly(h, e)
          /\ intr'[h][e].answer = "interrupt" =>
               intr[h][e].answer = "interrupt"
    BY <1>1, <1>5, FinishEffect
  <2>2. QED
    BY <1>2, <2>1
<1>6. ASSUME NEW h \in Goroutines, Poll(h) PROVE h = g /\ d = depth[g]
  <2>1. PICK e \in Depths : e = depth[h] /\ (intr' = intr \/ CallOnly(h, e))
    BY <1>1, <1>6, PollEffect
  <2>2. QED
    BY <1>2, <2>1
<1>7. intr' # intr
  OBVIOUS
<1>8. ASSUME NEW h \in Goroutines,
             LoadBreaker(h) \/ StoreBreaker(h) \/ OtherStep(h)
      PROVE  FALSE
  BY <1>7, <1>8 DEF LoadBreaker, StoreBreaker, OtherStep, ivars
<1>9. ~UNCHANGED allVars /\ ~UNCHANGED ivars
  BY <1>7 DEF allVars, ivars
<1>10. QED
  BY <1>3, <1>4, <1>5, <1>6, <1>8, <1>9 DEF INext

-----------------------------------------------------------------------------
(***************************************************************************)
(* What is staged and what is set.                                         *)
(***************************************************************************)

(* How the slot and the breaker change, as far as the invariants care.     *)
LEMMA StagedStep ==
  ASSUME IInv, StagedByArmed, [INext]_allVars PROVE StagedByArmed'
<1>1. TypeOK /\ ITypeOK
  BY DEF IInv, CloseInv, LockInv
<1>2. ASSUME \A g \in Goroutines : ~DisarmInterrupt(g),
             staged' => staged
      PROVE  StagedByArmed'
  <2>1. ASSUME staged' PROVE Armed'
    <3>1. PICK g \in Goroutines, d \in Depths : intr[g][d].dog # "off"
      BY <1>2, <2>1 DEF StagedByArmed, Armed
    <3>2. intr'[g][d].dog # "off"
      BY <1>2, <3>1, DogLasts DEF Lasts
    <3>3. QED
      BY <3>2 DEF Armed
  <2>2. QED
    BY <2>1 DEF StagedByArmed
<1>3. ASSUME NEW g \in Goroutines, DisarmInterrupt(g) PROVE StagedByArmed'
  <2>1. PICK d \in Depths :
          /\ d = depth[g] /\ CallOnly(g, d)
          /\ staged' = (staged /\ intr[g][d].dog = "off")
    BY <1>1, <1>3, DisarmEffect
  <2>2. ASSUME staged' PROVE Armed'
    <3>1. staged /\ intr[g][d].dog = "off"
      BY <2>1, <2>2
    <3>2. PICK h \in Goroutines, e \in Depths : intr[h][e].dog # "off"
      BY <3>1 DEF StagedByArmed, Armed
    <3>3. intr'[h][e].dog # "off"
      BY <2>1, <3>1, <3>2 DEF CallOnly
    <3>4. QED
      BY <3>3 DEF Armed
  <2>3. QED
    BY <2>2 DEF StagedByArmed
<1>4. ASSUME NEW g \in Goroutines, ArmInterrupt(g),
             \A h \in Goroutines : ~DisarmInterrupt(h)
      PROVE  StagedByArmed'
  <2>1. PICK d \in Depths :
          \/ staged' = staged
          \/ intr'[g][d].dog = "armed"
    BY <1>1, <1>4, ArmEffect
  <2>2. CASE staged' = staged
    BY <1>2, <1>4, <2>2
  <2>3. CASE intr'[g][d].dog = "armed"
    BY <2>3 DEF StagedByArmed, Armed
  <2>4. QED
    BY <2>1, <2>2, <2>3
<1>5. ASSUME \A g \in Goroutines : ~ArmInterrupt(g) /\ ~DisarmInterrupt(g)
      PROVE  staged' => staged
  BY <1>5 DEF INext, StartOp, Quit, Poll, LoadBreaker, StoreBreaker, FinishOp,
     OtherStep, CancelContext, FireInterrupt, ivars, allVars
<1>6. QED
  BY <1>2, <1>3, <1>4, <1>5

(* Only one goroutine has operations open, if they may not overlap and     *)
(* Close waits for them.                                                   *)
LEMMA SoloStep ==
  ASSUME ~Overlap, ~CloseRaces, IInv, Solo, [INext]_allVars PROVE Solo'
<1>1. TypeOK /\ ITypeOK /\ CloseInv /\ depth \in [Goroutines -> Nat]
  BY DEF IInv, CloseInv, LockInv, TypeOK
<1>2. ASSUME \A h \in Goroutines : depth'[h] > 0 => depth[h] > 0
      PROVE  Solo'
  BY <1>2 DEF Solo
<1>3. ASSUME NEW g \in Goroutines,
             \A h \in Goroutines \ {g} : depth[h] = 0 /\ depth'[h] = depth[h]
      PROVE  Solo'
  BY <1>3 DEF Solo
<1>4. ASSUME NEW g \in Goroutines, StartOp(g) PROVE Solo'
  <2>1. \A h \in Goroutines \ {g} : depth'[h] = depth[h]
    BY <1>1, <1>4, StartEffect
  <2>2. QED
    BY <1>3, <1>4, <2>1 DEF StartOp
<1>5. ASSUME NEW g \in Goroutines, BeginClose(g) PROVE Solo'
  <2>1. \A h \in Goroutines \ {g} : depth'[h] = depth[h]
    BY <1>1, <1>5, CloseEffect
  <2>2. NothingOpen /\ ~closed
    BY <1>5 DEF BeginClose
  <2>3. \A h \in Goroutines, d \in Depths : frame[h][d].call = "none"
    BY <1>1, <2>2 DEF NothingOpen, CloseInv, CloseFrames
  <2>4. ASSUME NEW h \in Goroutines, depth[h] > 0 PROVE FALSE
    <3>1. depth[h] \in Depths /\ depth[h] <= depth[h]
      BY <1>1, <2>4, TopType
    <3>2. QED
      BY <2>3, <3>1 DEF IInv, InUse
  <2>5. \A h \in Goroutines : depth[h] = 0
    BY <1>1, <2>4
  <2>6. QED
    BY <1>3, <2>1, <2>5
<1>6. ASSUME NEW g \in Goroutines, DisarmInterrupt(g) \/ ReturnClose(g)
      PROVE  Solo'
  <2>1. depth[g] > 0
    BY <1>6 DEF DisarmInterrupt, Disarm, ReturnClose, LeaveGuest, At
  <2>2. \A h \in Goroutines \ {g} : depth'[h] = depth[h]
    <3>1. Pop(g)
      BY <1>6 DEF DisarmInterrupt, Disarm, ReturnClose
    <3>2. QED
      BY <1>1, <2>1, <3>1, PopFrame
  <2>3. QED
    BY <1>2, <2>1, <2>2
<1>7. ASSUME NEW g \in Goroutines,
             \/ ArmInterrupt(g) \/ Quit(g) \/ Poll(g) \/ LoadBreaker(g)
             \/ StoreBreaker(g) \/ FinishOp(g)
             \/ OtherStep(g) /\ ~BeginClose(g) /\ ~ReturnClose(g)
             \/ \E d \in Depths : CancelContext(g, d) \/ FireInterrupt(g, d)
      PROVE  depth' = depth
  BY <1>7 DEF ArmInterrupt, Arm, Quit, Poll, LoadBreaker, StoreBreaker,
     FinishOp, ReturnOp, OtherStep, Drain, Lock, HandlerReturn, Relock,
     Callback, ReturnDrain, GoTo, CancelContext, FireInterrupt, vars
<1>8. ASSUME UNCHANGED allVars \/ QueueRelease PROVE depth' = depth
  BY <1>8 DEF allVars, QueueRelease
<1>9. QED
  BY <1>2, <1>4, <1>5, <1>6, <1>7, <1>8 DEF INext

(* Guest code that writes the breaker is harmless when operations do not   *)
(* overlap: no watchdog is disarmed between its load and its store.        *)
BreakerIdle == GuestWritesBreaker \/ loaded = "no"

LEMMA BreakerIdleStep ==
  ASSUME BreakerIdle, [INext]_allVars PROVE BreakerIdle'
BY DEF BreakerIdle, INext, StartOp, ArmInterrupt, Quit, DisarmInterrupt, Poll,
   LoadBreaker, StoreBreaker, FinishOp, OtherStep, CancelContext,
   FireInterrupt, ivars, allVars

LEMMA BitStep ==
  ASSUME IInv, BitByFired, Solo \/ loaded = "no", [INext]_allVars
  PROVE  BitByFired'
<1>1. TypeOK /\ ITypeOK
  BY DEF IInv, CloseInv, LockInv
<1>2. CASE \E g \in Goroutines : DisarmInterrupt(g)
  <2>1. PICK g \in Goroutines : DisarmInterrupt(g)
    BY <1>2
  <2>2. PICK d \in Depths :
          /\ d = depth[g] /\ CallOnly(g, d)
          /\ frame[g][d].at = "disarm"
          /\ bit' = (bit /\ intr[g][d].dog # "fired")
          /\ loaded' = loaded
    BY <1>1, <2>1, DisarmEffect
  <2>3. loaded = "no"
    <3> SUFFICES ASSUME loaded # "no" PROVE FALSE
      OBVIOUS
    <3>1. PICK h \in Goroutines : At(h, "guest")
      BY DEF IInv, Loading
    <3>2. depth[g] > 0
      BY <2>1 DEF DisarmInterrupt, Disarm, At
    <3>3. h = g
      BY <3>1, <3>2 DEF Solo, At
    <3>4. QED
      BY <2>2, <3>1, <3>3 DEF At, Top
  <2>4. ASSUME bit' PROVE Fired'
    <3>1. bit /\ intr[g][d].dog # "fired"
      BY <2>2, <2>4
    <3>2. PICK h \in Goroutines, e \in Depths : intr[h][e].dog = "fired"
      BY <3>1 DEF BitByFired, Fired
    <3>3. intr'[h][e].dog = "fired"
      BY <2>2, <3>1, <3>2 DEF CallOnly
    <3>4. QED
      BY <3>3 DEF Fired
  <2>5. QED
    BY <2>2, <2>3, <2>4 DEF BitByFired
<1>3. CASE \A g \in Goroutines : ~DisarmInterrupt(g)
  <2>1. Fired => Fired'
    <3> SUFFICES ASSUME Fired PROVE Fired'
      OBVIOUS
    <3>1. PICK g \in Goroutines, d \in Depths : intr[g][d].dog = "fired"
      BY DEF Fired
    <3>2. intr'[g][d].dog = "fired"
      BY <1>3, <3>1, DogLasts DEF Lasts
    <3>3. QED
      BY <3>2 DEF Fired
  <2>2. ASSUME NEW g \in Goroutines, NEW d \in Depths, FireInterrupt(g, d)
        PROVE  Fired'
    BY <1>1, <2>2, FireEffect DEF Fired
  <2>3. ASSUME \A g \in Goroutines, d \in Depths : ~FireInterrupt(g, d),
               bit' \/ loaded' = "set"
        PROVE  bit \/ loaded = "set"
    BY <1>3, <2>3 DEF INext, StartOp, ArmInterrupt, Quit, Poll, LoadBreaker,
       StoreBreaker, FinishOp, OtherStep, CancelContext, ivars, allVars
  <2>4. QED
    BY <2>1, <2>2, <2>3 DEF BitByFired
<1>4. QED
  BY <1>2, <1>3

(* "A lingering flag would poison the next call": an interrupt is staged   *)
(* only while a cancellable operation is between arming and disarming, and *)
(* the bit is set only while one whose watchdog fired is, however many     *)
(* goroutines there are and however deep they nest.  The proviso for the   *)
(* bit is what the code relies on: no guest code is between the load and   *)
(* the store of the breaker when a watchdog is disarmed.                   *)
THEOREM NothingStaysSet ==
  ASSUME ~GuestWritesBreaker \/ (~Overlap /\ ~CloseRaces)
  PROVE  ISpec => []NothingLingers
<1> DEFINE Quiet == (~Overlap /\ ~CloseRaces => Solo) /\ BreakerIdle
           Inv == IInv /\ Quiet /\ StagedByArmed /\ BitByFired
<1>1. IInit => Inv
  BY InitIInv DEF IInit, BreakerIdle
<1>2. Inv /\ [INext]_allVars => Inv'
  <2> SUFFICES ASSUME Inv, [INext]_allVars PROVE Inv'
    OBVIOUS
  <2>1. IInv' /\ StagedByArmed' /\ BreakerIdle'
    BY NextIInv, StagedStep, BreakerIdleStep
  <2>2. ~Overlap /\ ~CloseRaces => Solo'
    BY SoloStep
  <2>3. Solo \/ loaded = "no"
    BY DEF BreakerIdle
  <2>4. BitByFired'
    BY <2>3, BitStep
  <2>5. QED
    BY <2>1, <2>2, <2>4
<1>3. Inv => NothingLingers
  BY DEF StagedByArmed, BitByFired, Armed, Fired, NothingLingers
<1>4. QED
  BY <1>1, <1>2, <1>3, PTL DEF ISpec

LEMMA MeantStep ==
  ASSUME IInv, Solo, BitByFired, InterruptsMeant, [INext]_allVars
  PROVE  InterruptsMeant'
<1> SUFFICES ASSUME NEW g \in Goroutines, NEW d \in Depths,
                    intr'[g][d].answer = "interrupt"
             PROVE  \E e \in 1 .. d : intr'[g][e].dog = "fired"
  BY DEF InterruptsMeant
<1>1. TypeOK /\ ITypeOK /\ \A h \in Goroutines : depth[h] \in Nat
  BY DEF IInv, CloseInv, LockInv, TypeOK
<1>2. \A e \in 1 .. d : e \in Depths
  BY BoundsAssumption DEF Depths
<1>3. CASE intr[g][d].answer # "interrupt"
  <2>1. Poll(g) /\ d = depth[g]
    BY <1>3, OnlyPollInterrupts
  <2>2. bit /\ depth[g] > 0 /\ ~DisarmInterrupt(g)
    BY <2>1 DEF Poll, DisarmInterrupt, Disarm, At
  <2>3. PICK h \in Goroutines, e \in Depths : intr[h][e].dog = "fired"
    BY <2>2 DEF BitByFired, Fired
  <2>4. e <= depth[h]
    BY <2>3, FiredOpen DEF NoCall
  <2>5. h = g
    BY <1>1, <2>2, <2>4 DEF Solo, Depths
  <2>6. e \in 1 .. d
    BY <2>1, <2>4, <2>5 DEF Depths
  <2>7. intr'[g][e].dog = "fired"
    BY <2>2, <2>3, <2>5, DogLasts DEF Lasts
  <2>8. QED
    BY <2>6, <2>7
<1>4. CASE intr[g][d].answer = "interrupt"
  <2>1. PICK e \in 1 .. d : intr[g][e].dog = "fired"
    BY <1>4 DEF InterruptsMeant
  <2>2. e \in Depths /\ e <= d
    BY <1>2, <2>1
  <2>3. ASSUME DisarmInterrupt(g), e = depth[g] PROVE FALSE
    <3>1. d <= depth[g]
      BY <1>4, FiredOpen DEF NoCall
    <3>2. d = depth[g]
      BY <1>1, <2>2, <2>3, <3>1 DEF Depths
    <3>3. intr'[g][d] = NoCall
      BY <1>1, <2>3, <3>2, DisarmEffect
    <3>4. QED
      BY <3>3 DEF NoCall
  <2>4. intr'[g][e].dog = "fired"
    BY <2>1, <2>2, <2>3, DogLasts DEF Lasts
  <2>5. QED
    BY <2>4
<1>5. QED
  BY <1>3, <1>4

LEMMA MeantInv ==
  ASSUME ~Overlap, ~CloseRaces PROVE ISpec => [](IInv /\ InterruptsMeant)
<1> DEFINE Inv == IInv /\ Solo /\ BitByFired /\ InterruptsMeant
<1>1. IInit => Inv
  BY InitIInv
<1>2. Inv /\ [INext]_allVars => Inv'
  BY NextIInv, SoloStep, BitStep, MeantStep
<1>3. QED
  BY <1>1, <1>2, PTL DEF ISpec

(* When operations do not overlap, KeyboardInterrupt is raised only in an  *)
(* operation whose context is done or that such an operation's Go function *)
(* called back in for, at any depth of nesting; the run                    *)
(* InterruptNestedLost shows what becomes of the outer one then.           *)
THEOREM InterruptsInside ==
  ASSUME ~Overlap, ~CloseRaces PROVE ISpec => []InterruptsMeant
BY MeantInv, PTL

(* And with no nesting it is raised only in the operation whose own        *)
(* context is done, for any number of goroutines that take turns.          *)
THEOREM NoneAstray ==
  ASSUME ~Overlap, ~CloseRaces, MaxDepth = 1
  PROVE  ISpec => []NoStrayInterrupt
<1>1. IInv /\ InterruptsMeant => NoStrayInterrupt
  <2> SUFFICES ASSUME IInv, InterruptsMeant,
                      NEW g \in Goroutines, NEW d \in Depths,
                      intr[g][d].answer = "interrupt"
               PROVE  intr[g][d].ctx = "done"
    BY DEF NoStrayInterrupt
  <2>1. d = 1
    BY DEF Depths
  <2>2. intr[g][d].dog = "fired"
    BY <2>1 DEF InterruptsMeant
  <2>3. QED
    BY <2>2 DEF IInv, Fits, Suits
<1>2. QED
  BY <1>1, MeantInv, PTL

(* Eval returns ctx.Err() for a call that was interrupted and the Python   *)
(* exception for one that raised it in a context that is not done.         *)
THEOREM OutcomesHonest ==
  ASSUME ~Overlap, ~CloseRaces, MaxDepth = 1
  PROVE  ISpec => OutcomeHonest
<1> DEFINE Honest ==
      \A g \in Goroutines : DisarmInterrupt(g) =>
        /\ Current(g).answer = "interrupt" => Outcome(Current(g)) = "ctx.Err"
        /\ Current(g).answer = "error" /\ Current(g).ctx # "done" =>
             Outcome(Current(g)) = "PythonError"
<1>1. IInv /\ InterruptsMeant /\ [INext]_allVars => [Honest]_allVars
  <2> SUFFICES ASSUME IInv, InterruptsMeant,
                      NEW g \in Goroutines, DisarmInterrupt(g)
               PROVE  /\ Current(g).answer = "interrupt" =>
                           Outcome(Current(g)) = "ctx.Err"
                      /\ Current(g).answer = "error" /\ Current(g).ctx # "done"
                           => Outcome(Current(g)) = "PythonError"
    OBVIOUS
  <2>1. depth[g] \in Depths
    BY TopType DEF IInv, CloseInv, LockInv, DisarmInterrupt, Disarm, At
  <2>2. depth[g] = 1
    BY <2>1 DEF Depths
  <2>3. Current(g).answer = "interrupt" => Current(g).dog = "fired"
    BY <2>1, <2>2 DEF Current, InterruptsMeant
  <2>4. Current(g).dog = "fired" => Current(g).ctx = "done"
    BY <2>1 DEF Current, IInv, Fits, Suits
  <2>5. QED
    BY <2>3, <2>4 DEF Outcome
<1>2. QED
  BY <1>1, MeantInv, PTL DEF ISpec, OutcomeHonest
=============================================================================
