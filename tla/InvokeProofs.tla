---------------------------- MODULE InvokeProofs ----------------------------
(***************************************************************************)
(* Theorems about module Invoke, for every set of goroutines and every     *)
(* value of the bounds.                                                    *)
(***************************************************************************)
EXTENDS Invoke, TLAPS

(***************************************************************************)
(* What the three helpers do to the stacks of operations.                  *)
(***************************************************************************)

(* A step within the innermost operation changes that frame only. *)
LEMMA GoToFrame ==
  ASSUME TypeOK, NEW g \in Goroutines, depth[g] > 0,
         NEW call \in Calls, NEW point \in Points, GoTo(g, call, point)
  PROVE  /\ frame' \in [Goroutines -> [Depths -> Frame]]
         /\ depth' = depth
         /\ frame'[g][depth[g]] =
              [call |-> call, at |-> point, base |-> Top(g).base]
         /\ \A h \in Goroutines, d \in Depths :
              h # g \/ d # depth[g] => frame'[h][d] = frame[h][d]
<1>1. depth[g] \in Depths
  BY BoundsAssumption DEF TypeOK, Depths
<1>2. frame[g][depth[g]] \in Frame
  BY <1>1 DEF TypeOK
<1> DEFINE new == [call |-> call, at |-> point, base |-> Top(g).base]
<1>3. new \in Frame
  BY <1>2 DEF Frame, Top
<1>4. frame' = [frame EXCEPT ![g][depth[g]] = new]
  BY <1>1, <1>2 DEF GoTo, Top, Frame, TypeOK
<1> HIDE DEF new
<1>5. /\ frame' \in [Goroutines -> [Depths -> Frame]]
      /\ frame'[g][depth[g]] = new
      /\ \A h \in Goroutines, d \in Depths :
           h # g \/ d # depth[g] => frame'[h][d] = frame[h][d]
  BY <1>1, <1>3, <1>4 DEF TypeOK
<1>6. QED
  BY <1>5 DEF GoTo, new

(* A new operation gets the frame above the innermost one. *)
LEMMA PushFrame ==
  ASSUME TypeOK, NEW g \in Goroutines,
         NEW call \in Calls, NEW point \in Points, Push(g, call, point)
  PROVE  /\ frame' \in [Goroutines -> [Depths -> Frame]]
         /\ depth' \in [Goroutines -> 0 .. MaxDepth]
         /\ depth'[g] = depth[g] + 1
         /\ \A h \in Goroutines \ {g} : depth'[h] = depth[h]
         /\ depth[g] + 1 \in Depths
         /\ frame'[g][depth[g] + 1] =
              [call |-> call, at |-> point, base |-> 0]
         /\ \A h \in Goroutines, d \in Depths :
              h # g \/ d # depth[g] + 1 => frame'[h][d] = frame[h][d]
<1>1. depth[g] + 1 \in Depths
  BY BoundsAssumption DEF TypeOK, Depths, Push
<1>2. [call |-> call, at |-> point, base |-> 0] \in Frame
  BY DEF Frame
<1>3. QED
  BY <1>1, <1>2, BoundsAssumption DEF Push, TypeOK, Depths

(* An operation that returns leaves an unused frame. *)
LEMMA PopFrame ==
  ASSUME TypeOK, NEW g \in Goroutines, depth[g] > 0, Pop(g)
  PROVE  /\ frame' \in [Goroutines -> [Depths -> Frame]]
         /\ depth' \in [Goroutines -> 0 .. MaxDepth]
         /\ depth'[g] = depth[g] - 1
         /\ \A h \in Goroutines \ {g} : depth'[h] = depth[h]
         /\ frame'[g][depth[g]] = NoFrame
         /\ \A h \in Goroutines, d \in Depths :
              h # g \/ d # depth[g] => frame'[h][d] = frame[h][d]
<1>1. depth[g] \in Depths
  BY BoundsAssumption DEF TypeOK, Depths
<1>2. NoFrame \in Frame
  BY DEF NoFrame, Frame, Calls, Points
<1>3. QED
  BY <1>1, <1>2, BoundsAssumption DEF Pop, TypeOK, Depths

(* A guest call that starts records the stack pointer it found. *)
LEMMA LockFrame ==
  ASSUME TypeOK, NEW g \in Goroutines, Lock(g)
  PROVE  /\ frame' \in [Goroutines -> [Depths -> Frame]]
         /\ depth' = depth
         /\ frame'[g][depth[g]] =
              [call |-> Top(g).call, at |-> "guest", base |-> sp]
         /\ \A h \in Goroutines, d \in Depths :
              h # g \/ d # depth[g] => frame'[h][d] = frame[h][d]
<1>1. depth[g] \in Depths
  BY BoundsAssumption DEF TypeOK, Depths, Lock, At
<1>2. frame[g][depth[g]] \in Frame
  BY <1>1 DEF TypeOK
<1> DEFINE new == [call |-> Top(g).call, at |-> "guest", base |-> sp]
<1>3. new \in Frame
  BY <1>2 DEF Frame, Top, Points, TypeOK
<1>4. frame' = [frame EXCEPT ![g][depth[g]] = new]
  BY <1>1, <1>2 DEF Lock, Top, Frame, TypeOK
<1> HIDE DEF new
<1>5. /\ frame' \in [Goroutines -> [Depths -> Frame]]
      /\ frame'[g][depth[g]] = new
      /\ \A h \in Goroutines, d \in Depths :
           h # g \/ d # depth[g] => frame'[h][d] = frame[h][d]
  BY <1>1, <1>3, <1>4 DEF TypeOK
<1>6. QED
  BY <1>5 DEF Lock, new

-----------------------------------------------------------------------------
(***************************************************************************)
(* Type correctness.                                                       *)
(***************************************************************************)

LEMMA InitType == Init => TypeOK
<1>1. NoFrame \in Frame
  BY DEF NoFrame, Frame, Calls, Points
<1>2. 0 \in 0 .. MaxDepth
  BY BoundsAssumption
<1> SUFFICES ASSUME Init PROVE TypeOK
  OBVIOUS
<1>3. depth \in [Goroutines -> 0 .. MaxDepth]
  BY <1>2 DEF Init
<1>4. frame \in [Goroutines -> [Depths -> Frame]]
  BY <1>1 DEF Init
<1>5. QED
  BY <1>3, <1>4 DEF Init, TypeOK

LEMMA TopType ==
  ASSUME TypeOK, NEW g \in Goroutines, depth[g] > 0
  PROVE  depth[g] \in Depths /\ Top(g) \in Frame
BY BoundsAssumption DEF TypeOK, Depths, Top

LEMMA NextType == TypeOK /\ [Next]_vars => TypeOK'
<1> SUFFICES ASSUME TypeOK, [Next]_vars PROVE TypeOK'
  OBVIOUS
<1> USE DEF TypeOK
<1>1. CASE UNCHANGED vars
  BY <1>1 DEF vars
<1>2. CASE QueueRelease
  BY <1>2 DEF QueueRelease
<1>3. ASSUME NEW g \in Goroutines, HostStep(g) PROVE TypeOK'
  <2>1. CASE BeginOp(g)
    BY <2>1, PushFrame DEF BeginOp, Calls, Points
  <2>2. CASE Drain(g)
    <3>1. depth[g] > 0 /\ \E call \in Calls, point \in Points :
            GoTo(g, call, point)
      BY <2>2 DEF Drain, At, Calls, Points
    <3>2. QED
      BY <2>2, <3>1, GoToFrame DEF Drain
  <2>3. CASE Arm(g)
    BY <2>3, GoToFrame DEF Arm, At, Calls, Points
  <2>4. CASE BeginClose(g)
    BY <2>4, PushFrame DEF BeginClose, Calls, Points
  <2>5. CASE Disarm(g)
    BY <2>5, PopFrame DEF Disarm, At
  <2>6. QED
    BY <1>3, <2>1, <2>2, <2>3, <2>4, <2>5 DEF HostStep
<1>4. ASSUME NEW g \in Goroutines, CallStep(g) PROVE TypeOK'
  <2>0. ASSUME depth[g] > 0 PROVE Top(g).call \in Calls /\ Top(g).base \in Nat
    BY <2>0, TopType DEF Frame
  <2>1. CASE Lock(g)
    <3>1. frame' \in [Goroutines -> [Depths -> Frame]]
      BY <2>1, LockFrame
    <3>2. QED
      BY <2>1, <3>1 DEF Lock
  <2>2. CASE Callback(g)
    BY <2>0, <2>2, GoToFrame DEF Callback, At, Points
  <2>3. CASE HandlerReturn(g)
    BY <2>0, <2>3, GoToFrame DEF HandlerReturn, At, Points
  <2>4. CASE Relock(g)
    BY <2>0, <2>4, GoToFrame DEF Relock, At, Points
  <2>5. CASE ReturnDrain(g)
    BY <2>0, <2>5, GoToFrame DEF ReturnDrain, LeaveGuest, At, Calls, Points
  <2>6. CASE ReturnOp(g)
    BY <2>0, <2>6, GoToFrame DEF ReturnOp, LeaveGuest, At, Calls, Points
  <2>7. CASE ReturnClose(g)
    BY <2>0, <2>7, PopFrame DEF ReturnClose, LeaveGuest, At
  <2>8. QED
    BY <1>4, <2>1, <2>2, <2>3, <2>4, <2>5, <2>6, <2>7 DEF CallStep
<1>5. QED
  BY <1>1, <1>2, <1>3, <1>4 DEF Next

(* Every variable keeps its type: no operation is lost from or added to a  *)
(* goroutine's stack beyond the bound, and sp never goes below zero.       *)
THEOREM TypeCorrect == Spec => []TypeOK
<1>1. Init => TypeOK
  BY InitType
<1>2. TypeOK /\ [Next]_vars => TypeOK'
  BY NextType
<1>3. QED
  BY <1>1, <1>2, PTL DEF Spec

-----------------------------------------------------------------------------
(***************************************************************************)
(* Mutual exclusion.  GuestOwnsLock says nothing of the operations beneath *)
(* the innermost one; the invariant has to: each is suspended in a Go      *)
(* function, so that only the innermost can execute guest code.            *)
(***************************************************************************)

Nested ==
  \A g \in Goroutines : \A d \in Depths :
    /\ d < depth[g] => frame[g][d].at = "handler"
    /\ d > depth[g] => frame[g][d] = NoFrame

LockInv == TypeOK /\ Nested /\ GuestOwnsLock

LEMMA InitLock == Init => LockInv
<1> SUFFICES ASSUME Init PROVE LockInv
  OBVIOUS
<1>1. TypeOK
  BY InitType
<1>2. Nested
  BY DEF Init, Nested, Depths
<1>3. GuestOwnsLock
  BY NoOneAssumption DEF Init, GuestOwnsLock, NoFrame
<1>4. QED
  BY <1>1, <1>2, <1>3 DEF LockInv

(* A step of g within its innermost operation keeps the invariant if it    *)
(* gives g the mutex exactly when it takes g into guest code.              *)
LEMMA TopStep ==
  ASSUME LockInv, NEW g \in Goroutines, depth[g] > 0, depth' = depth,
         \A h \in Goroutines, d \in Depths :
           h # g \/ d # depth[g] => frame'[h][d] = frame[h][d],
         \/ mu' = g /\ mu = NoOne /\ frame'[g][depth[g]].at = "guest"
         \/ mu' = NoOne /\ mu = g /\ frame'[g][depth[g]].at # "guest"
         \/ mu' = mu /\ mu # g /\ frame'[g][depth[g]].at # "guest"
  PROVE  Nested' /\ GuestOwnsLock'
<1> USE DEF LockInv, TypeOK
<1>1. depth[g] \in Depths
  BY TopType
<1>2. Nested'
  BY <1>1, BoundsAssumption DEF Nested, Depths
<1>3. ASSUME NEW h \in Goroutines, NEW d \in Depths, frame'[h][d].at = "guest"
      PROVE  mu' = h /\ d = depth'[h]
  <2>1. CASE h = g /\ d = depth[g]
    BY <1>3, <2>1
  <2>2. CASE ~(h = g /\ d = depth[g])
    BY <1>3, <2>2, NoOneAssumption DEF GuestOwnsLock
  <2>3. QED
    BY <2>1, <2>2
<1>4. ASSUME NEW h \in Goroutines, mu' = h
      PROVE  depth'[h] > 0 /\ frame'[h][depth'[h]].at = "guest"
  <2>1. CASE h = g
    BY <1>4, <2>1, NoOneAssumption
  <2>2. CASE h # g
    BY <1>4, <2>2, TopType, NoOneAssumption DEF GuestOwnsLock, At, Top
  <2>3. QED
    BY <2>1, <2>2
<1>5. QED
  BY <1>2, <1>3, <1>4 DEF GuestOwnsLock, At, Top

(* A new operation, which is not in guest code, keeps it too. *)
LEMMA PushStep ==
  ASSUME LockInv, NEW g \in Goroutines, InHostCode(g), mu' = mu,
         NEW call \in Calls, NEW point \in Points \ {"guest"},
         Push(g, call, point)
  PROVE  Nested' /\ GuestOwnsLock'
<1>1. /\ depth'[g] = depth[g] + 1
      /\ depth[g] + 1 \in Depths
      /\ \A h \in Goroutines \ {g} : depth'[h] = depth[h]
      /\ frame'[g][depth[g] + 1].at = point
      /\ \A h \in Goroutines, d \in Depths :
           h # g \/ d # depth[g] + 1 => frame'[h][d] = frame[h][d]
  <2>1. TypeOK /\ point \in Points
    BY DEF LockInv
  <2>2. frame'[g][depth[g] + 1] =
          [call |-> call, at |-> point, base |-> 0]
    BY <2>1, PushFrame
  <2>3. QED
    BY <2>1, <2>2, PushFrame
<1> USE DEF LockInv, TypeOK
<1>2. Nested'
  <2> SUFFICES ASSUME NEW h \in Goroutines, NEW d \in Depths
               PROVE  /\ d < depth'[h] => frame'[h][d].at = "handler"
                      /\ d > depth'[h] => frame'[h][d] = NoFrame
    BY DEF Nested
  <2>1. CASE h = g
    <3>1. d = depth[g] => frame[g][d].at = "handler"
      BY DEF InHostCode, At, Top, Depths
    <3>2. depth[g] \in Nat /\ d \in Nat
      BY BoundsAssumption DEF Depths
    <3>3. CASE d = depth[g] + 1
      BY <1>1, <2>1, <3>2, <3>3
    <3>4. CASE d # depth[g] + 1
      <4>1. frame'[h][d] = frame[g][d]
        BY <1>1, <2>1, <3>4
      <4>2. /\ d < depth[g] => frame[g][d].at = "handler"
            /\ d > depth[g] => frame[g][d] = NoFrame
        BY DEF Nested
      <4>3. depth'[h] = depth[g] + 1
        BY <1>1, <2>1
      <4>4. d < depth[g] + 1 => d < depth[g] \/ d = depth[g]
        BY <3>2
      <4>5. d > depth[g] + 1 => d > depth[g]
        BY <3>2
      <4>6. QED
        BY <3>1, <4>1, <4>2, <4>3, <4>4, <4>5
    <3>5. QED
      BY <3>3, <3>4
  <2>2. CASE h # g
    <3>1. depth'[h] = depth[h] /\ frame'[h][d] = frame[h][d]
      BY <1>1, <2>2
    <3>2. QED
      BY <3>1 DEF Nested
  <2>3. QED
    BY <2>1, <2>2
<1>3. ASSUME NEW h \in Goroutines, NEW d \in Depths, frame'[h][d].at = "guest"
      PROVE  mu' = h /\ d = depth'[h]
  <2>1. CASE h = g
    <3>1. d # depth[g] + 1
      BY <1>1, <1>3, <2>1
    <3>2. frame[g][d].at = "guest" /\ d = depth[g]
      BY <1>1, <1>3, <2>1, <3>1 DEF GuestOwnsLock
    <3>3. QED
      BY <3>2 DEF InHostCode, At, Top, Depths
  <2>2. CASE h # g
    BY <1>1, <1>3, <2>2 DEF GuestOwnsLock
  <2>3. QED
    BY <2>1, <2>2
<1>4. ASSUME NEW h \in Goroutines, mu' = h
      PROVE  depth'[h] > 0 /\ frame'[h][depth'[h]].at = "guest"
  <2>1. h # g
    BY <1>4 DEF GuestOwnsLock, InHostCode, At, Top
  <2>2. QED
    BY <1>1, <1>4, <2>1, TopType DEF GuestOwnsLock, At, Top
<1>5. QED
  BY <1>2, <1>3, <1>4 DEF GuestOwnsLock, At, Top

(* So does an operation that returns and leaves the mutex unlocked or to   *)
(* somebody else.                                                          *)
LEMMA PopStep ==
  ASSUME LockInv, NEW g \in Goroutines, depth[g] > 0, Pop(g),
         \/ mu' = mu /\ mu # g
         \/ mu' = NoOne /\ mu = g
  PROVE  Nested' /\ GuestOwnsLock'
<1> USE DEF LockInv, TypeOK
<1>1. /\ depth'[g] = depth[g] - 1
      /\ \A h \in Goroutines \ {g} : depth'[h] = depth[h]
      /\ frame'[g][depth[g]] = NoFrame
      /\ \A h \in Goroutines, d \in Depths :
           h # g \/ d # depth[g] => frame'[h][d] = frame[h][d]
  BY PopFrame
<1>2. Nested'
  <2> SUFFICES ASSUME NEW h \in Goroutines, NEW d \in Depths
               PROVE  /\ d < depth'[h] => frame'[h][d].at = "handler"
                      /\ d > depth'[h] => frame'[h][d] = NoFrame
    BY DEF Nested
  <2>1. depth[g] \in Nat /\ d \in Nat
    BY BoundsAssumption DEF Depths
  <2>2. /\ d < depth[h] => frame[h][d].at = "handler"
        /\ d > depth[h] => frame[h][d] = NoFrame
    BY DEF Nested
  <2>3. CASE h = g /\ d = depth[g]
    BY <1>1, <2>1, <2>3
  <2>4. CASE h = g /\ d # depth[g]
    BY <1>1, <2>1, <2>2, <2>4
  <2>5. CASE h # g
    <3>1. depth'[h] = depth[h] /\ frame'[h][d] = frame[h][d]
      BY <1>1, <2>5
    <3>2. QED
      BY <2>2, <3>1
  <2>6. QED
    BY <2>3, <2>4, <2>5
<1>3. ASSUME NEW h \in Goroutines, NEW d \in Depths, frame'[h][d].at = "guest"
      PROVE  mu' = h /\ d = depth'[h]
  <2>1. frame[h][d].at = "guest" /\ ~(h = g /\ d = depth[g])
    BY <1>1, <1>3 DEF NoFrame
  <2>2. mu = h /\ d = depth[h] /\ h # g
    BY <2>1 DEF GuestOwnsLock
  <2>3. QED
    BY <1>1, <2>2
<1>4. ASSUME NEW h \in Goroutines, mu' = h
      PROVE  depth'[h] > 0 /\ frame'[h][depth'[h]].at = "guest"
  <2>1. h # g /\ mu = h
    BY <1>4, NoOneAssumption
  <2>2. QED
    BY <1>1, <2>1, TopType DEF GuestOwnsLock, At, Top
<1>5. QED
  BY <1>2, <1>3, <1>4 DEF GuestOwnsLock, At, Top

(* The goroutine that steps owns the mutex exactly if it is in guest code. *)
LEMMA OwnerAtGuest ==
  ASSUME LockInv, NEW g \in Goroutines, depth[g] > 0
  PROVE  mu = g <=> Top(g).at = "guest"
BY TopType DEF LockInv, GuestOwnsLock, At, Top

(* The steps within an operation that stay outside guest code. *)
LEMMA OutsideStep ==
  ASSUME LockInv, NEW g \in Goroutines, depth[g] > 0,
         Top(g).at # "guest", mu' = mu,
         NEW call \in Calls, NEW point \in Points \ {"guest"},
         GoTo(g, call, point)
  PROVE  Nested' /\ GuestOwnsLock'
<1>1. TypeOK /\ point \in Points
  BY DEF LockInv
<1>2. /\ depth' = depth
      /\ frame'[g][depth[g]] =
           [call |-> call, at |-> point, base |-> Top(g).base]
      /\ \A h \in Goroutines, d \in Depths :
           h # g \/ d # depth[g] => frame'[h][d] = frame[h][d]
  BY <1>1, GoToFrame
<1>3. mu # g
  BY OwnerAtGuest
<1>4. frame'[g][depth[g]].at # "guest"
  BY <1>2
<1>5. QED
  BY <1>2, <1>3, <1>4, TopStep

(* The steps that leave guest code and unlock the mutex. *)
LEMMA LeaveStep ==
  ASSUME LockInv, NEW g \in Goroutines, At(g, "guest"), mu' = NoOne,
         NEW call \in Calls, NEW point \in Points \ {"guest"},
         GoTo(g, call, point)
  PROVE  Nested' /\ GuestOwnsLock'
<1>1. TypeOK /\ point \in Points /\ depth[g] > 0 /\ Top(g).at = "guest"
  BY DEF LockInv, At
<1>2. /\ depth' = depth
      /\ frame'[g][depth[g]] =
           [call |-> call, at |-> point, base |-> Top(g).base]
      /\ \A h \in Goroutines, d \in Depths :
           h # g \/ d # depth[g] => frame'[h][d] = frame[h][d]
  BY <1>1, GoToFrame
<1>3. mu = g
  BY <1>1, OwnerAtGuest
<1>4. frame'[g][depth[g]].at # "guest"
  BY <1>2
<1>5. QED
  BY <1>1, <1>2, <1>3, <1>4, TopStep

LEMMA NextLock == LockInv /\ [Next]_vars => LockInv'
<1> SUFFICES ASSUME LockInv, [Next]_vars PROVE LockInv'
  OBVIOUS
<1>0. TypeOK /\ TypeOK'
  BY NextType DEF LockInv
<1>1. CASE UNCHANGED vars
  BY <1>0, <1>1 DEF vars, LockInv, Nested, GuestOwnsLock, At, Top
<1>2. CASE QueueRelease
  BY <1>0, <1>2 DEF QueueRelease, LockInv, Nested, GuestOwnsLock, At, Top
<1>3. ASSUME NEW g \in Goroutines, HostStep(g)
      PROVE  Nested' /\ GuestOwnsLock'
  <2>1. CASE BeginOp(g)
    BY <2>1, PushStep DEF BeginOp, Calls, Points
  <2>2. CASE Drain(g)
    <3>1. depth[g] > 0 /\ Top(g).at # "guest" /\ mu' = mu
      BY <2>2 DEF Drain, At
    <3>2. GoTo(g, "drain", "wait") \/ GoTo(g, "op", "arm")
      BY <2>2 DEF Drain
    <3>3. QED
      BY <3>1, <3>2, OutsideStep DEF Calls, Points
  <2>3. CASE Arm(g)
    <3>1. /\ depth[g] > 0 /\ Top(g).at # "guest" /\ mu' = mu
          /\ GoTo(g, "op", "wait")
      BY <2>3 DEF Arm, At
    <3>2. QED
      BY <3>1, OutsideStep DEF Calls, Points
  <2>4. CASE BeginClose(g)
    BY <2>4, PushStep DEF BeginClose, Calls, Points
  <2>5. CASE Disarm(g)
    <3>1. depth[g] > 0 /\ Top(g).at # "guest" /\ mu' = mu /\ Pop(g)
      BY <2>5 DEF Disarm, At
    <3>2. mu # g
      BY <3>1, OwnerAtGuest
    <3>3. QED
      BY <3>1, <3>2, PopStep
  <2>6. QED
    BY <1>3, <2>1, <2>2, <2>3, <2>4, <2>5 DEF HostStep
<1>4. ASSUME NEW g \in Goroutines, CallStep(g)
      PROVE  Nested' /\ GuestOwnsLock'
  <2>0. ASSUME depth[g] > 0 PROVE Top(g).call \in Calls
    BY <1>0, <2>0, TopType DEF Frame
  <2>1. CASE Lock(g)
    <3>1. depth[g] > 0 /\ mu = NoOne /\ mu' = g
      BY <2>1 DEF Lock, At
    <3>2. /\ depth' = depth
          /\ frame'[g][depth[g]] =
               [call |-> Top(g).call, at |-> "guest", base |-> sp]
          /\ \A h \in Goroutines, d \in Depths :
               h # g \/ d # depth[g] => frame'[h][d] = frame[h][d]
      BY <1>0, <2>1, LockFrame
    <3>3. frame'[g][depth[g]].at = "guest"
      BY <3>2
    <3>4. QED
      BY <3>1, <3>2, <3>3, TopStep
  <2>2. CASE Callback(g)
    <3>1. At(g, "guest") /\ mu' = NoOne /\ GoTo(g, Top(g).call, "handler")
      BY <2>2 DEF Callback
    <3>2. QED
      BY <2>0, <3>1, LeaveStep DEF At, Points
  <2>3. CASE HandlerReturn(g)
    <3>1. /\ depth[g] > 0 /\ Top(g).at # "guest" /\ mu' = mu
          /\ GoTo(g, Top(g).call, "relock")
      BY <2>3 DEF HandlerReturn, At
    <3>2. QED
      BY <2>0, <3>1, OutsideStep DEF Points
  <2>4. CASE Relock(g)
    <3>1. /\ depth[g] > 0 /\ mu = NoOne /\ mu' = g
          /\ GoTo(g, Top(g).call, "guest")
      BY <2>4 DEF Relock, At
    <3>2. /\ depth' = depth
          /\ frame'[g][depth[g]] =
               [call |-> Top(g).call, at |-> "guest", base |-> Top(g).base]
          /\ \A h \in Goroutines, d \in Depths :
               h # g \/ d # depth[g] => frame'[h][d] = frame[h][d]
      BY <1>0, <2>0, <3>1, GoToFrame DEF Points
    <3>3. frame'[g][depth[g]].at = "guest"
      BY <3>2
    <3>4. QED
      BY <3>1, <3>2, <3>3, TopStep
  <2>5. CASE ReturnDrain(g)
    <3>1. At(g, "guest") /\ mu' = NoOne /\ GoTo(g, "op", "arm")
      BY <2>5 DEF ReturnDrain, LeaveGuest
    <3>2. QED
      BY <3>1, LeaveStep DEF Calls, Points
  <2>6. CASE ReturnOp(g)
    <3>1. At(g, "guest") /\ mu' = NoOne /\ GoTo(g, "op", "disarm")
      BY <2>6 DEF ReturnOp, LeaveGuest
    <3>2. QED
      BY <3>1, LeaveStep DEF Calls, Points
  <2>7. CASE ReturnClose(g)
    <3>1. depth[g] > 0 /\ Top(g).at = "guest" /\ mu' = NoOne /\ Pop(g)
      BY <2>7 DEF ReturnClose, LeaveGuest, At
    <3>2. mu = g
      BY <3>1, OwnerAtGuest
    <3>3. QED
      BY <3>1, <3>2, PopStep
  <2>8. QED
    BY <1>4, <2>1, <2>2, <2>3, <2>4, <2>5, <2>6, <2>7 DEF CallStep
<1>5. QED
  BY <1>0, <1>1, <1>2, <1>3, <1>4 DEF Next, LockInv

(* Guest code is only ever executed by the owner of m.mu, in the owner's   *)
(* innermost operation, and m.mu is held for nothing else: the unlock and  *)
(* relock around a bound Go function keep this whatever other goroutines   *)
(* and nested operations do in between.                                    *)
THEOREM MutualExclusion == Spec => []GuestOwnsLock
<1>1. Init => LockInv
  BY InitLock
<1>2. LockInv /\ [Next]_vars => LockInv'
  BY NextLock
<1>3. LockInv => GuestOwnsLock
  BY DEF LockInv
<1>4. QED
  BY <1>1, <1>2, <1>3, PTL DEF Spec

-----------------------------------------------------------------------------
(***************************************************************************)
(* Close.  py_close runs in a frame of its own, and only the Close that    *)
(* flipped closed has one.                                                 *)
(***************************************************************************)
CloseFrames ==
  \A g \in Goroutines, d \in Depths :
    frame[g][d].call = "close" =>
      closed /\ frame[g][d].at \in {"wait", "guest", "handler", "relock"}

(* A frame that is anywhere belongs to some guest call. *)
Named ==
  \A g \in Goroutines, d \in Depths :
    frame[g][d].call = "none" => frame[g][d].at = "none"

CloseInv ==
  LockInv /\ Named /\ CloseFrames /\ CloseOnce /\ (finalized => closed)

(* When Close is called with nothing else under way, everything that is    *)
(* open once closed is set is that Close.                                  *)
Alone == closed => NothingOpen

(* What a step does to the frame d of g that matters to Close: a close is  *)
(* only ever one that was there before.                                    *)
Continues(g, d) ==
  /\ \A h \in Goroutines, e \in Depths :
       h # g \/ e # d => frame'[h][e] = frame[h][e]
  /\ frame'[g][d].call = "close" =>
       /\ frame[g][d].call = "close"
       /\ frame'[g][d].at \in {"wait", "guest", "handler", "relock"}
  /\ frame'[g][d].call = "none" => frame'[g][d].at = "none"
  /\ closed' = closed

LEMMA CloseKept ==
  ASSUME CloseInv, NEW g \in Goroutines, NEW d \in Depths,
         Continues(g, d), finalized' = finalized
  PROVE  Named' /\ CloseFrames' /\ CloseOnce' /\ (finalized' => closed')
<1>0. Named'
  BY DEF Continues, CloseInv, Named
<1>1. \A h \in Goroutines, e \in Depths :
        frame'[h][e].call = "close" =>
          /\ frame[h][e].call = "close"
          /\ closed'
          /\ frame'[h][e].at \in {"wait", "guest", "handler", "relock"}
  BY DEF Continues, CloseInv, CloseFrames
<1>2. CloseFrames'
  BY <1>1 DEF CloseFrames
<1>3. CloseOnce'
  BY <1>1 DEF CloseOnce, CloseInv
<1>4. QED
  BY <1>0, <1>2, <1>3 DEF CloseInv, Continues

(* Once closed is set no step opens an operation or turns a close into     *)
(* one.                                                                    *)
LEMMA AloneKept ==
  ASSUME Alone, NEW g \in Goroutines, NEW d \in Depths, Continues(g, d),
         closed => frame'[g][d].call \in {"none", "close"}
  PROVE  Alone'
BY DEF Alone, NothingOpen, Continues

(* The steps that are not Close's first or last. *)
MiddleStep(g) ==
  \/ BeginOp(g) \/ Drain(g) \/ Arm(g) \/ Disarm(g) \/ Lock(g) \/ Callback(g)
  \/ HandlerReturn(g) \/ Relock(g) \/ ReturnDrain(g) \/ ReturnOp(g)

LEMMA MiddleContinues ==
  ASSUME CloseInv, NEW g \in Goroutines, MiddleStep(g)
  PROVE  /\ finalized' = finalized
         /\ \E d \in Depths :
              /\ Continues(g, d)
              /\ closed /\ Alone => frame'[g][d].call \in {"none", "close"}
<1>1. TypeOK /\ Named /\ CloseFrames
  BY DEF CloseInv, LockInv
<1>2. finalized' = finalized /\ closed' = closed
  BY DEF MiddleStep, BeginOp, Drain, Arm, Disarm, Lock, Callback,
     HandlerReturn, Relock, ReturnDrain, ReturnOp
<1>3. ASSUME depth[g] > 0
      PROVE  /\ depth[g] \in Depths /\ Top(g) = frame[g][depth[g]]
             /\ Top(g).call \in Calls
             /\ Top(g).at # "none" => Top(g).call # "none"
             /\ closed /\ Alone => Top(g).call \in {"none", "close"}
             /\ Top(g).call = "close" =>
                  Top(g).at \in {"wait", "guest", "handler", "relock"}
  <2>1. depth[g] \in Depths /\ Top(g) \in Frame
    BY <1>1, <1>3, TopType
  <2>2. QED
    BY <1>1, <2>1 DEF Top, Frame, Alone, NothingOpen, CloseFrames, Named
<1>4. CASE BeginOp(g)
  <2>1. Push(g, "op", "queue") /\ ~closed
    BY <1>4 DEF BeginOp
  <2>2. /\ depth[g] + 1 \in Depths
        /\ frame'[g][depth[g] + 1] =
             [call |-> "op", at |-> "queue", base |-> 0]
        /\ \A h \in Goroutines, d \in Depths :
             h # g \/ d # depth[g] + 1 => frame'[h][d] = frame[h][d]
    BY <1>1, <2>1, PushFrame DEF Calls, Points
  <2>3. Continues(g, depth[g] + 1)
    BY <1>2, <2>2 DEF Continues
  <2>4. QED
    BY <1>2, <2>1, <2>2, <2>3
<1>5. ASSUME NEW call \in Calls, NEW point \in Points, depth[g] > 0,
             Top(g).call \notin {"none", "close"}, call \in {"drain", "op"},
             GoTo(g, call, point)
      PROVE  \E d \in Depths :
               /\ Continues(g, d)
               /\ closed /\ Alone => frame'[g][d].call \in {"none", "close"}
  <2>1. /\ frame'[g][depth[g]] =
             [call |-> call, at |-> point, base |-> Top(g).base]
        /\ \A h \in Goroutines, d \in Depths :
             h # g \/ d # depth[g] => frame'[h][d] = frame[h][d]
    BY <1>1, <1>5, GoToFrame
  <2>2. Continues(g, depth[g])
    BY <1>2, <1>5, <2>1 DEF Continues
  <2>3. QED
    BY <1>3, <1>5, <2>1, <2>2
<1>6. ASSUME NEW point \in {"guest", "handler", "relock"}, depth[g] > 0,
             Top(g).at # "none", frame'[g][depth[g]].call = Top(g).call,
             frame'[g][depth[g]].at = point,
             \A h \in Goroutines, d \in Depths :
               h # g \/ d # depth[g] => frame'[h][d] = frame[h][d]
      PROVE  \E d \in Depths :
               /\ Continues(g, d)
               /\ closed /\ Alone => frame'[g][d].call \in {"none", "close"}
  <2>1. Continues(g, depth[g])
    BY <1>2, <1>3, <1>6 DEF Continues
  <2>2. QED
    BY <1>3, <1>6, <2>1
<1>7. CASE Drain(g) \/ Arm(g)
  <2>1. /\ depth[g] > 0 /\ Top(g).at \in {"queue", "arm"}
        /\ \E call \in {"drain", "op"}, point \in {"wait", "arm"} :
             GoTo(g, call, point)
    BY <1>7 DEF Drain, Arm, At
  <2>2. Top(g).call \notin {"none", "close"}
    BY <1>3, <2>1
  <2>3. QED
    BY <1>2, <1>5, <2>1, <2>2 DEF Calls, Points
<1>8. CASE ReturnDrain(g) \/ ReturnOp(g)
  <2>1. /\ depth[g] > 0 /\ Top(g).call \in {"drain", "op"}
        /\ \E point \in {"arm", "disarm"} : GoTo(g, "op", point)
    BY <1>8 DEF ReturnDrain, ReturnOp, LeaveGuest, At
  <2>2. QED
    BY <1>2, <1>5, <2>1 DEF Calls, Points
<1>9. CASE Disarm(g)
  <2>1. depth[g] > 0 /\ Pop(g)
    BY <1>9 DEF Disarm, At
  <2>2. /\ frame'[g][depth[g]] = NoFrame
        /\ \A h \in Goroutines, d \in Depths :
             h # g \/ d # depth[g] => frame'[h][d] = frame[h][d]
    BY <1>1, <2>1, PopFrame
  <2>3. Continues(g, depth[g])
    BY <1>2, <2>2 DEF Continues, NoFrame
  <2>4. QED
    BY <1>2, <1>3, <2>1, <2>2, <2>3 DEF NoFrame
<1>10. CASE Lock(g)
  <2>1. depth[g] > 0 /\ Top(g).at # "none"
    BY <1>10 DEF Lock, At
  <2>2. /\ frame'[g][depth[g]] =
             [call |-> Top(g).call, at |-> "guest", base |-> sp]
        /\ \A h \in Goroutines, d \in Depths :
             h # g \/ d # depth[g] => frame'[h][d] = frame[h][d]
    BY <1>1, <1>10, LockFrame
  <2>3. QED
    BY <1>2, <1>6, <2>1, <2>2
<1>11. CASE Callback(g) \/ HandlerReturn(g) \/ Relock(g)
  <2>1. PICK point \in {"guest", "handler", "relock"} :
          depth[g] > 0 /\ Top(g).at # "none" /\ GoTo(g, Top(g).call, point)
    BY <1>11 DEF Callback, HandlerReturn, Relock, At
  <2>2. /\ frame'[g][depth[g]] =
             [call |-> Top(g).call, at |-> point, base |-> Top(g).base]
        /\ \A h \in Goroutines, d \in Depths :
             h # g \/ d # depth[g] => frame'[h][d] = frame[h][d]
    BY <1>1, <1>3, <2>1, GoToFrame DEF Points
  <2>3. QED
    BY <1>2, <1>6, <2>1, <2>2
<1>12. QED
  BY <1>4, <1>7, <1>8, <1>9, <1>10, <1>11 DEF MiddleStep

LEMMA BeginCloseStep ==
  ASSUME CloseInv, NEW g \in Goroutines, BeginClose(g)
  PROVE  /\ Named' /\ CloseFrames' /\ CloseOnce' /\ (finalized' => closed')
         /\ ~CloseRaces => Alone'
<1>1. TypeOK /\ Named /\ CloseFrames /\ CloseOnce /\ (finalized => closed)
  BY DEF CloseInv, LockInv
<1>2. /\ ~closed /\ closed' = TRUE /\ finalized' = finalized
      /\ Push(g, "close", "wait")
      /\ CloseRaces \/ NothingOpen
  BY DEF BeginClose
<1>3. PICK d \in Depths :
        /\ frame'[g][d].call = "close" /\ frame'[g][d].at = "wait"
        /\ \A h \in Goroutines, e \in Depths :
             h # g \/ e # d => frame'[h][e] = frame[h][e]
  <2>1. /\ depth[g] + 1 \in Depths
        /\ frame'[g][depth[g] + 1] =
             [call |-> "close", at |-> "wait", base |-> 0]
        /\ \A h \in Goroutines, e \in Depths :
             h # g \/ e # depth[g] + 1 => frame'[h][e] = frame[h][e]
    BY <1>1, <1>2, PushFrame DEF Calls, Points
  <2>2. QED
    BY <2>1
<1>4. \A h \in Goroutines, e \in Depths : frame[h][e].call # "close"
  BY <1>1, <1>2 DEF CloseFrames
<1>5. Named'
  BY <1>1, <1>3 DEF Named
<1>6. CloseFrames'
  BY <1>2, <1>3, <1>4 DEF CloseFrames
<1>7. CloseOnce' /\ (finalized' => closed')
  BY <1>1, <1>2, <1>3, <1>4 DEF CloseOnce
<1>8. ~CloseRaces => Alone'
  BY <1>2, <1>3 DEF Alone, NothingOpen
<1>9. QED
  BY <1>5, <1>6, <1>7, <1>8

(* The frame that ReturnClose leaves was the only close.                   *)
LEMMA ReturnCloseStep ==
  ASSUME CloseInv, NEW g \in Goroutines, ReturnClose(g)
  PROVE  /\ Named' /\ CloseFrames' /\ CloseOnce' /\ (finalized' => closed')
         /\ Alone => Alone'
<1>1. TypeOK /\ Named /\ CloseFrames /\ CloseOnce
  BY DEF CloseInv, LockInv
<1>2. /\ depth[g] > 0 /\ Top(g).call = "close" /\ Pop(g)
      /\ finalized' = TRUE /\ closed' = closed
  BY DEF ReturnClose, LeaveGuest, At
<1>3. PICK d \in Depths : d = depth[g]
  BY <1>1, <1>2, TopType
<1>4. /\ frame[g][d].call = "close" /\ frame'[g][d] = NoFrame
      /\ \A h \in Goroutines, e \in Depths :
           h # g \/ e # d => frame'[h][e] = frame[h][e]
  BY <1>1, <1>2, <1>3, PopFrame DEF Top
<1>5. closed
  BY <1>1, <1>4 DEF CloseFrames
<1>6. \A h \in Goroutines, e \in Depths : frame'[h][e].call # "close"
  BY <1>1, <1>4 DEF CloseOnce, NoFrame
<1>7. Named'
  BY <1>1, <1>4 DEF Named, NoFrame
<1>8. CloseFrames' /\ CloseOnce'
  BY <1>6 DEF CloseFrames, CloseOnce
<1>9. Alone => Alone'
  BY <1>2, <1>4 DEF Alone, NothingOpen, NoFrame
<1>10. QED
  BY <1>2, <1>5, <1>7, <1>8, <1>9

LEMMA InitClose == Init => CloseInv /\ Alone
<1> SUFFICES ASSUME Init PROVE CloseInv /\ Alone
  OBVIOUS
<1>1. \A g \in Goroutines, d \in Depths : frame[g][d] = NoFrame
  BY DEF Init
<1>2. LockInv
  BY InitLock
<1>3. Named /\ CloseFrames /\ CloseOnce
  BY <1>1 DEF Named, CloseFrames, CloseOnce, NoFrame
<1>4. ~finalized /\ ~closed
  BY DEF Init
<1>5. QED
  BY <1>2, <1>3, <1>4 DEF CloseInv, Alone

LEMMA NextClose ==
  /\ CloseInv /\ [Next]_vars => CloseInv'
  /\ ~CloseRaces /\ CloseInv /\ Alone /\ [Next]_vars => Alone'
<1> SUFFICES ASSUME CloseInv, [Next]_vars
             PROVE  CloseInv' /\ (~CloseRaces /\ Alone => Alone')
  OBVIOUS
<1>1. LockInv'
  BY NextLock DEF CloseInv
<1>2. CASE UNCHANGED vars \/ QueueRelease
  <2>1. UNCHANGED <<closed, finalized, frame>>
    BY <1>2 DEF vars, QueueRelease
  <2>2. QED
    BY <1>1, <2>1 DEF CloseInv, Named, CloseFrames, CloseOnce, Alone,
       NothingOpen
<1>3. ASSUME NEW g \in Goroutines, MiddleStep(g)
      PROVE  CloseInv' /\ (Alone => Alone')
  <2>1. PICK d \in Depths :
          /\ finalized' = finalized /\ Continues(g, d)
          /\ closed /\ Alone => frame'[g][d].call \in {"none", "close"}
    BY <1>3, MiddleContinues
  <2>2. QED
    BY <1>1, <2>1, CloseKept, AloneKept DEF CloseInv
<1>4. ASSUME NEW g \in Goroutines, BeginClose(g) \/ ReturnClose(g)
      PROVE  CloseInv' /\ (~CloseRaces /\ Alone => Alone')
  BY <1>1, <1>4, BeginCloseStep, ReturnCloseStep DEF CloseInv
<1>5. QED
  BY <1>2, <1>3, <1>4 DEF Next, HostStep, CallStep, MiddleStep

(* Close is idempotent, also when several goroutines call it at once and   *)
(* from Go functions: at most one py_close is ever under way, and none     *)
(* once the runtime is finalized.                                          *)
THEOREM ClosedOnce == Spec => []CloseOnce
<1>1. Init => CloseInv
  BY InitClose
<1>2. CloseInv /\ [Next]_vars => CloseInv'
  BY NextClose
<1>3. CloseInv => CloseOnce
  BY DEF CloseInv
<1>4. QED
  BY <1>1, <1>2, <1>3, PTL DEF Spec

(* No guest code executes once the runtime is finalized, provided Close is *)
(* only called when no operation is under way; the run                     *)
(* InvokeCloseStraggler shows that the proviso is needed.  Operations that *)
(* start later, from any goroutine, find closed set.                       *)
THEOREM ClosedQuietly == ASSUME ~CloseRaces PROVE Spec => []RunsLive
<1>1. Init => CloseInv /\ Alone
  BY InitClose
<1>2. CloseInv /\ Alone /\ [Next]_vars => CloseInv' /\ Alone'
  BY NextClose
<1>3. CloseInv /\ Alone => RunsLive
  <2> SUFFICES ASSUME CloseInv, Alone, finalized,
                      NEW g \in Goroutines, At(g, "guest")
               PROVE  FALSE
    BY DEF RunsLive
  <2>1. depth[g] \in Depths /\ frame[g][depth[g]].at = "guest"
    BY TopType DEF CloseInv, LockInv, At, Top
  <2>2. frame[g][depth[g]].call \in {"none", "close"}
    BY <2>1 DEF CloseInv, Alone, NothingOpen
  <2>3. frame[g][depth[g]].call = "close"
    BY <2>1, <2>2 DEF CloseInv, Named
  <2>4. QED
    BY <2>1, <2>3 DEF CloseInv, CloseOnce
<1>4. QED
  BY <1>1, <1>2, <1>3, PTL DEF Spec
-----------------------------------------------------------------------------
(***************************************************************************)
(* Why the interpreter's C stack is used last-in first-out, for every      *)
(* number of goroutines and every depth of nesting, as long as the guest   *)
(* code of one goroutine only calls Go functions.  (With two the run       *)
(* InvokeInterleavedCallbacks shows the order is lost.)                    *)
(***************************************************************************)

OneCaller == \A g, h \in CallbackUsers : g = h

Visitors == Goroutines \ CallbackUsers

(* The activations goroutine g has on the C stack: all its operations but  *)
(* possibly the innermost.                                                 *)
Height(g) ==
  IF depth[g] = 0 THEN 0
  ELSE IF Entered(Top(g)) THEN depth[g] ELSE depth[g] - 1

Visiting == IF mu \in Visitors THEN 1 ELSE 0

(***************************************************************************)
(* The invariant: the caller's activations lie at the bottom of the C      *)
(* stack in the order of their depth, and on top of them there is at most  *)
(* one other, that of a goroutine in guest code that calls nothing.        *)
(***************************************************************************)
VisitorsFlat ==
  \A g \in Visitors : /\ depth[g] <= 1
                      /\ \A d \in Depths :
                           frame[g][d].at \notin {"handler", "relock"}

BaseIsDepth ==
  \A g \in CallbackUsers : \A d \in Depths :
    Entered(frame[g][d]) => frame[g][d].base = d - 1

StackHeight ==
  /\ \A g \in CallbackUsers : sp = Height(g) + Visiting
  /\ CallbackUsers = {} => sp = Visiting

VisitorOnTop ==
  \A g \in Visitors : mu = g => frame[g][depth[g]].base = sp - 1

StackInv == VisitorsFlat /\ BaseIsDepth /\ StackHeight /\ VisitorOnTop

(* What is to be shown of a step that changes the k-th frame of g alone.   *)
LEMMA FrameStep ==
  ASSUME LockInv, LockInv', StackInv, OneCaller,
         NEW g \in Goroutines, NEW k \in Depths,
         \A h \in Goroutines \ {g} : depth'[h] = depth[h],
         \A h \in Goroutines, d \in Depths :
           h # g \/ d # k => frame'[h][d] = frame[h][d],
         g \in Visitors => /\ depth'[g] <= 1
                           /\ frame'[g][k].at \notin {"handler", "relock"}
                           /\ sp' - Visiting' = sp - Visiting,
         g \in CallbackUsers /\ Entered(frame'[g][k]) =>
           frame'[g][k].base = k - 1,
         g \in CallbackUsers => sp' = Height(g)' + Visiting',
         \A v \in Visitors : mu' = v => frame'[v][depth'[v]].base = sp' - 1
  PROVE  StackInv'
<1>1. VisitorsFlat'
  <2> SUFFICES ASSUME NEW v \in Visitors
               PROVE  /\ depth'[v] <= 1
                      /\ \A d \in Depths :
                           frame'[v][d].at \notin {"handler", "relock"}
    BY DEF VisitorsFlat, Visitors
  <2>1. CASE v = g
    BY <2>1 DEF StackInv, VisitorsFlat
  <2>2. CASE v # g
    BY <2>2 DEF StackInv, VisitorsFlat, Visitors
  <2>3. QED
    BY <2>1, <2>2
<1>2. BaseIsDepth'
  BY RolesAssumption DEF StackInv, BaseIsDepth, Entered
<1>3. StackHeight'
  <2>1. CASE g \in CallbackUsers
    BY <2>1 DEF StackHeight, OneCaller
  <2>2. CASE g \in Visitors
    <3>1. ASSUME NEW h \in CallbackUsers PROVE Height(h)' = Height(h)
      <4>1. h \in Goroutines /\ h # g
        BY <2>2, RolesAssumption DEF Visitors
      <4>2. depth'[h] = depth[h]
        BY <4>1
      <4>3. depth[h] > 0 => Top(h)' = Top(h)
        BY <4>1, <4>2, TopType DEF Top, LockInv
      <4>4. depth[h] \in Nat
        BY <4>1, BoundsAssumption DEF LockInv, TypeOK
      <4>5. QED
        BY <4>2, <4>3, <4>4 DEF Height, Entered
    <3>2. sp' - Visiting' = sp - Visiting
      BY <2>2
    <3>3. sp \in Nat /\ sp' \in Nat /\ Visiting \in Nat /\ Visiting' \in Nat
      BY DEF LockInv, TypeOK, Visiting
    <3>4. ASSUME NEW h \in CallbackUsers PROVE sp' = Height(h)' + Visiting'
      <4>1. sp = Height(h) + Visiting
        BY DEF StackInv, StackHeight
      <4>2. Height(h) \in Nat
        <5>1. depth[h] \in Nat
          BY RolesAssumption, BoundsAssumption DEF LockInv, TypeOK
        <5>2. QED
          BY <5>1 DEF Height
      <4>3. QED
        BY <3>1, <3>2, <3>3, <4>1, <4>2
    <3>5. CallbackUsers = {} => sp' = Visiting'
      BY <3>2, <3>3 DEF StackInv, StackHeight
    <3>6. QED
      BY <3>4, <3>5 DEF StackHeight
  <2>3. QED
    BY <2>1, <2>2 DEF Visitors
<1>4. VisitorOnTop'
  BY DEF VisitorOnTop, Visitors
<1>5. QED
  BY <1>1, <1>2, <1>3, <1>4 DEF StackInv

-----------------------------------------------------------------------------
LEMMA InitStack == Init => StackInv
<1> SUFFICES ASSUME Init PROVE StackInv
  OBVIOUS
<1>1. mu \notin Visitors
  BY NoOneAssumption DEF Init, Visitors
<1>2. VisitorsFlat
  <2>1. ASSUME NEW g \in Visitors, NEW d \in Depths
        PROVE  depth[g] = 0 /\ frame[g][d].at = "none"
    BY DEF Init, Visitors, NoFrame
  <2>2. ASSUME NEW g \in Visitors PROVE depth[g] = 0
    BY DEF Init, Visitors
  <2>3. QED
    BY <2>1, <2>2 DEF VisitorsFlat
<1>3. BaseIsDepth
  BY RolesAssumption DEF Init, BaseIsDepth, Entered, NoFrame
<1>4. StackHeight
  BY <1>1, RolesAssumption DEF Init, StackHeight, Height, Visiting
<1>5. VisitorOnTop
  BY <1>1 DEF VisitorOnTop
<1>6. QED
  BY <1>2, <1>3, <1>4, <1>5 DEF StackInv

(* What the parts of StackInv say of the goroutine that steps. *)
LEMMA CallerStack ==
  ASSUME LockInv, StackInv, NEW g \in CallbackUsers, depth[g] > 0
  PROVE  /\ g \in Goroutines /\ g \notin Visitors
         /\ depth[g] \in Depths /\ depth[g] \in Nat
         /\ sp = Height(g) + Visiting
         /\ Entered(Top(g)) => /\ Top(g).base = depth[g] - 1
                               /\ Height(g) = depth[g]
         /\ ~Entered(Top(g)) => Height(g) = depth[g] - 1
<1>1. g \in Goroutines /\ g \notin Visitors
  BY RolesAssumption DEF Visitors
<1>2. depth[g] \in Depths /\ depth[g] \in Nat
  BY <1>1, TopType DEF LockInv, Depths
<1>3. Entered(Top(g)) => Top(g).base = depth[g] - 1
  BY <1>2 DEF StackInv, BaseIsDepth, Top
<1>4. QED
  BY <1>1, <1>2, <1>3 DEF StackInv, StackHeight, Height

LEMMA VisitorStack ==
  ASSUME LockInv, StackInv, NEW g \in Visitors, depth[g] > 0
  PROVE  /\ g \in Goroutines /\ g \notin CallbackUsers
         /\ depth[g] = 1
         /\ Top(g).at \notin {"handler", "relock"}
         /\ mu = g => Top(g).base = sp - 1
<1>1. g \in Goroutines /\ g \notin CallbackUsers
  BY DEF Visitors
<1>2. depth[g] \in Depths /\ depth[g] \in Nat
  BY <1>1, TopType DEF LockInv, Depths
<1>3. QED
  BY <1>1, <1>2 DEF StackInv, VisitorsFlat, VisitorOnTop, Top

(* Steps within an operation that neither take nor leave C stack nor       *)
(* move the mutex to or from a visitor.                                    *)
LEMMA SameStack ==
  ASSUME LockInv, LockInv', StackInv, OneCaller,
         NEW g \in Goroutines, depth[g] > 0, depth' = depth, sp' = sp,
         NEW call \in Calls, NEW point \in Points,
         frame'[g][depth[g]] =
           [call |-> call, at |-> point, base |-> Top(g).base],
         \A h \in Goroutines, d \in Depths :
           h # g \/ d # depth[g] => frame'[h][d] = frame[h][d],
         Entered(frame'[g][depth[g]]) <=> Entered(Top(g)),
         g \in Visitors => mu' = mu /\ mu # g /\ point \notin {"handler", "relock"},
         mu' \in Visitors => mu' = mu,
         mu \in Visitors => mu' = mu
  PROVE  StackInv'
<1>1. depth[g] \in Depths
  BY TopType DEF LockInv
<1>2. Visiting' = Visiting
  BY DEF Visiting, Visitors
<1>3. sp \in Nat /\ Visiting \in Nat
  BY DEF LockInv, TypeOK, Visiting
<1>4. frame'[g][depth[g]].at = point /\ frame'[g][depth[g]].base = Top(g).base
  OBVIOUS
<1>5. g \in Visitors => /\ depth'[g] <= 1
                        /\ frame'[g][depth[g]].at \notin {"handler", "relock"}
                        /\ sp' - Visiting' = sp - Visiting
  BY <1>2, <1>4, VisitorStack
<1>6. g \in CallbackUsers /\ Entered(frame'[g][depth[g]]) =>
        frame'[g][depth[g]].base = depth[g] - 1
  BY <1>4, CallerStack
<1>7. g \in CallbackUsers => sp' = Height(g)' + Visiting'
  <2>1. Height(g)' = Height(g)
    BY <1>1 DEF Height, Top
  <2>2. QED
    BY <1>2, <2>1, CallerStack
<1>8. ASSUME NEW v \in Visitors, mu' = v
      PROVE  frame'[v][depth'[v]].base = sp' - 1
  <2>1. mu = v /\ v \in Goroutines
    BY <1>8 DEF Visitors
  <2>2. v # g
    BY <1>8, <2>1
  <2>3. depth[v] > 0 /\ depth[v] \in Depths
    BY <2>1, TopType DEF LockInv, GuestOwnsLock, At
  <2>4. QED
    BY <1>8, <2>1, <2>2, <2>3 DEF StackInv, VisitorOnTop
<1>9. QED
  BY <1>1, <1>5, <1>6, <1>7, <1>8, FrameStep

(* A guest call starts: the C stack grows by one. *)
LEMMA LockStack ==
  ASSUME LockInv, LockInv', StackInv, OneCaller,
         NEW g \in Goroutines, Lock(g)
  PROVE  StackInv'
<1>1. /\ depth[g] > 0 /\ Top(g).at = "wait"
      /\ mu = NoOne /\ mu' = g /\ sp' = sp + 1
  BY DEF Lock, At
<1>2. /\ depth' = depth
      /\ frame'[g][depth[g]] =
           [call |-> Top(g).call, at |-> "guest", base |-> sp]
      /\ \A h \in Goroutines, d \in Depths :
           h # g \/ d # depth[g] => frame'[h][d] = frame[h][d]
  BY LockFrame DEF LockInv
<1>3. depth[g] \in Depths
  BY <1>1, TopType DEF LockInv
<1>4. sp \in Nat /\ Visiting = 0
  BY <1>1, NoOneAssumption DEF LockInv, TypeOK, Visiting, Visitors
<1>5. frame'[g][depth[g]].at = "guest" /\ frame'[g][depth[g]].base = sp
  BY <1>2
<1>6. g \in Visitors => /\ depth'[g] <= 1
                        /\ frame'[g][depth[g]].at \notin {"handler", "relock"}
                        /\ sp' - Visiting' = sp - Visiting
  BY <1>1, <1>2, <1>4, <1>5, VisitorStack DEF Visiting
<1>7. g \in CallbackUsers => sp = depth[g] - 1 /\ depth[g] \in Nat
  BY <1>1, <1>4, CallerStack DEF Entered
<1>8. g \in CallbackUsers => sp' = Height(g)' + Visiting'
  <2>1. ASSUME g \in CallbackUsers PROVE Visiting' = 0 /\ Height(g)' = depth[g]
    BY <1>1, <1>2, <1>5, <2>1 DEF Visiting, Visitors, Height, Top, Entered
  <2>2. QED
    BY <1>1, <1>7, <2>1
<1>9. \A v \in Visitors : mu' = v => frame'[v][depth'[v]].base = sp' - 1
  BY <1>1, <1>2, <1>4, <1>5
<1>10. QED
  BY <1>2, <1>3, <1>5, <1>6, <1>7, <1>8, <1>9, FrameStep

(* What is left of the C stack when g's activation has ended. *)
LEMMA LeaveStack ==
  ASSUME LockInv, StackInv, NEW g \in Goroutines, LeaveGuest(g)
  PROVE  /\ depth[g] > 0 /\ Top(g).at = "guest" /\ mu = g /\ mu' = NoOne
         /\ Visiting' = 0
         /\ g \in Visitors => sp' = sp - 1 /\ Visiting = 1 /\ depth[g] = 1
         /\ g \in CallbackUsers => sp' = depth[g] - 1
<1>1. depth[g] > 0 /\ Top(g).at = "guest" /\ mu' = NoOne /\ sp' = Top(g).base
  BY DEF LeaveGuest, At
<1>2. mu = g
  BY <1>1, OwnerAtGuest
<1>3. Visiting' = 0
  BY <1>1, NoOneAssumption DEF Visiting, Visitors
<1>4. g \in Visitors => sp' = sp - 1 /\ Visiting = 1 /\ depth[g] = 1
  BY <1>1, <1>2, VisitorStack DEF Visiting
<1>5. g \in CallbackUsers => sp' = depth[g] - 1
  BY <1>1, CallerStack DEF Entered
<1>6. QED
  BY <1>1, <1>2, <1>3, <1>4, <1>5

(* A guest call returns within its operation. *)
LEMMA ReturnStack ==
  ASSUME LockInv, LockInv', StackInv, OneCaller,
         NEW g \in Goroutines, LeaveGuest(g),
         NEW call \in Calls, NEW point \in {"arm", "disarm"},
         GoTo(g, call, point)
  PROVE  StackInv'
<1>1. /\ depth[g] > 0 /\ mu' = NoOne /\ Visiting' = 0
      /\ g \in Visitors => sp' = sp - 1 /\ Visiting = 1 /\ depth[g] = 1
      /\ g \in CallbackUsers => sp' = depth[g] - 1
  BY LeaveStack
<1>2. TypeOK /\ point \in Points /\ sp \in Nat
  BY DEF LockInv, TypeOK, Points
<1>3. /\ depth' = depth
      /\ frame'[g][depth[g]] =
           [call |-> call, at |-> point, base |-> Top(g).base]
      /\ \A h \in Goroutines, d \in Depths :
           h # g \/ d # depth[g] => frame'[h][d] = frame[h][d]
  BY <1>1, <1>2, GoToFrame
<1>4. depth[g] \in Depths /\ depth[g] \in Nat
  BY <1>1, <1>2, TopType DEF Depths
<1>5. frame'[g][depth[g]].at = point /\ ~Entered(frame'[g][depth[g]])
  BY <1>3 DEF Entered
<1>6. g \in Visitors => /\ depth'[g] <= 1
                        /\ frame'[g][depth[g]].at \notin {"handler", "relock"}
                        /\ sp' - Visiting' = sp - Visiting
  BY <1>1, <1>2, <1>3, <1>5
<1>7. g \in CallbackUsers => sp' = Height(g)' + Visiting'
  <2>1. Height(g)' = depth[g] - 1
    BY <1>1, <1>3, <1>5 DEF Height, Top
  <2>2. QED
    BY <1>1, <1>4, <2>1
<1>8. \A v \in Visitors : mu' # v
  BY <1>1, NoOneAssumption DEF Visitors
<1>9. QED
  BY <1>3, <1>4, <1>5, <1>6, <1>7, <1>8, FrameStep

(* An operation begins; it is not on the C stack yet. *)
LEMMA PushStack ==
  ASSUME LockInv, LockInv', StackInv, OneCaller,
         NEW g \in Goroutines, InHostCode(g), mu' = mu, sp' = sp,
         NEW call \in Calls, NEW point \in {"queue", "wait"},
         Push(g, call, point)
  PROVE  StackInv'
<1> DEFINE k == depth[g] + 1
<1>1. TypeOK /\ point \in Points
  BY DEF LockInv, Points
<1>2. /\ depth'[g] = k
      /\ k \in Depths
      /\ \A h \in Goroutines \ {g} : depth'[h] = depth[h]
      /\ frame'[g][k] = [call |-> call, at |-> point, base |-> 0]
      /\ \A h \in Goroutines, d \in Depths :
           h # g \/ d # k => frame'[h][d] = frame[h][d]
  BY <1>1, PushFrame
<1>3. depth[g] \in Nat /\ sp \in Nat
  BY <1>1, BoundsAssumption DEF TypeOK
<1>4. frame'[g][k].at = point /\ ~Entered(frame'[g][k])
  BY <1>2 DEF Entered
<1>5. Visiting' = Visiting
  BY DEF Visiting
<1>6. g \in Visitors => /\ depth'[g] <= 1
                        /\ frame'[g][k].at \notin {"handler", "relock"}
                        /\ sp' - Visiting' = sp - Visiting
  <2>1. g \in Visitors => depth[g] = 0
    BY <1>3, VisitorStack DEF InHostCode, At
  <2>2. QED
    BY <1>2, <1>4, <1>5, <2>1
<1>7. g \in CallbackUsers => sp' = Height(g)' + Visiting'
  <2>1. g \in CallbackUsers => sp = depth[g] + Visiting
    <3>1. CASE depth[g] = 0
      BY <3>1 DEF StackInv, StackHeight, Height
    <3>2. CASE depth[g] > 0
      <4>1. Entered(Top(g))
        BY <3>2 DEF InHostCode, At, Entered
      <4>2. QED
        BY <3>2, <4>1, CallerStack
    <3>3. QED
      BY <1>3, <3>1, <3>2
  <2>2. Height(g)' = depth[g]
    BY <1>2, <1>3, <1>4 DEF Height, Top
  <2>3. QED
    BY <1>5, <2>1, <2>2
<1>8. ASSUME NEW v \in Visitors, mu' = v
      PROVE  frame'[v][depth'[v]].base = sp' - 1
  <2>1. mu = v /\ v \in Goroutines
    BY <1>8 DEF Visitors
  <2>2. depth[v] > 0 /\ Top(v).at = "guest"
    BY <2>1 DEF LockInv, GuestOwnsLock, At
  <2>3. v # g /\ depth[v] \in Depths
    BY <1>1, <2>1, <2>2, TopType DEF InHostCode, At
  <2>4. QED
    BY <1>2, <2>1, <2>3 DEF StackInv, VisitorOnTop
<1>9. QED
  BY <1>2, <1>4, <1>6, <1>7, <1>8, FrameStep

(* An operation returns to its caller: it is off the C stack already, or   *)
(* its activation ends with it.                                            *)
LEMMA PopStack ==
  ASSUME LockInv, LockInv', StackInv, OneCaller,
         NEW g \in Goroutines, depth[g] > 0, Pop(g),
         \/ ~Entered(Top(g)) /\ mu' = mu /\ sp' = sp
         \/ LeaveGuest(g)
  PROVE  StackInv'
<1> DEFINE k == depth[g]
<1>1. TypeOK
  BY DEF LockInv
<1>2. /\ depth'[g] = k - 1
      /\ \A h \in Goroutines \ {g} : depth'[h] = depth[h]
      /\ frame'[g][k] = NoFrame
      /\ \A h \in Goroutines, d \in Depths :
           h # g \/ d # k => frame'[h][d] = frame[h][d]
  BY <1>1, PopFrame
<1>3. k \in Depths /\ k \in Nat /\ sp \in Nat
  BY <1>1, TopType DEF Depths, TypeOK
<1>4. frame'[g][k].at = "none" /\ ~Entered(frame'[g][k])
  BY <1>2 DEF NoFrame, Entered
<1>5. ~Entered(Top(g)) /\ mu' = mu => Visiting' = Visiting /\ mu # g
  BY OwnerAtGuest DEF Visiting, Entered
<1>6. g \in Visitors => /\ depth'[g] <= 1
                        /\ frame'[g][k].at \notin {"handler", "relock"}
                        /\ sp' - Visiting' = sp - Visiting
  <2>1. g \in Visitors => sp' - Visiting' = sp - Visiting
    BY <1>3, <1>5, LeaveStack
  <2>2. QED
    BY <1>2, <1>3, <1>4, <2>1, VisitorStack
<1>7. g \in CallbackUsers => sp' = Height(g)' + Visiting'
  <2>1. Height(g)' = k - 1
    <3>1. CASE k = 1
      BY <1>2, <3>1 DEF Height
    <3>2. CASE k > 1
      <4>1. k - 1 \in Depths /\ k - 1 > 0
        BY <1>3, <3>2, BoundsAssumption DEF Depths
      <4>2. frame[g][k - 1].at = "handler"
        BY <1>3, <4>1 DEF LockInv, Nested
      <4>3. frame'[g][k - 1] = frame[g][k - 1]
        BY <1>2, <1>3, <4>1
      <4>4. Entered(Top(g))'
        BY <1>2, <4>2, <4>3 DEF Entered, Top
      <4>5. QED
        BY <1>2, <4>1, <4>4 DEF Height
    <3>3. QED
      BY <1>3, <3>1, <3>2
  <2>2. CASE ~Entered(Top(g)) /\ mu' = mu /\ sp' = sp
    BY <1>5, <2>1, <2>2, CallerStack
  <2>3. CASE LeaveGuest(g)
    BY <1>3, <2>1, <2>3, LeaveStack
  <2>4. QED
    BY <2>2, <2>3
<1>8. ASSUME NEW v \in Visitors, mu' = v
      PROVE  frame'[v][depth'[v]].base = sp' - 1
  <2>1. v \in Goroutines /\ v # NoOne
    BY NoOneAssumption DEF Visitors
  <2>2. mu' = mu /\ sp' = sp /\ mu # g
    BY <1>5, <1>8, <2>1, LeaveStack
  <2>3. v # g /\ mu = v
    BY <1>8, <2>2
  <2>4. depth[v] > 0 /\ depth[v] \in Depths
    BY <1>1, <2>1, <2>3, TopType DEF LockInv, GuestOwnsLock, At
  <2>5. QED
    BY <1>2, <2>1, <2>2, <2>3, <2>4 DEF StackInv, VisitorOnTop
<1>9. QED
  BY <1>2, <1>3, <1>4, <1>6, <1>7, <1>8, FrameStep

LEMMA NextStack ==
  LockInv /\ LockInv' /\ StackInv /\ OneCaller /\ [Next]_vars => StackInv'
<1> SUFFICES ASSUME LockInv, LockInv', StackInv, OneCaller, [Next]_vars
             PROVE  StackInv'
  OBVIOUS
<1>0. TypeOK
  BY DEF LockInv
<1>1. CASE UNCHANGED <<mu, sp, depth, frame>>
  BY <1>1 DEF StackInv, VisitorsFlat, BaseIsDepth, StackHeight, VisitorOnTop,
              Height, Visiting, Top
<1>2. CASE QueueRelease
  BY <1>1, <1>2 DEF QueueRelease
<1>3. ASSUME NEW g \in Goroutines, HostStep(g) PROVE StackInv'
  <2>1. CASE BeginOp(g)
    BY <2>1, PushStack DEF BeginOp, Calls
  <2>2. CASE Drain(g)
    <3>1. /\ depth[g] > 0 /\ Top(g).at = "queue" /\ mu' = mu /\ sp' = sp
          /\ GoTo(g, "drain", "wait") \/ GoTo(g, "op", "arm")
      BY <2>2 DEF Drain, At
    <3>2. ASSUME NEW call \in Calls, NEW point \in {"wait", "arm"},
                 GoTo(g, call, point)
          PROVE  StackInv'
      <4>1. point \in Points
        BY DEF Points
      <4>2. /\ depth' = depth
            /\ frame'[g][depth[g]] =
                 [call |-> call, at |-> point, base |-> Top(g).base]
            /\ \A h \in Goroutines, d \in Depths :
                 h # g \/ d # depth[g] => frame'[h][d] = frame[h][d]
        BY <1>0, <3>1, <3>2, <4>1, GoToFrame
      <4>3. Entered(frame'[g][depth[g]]) <=> Entered(Top(g))
        BY <3>1, <4>2 DEF Entered
      <4>4. mu # g
        BY <3>1, OwnerAtGuest
      <4>5. QED
        BY <3>1, <4>1, <4>2, <4>3, <4>4, SameStack
    <3>3. QED
      BY <3>1, <3>2 DEF Calls
  <2>3. CASE Arm(g)
    <3>1. /\ depth[g] > 0 /\ Top(g).at = "arm" /\ mu' = mu /\ sp' = sp
          /\ GoTo(g, "op", "wait") /\ "op" \in Calls /\ "wait" \in Points
      BY <2>3 DEF Arm, At, Calls, Points
    <3>2. /\ depth' = depth
          /\ frame'[g][depth[g]] =
               [call |-> "op", at |-> "wait", base |-> Top(g).base]
          /\ \A h \in Goroutines, d \in Depths :
               h # g \/ d # depth[g] => frame'[h][d] = frame[h][d]
      BY <1>0, <3>1, GoToFrame
    <3>3. Entered(frame'[g][depth[g]]) <=> Entered(Top(g))
      BY <3>1, <3>2 DEF Entered
    <3>4. mu # g
      BY <3>1, OwnerAtGuest
    <3>5. QED
      BY <3>1, <3>2, <3>3, <3>4, SameStack
  <2>4. CASE BeginClose(g)
    BY <2>4, PushStack DEF BeginClose, Calls
  <2>5. CASE Disarm(g)
    <3>1. /\ depth[g] > 0 /\ ~Entered(Top(g)) /\ mu' = mu /\ sp' = sp
          /\ Pop(g)
      BY <2>5 DEF Disarm, At, Entered
    <3>2. QED
      BY <3>1, PopStack
  <2>6. QED
    BY <1>3, <2>1, <2>2, <2>3, <2>4, <2>5 DEF HostStep
<1>4. ASSUME NEW g \in Goroutines, CallStep(g) PROVE StackInv'
  <2>0. ASSUME depth[g] > 0 PROVE Top(g).call \in Calls
    BY <1>0, <2>0, TopType DEF Frame
  <2>1. CASE Lock(g)
    BY <2>1, LockStack
  <2>2. ASSUME NEW from \in Points, NEW to \in Points, At(g, from),
               GoTo(g, Top(g).call, to), sp' = sp, g \in CallbackUsers,
               from \in {"guest", "handler", "relock"},
               to \in {"guest", "handler", "relock"},
               mu' \in Visitors \/ mu \in Visitors => mu' = mu
        PROVE  StackInv'
    <3>1. depth[g] > 0 /\ Top(g).at = from /\ Top(g).call \in Calls
      BY <2>0, <2>2 DEF At
    <3>2. /\ depth' = depth
          /\ frame'[g][depth[g]] =
               [call |-> Top(g).call, at |-> to, base |-> Top(g).base]
          /\ \A h \in Goroutines, d \in Depths :
               h # g \/ d # depth[g] => frame'[h][d] = frame[h][d]
      BY <1>0, <2>2, <3>1, GoToFrame
    <3>3. Entered(frame'[g][depth[g]]) <=> Entered(Top(g))
      BY <2>2, <3>1, <3>2 DEF Entered
    <3>4. g \notin Visitors
      BY <2>2 DEF Visitors
    <3>5. QED
      BY <2>2, <3>1, <3>2, <3>3, <3>4, SameStack
  <2>3. CASE Callback(g)
    <3>1. /\ At(g, "guest") /\ GoTo(g, Top(g).call, "handler") /\ sp' = sp
          /\ g \in CallbackUsers /\ mu' = NoOne
      BY <2>3 DEF Callback
    <3>2. mu = g /\ g \notin Visitors /\ NoOne \notin Visitors
      BY <3>1, OwnerAtGuest, NoOneAssumption DEF At, Visitors
    <3>3. QED
      BY <2>2, <3>1, <3>2 DEF Points
  <2>4. CASE HandlerReturn(g)
    <3>1. /\ At(g, "handler") /\ GoTo(g, Top(g).call, "relock") /\ sp' = sp
          /\ mu' = mu
      BY <2>4 DEF HandlerReturn
    <3>2. g \in CallbackUsers
      BY <3>1, VisitorStack DEF At, Visitors
    <3>3. QED
      BY <2>2, <3>1, <3>2 DEF Points
  <2>5. CASE Relock(g)
    <3>1. /\ At(g, "relock") /\ GoTo(g, Top(g).call, "guest") /\ sp' = sp
          /\ mu = NoOne /\ mu' = g
      BY <2>5 DEF Relock
    <3>2. g \in CallbackUsers
      BY <3>1, VisitorStack DEF At, Visitors
    <3>3. g \notin Visitors /\ NoOne \notin Visitors
      BY <3>2, NoOneAssumption DEF Visitors
    <3>4. QED
      BY <2>2, <3>1, <3>2, <3>3 DEF Points
  <2>6. CASE ReturnDrain(g)
    BY <2>6, ReturnStack DEF ReturnDrain, Calls
  <2>7. CASE ReturnOp(g)
    BY <2>7, ReturnStack DEF ReturnOp, Calls
  <2>8. CASE ReturnClose(g)
    BY <2>8, PopStack, LeaveStack DEF ReturnClose
  <2>9. QED
    BY <1>4, <2>1, <2>3, <2>4, <2>5, <2>6, <2>7, <2>8 DEF CallStep
<1>5. QED
  BY <1>1, <1>2, <1>3, <1>4 DEF Next, vars

-----------------------------------------------------------------------------
(* The invariant says where the activation of every operation lies.        *)
LEMMA OwnerOnTop ==
  ASSUME LockInv, StackInv, NEW g \in Goroutines, At(g, "guest")
  PROVE  sp = Top(g).base + 1 /\ sp \in Nat
<1>1. depth[g] > 0 /\ Top(g).at = "guest" /\ mu = g /\ sp \in Nat
  BY OwnerAtGuest DEF At, LockInv, TypeOK
<1>2. CASE g \in Visitors
  BY <1>1, <1>2, TopType, VisitorStack DEF LockInv, Frame
<1>3. CASE g \in CallbackUsers
  <2>1. Visiting = 0
    BY <1>1, <1>3 DEF Visiting, Visitors
  <2>2. QED
    BY <1>1, <1>3, <2>1, CallerStack DEF Entered
<1>4. QED
  BY <1>2, <1>3 DEF Visitors

(* "The nested call exits before the outer call resumes" holds whatever    *)
(* the goroutines do as long as only one of them runs Python code that     *)
(* calls Go functions: the activation that executes is the last one on     *)
(* the C stack.                                                            *)
THEOREM LastInFirstOut == ASSUME OneCaller PROVE Spec => []InnermostRuns
<1>1. Init => LockInv /\ StackInv
  BY InitLock, InitStack
<1>2. LockInv /\ StackInv /\ [Next]_vars => (LockInv /\ StackInv)'
  BY NextLock, NextStack
<1>3. LockInv /\ StackInv => InnermostRuns
  BY OwnerOnTop DEF InnermostRuns
<1>4. QED
  BY <1>1, <1>2, <1>3, PTL DEF Spec

(* Under the same condition calls give back all the C stack they take.     *)
THEOREM StackReturned == ASSUME OneCaller PROVE Spec => []IdleStackEmpty
<1>1. Init => LockInv /\ StackInv
  BY InitLock, InitStack
<1>2. LockInv /\ StackInv /\ [Next]_vars => (LockInv /\ StackInv)'
  BY NextLock, NextStack
<1>3. LockInv /\ StackInv => IdleStackEmpty
  <2> SUFFICES ASSUME LockInv, StackInv, \A g \in Goroutines : depth[g] = 0
               PROVE  sp = 0
    BY DEF IdleStackEmpty
  <2>1. mu \notin Goroutines
    BY DEF LockInv, GuestOwnsLock, At
  <2>2. Visiting = 0
    BY <2>1 DEF Visiting, Visitors
  <2>3. QED
    BY <2>2, RolesAssumption DEF StackInv, StackHeight, Height
<1>4. QED
  BY <1>1, <1>2, <1>3, PTL DEF Spec

(* And no two activations ever share a position of the C stack.            *)
THEOREM FramesApart == ASSUME OneCaller PROVE Spec => []FramesDisjoint
<1>1. Init => LockInv /\ StackInv
  BY InitLock, InitStack
<1>2. LockInv /\ StackInv /\ [Next]_vars => (LockInv /\ StackInv)'
  BY NextLock, NextStack
<1>3. ASSUME LockInv, StackInv PROVE FramesDisjoint
  <2>1. ASSUME NEW g \in Goroutines, NEW d \in Depths, Entered(frame[g][d])
        PROVE  /\ depth[g] > 0 /\ d <= depth[g] /\ d \in Nat
               /\ depth[g] \in Nat /\ sp \in Nat
    BY <1>3, <2>1 DEF LockInv, TypeOK, Nested, Entered, NoFrame, Depths
  <2>2. ASSUME NEW g \in Visitors, NEW d \in Depths, Entered(frame[g][d])
        PROVE  d = 1 /\ mu = g /\ frame[g][d].base = sp - 1 /\ sp > 0
    <3>1. /\ g \in Goroutines /\ depth[g] = 1 /\ d = 1
      <4>1. g \in Goroutines
        BY DEF Visitors
      <4>2. depth[g] > 0 /\ d <= depth[g] /\ d \in 1 .. MaxDepth
        BY <2>1, <2>2, <4>1 DEF Depths
      <4>3. depth[g] = 1
        BY <1>3, <4>2, VisitorStack
      <4>4. QED
        BY <4>1, <4>2, <4>3, BoundsAssumption
    <3>2. frame[g][d].at = "guest"
      BY <1>3, <2>2 DEF StackInv, VisitorsFlat, Entered
    <3>3. mu = g
      BY <1>3, <3>1, <3>2 DEF LockInv, GuestOwnsLock
    <3>4. sp = Top(g).base + 1 /\ Top(g).base \in Nat /\ Top(g) = frame[g][d]
      BY <1>3, <3>1, <3>2, OwnerOnTop, TopType DEF At, Top, LockInv, Frame
    <3>5. QED
      BY <3>1, <3>3, <3>4
  <2>3. ASSUME NEW g \in CallbackUsers, NEW d \in Depths, Entered(frame[g][d])
        PROVE  /\ frame[g][d].base = d - 1
               /\ d - 1 < sp - Visiting
               /\ Visiting \in {0, 1}
    <3>1. g \in Goroutines
      BY RolesAssumption
    <3>2. depth[g] > 0 /\ d <= depth[g] /\ d \in Nat /\ depth[g] \in Nat
      BY <2>1, <2>3, <3>1
    <3>3. d = depth[g] => Entered(Top(g))
      BY <2>3 DEF Top
    <3>4. sp - Visiting = Height(g) /\ d <= Height(g)
      BY <1>3, <3>2, <3>3, CallerStack DEF Visiting
    <3>5. frame[g][d].base = d - 1
      BY <1>3, <2>3 DEF StackInv, BaseIsDepth
    <3>6. Visiting \in {0, 1} /\ sp \in Nat
      BY <1>3 DEF Visiting, LockInv, TypeOK
    <3>7. Height(g) \in Nat
      BY <3>2 DEF Height
    <3>8. QED
      BY <3>2, <3>4, <3>5, <3>6, <3>7
  <2>4. SUFFICES ASSUME NEW g \in Goroutines, NEW h \in Goroutines,
                        NEW d \in Depths, NEW e \in Depths,
                        Entered(frame[g][d]), Entered(frame[h][e])
                 PROVE  /\ frame[g][d].base < sp
                        /\ frame[g][d].base = frame[h][e].base =>
                             g = h /\ d = e
    BY DEF FramesDisjoint
  <2>5. d \in Nat /\ e \in Nat /\ sp \in Nat
    BY <2>1, <2>4
  <2>6. CASE g \in Visitors /\ h \in Visitors
    BY <2>2, <2>4, <2>5, <2>6
  <2>7. CASE g \in Visitors /\ h \in CallbackUsers
    <3>1. Visiting = 1
      BY <2>2, <2>4, <2>7 DEF Visiting
    <3>2. QED
      BY <2>2, <2>3, <2>4, <2>5, <2>7, <3>1
  <2>8. CASE g \in CallbackUsers /\ h \in Visitors
    <3>1. Visiting = 1
      BY <2>2, <2>4, <2>8 DEF Visiting
    <3>2. QED
      BY <2>2, <2>3, <2>4, <2>5, <2>8, <3>1
  <2>9. CASE g \in CallbackUsers /\ h \in CallbackUsers
    BY <2>3, <2>4, <2>5, <2>9 DEF OneCaller
  <2>10. QED
    BY <2>6, <2>7, <2>8, <2>9 DEF Visitors
<1>4. QED
  BY <1>1, <1>2, <1>3, PTL DEF Spec

-----------------------------------------------------------------------------
(***************************************************************************)
(* The refinement: what the steps of Invoke do to the abstract stack.      *)
(***************************************************************************)
LevelOf(f) == IF Entered(f) THEN f.base + 1 ELSE 0

LEMMA LevelAt ==
  ASSUME NEW g \in Goroutines, NEW d \in Depths
  PROVE  <<g, d>> \in Activations /\ Level[<<g, d>>] = LevelOf(frame[g][d])
BY DEF Activations, Level, LevelOf

LEMMA LevelStep ==
  ASSUME NEW g \in Goroutines, NEW k \in Depths,
         \A h \in Goroutines, d \in Depths :
           h # g \/ d # k => frame'[h][d] = frame[h][d]
  PROVE  Level' = [Level EXCEPT ![<<g, k>>] = LevelOf(frame'[g][k])]
<1>1. ASSUME NEW a \in Activations
      PROVE  Level'[a] = IF a = <<g, k>> THEN LevelOf(frame'[g][k]) ELSE Level[a]
  <2>1. PICK h \in Goroutines, d \in Depths : a = <<h, d>>
    BY <1>1 DEF Activations
  <2>2. Level'[a] = LevelOf(frame'[h][d]) /\ Level[a] = LevelOf(frame[h][d])
    BY <2>1 DEF Activations, Level, LevelOf, Entered
  <2>3. QED
    BY <2>1, <2>2
<1>2. QED
  BY <1>1 DEF Level, Activations

(* A step that neither enters nor leaves an activation. *)
LEMMA LevelKept ==
  ASSUME NEW g \in Goroutines, NEW k \in Depths,
         \A h \in Goroutines, d \in Depths :
           h # g \/ d # k => frame'[h][d] = frame[h][d],
         LevelOf(frame'[g][k]) = LevelOf(frame[g][k])
  PROVE  Level' = Level
<1>1. Level' = [Level EXCEPT ![<<g, k>>] = Level[<<g, k>>]]
  BY LevelStep, LevelAt
<1>2. QED
  BY <1>1 DEF Level

(* The operations outside the guest do not concern the stack. *)
LEMMA OutsideKeeps ==
  ASSUME LockInv, NEW g \in Goroutines, HostStep(g)
  PROVE  UNCHANGED <<Running, Level, sp>>
<1>1. TypeOK
  BY DEF LockInv
<1>2. ASSUME InHostCode(g), mu' = mu,
             NEW call \in Calls, NEW point \in {"queue", "wait"},
             Push(g, call, point)
      PROVE  UNCHANGED <<Running, Level>>
  <2> DEFINE k == depth[g] + 1
  <2>1. point \in Points
    BY DEF Points
  <2>2. /\ k \in Depths
        /\ \A h \in Goroutines \ {g} : depth'[h] = depth[h]
        /\ frame'[g][k] = [call |-> call, at |-> point, base |-> 0]
        /\ \A h \in Goroutines, d \in Depths :
             h # g \/ d # k => frame'[h][d] = frame[h][d]
    BY <1>1, <1>2, <2>1, PushFrame
  <2>3. frame[g][k] = NoFrame
    <3>1. k > depth[g]
      BY <1>1, BoundsAssumption DEF TypeOK
    <3>2. QED
      BY <2>2, <3>1 DEF LockInv, Nested
  <2>4. LevelOf(frame[g][k]) = 0 /\ LevelOf(frame'[g][k]) = 0
    BY <2>2, <2>3 DEF LevelOf, Entered, NoFrame
  <2>5. Level' = Level
    BY <2>2, <2>4, LevelKept
  <2>6. mu # g
    BY <1>2, OwnerAtGuest DEF InHostCode, At, LockInv, GuestOwnsLock
  <2>7. Running' = Running
    BY <1>1, <1>2, <2>2, <2>6 DEF Running, TypeOK
  <2>8. QED
    BY <2>5, <2>7
<1>3. ASSUME NEW call \in Calls, NEW point \in {"wait", "arm"}, mu' = mu,
             depth[g] > 0, Top(g).at \in {"queue", "arm"}, GoTo(g, call, point)
      PROVE  UNCHANGED <<Running, Level>>
  <2>1. depth[g] \in Depths /\ point \in Points
    BY <1>1, <1>3, TopType DEF Points
  <2>2. /\ depth' = depth
        /\ frame'[g][depth[g]] =
             [call |-> call, at |-> point, base |-> Top(g).base]
        /\ \A h \in Goroutines, d \in Depths :
             h # g \/ d # depth[g] => frame'[h][d] = frame[h][d]
    BY <1>1, <1>3, <2>1, GoToFrame
  <2>3. LevelOf(frame'[g][depth[g]]) = 0 /\ LevelOf(frame[g][depth[g]]) = 0
    BY <1>3, <2>2 DEF LevelOf, Entered, Top
  <2>4. QED
    BY <1>3, <2>1, <2>2, <2>3, LevelKept DEF Running
<1>4. CASE BeginOp(g)
  BY <1>2, <1>4 DEF BeginOp, Calls
<1>5. CASE Drain(g)
  BY <1>3, <1>5 DEF Drain, At, Calls
<1>6. CASE Arm(g)
  BY <1>3, <1>6 DEF Arm, At, Calls
<1>7. CASE BeginClose(g)
  BY <1>2, <1>7 DEF BeginClose, Calls
<1>8. CASE Disarm(g)
  <2> DEFINE k == depth[g]
  <2>1. k > 0 /\ Top(g).at = "disarm" /\ mu' = mu /\ sp' = sp /\ Pop(g)
    BY <1>8 DEF Disarm, At
  <2>2. k \in Depths
    BY <1>1, <2>1, TopType
  <2>3. /\ \A h \in Goroutines \ {g} : depth'[h] = depth[h]
        /\ frame'[g][k] = NoFrame
        /\ \A h \in Goroutines, d \in Depths :
             h # g \/ d # k => frame'[h][d] = frame[h][d]
    BY <1>1, <2>1, PopFrame
  <2>4. LevelOf(frame[g][k]) = 0 /\ LevelOf(frame'[g][k]) = 0
    BY <2>1, <2>3 DEF LevelOf, Entered, NoFrame, Top
  <2>5. Level' = Level
    BY <2>2, <2>3, <2>4, LevelKept
  <2>6. mu # g
    BY <2>1, OwnerAtGuest
  <2>7. QED
    BY <1>1, <2>1, <2>3, <2>5, <2>6 DEF Running, TypeOK
<1>9. QED
  BY <1>4, <1>5, <1>6, <1>7, <1>8 DEF HostStep

-----------------------------------------------------------------------------
LEMMA InitRefines == Init => Stack!StackInit
<1> SUFFICES ASSUME Init PROVE Stack!StackInit
  OBVIOUS
<1>1. Running = NoActivation /\ sp = 0
  BY DEF Init, Running
<1>2. ASSUME NEW a \in Activations PROVE Level[a] = 0
  <2>1. a[1] \in Goroutines /\ a[2] \in Depths
    BY <1>2 DEF Activations
  <2>2. frame[a[1]][a[2]].at = "none"
    BY <2>1 DEF Init, NoFrame
  <2>3. QED
    BY <1>2, <2>2 DEF Level, Entered
<1>3. Level = [a \in Activations |-> 0]
  BY <1>2 DEF Level
<1>4. QED
  BY <1>1, <1>3 DEF Stack!StackInit

LEMMA LockRefines ==
  ASSUME LockInv, NEW g \in Goroutines, Lock(g)
  PROVE  Stack!Enter(<<g, depth[g]>>)
<1> DEFINE k == depth[g]
<1>1. /\ k > 0 /\ Top(g).at = "wait" /\ mu = NoOne /\ mu' = g /\ sp' = sp + 1
  BY DEF Lock, At
<1>2. /\ depth' = depth
      /\ frame'[g][k] = [call |-> Top(g).call, at |-> "guest", base |-> sp]
      /\ \A h \in Goroutines, d \in Depths :
           h # g \/ d # k => frame'[h][d] = frame[h][d]
  BY LockFrame DEF LockInv
<1>3. k \in Depths
  BY <1>1, TopType DEF LockInv
<1>4. Level[<<g, k>>] = 0 /\ LevelOf(frame'[g][k]) = sp + 1
  BY <1>1, <1>2, <1>3, LevelAt DEF LevelOf, Entered, Top
<1>5. Level' = [Level EXCEPT ![<<g, k>>] = sp + 1]
  BY <1>2, <1>3, <1>4, LevelStep
<1>6. Running = NoActivation /\ Running' = <<g, k>>
  BY <1>1, <1>2, NoOneAssumption DEF Running
<1>7. QED
  BY <1>1, <1>4, <1>5, <1>6 DEF Stack!Enter

LEMMA CallbackRefines ==
  ASSUME LockInv, NEW g \in Goroutines, Callback(g)
  PROVE  Stack!CallOut(<<g, depth[g]>>)
<1> DEFINE k == depth[g]
<1>1. /\ k > 0 /\ Top(g).at = "guest" /\ mu' = NoOne /\ sp' = sp
      /\ GoTo(g, Top(g).call, "handler") /\ TypeOK
  BY DEF Callback, At, LockInv
<1>2. k \in Depths /\ Top(g).call \in Calls /\ mu = g
  BY <1>1, TopType, OwnerAtGuest DEF Frame
<1>3. /\ frame'[g][k] = [call |-> Top(g).call, at |-> "handler", base |-> Top(g).base]
      /\ \A h \in Goroutines, d \in Depths :
           h # g \/ d # k => frame'[h][d] = frame[h][d]
  BY <1>1, <1>2, GoToFrame DEF Points
<1>4. LevelOf(frame'[g][k]) = LevelOf(frame[g][k])
  BY <1>1, <1>3 DEF LevelOf, Entered, Top
<1>5. Level' = Level
  BY <1>2, <1>3, <1>4, LevelKept
<1>6. Running = <<g, k>> /\ Running' = NoActivation
  BY <1>1, <1>2, NoOneAssumption DEF Running
<1>7. QED
  BY <1>1, <1>5, <1>6 DEF Stack!CallOut

LEMMA RelockRefines ==
  ASSUME LockInv, StackInv, NEW g \in Goroutines, Relock(g)
  PROVE  Stack!Resume(<<g, depth[g]>>)
<1> DEFINE k == depth[g]
<1>1. /\ k > 0 /\ Top(g).at = "relock" /\ mu = NoOne /\ mu' = g /\ sp' = sp
      /\ GoTo(g, Top(g).call, "guest") /\ TypeOK
  BY DEF Relock, At, LockInv
<1>2. k \in Depths /\ k \in Nat /\ Top(g).call \in Calls
  BY <1>1, TopType DEF Frame, Depths
<1>3. /\ depth' = depth
      /\ frame'[g][k] = [call |-> Top(g).call, at |-> "guest", base |-> Top(g).base]
      /\ \A h \in Goroutines, d \in Depths :
           h # g \/ d # k => frame'[h][d] = frame[h][d]
  BY <1>1, <1>2, GoToFrame DEF Points
<1>4. LevelOf(frame'[g][k]) = LevelOf(frame[g][k])
  BY <1>1, <1>3 DEF LevelOf, Entered, Top
<1>5. Level' = Level
  BY <1>2, <1>3, <1>4, LevelKept
<1>6. Running = NoActivation /\ Running' = <<g, k>>
  BY <1>1, <1>3, NoOneAssumption DEF Running
<1>7. Level[<<g, k>>] > 0 /\ Level[<<g, k>>] = sp
  <2>1. g \in CallbackUsers
    BY <1>1, VisitorStack DEF Visitors
  <2>2. Visiting = 0
    BY <1>1, NoOneAssumption DEF Visiting, Visitors
  <2>3. Top(g).base = k - 1 /\ sp = k
    BY <1>1, <1>2, <2>1, <2>2, CallerStack DEF Entered
  <2>4. Level[<<g, k>>] = Top(g).base + 1
    BY <1>1, <1>2, LevelAt DEF LevelOf, Entered, Top
  <2>5. QED
    BY <1>1, <1>2, <2>3, <2>4
<1>8. QED
  BY <1>1, <1>5, <1>6, <1>7 DEF Stack!Resume

LEMMA LeaveRefines ==
  ASSUME LockInv, StackInv, NEW g \in Goroutines, LeaveGuest(g),
         ~Entered(frame'[g][depth[g]]),
         \A h \in Goroutines, d \in Depths :
           h # g \/ d # depth[g] => frame'[h][d] = frame[h][d]
  PROVE  Stack!Leave(<<g, depth[g]>>)
<1> DEFINE k == depth[g]
<1>1. /\ k > 0 /\ Top(g).at = "guest" /\ mu' = NoOne /\ sp' = Top(g).base
      /\ At(g, "guest") /\ TypeOK
  BY DEF LeaveGuest, At, LockInv
<1>2. k \in Depths /\ mu = g /\ Top(g).base \in Nat
  BY <1>1, TopType, OwnerAtGuest DEF Frame
<1>3. sp = Top(g).base + 1
  BY <1>1, OwnerOnTop
<1>4. Level[<<g, k>>] = sp
  BY <1>1, <1>2, <1>3, LevelAt DEF LevelOf, Entered, Top
<1>5. Level' = [Level EXCEPT ![<<g, k>>] = 0]
  BY <1>2, LevelStep DEF LevelOf
<1>6. Running = <<g, k>> /\ Running' = NoActivation
  BY <1>1, <1>2, NoOneAssumption DEF Running
<1>7. sp' = sp - 1
  BY <1>1, <1>2, <1>3
<1>8. QED
  BY <1>4, <1>5, <1>6, <1>7 DEF Stack!Leave

LEMMA NextRefines ==
  LockInv /\ StackInv /\ [Next]_vars =>
    [Stack!StackNext]_<<Running, Level, sp>>
<1> SUFFICES ASSUME LockInv, StackInv, [Next]_vars
             PROVE  Stack!StackNext \/ UNCHANGED <<Running, Level, sp>>
  OBVIOUS
<1>1. TypeOK
  BY DEF LockInv
<1>2. CASE UNCHANGED vars \/ QueueRelease
  BY <1>2 DEF vars, QueueRelease, Running, Level, Entered
<1>3. ASSUME NEW g \in Goroutines, HostStep(g)
      PROVE  UNCHANGED <<Running, Level, sp>>
  BY <1>3, OutsideKeeps
<1>4. ASSUME NEW g \in Goroutines, CallStep(g)
      PROVE  Stack!StackNext \/ UNCHANGED <<Running, Level, sp>>
  <2>0. depth[g] > 0 => /\ <<g, depth[g]>> \in Activations
                        /\ depth[g] \in Depths
    BY <1>1, TopType DEF Activations
  <2>1. CASE Lock(g)
    BY <2>0, <2>1, LockRefines DEF Stack!StackNext, Lock, At
  <2>2. CASE Callback(g)
    BY <2>0, <2>2, CallbackRefines DEF Stack!StackNext, Callback, At
  <2>3. CASE HandlerReturn(g)
    <3>1. /\ depth[g] > 0 /\ Top(g).at = "handler" /\ mu' = mu /\ sp' = sp
          /\ GoTo(g, Top(g).call, "relock")
      BY <2>3 DEF HandlerReturn, At
    <3>2. Top(g).call \in Calls
      BY <1>1, <3>1, TopType DEF Frame
    <3>3. /\ depth' = depth
          /\ frame'[g][depth[g]] =
               [call |-> Top(g).call, at |-> "relock", base |-> Top(g).base]
          /\ \A h \in Goroutines, d \in Depths :
               h # g \/ d # depth[g] => frame'[h][d] = frame[h][d]
      BY <1>1, <3>1, <3>2, GoToFrame DEF Points
    <3>4. LevelOf(frame'[g][depth[g]]) = LevelOf(frame[g][depth[g]])
      BY <3>1, <3>3 DEF LevelOf, Entered, Top
    <3>5. QED
      BY <2>0, <3>1, <3>3, <3>4, LevelKept DEF Running
  <2>4. CASE Relock(g)
    BY <2>0, <2>4, RelockRefines DEF Stack!StackNext, Relock, At
  <2>5. ASSUME LeaveGuest(g), NEW call \in Calls, NEW point \in {"arm", "disarm"},
               GoTo(g, call, point)
        PROVE  Stack!StackNext
    <3>1. depth[g] > 0 /\ point \in Points
      BY <2>5 DEF LeaveGuest, At, Points
    <3>2. /\ frame'[g][depth[g]] =
               [call |-> call, at |-> point, base |-> Top(g).base]
          /\ \A h \in Goroutines, d \in Depths :
               h # g \/ d # depth[g] => frame'[h][d] = frame[h][d]
      BY <1>1, <2>5, <3>1, GoToFrame
    <3>3. ~Entered(frame'[g][depth[g]])
      BY <3>2 DEF Entered
    <3>4. QED
      BY <2>0, <2>5, <3>1, <3>2, <3>3, LeaveRefines DEF Stack!StackNext
  <2>6. CASE ReturnDrain(g)
    BY <2>5, <2>6 DEF ReturnDrain, Calls
  <2>7. CASE ReturnOp(g)
    BY <2>5, <2>7 DEF ReturnOp, Calls
  <2>8. CASE ReturnClose(g)
    <3>1. LeaveGuest(g) /\ depth[g] > 0 /\ Pop(g)
      BY <2>8 DEF ReturnClose, LeaveGuest, At
    <3>2. /\ frame'[g][depth[g]] = NoFrame
          /\ \A h \in Goroutines, d \in Depths :
               h # g \/ d # depth[g] => frame'[h][d] = frame[h][d]
      BY <1>1, <3>1, PopFrame
    <3>3. ~Entered(frame'[g][depth[g]])
      BY <3>2 DEF Entered, NoFrame
    <3>4. QED
      BY <2>0, <3>1, <3>2, <3>3, LeaveRefines DEF Stack!StackNext
  <2>9. QED
    BY <1>4, <2>1, <2>2, <2>3, <2>4, <2>6, <2>7, <2>8 DEF CallStep
<1>5. QED
  BY <1>2, <1>3, <1>4 DEF Next

(* invoke and handleCallback implement the last-in first-out stack of      *)
(* activations that the comment on Module promises, as long as one         *)
(* goroutine at most runs Python code that calls Go functions.             *)
THEOREM Refinement == ASSUME OneCaller PROVE Spec => ImplementsStack
<1>1. Init => LockInv /\ StackInv
  BY InitLock, InitStack
<1>2. LockInv /\ StackInv /\ [Next]_vars => (LockInv /\ StackInv)'
  BY NextLock, NextStack
<1>3. Init => Stack!StackInit
  BY InitRefines
<1>4. LockInv /\ StackInv /\ [Next]_vars =>
        [Stack!StackNext]_<<Running, Level, sp>>
  BY NextRefines
<1>5. QED
  BY <1>1, <1>2, <1>3, <1>4, PTL
     DEF Spec, ImplementsStack, Stack!StackSpec, Stack!stackVars
=============================================================================
