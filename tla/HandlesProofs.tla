---------------------------- MODULE HandlesProofs ----------------------------
(***************************************************************************)
(* Theorems about module Handles: the finalizers, drains and wrappers add  *)
(* nothing to what module Invoke allows, every handle is in one place, the *)
(* guest's pins are accounted for, and the id of a wrapper that is kept    *)
(* reachable resolves.                                                     *)
(***************************************************************************)
EXTENDS Handles, InvokeProofs, FiniteSetTheorems

(***************************************************************************)
(* What an operation may be moving, given where it stands: nothing for a   *)
(* frame that is not in use, and ids to release only in the release call.  *)
(***************************************************************************)
Suits(f, job) ==
  /\ f.call = "none" => job = NoWork
  /\ f.call # "drain" \/ f.at \in {"queue", "arm", "disarm"} => job.taken = {}

Fits ==
  \A g \in Goroutines, d \in Depths : Suits(frame[g][d], work[g][d])

(* A queue that is not empty makes the next operation drain it. *)
Awaited == pendingRel # {} => queued

(***************************************************************************)
(* OnePlace handle by handle: h is in at most one of the four places that  *)
(* belong to no operation, and in none of them while an operation moves it *)
(* as a node or as an id to release.                                       *)
(***************************************************************************)
IsSettled(h) == h \in wrapped \/ h \in garbage \/ h \in pendingRel \/ h \in lost

SettledOnce(h) ==
  /\ h \in wrapped => h \notin garbage /\ h \notin pendingRel /\ h \notin lost
  /\ h \in garbage => h \notin pendingRel /\ h \notin lost
  /\ h \in pendingRel => h \notin lost

MovedOnce(g, d, h) ==
  /\ h \in Moving(g, d) => ~IsSettled(h)
  /\ ~(h \in work[g][d].nodes /\ h \in work[g][d].taken)

InUse ==
  \A h \in Handles :
    obj[h] # NoObject <=>
      \/ IsSettled(h)
      \/ \E g \in Goroutines, d \in Depths : h \in Moving(g, d)

Apart ==
  /\ \A h \in Handles : SettledOnce(h)
  /\ \A g \in Goroutines, d \in Depths, h \in Handles : MovedOnce(g, d, h)
  /\ \A g, f \in Goroutines, d, e \in Depths, h \in Handles :
       h \in Moving(g, d) /\ h \in Moving(f, e) => g = f /\ d = e

(* The program can name every object that the guest has yet to look up.    *)
Reachable ==
  \A g \in Goroutines, d \in Depths : work[g][d].uses \subseteq Known

Resolving == KeepsAlive => Reachable /\ HandlesResolve

Accounts ==
  /\ HTypeOK /\ Fits /\ Awaited /\ InUse /\ Apart /\ PinsBalance /\ Resolving

HInv == CloseInv /\ Accounts

-----------------------------------------------------------------------------
(***************************************************************************)
(* Every step on handles is a step of Invoke, or leaves the state of       *)
(* Invoke alone.                                                           *)
(***************************************************************************)
LEMMA StepOfInvoke == [HNext]_handleVars => [Next]_vars
<1> SUFFICES ASSUME [HNext]_handleVars PROVE [Next]_vars
  OBVIOUS
<1>1. CASE UNCHANGED handleVars
  BY <1>1 DEF handleVars, vars
<1>2. ASSUME NEW h \in Handles, Drop(h) \/ Finalize(h)
      PROVE  [Next]_vars
  BY <1>2 DEF Drop, Finalize, Next
<1>3. ASSUME NEW g \in Goroutines,
             \/ StartOp(g) \/ TakeReleases(g) \/ Answer(g) \/ Finish(g)
             \/ LookUp(g) \/ EndDrain(g) \/ EndOp(g) \/ EndClose(g)
             \/ OtherStep(g)
      PROVE  Next
  <2>1. HostStep(g) \/ CallStep(g)
    BY <1>3 DEF StartOp, TakeReleases, Answer, Finish, LookUp, EndDrain,
       EndOp, EndClose, OtherStep, HostStep, CallStep
  <2>2. QED
    BY <2>1 DEF Next
<1>4. ASSUME NEW g \in Goroutines,
             \/ Decode(g)
             \/ \E h \in Handles : \/ Release(g, h)
                                   \/ \E o \in Objects : Pin(g, h, o)
      PROVE  UNCHANGED vars
  BY <1>4 DEF Decode, Release, Pin
<1>5. QED
  BY <1>1, <1>2, <1>3, <1>4 DEF HNext

(* Handles add no entry into the interpreter: what is proved of Invoke     *)
(* holds of operations on objects.                                         *)
THEOREM HandlesInvoke == HSpec => Spec
<1>1. HInit => Init
  BY DEF HInit
<1>2. QED
  BY <1>1, StepOfInvoke, PTL DEF HSpec, Spec

-----------------------------------------------------------------------------
(***************************************************************************)
(* What a step does to the work of one operation.                          *)
(***************************************************************************)
FrameOnly(g, d) ==
  \A h \in Goroutines, e \in Depths :
    h # g \/ e # d => frame'[h][e] = frame[h][e]

WorkOnly(g, d) ==
  /\ work' \in [Goroutines -> [Depths -> Work]]
  /\ \A h \in Goroutines, e \in Depths :
       h # g \/ e # d => work'[h][e] = work[h][e]

(* All fields of the work of d but for its uses, nodes or taken. *)
SameMoves(g, d) ==
  work'[g][d].nodes = work[g][d].nodes /\ work'[g][d].taken = work[g][d].taken
SameIds(g, d) ==
  work'[g][d].uses = work[g][d].uses /\ work'[g][d].missing = work[g][d].missing

LEMMA NoWorkType == NoWork \in Work
BY DEF NoWork, Work

LEMMA JobType ==
  ASSUME HTypeOK, NEW g \in Goroutines, NEW d \in Depths
  PROVE  /\ work[g][d] \in Work
         /\ work[g][d].uses \subseteq Objects
         /\ work[g][d].missing \in BOOLEAN
         /\ work[g][d].nodes \subseteq Handles
         /\ work[g][d].taken \subseteq Handles
BY DEF HTypeOK, Work

LEMMA SetWork ==
  ASSUME HTypeOK, NEW g \in Goroutines, NEW d \in Depths,
         NEW new \in Work, work' = [work EXCEPT ![g][d] = new]
  PROVE  WorkOnly(g, d) /\ work'[g][d] = new
BY DEF HTypeOK, WorkOnly

LEMMA SetUses ==
  ASSUME HTypeOK, NEW g \in Goroutines, NEW d \in Depths,
         NEW ids \in SUBSET Objects, work' = [work EXCEPT ![g][d].uses = ids]
  PROVE  /\ WorkOnly(g, d) /\ SameMoves(g, d) /\ work'[g][d].uses = ids
         /\ work'[g][d].missing = work[g][d].missing
<1> DEFINE old == work[g][d]
           new == [old EXCEPT !.uses = ids]
<1>1. old \in Work
  BY JobType
<1>2. work' = [work EXCEPT ![g][d] = new]
  OBVIOUS
<1>3. new \in Work
  BY <1>1 DEF Work
<1>4. WorkOnly(g, d) /\ work'[g][d] = new
  BY <1>2, <1>3, SetWork
<1>5. /\ new.uses = ids /\ new.missing = old.missing
      /\ new.nodes = old.nodes /\ new.taken = old.taken
  BY <1>1 DEF Work
<1> HIDE DEF new
<1>6. QED
  BY <1>4, <1>5 DEF SameMoves

LEMMA SetNodes ==
  ASSUME HTypeOK, NEW g \in Goroutines, NEW d \in Depths,
         NEW hs \in SUBSET Handles, work' = [work EXCEPT ![g][d].nodes = hs]
  PROVE  /\ WorkOnly(g, d) /\ SameIds(g, d) /\ work'[g][d].nodes = hs
         /\ work'[g][d].taken = work[g][d].taken
<1> DEFINE old == work[g][d]
           new == [old EXCEPT !.nodes = hs]
<1>1. old \in Work
  BY JobType
<1>2. work' = [work EXCEPT ![g][d] = new]
  OBVIOUS
<1>3. new \in Work
  BY <1>1 DEF Work
<1>4. WorkOnly(g, d) /\ work'[g][d] = new
  BY <1>2, <1>3, SetWork
<1>5. /\ new.nodes = hs /\ new.missing = old.missing
      /\ new.uses = old.uses /\ new.taken = old.taken
  BY <1>1 DEF Work
<1> HIDE DEF new
<1>6. QED
  BY <1>4, <1>5 DEF SameIds

LEMMA SetTaken ==
  ASSUME HTypeOK, NEW g \in Goroutines, NEW d \in Depths,
         NEW hs \in SUBSET Handles, work' = [work EXCEPT ![g][d].taken = hs]
  PROVE  /\ WorkOnly(g, d) /\ SameIds(g, d) /\ work'[g][d].taken = hs
         /\ work'[g][d].nodes = work[g][d].nodes
<1> DEFINE old == work[g][d]
           new == [old EXCEPT !.taken = hs]
<1>1. old \in Work
  BY JobType
<1>2. work' = [work EXCEPT ![g][d] = new]
  OBVIOUS
<1>3. new \in Work
  BY <1>1 DEF Work
<1>4. WorkOnly(g, d) /\ work'[g][d] = new
  BY <1>2, <1>3, SetWork
<1>5. /\ new.taken = hs /\ new.missing = old.missing
      /\ new.uses = old.uses /\ new.nodes = old.nodes
  BY <1>1 DEF Work
<1> HIDE DEF new
<1>6. QED
  BY <1>4, <1>5 DEF SameIds

-----------------------------------------------------------------------------
(***************************************************************************)
(* The invariant from one step that deals with one operation.              *)
(***************************************************************************)

(* h is in one of the places that a step of operation d can change. *)
Here(g, d, h) == IsSettled(h) \/ h \in Moving(g, d)

(* Where the step leaves h: in one place at most, and it brings in no      *)
(* handle that another operation is moving.                                *)
Moved(g, d, h) ==
  /\ SettledOnce(h)' /\ MovedOnce(g, d, h)'
  /\ Here(g, d, h)' => Here(g, d, h) \/ obj[h] = NoObject
  /\ obj'[h] # NoObject <=>
       Here(g, d, h)' \/ (~Here(g, d, h) /\ obj[h] # NoObject)

LEMMA FitsKept ==
  ASSUME Fits, NEW g \in Goroutines, NEW d \in Depths, FrameOnly(g, d),
         WorkOnly(g, d), Suits(frame'[g][d], work'[g][d])
  PROVE  Fits'
BY DEF Fits, FrameOnly, WorkOnly

LEMMA PlacesKept ==
  ASSUME InUse, Apart, NEW g \in Goroutines, NEW d \in Depths,
         WorkOnly(g, d), \A h \in Handles : Moved(g, d, h)
  PROVE  InUse' /\ Apart'
<1>1. \A f \in Goroutines, e \in Depths, h \in Handles :
        f # g \/ e # d => (h \in Moving(f, e)' <=> h \in Moving(f, e))
  BY DEF WorkOnly, Moving
<1>2. ASSUME NEW f \in Goroutines, NEW e \in Depths, NEW h \in Handles,
             f # g \/ e # d, h \in Moving(f, e)'
      PROVE  h \in Moving(f, e) /\ obj[h] # NoObject /\ ~Here(g, d, h)
             /\ ~Here(g, d, h)'
  <2>1. h \in Moving(f, e)
    BY <1>1, <1>2
  <2>2. obj[h] # NoObject
    BY <2>1 DEF InUse
  <2>3. ~Here(g, d, h)
    BY <1>2, <2>1 DEF Apart, MovedOnce, Here
  <2>4. Moved(g, d, h)
    OBVIOUS
  <2>5. QED
    BY <2>1, <2>2, <2>3, <2>4 DEF Moved
<1>3. \A h \in Handles : SettledOnce(h)'
  BY DEF Moved
<1>4. ASSUME NEW f \in Goroutines, NEW e \in Depths, NEW h \in Handles
      PROVE  MovedOnce(f, e, h)'
  <2>1. CASE f = g /\ e = d
    BY <2>1 DEF Moved
  <2>2. CASE f # g \/ e # d
    <3>1. h \in Moving(f, e)' => ~IsSettled(h)'
      BY <1>2, <2>2 DEF Here
    <3>2. ~(h \in work'[f][e].nodes /\ h \in work'[f][e].taken)
      BY <2>2 DEF WorkOnly, Apart, MovedOnce
    <3>3. QED
      BY <3>1, <3>2 DEF MovedOnce
  <2>3. QED
    BY <2>1, <2>2
<1>5. ASSUME NEW e \in Goroutines, NEW f \in Goroutines, NEW i \in Depths,
             NEW j \in Depths, NEW h \in Handles,
             h \in Moving(e, i)', h \in Moving(f, j)'
      PROVE  e = f /\ i = j
  <2>1. CASE e = g /\ i = d
    BY <1>2, <1>5, <2>1 DEF Here
  <2>2. CASE f = g /\ j = d
    BY <1>2, <1>5, <2>2 DEF Here
  <2>3. CASE (e # g \/ i # d) /\ (f # g \/ j # d)
    BY <1>2, <1>5, <2>3 DEF Apart
  <2>4. QED
    BY <2>1, <2>2, <2>3
<1>6. ASSUME NEW h \in Handles
      PROVE  obj'[h] # NoObject <=>
               \/ IsSettled(h)'
               \/ \E f \in Goroutines, e \in Depths : h \in Moving(f, e)'
  <2>1. Moved(g, d, h)
    OBVIOUS
  <2>2. CASE Here(g, d, h)'
    BY <2>1, <2>2 DEF Moved, Here
  <2>3. CASE ~Here(g, d, h)' /\ obj'[h] # NoObject
    <3>1. ~Here(g, d, h) /\ obj[h] # NoObject
      BY <2>1, <2>3 DEF Moved
    <3>2. PICK f \in Goroutines, e \in Depths : h \in Moving(f, e)
      BY <3>1 DEF InUse, Here
    <3>3. f # g \/ e # d
      BY <3>1, <3>2 DEF Here
    <3>4. h \in Moving(f, e)'
      BY <1>1, <3>2, <3>3
    <3>5. QED
      BY <2>3, <3>4
  <2>4. CASE ~Here(g, d, h)' /\ obj'[h] = NoObject
    <3>1. ~IsSettled(h)'
      BY <2>4 DEF Here
    <3>2. ASSUME NEW f \in Goroutines, NEW e \in Depths, h \in Moving(f, e)'
          PROVE  FALSE
      <4>1. f # g \/ e # d
        BY <2>4, <3>2 DEF Here
      <4>2. obj[h] # NoObject /\ ~Here(g, d, h)
        BY <1>2, <3>2, <4>1
      <4>3. QED
        BY <2>1, <2>4, <4>2 DEF Moved
    <3>3. QED
      BY <2>4, <3>1, <3>2
  <2>5. QED
    BY <2>2, <2>3, <2>4
<1>7. InUse'
  BY <1>6 DEF InUse
<1>8. Apart'
  BY <1>3, <1>4, <1>5 DEF Apart
<1>9. QED
  BY <1>7, <1>8

LEMMA BalanceKept ==
  ASSUME PinsBalance, UNCHANGED <<pins, obj>>, finalized => finalized'
  PROVE  PinsBalance'
BY DEF PinsBalance

LEMMA ResolvingKept ==
  ASSUME Resolving, NEW g \in Goroutines, NEW d \in Depths, WorkOnly(g, d),
         finalized => finalized', Known \subseteq Known',
         KeepsAlive => work'[g][d].uses \subseteq Known',
         KeepsAlive /\ work'[g][d].missing =>
           finalized' \/ work[g][d].missing
  PROVE  Resolving'
<1> SUFFICES ASSUME KeepsAlive PROVE Reachable' /\ HandlesResolve'
  BY DEF Resolving
<1>1. Reachable /\ HandlesResolve
  BY DEF Resolving
<1>2. Reachable'
  BY <1>1 DEF Reachable, WorkOnly
<1>3. HandlesResolve'
  BY <1>1 DEF HandlesResolve, WorkOnly
<1>4. QED
  BY <1>2, <1>3

(* A runtime that is finalized stays so. *)
LEMMA StaysFinalized == [Next]_vars /\ finalized => finalized'
BY DEF Next, vars, QueueRelease, HostStep, CallStep, BeginOp, Drain, Arm,
   BeginClose, Disarm, Lock, Callback, HandlerReturn, Relock, ReturnDrain,
   ReturnOp, ReturnClose

(* The objects that the program can name are objects, and pinned. *)
LEMMA KnownPinned ==
  ASSUME HTypeOK, InUse, PinsBalance
  PROVE  \A o \in Known : o \in Objects /\ (~finalized => pins[o] # 0)
<1> SUFFICES ASSUME NEW h \in wrapped
             PROVE  obj[h] \in Objects /\ (~finalized => pins[obj[h]] # 0)
  BY DEF Known
<1>1. h \in Handles /\ obj[h] \in Objects
  <2>1. h \in Handles
    BY DEF HTypeOK
  <2>2. obj[h] # NoObject
    BY <2>1 DEF InUse, IsSettled
  <2>3. QED
    BY <2>1, <2>2 DEF HTypeOK
<1>2. PICK o \in Objects : o = obj[h]
  BY <1>1
<1> DEFINE S == {k \in Handles : obj[k] = o}
<1>3. ASSUME ~finalized PROVE pins[o] # 0
  <2>1. pins[o] = Cardinality(S)
    BY <1>3 DEF PinsBalance
  <2>2. IsFiniteSet(S)
    BY ObjectsAssumption, FS_Subset
  <2>3. S # {}
    BY <1>1, <1>2
  <2> HIDE DEF S
  <2>4. Cardinality(S) # 0
    BY <2>2, <2>3, FS_EmptySet
  <2>5. QED
    BY <2>1, <2>4
<1>4. QED
  BY <1>1, <1>2, <1>3

-----------------------------------------------------------------------------
(***************************************************************************)
(* The collector and the finalizers.                                       *)
(***************************************************************************)
LEMMA DropStep ==
  ASSUME HInv, NEW h \in Handles, Drop(h)
  PROVE  Accounts'
<1>1. HTypeOK /\ Fits /\ Awaited /\ InUse /\ Apart /\ PinsBalance /\ Resolving
  BY DEF HInv, Accounts
<1>2. /\ h \in wrapped /\ wrapped' = wrapped \ {h}
      /\ garbage' = garbage \cup {h}
      /\ UNCHANGED <<vars, pins, obj, pendingRel, lost, work>>
  BY DEF Drop
<1>3. HTypeOK'
  BY <1>1, <1>2 DEF HTypeOK
<1>4. Fits' /\ Awaited'
  BY <1>1, <1>2 DEF Fits, Awaited, vars
<1>5. InUse'
  BY <1>1, <1>2 DEF InUse, IsSettled, Moving
<1>6. Apart'
  <2>1. \A k \in Handles : SettledOnce(k)'
    BY <1>1, <1>2 DEF Apart, SettledOnce
  <2>2. \A g \in Goroutines, d \in Depths, k \in Handles : MovedOnce(g, d, k)'
    BY <1>1, <1>2 DEF Apart, MovedOnce, Moving, IsSettled
  <2>3. QED
    BY <1>1, <1>2, <2>1, <2>2 DEF Apart, Moving
<1>7. PinsBalance'
  BY <1>1, <1>2, BalanceKept DEF vars
<1>8. Resolving'
  <2> SUFFICES ASSUME KeepsAlive PROVE Reachable' /\ HandlesResolve'
    BY DEF Resolving
  <2>1. Reachable /\ HandlesResolve
    BY <1>1 DEF Resolving
  <2>2. ASSUME NEW g \in Goroutines, NEW d \in Depths,
               NEW o \in work[g][d].uses
        PROVE  o \in Known'
    <3>1. PICK k \in wrapped : o = obj[k]
      BY <2>1 DEF Reachable, Known
    <3>2. CASE k = h
      <4>1. AwaitsLookup(obj[h])
        BY <3>1, <3>2 DEF AwaitsLookup
      <4>2. PICK other \in wrapped \ {h} : obj[other] = obj[h]
        BY <4>1 DEF Drop
      <4>3. QED
        BY <1>2, <3>1, <3>2, <4>2 DEF Known
    <3>3. CASE k # h
      BY <1>2, <3>1, <3>3 DEF Known
    <3>4. QED
      BY <3>2, <3>3
  <2>3. Reachable'
    BY <1>2, <2>2 DEF Reachable
  <2>4. HandlesResolve'
    BY <1>2, <2>1 DEF HandlesResolve, vars
  <2>5. QED
    BY <2>3, <2>4
<1>9. QED
  BY <1>3, <1>4, <1>5, <1>6, <1>7, <1>8 DEF Accounts

LEMMA FinalizeStep ==
  ASSUME HInv, NEW h \in Handles, Finalize(h)
  PROVE  Accounts'
<1>1. HTypeOK /\ Fits /\ Awaited /\ InUse /\ Apart /\ PinsBalance /\ Resolving
  BY DEF HInv, Accounts
<1>2. /\ h \in garbage /\ garbage' = garbage \ {h}
      /\ pendingRel' = pendingRel \cup {h}
      /\ UNCHANGED <<pins, obj, wrapped, lost, work>>
      /\ queued' = TRUE /\ UNCHANGED <<frame, finalized>>
  BY DEF Finalize, QueueRelease, vars
<1>3. HTypeOK'
  BY <1>1, <1>2 DEF HTypeOK
<1>4. Fits' /\ Awaited'
  BY <1>1, <1>2 DEF Fits, Awaited
<1>5. InUse'
  BY <1>1, <1>2 DEF InUse, IsSettled, Moving
<1>6. Apart'
  <2>1. \A k \in Handles : SettledOnce(k)'
    BY <1>1, <1>2 DEF Apart, SettledOnce
  <2>2. \A g \in Goroutines, d \in Depths, k \in Handles : MovedOnce(g, d, k)'
    BY <1>1, <1>2 DEF Apart, MovedOnce, Moving, IsSettled
  <2>3. QED
    BY <1>1, <1>2, <2>1, <2>2 DEF Apart, Moving
<1>7. PinsBalance'
  BY <1>1, <1>2, BalanceKept
<1>8. Resolving'
  BY <1>1, <1>2 DEF Resolving, Reachable, HandlesResolve, Known
<1>9. QED
  BY <1>3, <1>4, <1>5, <1>6, <1>7, <1>8 DEF Accounts

-----------------------------------------------------------------------------
(***************************************************************************)
(* The steps of the operation's own goroutine.                             *)
(***************************************************************************)

(* A step that leaves every handle where it is. *)
LEMMA StayPut ==
  ASSUME InUse, Apart, NEW g \in Goroutines, NEW d \in Depths,
         WorkOnly(g, d), SameMoves(g, d),
         UNCHANGED <<obj, wrapped, garbage, pendingRel, lost>>
  PROVE  InUse' /\ Apart'
<1>1. ASSUME NEW h \in Handles PROVE Moved(g, d, h)
  <2>1. SettledOnce(h)' /\ (IsSettled(h)' <=> IsSettled(h))
    BY DEF Apart, SettledOnce, IsSettled
  <2>2. h \in Moving(g, d)' <=> h \in Moving(g, d)
    BY DEF SameMoves, Moving
  <2>3. MovedOnce(g, d, h)'
    BY <2>1, <2>2 DEF Apart, MovedOnce, SameMoves
  <2>4. Here(g, d, h) => obj[h] # NoObject
    BY DEF InUse, Here
  <2>5. QED
    BY <2>1, <2>2, <2>3, <2>4 DEF Moved, Here
<1>2. QED
  BY <1>1, PlacesKept

LEMMA StartStep ==
  ASSUME HInv, [Next]_vars, NEW g \in Goroutines, StartOp(g)
  PROVE  Accounts'
<1>1. HTypeOK /\ Fits /\ Awaited /\ InUse /\ Apart /\ PinsBalance /\ Resolving
      /\ TypeOK /\ Nested
  BY DEF HInv, Accounts, CloseInv, LockInv
<1>2. Push(g, "op", "queue") /\ UNCHANGED <<queued, finalized>>
  BY DEF StartOp, BeginOp
<1>3. /\ depth[g] + 1 \in Depths /\ FrameOnly(g, depth[g] + 1)
      /\ frame'[g][depth[g] + 1] =
           [call |-> "op", at |-> "queue", base |-> 0]
  BY <1>1, <1>2, PushFrame DEF Calls, Points, FrameOnly
<1>4. PICK d \in Depths : d = depth[g] + 1
  BY <1>3
<1>5. frame[g][d] = NoFrame
  BY <1>1, <1>4 DEF Nested, TypeOK
<1>6. work[g][d] = NoWork
  BY <1>1, <1>5 DEF Fits, Suits, NoFrame
<1>7. PICK ids \in SUBSET Known :
        work' = [work EXCEPT ![g][d] = [NoWork EXCEPT !.uses = ids]]
  BY <1>4 DEF StartOp
<1> DEFINE new == [NoWork EXCEPT !.uses = ids]
<1>8. ids \subseteq Objects
  BY <1>1, KnownPinned
<1>9. new \in Work
  BY <1>8, NoWorkType DEF Work
<1>10. WorkOnly(g, d) /\ work'[g][d] = new
  BY <1>1, <1>7, <1>9, SetWork
<1>11. /\ new.uses = ids /\ new.missing = FALSE
       /\ new.nodes = {} /\ new.taken = {}
  BY DEF NoWork
<1> HIDE DEF new
<1>12. UNCHANGED <<pins, obj, wrapped, garbage, pendingRel, lost>>
  BY DEF StartOp
<1>13. HTypeOK'
  BY <1>1, <1>10, <1>12 DEF HTypeOK, WorkOnly
<1>14. Fits'
  <2>1. FrameOnly(g, d) /\ frame'[g][d].call = "op"
    BY <1>3, <1>4
  <2>2. Suits(frame'[g][d], work'[g][d])
    BY <1>10, <1>11, <2>1 DEF Suits
  <2>3. QED
    BY <1>1, <1>10, <2>1, <2>2, FitsKept
<1>15. Awaited'
  BY <1>1, <1>2, <1>12 DEF Awaited
<1>16. InUse' /\ Apart'
  <2>1. SameMoves(g, d)
    BY <1>6, <1>10, <1>11 DEF SameMoves, NoWork
  <2>2. QED
    BY <1>1, <1>10, <1>12, <2>1, StayPut
<1>17. PinsBalance'
  BY <1>1, <1>2, <1>12, BalanceKept
<1>18. Resolving'
  <2>1. Known' = Known
    BY <1>12 DEF Known
  <2>2. QED
    BY <1>1, <1>2, <1>10, <1>11, <2>1, ResolvingKept
<1>19. QED
  BY <1>13, <1>14, <1>15, <1>16, <1>17, <1>18 DEF Accounts

(* A handle before a step of operation d. *)
LEMMA WasThere ==
  ASSUME InUse, Apart, NEW g \in Goroutines, NEW d \in Depths,
         NEW h \in Handles
  PROVE  /\ SettledOnce(h) /\ MovedOnce(g, d, h)
         /\ Here(g, d, h) => obj[h] # NoObject
BY DEF InUse, Apart, Here

LEMMA SameWork ==
  ASSUME HTypeOK, work' = work, NEW g \in Goroutines, NEW d \in Depths
  PROVE  WorkOnly(g, d) /\ SameMoves(g, d) /\ SameIds(g, d)
BY DEF HTypeOK, WorkOnly, SameMoves, SameIds

LEMMA GoesOn ==
  ASSUME TypeOK, NEW g \in Goroutines, depth[g] > 0,
         NEW call \in Calls, NEW point \in Points, GoTo(g, call, point)
  PROVE  \E d \in Depths :
           /\ d = depth[g] /\ FrameOnly(g, d)
           /\ frame'[g][d].call = call /\ frame'[g][d].at = point
<1>1. PICK d \in Depths : d = depth[g]
  BY TopType
<1>2. /\ frame'[g][d] = [call |-> call, at |-> point, base |-> Top(g).base]
      /\ FrameOnly(g, d)
  BY <1>1, GoToFrame DEF FrameOnly
<1>3. QED
  BY <1>1, <1>2

LEMMA TakeStep ==
  ASSUME HInv, [Next]_vars, NEW g \in Goroutines, TakeReleases(g)
  PROVE  Accounts'
<1>1. HTypeOK /\ Fits /\ Awaited /\ InUse /\ Apart /\ PinsBalance /\ Resolving
      /\ TypeOK
  BY DEF HInv, Accounts, CloseInv, LockInv
<1>2. /\ depth[g] > 0 /\ Top(g).at = "queue" /\ queued' = FALSE
      /\ finalized' = finalized /\ pendingRel' = {}
      /\ UNCHANGED <<pins, obj, wrapped, garbage>>
      /\ IF queued /\ ~closed THEN GoTo(g, "drain", "wait")
                              ELSE GoTo(g, "op", "arm")
  BY DEF TakeReleases, Drain, At
<1>3. PICK d \in Depths :
        /\ d = depth[g] /\ FrameOnly(g, d)
        /\ frame'[g][d].call =
             IF queued /\ ~closed THEN "drain" ELSE "op"
        /\ frame'[g][d].at \in {"wait", "arm"}
        /\ frame'[g][d].call = "drain" => frame'[g][d].at = "wait"
  <2>1. CASE queued /\ ~closed
    <3>1. "drain" \in Calls /\ "wait" \in Points
      BY DEF Calls, Points
    <3>2. PICK d \in Depths :
            /\ d = depth[g] /\ FrameOnly(g, d)
            /\ frame'[g][d].call = "drain" /\ frame'[g][d].at = "wait"
      BY <1>1, <1>2, <2>1, <3>1, GoesOn
    <3>3. QED
      BY <2>1, <3>2
  <2>2. CASE ~(queued /\ ~closed)
    <3>1. "op" \in Calls /\ "arm" \in Points
      BY DEF Calls, Points
    <3>2. PICK d \in Depths :
            /\ d = depth[g] /\ FrameOnly(g, d)
            /\ frame'[g][d].call = "op" /\ frame'[g][d].at = "arm"
      BY <1>1, <1>2, <2>2, <3>1, GoesOn
    <3>3. QED
      BY <2>2, <3>2
  <2>3. QED
    BY <2>1, <2>2
<1>4. work[g][d].taken = {}
  BY <1>1, <1>2, <1>3 DEF Fits, Suits, Top
<1>5. /\ WorkOnly(g, d) /\ SameIds(g, d)
      /\ work'[g][d].nodes = work[g][d].nodes
      /\ \/ /\ closed /\ lost' = lost \cup pendingRel
            /\ work'[g][d].taken = {}
         \/ /\ ~closed /\ lost' = lost
            /\ work'[g][d].taken = pendingRel
  <2>1. CASE closed
    <3>1. lost' = lost \cup pendingRel /\ work' = work
      BY <2>1 DEF TakeReleases
    <3>2. WorkOnly(g, d) /\ SameMoves(g, d) /\ SameIds(g, d)
      BY <1>1, <3>1, SameWork
    <3>3. QED
      BY <1>4, <2>1, <3>1, <3>2 DEF SameMoves
  <2>2. CASE ~closed
    <3>1. lost' = lost
      BY <2>2 DEF TakeReleases
    <3>2. work' = [work EXCEPT ![g][d].taken = pendingRel]
      BY <1>3, <2>2 DEF TakeReleases
    <3>3. pendingRel \in SUBSET Handles
      BY <1>1 DEF HTypeOK
    <3>4. /\ WorkOnly(g, d) /\ SameIds(g, d)
          /\ work'[g][d].taken = pendingRel
          /\ work'[g][d].nodes = work[g][d].nodes
      <4>1. PICK hs \in SUBSET Handles : hs = pendingRel
        BY <3>3
      <4>2. work' = [work EXCEPT ![g][d].taken = hs]
        BY <3>2, <4>1
      <4>3. /\ WorkOnly(g, d) /\ SameIds(g, d) /\ work'[g][d].taken = hs
            /\ work'[g][d].nodes = work[g][d].nodes
        BY <1>1, <4>2, SetTaken
      <4>4. QED
        BY <4>1, <4>3
    <3>5. QED
      BY <2>2, <3>1, <3>4
  <2>3. QED
    BY <2>1, <2>2
<1>6. HTypeOK'
  BY <1>1, <1>2, <1>5 DEF HTypeOK, WorkOnly
<1>7. Fits'
  <2>1. Suits(frame'[g][d], work'[g][d])
    BY <1>1, <1>3, <1>5 DEF Suits, Awaited
  <2>2. QED
    BY <1>1, <1>3, <1>5, <2>1, FitsKept
<1>8. Awaited'
  BY <1>2 DEF Awaited
<1>9. InUse' /\ Apart'
  <2>1. ASSUME NEW h \in Handles PROVE Moved(g, d, h)
    <3>1. /\ SettledOnce(h) /\ MovedOnce(g, d, h)
          /\ Here(g, d, h) => obj[h] # NoObject
      BY <1>1, WasThere
    <3>2. SettledOnce(h)'
      BY <1>2, <1>5, <3>1 DEF SettledOnce
    <3>3. MovedOnce(g, d, h)'
      BY <1>2, <1>4, <1>5, <3>1 DEF SettledOnce, MovedOnce, Moving, IsSettled
    <3>4. Here(g, d, h)' <=> Here(g, d, h)
      BY <1>2, <1>4, <1>5 DEF Here, Moving, IsSettled
    <3>5. QED
      BY <1>2, <3>1, <3>2, <3>3, <3>4 DEF Moved
  <2>2. QED
    BY <1>1, <1>5, <2>1, PlacesKept
<1>10. PinsBalance'
  BY <1>1, <1>2, BalanceKept
<1>11. Resolving'
  <2>1. Known' = Known /\ (KeepsAlive => work[g][d].uses \subseteq Known)
    BY <1>1, <1>2 DEF Known, Resolving, Reachable
  <2>2. QED
    BY <1>1, <1>2, <1>5, <2>1, ResolvingKept DEF SameIds
<1>12. QED
  BY <1>6, <1>7, <1>8, <1>9, <1>10, <1>11 DEF Accounts

LEMMA DecodeStep ==
  ASSUME HInv, NEW g \in Goroutines, Decode(g)
  PROVE  Accounts'
<1>1. HTypeOK /\ Fits /\ Awaited /\ InUse /\ Apart /\ PinsBalance /\ Resolving
      /\ TypeOK
  BY DEF HInv, Accounts, CloseInv, LockInv
<1>2. depth[g] > 0
  BY DEF Decode, At
<1>3. PICK d \in Depths : d = depth[g]
  BY <1>1, <1>2, TopType
<1>4. /\ work[g][d].nodes # {}
      /\ wrapped' = wrapped \cup work[g][d].nodes
      /\ work' = [work EXCEPT ![g][d].nodes = {}]
      /\ UNCHANGED <<vars, pins, obj, garbage, pendingRel, lost>>
  BY <1>3 DEF Decode, Job
<1>5. /\ WorkOnly(g, d) /\ SameIds(g, d) /\ work'[g][d].nodes = {}
      /\ work'[g][d].taken = work[g][d].taken
  <2>1. PICK hs \in SUBSET Handles : hs = {}
    OBVIOUS
  <2>2. work' = [work EXCEPT ![g][d].nodes = hs]
    BY <1>4, <2>1
  <2>3. QED
    BY <1>1, <2>1, <2>2, SetNodes
<1>6. HTypeOK'
  <2>1. work[g][d].nodes \subseteq Handles
    BY <1>1, JobType
  <2>2. QED
    BY <1>1, <1>4, <1>5, <2>1 DEF HTypeOK, WorkOnly
<1>7. Fits'
  <2>1. Suits(frame[g][d], work[g][d]) /\ work[g][d] # NoWork
    BY <1>1, <1>4 DEF Fits, NoWork
  <2>2. FrameOnly(g, d) /\ frame'[g][d] = frame[g][d]
    BY <1>4 DEF FrameOnly, vars
  <2>3. Suits(frame'[g][d], work'[g][d])
    BY <1>5, <2>1, <2>2 DEF Suits
  <2>4. QED
    BY <1>1, <1>5, <2>2, <2>3, FitsKept
<1>8. Awaited'
  BY <1>1, <1>4 DEF Awaited, vars
<1>9. InUse' /\ Apart'
  <2>1. ASSUME NEW h \in Handles PROVE Moved(g, d, h)
    <3>1. /\ SettledOnce(h) /\ MovedOnce(g, d, h)
          /\ Here(g, d, h) => obj[h] # NoObject
      BY <1>1, WasThere
    <3>2. SettledOnce(h)'
      BY <1>4, <3>1 DEF SettledOnce, MovedOnce, IsSettled, Moving
    <3>3. MovedOnce(g, d, h)'
      BY <1>4, <1>5, <3>1 DEF MovedOnce, Moving, IsSettled
    <3>4. Here(g, d, h)' <=> Here(g, d, h)
      BY <1>4, <1>5 DEF Here, Moving, IsSettled
    <3>5. QED
      BY <1>4, <3>1, <3>2, <3>3, <3>4 DEF Moved
  <2>2. QED
    BY <1>1, <1>5, <2>1, PlacesKept
<1>10. PinsBalance'
  BY <1>1, <1>4, BalanceKept DEF vars
<1>11. Resolving'
  <2>1. Known \subseteq Known' /\ finalized' = finalized
    BY <1>4 DEF Known, vars
  <2>2. KeepsAlive => work[g][d].uses \subseteq Known
    BY <1>1 DEF Resolving, Reachable
  <2>3. QED
    BY <1>1, <1>5, <2>1, <2>2, ResolvingKept DEF SameIds
<1>12. QED
  BY <1>6, <1>7, <1>8, <1>9, <1>10, <1>11 DEF Accounts

LEMMA AnswerStep ==
  ASSUME HInv, [Next]_vars, NEW g \in Goroutines, Answer(g)
  PROVE  Accounts'
<1>1. HTypeOK /\ Fits /\ Awaited /\ InUse /\ Apart /\ PinsBalance /\ Resolving
      /\ TypeOK /\ Named
  BY DEF HInv, Accounts, CloseInv, LockInv
<1>2. /\ depth[g] > 0 /\ Top(g).at = "handler"
      /\ GoTo(g, Top(g).call, "relock")
      /\ UNCHANGED <<queued, finalized>>
      /\ UNCHANGED <<pins, obj, wrapped, garbage, pendingRel, lost>>
  BY DEF Answer, HandlerReturn, At
<1>3. PICK d \in Depths :
        /\ d = depth[g] /\ FrameOnly(g, d)
        /\ frame'[g][d].call = frame[g][d].call /\ frame'[g][d].at = "relock"
  <2>1. PICK call \in Calls : call = Top(g).call
    BY <1>1, <1>2, TopType DEF Frame
  <2>2. "relock" \in Points /\ GoTo(g, call, "relock")
    BY <1>2, <2>1 DEF Points
  <2>3. PICK d \in Depths :
          /\ d = depth[g] /\ FrameOnly(g, d)
          /\ frame'[g][d].call = call /\ frame'[g][d].at = "relock"
    BY <1>1, <1>2, <2>2, GoesOn
  <2>4. QED
    BY <2>1, <2>3 DEF Top
<1>4. PICK ids \in SUBSET Known : work' = [work EXCEPT ![g][d].uses = ids]
  BY <1>3 DEF Answer
<1>5. /\ WorkOnly(g, d) /\ SameMoves(g, d) /\ work'[g][d].uses = ids
      /\ work'[g][d].missing = work[g][d].missing
  <2>1. ids \in SUBSET Objects
    BY <1>1, KnownPinned
  <2>2. QED
    BY <1>1, <1>4, <2>1, SetUses
<1>6. HTypeOK'
  BY <1>1, <1>2, <1>5 DEF HTypeOK, WorkOnly
<1>7. Fits'
  <2>1. frame[g][d].call # "none"
    BY <1>1, <1>2, <1>3 DEF Named, Top
  <2>2. Suits(frame'[g][d], work'[g][d])
    BY <1>1, <1>3, <1>5, <2>1 DEF Fits, Suits, SameMoves
  <2>3. QED
    BY <1>1, <1>3, <1>5, <2>2, FitsKept
<1>8. Awaited'
  BY <1>1, <1>2 DEF Awaited
<1>9. InUse' /\ Apart'
  BY <1>1, <1>2, <1>5, StayPut
<1>10. PinsBalance'
  BY <1>1, <1>2, BalanceKept
<1>11. Resolving'
  <2>1. Known' = Known
    BY <1>2 DEF Known
  <2>2. QED
    BY <1>1, <1>2, <1>5, <2>1, ResolvingKept
<1>12. QED
  BY <1>6, <1>7, <1>8, <1>9, <1>10, <1>11 DEF Accounts

LEMMA FinishStep ==
  ASSUME HInv, [Next]_vars, NEW g \in Goroutines, Finish(g)
  PROVE  Accounts'
<1>1. HTypeOK /\ Fits /\ Awaited /\ InUse /\ Apart /\ PinsBalance /\ Resolving
      /\ TypeOK
  BY DEF HInv, Accounts, CloseInv, LockInv
<1>2. /\ depth[g] > 0 /\ Top(g).at = "disarm" /\ Pop(g)
      /\ UNCHANGED <<queued, finalized>>
      /\ UNCHANGED <<pins, obj, wrapped, garbage, pendingRel, lost>>
  BY DEF Finish, Disarm, At
<1>3. PICK d \in Depths : d = depth[g]
  BY <1>1, <1>2, TopType
<1>4. FrameOnly(g, d) /\ frame'[g][d] = NoFrame
  BY <1>1, <1>2, <1>3, PopFrame DEF FrameOnly
<1>5. work[g][d].nodes = {} /\ work' = [work EXCEPT ![g][d] = NoWork]
  BY <1>3 DEF Finish, Job
<1>6. work[g][d].taken = {}
  BY <1>1, <1>2, <1>3 DEF Fits, Suits, Top
<1>7. WorkOnly(g, d) /\ work'[g][d] = NoWork
  BY <1>1, <1>5, NoWorkType, SetWork
<1>8. HTypeOK'
  BY <1>1, <1>2, <1>7 DEF HTypeOK, WorkOnly
<1>9. Fits'
  <2>1. Suits(frame'[g][d], work'[g][d])
    BY <1>4, <1>7 DEF Suits, NoFrame, NoWork
  <2>2. QED
    BY <1>1, <1>4, <1>7, <2>1, FitsKept
<1>10. Awaited'
  BY <1>1, <1>2 DEF Awaited
<1>11. InUse' /\ Apart'
  <2>1. SameMoves(g, d)
    BY <1>5, <1>6, <1>7 DEF SameMoves, NoWork
  <2>2. QED
    BY <1>1, <1>2, <1>7, <2>1, StayPut
<1>12. PinsBalance'
  BY <1>1, <1>2, BalanceKept
<1>13. Resolving'
  <2>1. Known' = Known
    BY <1>2 DEF Known
  <2>2. QED
    BY <1>1, <1>2, <1>7, <2>1, ResolvingKept DEF NoWork
<1>14. QED
  BY <1>8, <1>9, <1>10, <1>11, <1>12, <1>13 DEF Accounts

-----------------------------------------------------------------------------
(***************************************************************************)
(* The steps of the guest.                                                 *)
(***************************************************************************)
LEMMA LookUpStep ==
  ASSUME HInv, [Next]_vars, NEW g \in Goroutines, LookUp(g)
  PROVE  Accounts'
<1>1. HTypeOK /\ Fits /\ Awaited /\ InUse /\ Apart /\ PinsBalance /\ Resolving
      /\ TypeOK /\ Named
  BY DEF HInv, Accounts, CloseInv, LockInv
<1>2. /\ depth[g] > 0 /\ Top(g).at \in {"wait", "relock"}
      /\ UNCHANGED <<queued, finalized>>
      /\ UNCHANGED <<pins, obj, wrapped, garbage, pendingRel, lost>>
  BY DEF LookUp, Lock, Relock, At
<1>3. PICK d \in Depths :
        /\ d = depth[g] /\ FrameOnly(g, d)
        /\ frame'[g][d].call = frame[g][d].call /\ frame'[g][d].at = "guest"
  <2>1. CASE Lock(g)
    <3>1. PICK d \in Depths : d = depth[g]
      BY <1>1, <1>2, TopType
    <3>2. /\ FrameOnly(g, d)
          /\ frame'[g][d] = [call |-> Top(g).call, at |-> "guest", base |-> sp]
      BY <1>1, <2>1, <3>1, LockFrame DEF FrameOnly
    <3>3. QED
      BY <3>1, <3>2 DEF Top
  <2>2. CASE Relock(g)
    <3>1. PICK call \in Calls : call = Top(g).call
      BY <1>1, <1>2, TopType DEF Frame
    <3>2. "guest" \in Points /\ GoTo(g, call, "guest")
      BY <2>2, <3>1 DEF Points, Relock
    <3>3. PICK d \in Depths :
            /\ d = depth[g] /\ FrameOnly(g, d)
            /\ frame'[g][d].call = call /\ frame'[g][d].at = "guest"
      BY <1>1, <1>2, <3>2, GoesOn
    <3>4. QED
      BY <3>1, <3>3 DEF Top
  <2>3. QED
    BY <2>1, <2>2 DEF LookUp
<1> DEFINE old    == work[g][d]
           absent == \E o \in old.uses : pins[o] = 0
           r      == [old EXCEPT !.uses = {}]
<1>4. PICK b \in BOOLEAN : b = (old.missing \/ absent)
  OBVIOUS
<1> DEFINE new == [r EXCEPT !.missing = b]
<1>5. old \in Work
  BY <1>1, JobType
<1>6. /\ r \in Work /\ r.uses = {} /\ r.missing = old.missing
      /\ r.nodes = old.nodes /\ r.taken = old.taken
  BY <1>5 DEF Work
<1>17. work' = [work EXCEPT ![g][d] = new]
  <2>1. work' = [work EXCEPT ![g][depth[g]] =
           [@ EXCEPT !.uses = {}, !.missing = b]]
    <3> DEFINE gone == \E o \in Job(g).uses : pins[o] = 0
               now  == work[g][depth[g]]
    <3>1. work' = [work EXCEPT ![g][depth[g]] =
             [now EXCEPT !.uses = {}, !.missing = now.missing \/ gone]]
      BY Zenon DEF LookUp, Job
    <3>2. b = (now.missing \/ gone)
      BY <1>3, <1>4 DEF Job
    <3> HIDE DEF gone
    <3>3. now \in Work
      BY <1>3, <1>5
    <3> HIDE DEF now
    <3>4. [now EXCEPT !.uses = {}, !.missing = now.missing \/ gone] =
            [now EXCEPT !.uses = {}, !.missing = b]
      BY <3>2, <3>3 DEF Work
    <3>5. QED
      BY <3>1, <3>4 DEF now
  <2>2. work' = [work EXCEPT ![g][d] =
           [old EXCEPT !.uses = {}, !.missing = b]]
    BY <1>3, <2>1
  <2>3. [old EXCEPT !.uses = {}, !.missing = b] = new
    BY <1>5 DEF Work
  <2>4. QED
    BY <2>2, <2>3
<1> HIDE DEF r, absent
<1>7. /\ new.uses = {} /\ new.missing = b
      /\ new.nodes = old.nodes /\ new.taken = old.taken
  BY <1>6 DEF Work
<1>8. new \in Work
  BY <1>6 DEF Work
<1> HIDE DEF new
<1>9. WorkOnly(g, d) /\ work'[g][d] = new
  BY <1>1, <1>8, <1>17, SetWork
<1>10. HTypeOK'
  BY <1>1, <1>2, <1>9 DEF HTypeOK, WorkOnly
<1>11. Fits'
  <2>1. frame[g][d].call # "none"
    BY <1>1, <1>2, <1>3 DEF Named, Top
  <2>2. Suits(frame'[g][d], work'[g][d])
    BY <1>1, <1>3, <1>7, <1>9, <2>1 DEF Fits, Suits
  <2>3. QED
    BY <1>1, <1>3, <1>9, <2>2, FitsKept
<1>12. Awaited'
  BY <1>1, <1>2 DEF Awaited
<1>13. InUse' /\ Apart'
  <2>1. SameMoves(g, d)
    BY <1>7, <1>9 DEF SameMoves
  <2>2. QED
    BY <1>1, <1>2, <1>9, <2>1, StayPut
<1>14. PinsBalance'
  BY <1>1, <1>2, BalanceKept
<1>15. Resolving'
  <2>1. Known' = Known
    BY <1>2 DEF Known
  <2>2. ASSUME KeepsAlive, absent PROVE finalized
    <3>1. PICK o \in old.uses : pins[o] = 0
      BY <2>2 DEF absent
    <3>2. o \in Known
      BY <1>1, <2>2 DEF Resolving, Reachable
    <3>3. QED
      BY <1>1, <3>1, <3>2, KnownPinned
  <2>3. KeepsAlive /\ work'[g][d].missing => finalized' \/ work[g][d].missing
    BY <1>2, <1>4, <1>7, <1>9, <2>2
  <2>4. work'[g][d].uses = {}
    BY <1>7, <1>9
  <2>5. QED
    BY <1>1, <1>2, <1>9, <2>1, <2>3, <2>4, ResolvingKept
<1>16. QED
  BY <1>10, <1>11, <1>12, <1>13, <1>14, <1>15 DEF Accounts

LEMMA PinStep ==
  ASSUME HInv, NEW g \in Goroutines, NEW h \in Handles, NEW o \in Objects,
         Pin(g, h, o)
  PROVE  Accounts'
<1>1. HTypeOK /\ Fits /\ Awaited /\ InUse /\ Apart /\ PinsBalance /\ Resolving
      /\ TypeOK /\ Named
  BY DEF HInv, Accounts, CloseInv, LockInv
<1>2. /\ depth[g] > 0 /\ Top(g).at = "guest" /\ obj[h] = NoObject
      /\ pins' = [pins EXCEPT ![o] = @ + 1] /\ obj' = [obj EXCEPT ![h] = o]
      /\ UNCHANGED <<vars, wrapped, garbage, pendingRel, lost>>
  BY DEF Pin, At
<1>3. PICK d \in Depths : d = depth[g]
  BY <1>1, <1>2, TopType
<1>4. /\ WorkOnly(g, d) /\ SameIds(g, d)
      /\ work'[g][d].nodes = work[g][d].nodes \cup {h}
      /\ work'[g][d].taken = work[g][d].taken
  <2>1. work[g][d].nodes \subseteq Handles
    BY <1>1, JobType
  <2>2. PICK hs \in SUBSET Handles : hs = work[g][d].nodes \cup {h}
    BY <2>1
  <2>3. work' = [work EXCEPT ![g][d].nodes = hs]
    BY <1>3, <2>2 DEF Pin
  <2>4. /\ WorkOnly(g, d) /\ SameIds(g, d) /\ work'[g][d].nodes = hs
        /\ work'[g][d].taken = work[g][d].taken
    BY <1>1, <2>3, SetNodes
  <2>5. QED
    BY <2>2, <2>4
<1>5. /\ obj'[h] = o /\ o # NoObject
      /\ \A k \in Handles \ {h} : obj'[k] = obj[k]
      /\ pins'[o] = pins[o] + 1
      /\ \A x \in Objects \ {o} : pins'[x] = pins[x]
  BY <1>1, <1>2, ObjectsAssumption DEF HTypeOK
<1>6. HTypeOK'
  BY <1>1, <1>2, <1>4 DEF HTypeOK, WorkOnly
<1>7. Fits'
  <2>1. frame[g][d].call # "none"
    BY <1>1, <1>2, <1>3 DEF Named, Top
  <2>2. FrameOnly(g, d) /\ frame'[g][d] = frame[g][d]
    BY <1>2 DEF FrameOnly, vars
  <2>3. Suits(frame'[g][d], work'[g][d])
    BY <1>1, <1>4, <2>1, <2>2 DEF Fits, Suits
  <2>4. QED
    BY <1>1, <1>4, <2>2, <2>3, FitsKept
<1>8. Awaited'
  BY <1>1, <1>2 DEF Awaited, vars
<1>9. InUse' /\ Apart'
  <2>1. ~Here(g, d, h)
    BY <1>1, <1>2, WasThere
  <2>2. ASSUME NEW k \in Handles PROVE Moved(g, d, k)
    <3>1. /\ SettledOnce(k) /\ MovedOnce(g, d, k)
          /\ Here(g, d, k) => obj[k] # NoObject
      BY <1>1, WasThere
    <3>2. SettledOnce(k)' /\ (IsSettled(k)' <=> IsSettled(k))
      BY <1>2, <3>1 DEF SettledOnce, IsSettled
    <3>3. k \in Moving(g, d)' <=> k \in Moving(g, d) \/ k = h
      BY <1>4 DEF Moving
    <3>4. MovedOnce(g, d, k)'
      <4>1. CASE k = h
        BY <1>4, <2>1, <3>2, <4>1 DEF MovedOnce, Here, Moving
      <4>2. CASE k # h
        BY <1>4, <3>1, <3>2, <3>3, <4>2 DEF MovedOnce
      <4>3. QED
        BY <4>1, <4>2
    <3>5. QED
      BY <1>2, <1>5, <2>1, <3>1, <3>2, <3>3, <3>4 DEF Moved, Here
  <2>3. QED
    BY <1>1, <1>4, <2>2, PlacesKept
<1>10. PinsBalance'
  <2> SUFFICES ASSUME ~finalized', NEW x \in Objects
               PROVE  pins'[x] = Cardinality({k \in Handles : obj'[k] = x})
    BY DEF PinsBalance
  <2> DEFINE S == {k \in Handles : obj[k] = x}
             T == {k \in Handles : obj'[k] = x}
  <2>1. pins[x] = Cardinality(S) /\ IsFiniteSet(S)
    <3>1. ~finalized
      BY <1>2 DEF vars
    <3>2. QED
      BY <1>1, <3>1, ObjectsAssumption, FS_Subset DEF PinsBalance
  <2>2. CASE x = o
    <3>1. T = S \cup {h} /\ h \notin S
      BY <1>2, <1>5, <2>2
    <3> HIDE DEF S, T
    <3>2. Cardinality(T) = Cardinality(S) + 1
      BY <2>1, <3>1, FS_AddElement
    <3>3. QED
      BY <1>5, <2>1, <2>2, <3>2 DEF T
  <2>3. CASE x # o
    <3>1. T = S
      BY <1>2, <1>5, <2>3, ObjectsAssumption
    <3>2. QED
      BY <1>5, <2>1, <2>3, <3>1
  <2>4. QED
    BY <2>2, <2>3
<1>11. Resolving'
  <2>1. h \notin wrapped
    BY <1>1, <1>2, WasThere DEF Here, IsSettled
  <2>2. Known' = Known /\ finalized' = finalized
    BY <1>1, <1>2, <1>5, <2>1 DEF Known, HTypeOK, vars
  <2>3. KeepsAlive => work[g][d].uses \subseteq Known
    BY <1>1 DEF Resolving, Reachable
  <2>4. QED
    BY <1>1, <1>4, <2>2, <2>3, ResolvingKept DEF SameIds
<1>12. QED
  BY <1>6, <1>7, <1>8, <1>9, <1>10, <1>11 DEF Accounts

LEMMA ReleaseStep ==
  ASSUME HInv, NEW g \in Goroutines, NEW h \in Handles, Release(g, h)
  PROVE  Accounts'
<1>1. HTypeOK /\ Fits /\ Awaited /\ InUse /\ Apart /\ PinsBalance /\ Resolving
      /\ TypeOK /\ Named
  BY DEF HInv, Accounts, CloseInv, LockInv
<1>2. /\ depth[g] > 0 /\ Top(g).at = "guest"
      /\ pins' = [pins EXCEPT ![obj[h]] = IF @ = 0 THEN 0 ELSE @ - 1]
      /\ obj' = [obj EXCEPT ![h] = NoObject]
      /\ UNCHANGED <<vars, wrapped, garbage, pendingRel, lost>>
  BY DEF Release, At
<1>3. PICK d \in Depths : d = depth[g]
  BY <1>1, <1>2, TopType
<1>4. h \in work[g][d].taken
  BY <1>3 DEF Release, Job
<1>5. /\ WorkOnly(g, d) /\ SameIds(g, d)
      /\ work'[g][d].taken = work[g][d].taken \ {h}
      /\ work'[g][d].nodes = work[g][d].nodes
  <2>1. work[g][d].taken \subseteq Handles
    BY <1>1, JobType
  <2>2. PICK hs \in SUBSET Handles : hs = work[g][d].taken \ {h}
    BY <2>1
  <2>3. work' = [work EXCEPT ![g][d].taken = hs]
    BY <1>3, <2>2 DEF Release
  <2>4. /\ WorkOnly(g, d) /\ SameIds(g, d) /\ work'[g][d].taken = hs
        /\ work'[g][d].nodes = work[g][d].nodes
    BY <1>1, <2>3, SetTaken
  <2>5. QED
    BY <2>2, <2>4
<1>6. h \in Moving(g, d) /\ ~IsSettled(h) /\ h \notin work[g][d].nodes
  BY <1>1, <1>4, WasThere DEF Moving, MovedOnce
<1>7. PICK o \in Objects : o = obj[h]
  <2>1. obj[h] # NoObject
    BY <1>1, <1>6, WasThere DEF Here
  <2>2. QED
    BY <1>1, <2>1 DEF HTypeOK
<1>8. /\ obj'[h] = NoObject
      /\ \A k \in Handles \ {h} : obj'[k] = obj[k]
      /\ pins[o] \in Nat
      /\ pins'[o] = IF pins[o] = 0 THEN 0 ELSE pins[o] - 1
      /\ \A x \in Objects \ {o} : pins'[x] = pins[x]
  BY <1>1, <1>2, <1>7 DEF HTypeOK
<1>9. HTypeOK'
  <2>1. pins' = [pins EXCEPT ![o] = IF pins[o] = 0 THEN 0 ELSE pins[o] - 1]
    BY <1>2, <1>7
  <2>2. pins' \in [Objects -> Nat]
    BY <1>1, <1>8, <2>1 DEF HTypeOK
  <2>3. QED
    BY <1>1, <1>2, <1>5, <2>2 DEF HTypeOK, WorkOnly
<1>10. Fits'
  <2>1. frame[g][d].call # "none"
    BY <1>1, <1>2, <1>3 DEF Named, Top
  <2>2. FrameOnly(g, d) /\ frame'[g][d] = frame[g][d]
    BY <1>2 DEF FrameOnly, vars
  <2>3. Suits(frame'[g][d], work'[g][d])
    BY <1>1, <1>5, <2>1, <2>2 DEF Fits, Suits
  <2>4. QED
    BY <1>1, <1>5, <2>2, <2>3, FitsKept
<1>11. Awaited'
  BY <1>1, <1>2 DEF Awaited, vars
<1>12. InUse' /\ Apart'
  <2>1. ASSUME NEW k \in Handles PROVE Moved(g, d, k)
    <3>1. /\ SettledOnce(k) /\ MovedOnce(g, d, k)
          /\ Here(g, d, k) => obj[k] # NoObject
      BY <1>1, WasThere
    <3>2. SettledOnce(k)' /\ (IsSettled(k)' <=> IsSettled(k))
      BY <1>2, <3>1 DEF SettledOnce, IsSettled
    <3>3. k \in Moving(g, d)' <=> k \in Moving(g, d) /\ k # h
      BY <1>5, <1>6 DEF Moving
    <3>4. MovedOnce(g, d, k)'
      BY <1>5, <3>1, <3>2, <3>3 DEF MovedOnce
    <3>5. CASE k = h
      BY <1>6, <1>8, <3>2, <3>3, <3>4, <3>5 DEF Moved, Here
    <3>6. CASE k # h
      BY <1>8, <3>1, <3>2, <3>3, <3>4, <3>6 DEF Moved, Here
    <3>7. QED
      BY <3>5, <3>6
  <2>2. QED
    BY <1>1, <1>5, <2>1, PlacesKept
<1>13. PinsBalance'
  <2> SUFFICES ASSUME ~finalized', NEW x \in Objects
               PROVE  pins'[x] = Cardinality({k \in Handles : obj'[k] = x})
    BY DEF PinsBalance
  <2> DEFINE S == {k \in Handles : obj[k] = x}
             T == {k \in Handles : obj'[k] = x}
  <2>1. pins[x] = Cardinality(S) /\ IsFiniteSet(S)
    <3>1. ~finalized
      BY <1>2 DEF vars
    <3>2. QED
      BY <1>1, <3>1, ObjectsAssumption, FS_Subset DEF PinsBalance
  <2>2. CASE x = o
    <3>1. T = S \ {h} /\ h \in S
      BY <1>7, <1>8, <2>2, ObjectsAssumption
    <3> HIDE DEF S, T
    <3>2. Cardinality(T) = Cardinality(S) - 1 /\ Cardinality(S) # 0
      BY <2>1, <3>1, FS_RemoveElement, FS_EmptySet
    <3>3. QED
      BY <1>8, <2>1, <2>2, <3>2 DEF T
  <2>3. CASE x # o
    <3>1. T = S
      BY <1>7, <1>8, <2>3, ObjectsAssumption
    <3>2. QED
      BY <1>8, <2>1, <2>3, <3>1
  <2>4. QED
    BY <2>2, <2>3
<1>14. Resolving'
  <2>1. h \notin wrapped
    BY <1>6 DEF IsSettled
  <2>2. Known' = Known /\ finalized' = finalized
    BY <1>1, <1>2, <1>8, <2>1 DEF Known, HTypeOK, vars
  <2>3. KeepsAlive => work[g][d].uses \subseteq Known
    BY <1>1 DEF Resolving, Reachable
  <2>4. QED
    BY <1>1, <1>5, <2>2, <2>3, ResolvingKept DEF SameIds
<1>15. QED
  BY <1>9, <1>10, <1>11, <1>12, <1>13, <1>14 DEF Accounts

(* Whatever operation d was moving is lost. *)
LEMMA Abandon ==
  ASSUME InUse, Apart, NEW g \in Goroutines, NEW d \in Depths,
         WorkOnly(g, d), work'[g][d].nodes = {}, work'[g][d].taken = {},
         lost' = lost \cup Moving(g, d),
         UNCHANGED <<obj, wrapped, garbage, pendingRel>>
  PROVE  InUse' /\ Apart'
<1>1. ASSUME NEW h \in Handles PROVE Moved(g, d, h)
  <2>1. /\ SettledOnce(h) /\ MovedOnce(g, d, h)
        /\ Here(g, d, h) => obj[h] # NoObject
    BY WasThere
  <2>2. SettledOnce(h)'
    BY <2>1 DEF SettledOnce, MovedOnce, IsSettled
  <2>3. h \notin Moving(g, d)'
    BY DEF Moving
  <2>4. MovedOnce(g, d, h)'
    BY <2>3 DEF MovedOnce
  <2>5. Here(g, d, h)' <=> Here(g, d, h)
    BY <2>3 DEF Here, IsSettled
  <2>6. QED
    BY <2>1, <2>2, <2>4, <2>5 DEF Moved
<1>2. QED
  BY <1>1, PlacesKept

LEMMA EndDrainStep ==
  ASSUME HInv, [Next]_vars, NEW g \in Goroutines, EndDrain(g)
  PROVE  Accounts'
<1>1. HTypeOK /\ Fits /\ Awaited /\ InUse /\ Apart /\ PinsBalance /\ Resolving
      /\ TypeOK
  BY DEF HInv, Accounts, CloseInv, LockInv
<1>2. /\ depth[g] > 0 /\ GoTo(g, "op", "arm")
      /\ UNCHANGED <<queued, finalized>>
      /\ UNCHANGED <<pins, obj, wrapped, garbage, pendingRel>>
  BY DEF EndDrain, ReturnDrain, LeaveGuest, At
<1>3. PICK d \in Depths :
        /\ d = depth[g] /\ FrameOnly(g, d)
        /\ frame'[g][d].call = "op" /\ frame'[g][d].at = "arm"
  <2>1. "op" \in Calls /\ "arm" \in Points
    BY DEF Calls, Points
  <2>2. QED
    BY <1>1, <1>2, <2>1, GoesOn
<1> DEFINE old == work[g][d]
           r   == [old EXCEPT !.taken = {}]
           new == [r EXCEPT !.nodes = {}]
<1>4. old \in Work /\ old.nodes \subseteq Handles /\ old.taken \subseteq Handles
  BY <1>1, JobType
<1>5. /\ r \in Work /\ r.taken = {} /\ r.uses = old.uses
      /\ r.missing = old.missing
  BY <1>4 DEF Work
<1>6. work' = [work EXCEPT ![g][d] = new]
  <2>1. work' = [work EXCEPT ![g][d] =
                   [old EXCEPT !.taken = {}, !.nodes = {}]]
    BY <1>3 DEF EndDrain
  <2>2. [old EXCEPT !.taken = {}, !.nodes = {}] = new
    BY <1>4 DEF Work
  <2>3. QED
    BY <2>1, <2>2
<1> HIDE DEF r
<1>7. new \in Work
  BY <1>5 DEF Work
<1>8. /\ new.taken = {} /\ new.nodes = {} /\ new.uses = old.uses
      /\ new.missing = old.missing
  BY <1>5 DEF Work
<1>9. WorkOnly(g, d) /\ work'[g][d] = new
  BY <1>1, <1>6, <1>7, SetWork
<1> HIDE DEF new
<1>10. /\ work'[g][d].nodes = {} /\ work'[g][d].taken = {} /\ SameIds(g, d)
       /\ lost' = lost \cup Moving(g, d)
  <2>1. lost' = lost \cup old.taken \cup old.nodes
    BY <1>3 DEF EndDrain, Job
  <2>2. QED
    BY <1>8, <1>9, <2>1 DEF SameIds, Moving
<1>11. HTypeOK'
  <2>1. lost' \subseteq Handles
    BY <1>1, <1>4, <1>10 DEF HTypeOK, Moving
  <2>2. QED
    BY <1>1, <1>2, <1>9, <2>1 DEF HTypeOK, WorkOnly
<1>12. Fits'
  <2>1. Suits(frame'[g][d], work'[g][d])
    BY <1>3, <1>10 DEF Suits
  <2>2. QED
    BY <1>1, <1>3, <1>9, <2>1, FitsKept
<1>13. Awaited'
  BY <1>1, <1>2 DEF Awaited
<1>14. InUse' /\ Apart'
  BY <1>1, <1>2, <1>9, <1>10, Abandon
<1>15. PinsBalance'
  BY <1>1, <1>2, BalanceKept
<1>16. Resolving'
  <2>1. Known' = Known /\ (KeepsAlive => work[g][d].uses \subseteq Known)
    BY <1>1, <1>2 DEF Known, Resolving, Reachable
  <2>2. QED
    BY <1>1, <1>2, <1>9, <1>10, <2>1, ResolvingKept DEF SameIds
<1>17. QED
  BY <1>11, <1>12, <1>13, <1>14, <1>15, <1>16 DEF Accounts

LEMMA EndOpStep ==
  ASSUME HInv, [Next]_vars, NEW g \in Goroutines, EndOp(g)
  PROVE  Accounts'
<1>1. HTypeOK /\ Fits /\ Awaited /\ InUse /\ Apart /\ PinsBalance /\ Resolving
      /\ TypeOK
  BY DEF HInv, Accounts, CloseInv, LockInv
<1>2. /\ depth[g] > 0 /\ Top(g).call = "op" /\ GoTo(g, "op", "disarm")
      /\ UNCHANGED <<queued, finalized>>
      /\ UNCHANGED <<pins, obj, wrapped, garbage, pendingRel>>
  BY DEF EndOp, ReturnOp, LeaveGuest, At
<1>3. PICK d \in Depths :
        /\ d = depth[g] /\ FrameOnly(g, d)
        /\ frame'[g][d].call = "op" /\ frame'[g][d].at = "disarm"
  <2>1. "op" \in Calls /\ "disarm" \in Points
    BY DEF Calls, Points
  <2>2. QED
    BY <1>1, <1>2, <2>1, GoesOn
<1>4. work[g][d].taken = {} /\ work[g][d].nodes \subseteq Handles
  <2>1. frame[g][d].call = "op"
    BY <1>2, <1>3 DEF Top
  <2>2. QED
    BY <1>1, <2>1, JobType DEF Fits, Suits
<1>5. /\ WorkOnly(g, d) /\ SameIds(g, d) /\ work'[g][d].taken = {}
      /\ lost' \subseteq Handles /\ InUse' /\ Apart'
  <2>1. CASE UNCHANGED <<lost, work>>
    <3>1. WorkOnly(g, d) /\ SameMoves(g, d) /\ SameIds(g, d)
      BY <1>1, <2>1, SameWork
    <3>2. work'[g][d].taken = {}
      BY <1>4, <3>1 DEF SameMoves
    <3>3. lost' \subseteq Handles
      BY <1>1, <2>1 DEF HTypeOK
    <3>4. InUse' /\ Apart'
      BY <1>1, <1>2, <2>1, <3>1, StayPut
    <3>5. QED
      BY <3>1, <3>2, <3>3, <3>4
  <2>2. CASE /\ lost' = lost \cup Job(g).nodes
             /\ work' = [work EXCEPT ![g][depth[g]].nodes = {}]
    <3>1. lost' = lost \cup work[g][d].nodes
      BY <1>3, <2>2 DEF Job
    <3>2. PICK hs \in SUBSET Handles : hs = {}
      OBVIOUS
    <3>3. work' = [work EXCEPT ![g][d].nodes = hs]
      BY <1>3, <2>2, <3>2
    <3>4. /\ WorkOnly(g, d) /\ SameIds(g, d) /\ work'[g][d].nodes = {}
          /\ work'[g][d].taken = {}
      <4>1. /\ WorkOnly(g, d) /\ SameIds(g, d) /\ work'[g][d].nodes = hs
            /\ work'[g][d].taken = work[g][d].taken
        BY <1>1, <3>3, SetNodes
      <4>2. QED
        BY <1>4, <3>2, <4>1
    <3>5. lost' \subseteq Handles
      BY <1>1, <1>4, <3>1 DEF HTypeOK
    <3>6. lost' = lost \cup Moving(g, d)
      BY <1>4, <3>1 DEF Moving
    <3>7. InUse' /\ Apart'
      BY <1>1, <1>2, <3>4, <3>6, Abandon
    <3>8. QED
      BY <3>4, <3>5, <3>7
  <2>3. QED
    BY <2>1, <2>2 DEF EndOp
<1>6. HTypeOK'
  BY <1>1, <1>2, <1>5 DEF HTypeOK, WorkOnly
<1>7. Fits'
  <2>1. Suits(frame'[g][d], work'[g][d])
    BY <1>3, <1>5 DEF Suits
  <2>2. QED
    BY <1>1, <1>3, <1>5, <2>1, FitsKept
<1>8. Awaited'
  BY <1>1, <1>2 DEF Awaited
<1>9. PinsBalance'
  BY <1>1, <1>2, BalanceKept
<1>10. Resolving'
  <2>1. Known' = Known /\ (KeepsAlive => work[g][d].uses \subseteq Known)
    BY <1>1, <1>2 DEF Known, Resolving, Reachable
  <2>2. QED
    BY <1>1, <1>2, <1>5, <2>1, ResolvingKept DEF SameIds
<1>11. QED
  BY <1>5, <1>6, <1>7, <1>8, <1>9, <1>10 DEF Accounts

LEMMA EndCloseStep ==
  ASSUME HInv, [Next]_vars, NEW g \in Goroutines, EndClose(g)
  PROVE  Accounts'
<1>1. HTypeOK /\ Fits /\ Awaited /\ InUse /\ Apart /\ PinsBalance /\ Resolving
      /\ TypeOK
  BY DEF HInv, Accounts, CloseInv, LockInv
<1>2. /\ depth[g] > 0 /\ Top(g).call = "close" /\ Pop(g)
      /\ queued' = queued /\ finalized' = TRUE
      /\ pins' = [o \in Objects |-> 0]
      /\ UNCHANGED <<obj, wrapped, garbage, pendingRel>>
  BY DEF EndClose, ReturnClose, LeaveGuest, At
<1>3. PICK d \in Depths : d = depth[g]
  BY <1>1, <1>2, TopType
<1>4. FrameOnly(g, d) /\ frame'[g][d] = NoFrame
  BY <1>1, <1>2, <1>3, PopFrame DEF FrameOnly
<1>5. work[g][d].taken = {} /\ work[g][d].nodes \subseteq Handles
  <2>1. frame[g][d].call = "close"
    BY <1>2, <1>3 DEF Top
  <2>2. QED
    BY <1>1, <2>1, JobType DEF Fits, Suits
<1>6. /\ lost' = lost \cup Moving(g, d)
      /\ work' = [work EXCEPT ![g][d] = NoWork]
  <2>1. /\ lost' = lost \cup work[g][d].nodes
        /\ work' = [work EXCEPT ![g][d] = NoWork]
    BY <1>3 DEF EndClose, Job
  <2>2. QED
    BY <1>5, <2>1 DEF Moving
<1>7. WorkOnly(g, d) /\ work'[g][d] = NoWork
  BY <1>1, <1>6, NoWorkType, SetWork
<1>8. HTypeOK'
  <2>1. lost' \subseteq Handles
    BY <1>1, <1>5, <1>6 DEF HTypeOK, Moving
  <2>2. QED
    BY <1>1, <1>2, <1>7, <2>1 DEF HTypeOK, WorkOnly
<1>9. Fits'
  <2>1. Suits(frame'[g][d], work'[g][d])
    BY <1>4, <1>7 DEF Suits, NoFrame, NoWork
  <2>2. QED
    BY <1>1, <1>4, <1>7, <2>1, FitsKept
<1>10. Awaited'
  BY <1>1, <1>2 DEF Awaited
<1>11. InUse' /\ Apart'
  BY <1>1, <1>2, <1>6, <1>7, Abandon DEF NoWork
<1>12. PinsBalance'
  BY <1>2 DEF PinsBalance
<1>13. Resolving'
  <2>1. Known' = Known
    BY <1>2 DEF Known
  <2>2. QED
    BY <1>1, <1>2, <1>7, <2>1, ResolvingKept DEF NoWork
<1>14. QED
  BY <1>8, <1>9, <1>10, <1>11, <1>12, <1>13 DEF Accounts

-----------------------------------------------------------------------------
(***************************************************************************)
(* The steps that no handle takes part in.                                 *)
(***************************************************************************)
LEMMA OtherFrame ==
  ASSUME HInv, NEW g \in Goroutines, OtherStep(g)
  PROVE  \E d \in Depths :
           /\ FrameOnly(g, d)
           /\ \/ frame'[g][d].call = frame[g][d].call
                 /\ frame'[g][d].at \in {"guest", "handler"}
              \/ frame[g][d].at = "arm" /\ frame'[g][d].call = "op"
              \/ frame[g][d] = NoFrame /\ frame'[g][d].call = "close"
<1>1. TypeOK /\ Nested
  BY DEF HInv, CloseInv, LockInv
<1>2. CASE Arm(g)
  <2>1. depth[g] > 0 /\ Top(g).at = "arm" /\ GoTo(g, "op", "wait")
    BY <1>2 DEF Arm, At
  <2>2. "op" \in Calls /\ "wait" \in Points
    BY DEF Calls, Points
  <2>3. PICK d \in Depths :
          /\ d = depth[g] /\ FrameOnly(g, d)
          /\ frame'[g][d].call = "op" /\ frame'[g][d].at = "wait"
    BY <1>1, <2>1, <2>2, GoesOn
  <2>4. QED
    BY <2>1, <2>3 DEF Top
<1>3. CASE BeginClose(g)
  <2>1. Push(g, "close", "wait") /\ "close" \in Calls /\ "wait" \in Points
    BY <1>3 DEF BeginClose, Calls, Points
  <2>2. /\ depth[g] + 1 \in Depths /\ FrameOnly(g, depth[g] + 1)
        /\ frame'[g][depth[g] + 1] =
             [call |-> "close", at |-> "wait", base |-> 0]
    BY <1>1, <2>1, PushFrame DEF FrameOnly
  <2>3. frame[g][depth[g] + 1] = NoFrame
    BY <1>1, <2>2 DEF Nested, TypeOK
  <2>4. QED
    BY <2>2, <2>3
<1>4. CASE Callback(g)
  <2>1. depth[g] > 0 /\ GoTo(g, Top(g).call, "handler")
    BY <1>4 DEF Callback, At
  <2>2. PICK call \in Calls : call = Top(g).call
    BY <1>1, <2>1, TopType DEF Frame
  <2>3. "handler" \in Points /\ GoTo(g, call, "handler")
    BY <2>1, <2>2 DEF Points
  <2>4. PICK d \in Depths :
          /\ d = depth[g] /\ FrameOnly(g, d)
          /\ frame'[g][d].call = call /\ frame'[g][d].at = "handler"
    BY <1>1, <2>1, <2>3, GoesOn
  <2>5. QED
    BY <2>2, <2>4 DEF Top
<1>5. CASE Lock(g)
  <2>1. depth[g] > 0
    BY <1>5 DEF Lock, At
  <2>2. PICK d \in Depths : d = depth[g]
    BY <1>1, <2>1, TopType
  <2>3. /\ FrameOnly(g, d)
        /\ frame'[g][d] = [call |-> Top(g).call, at |-> "guest", base |-> sp]
    BY <1>1, <1>5, <2>2, LockFrame DEF FrameOnly
  <2>4. QED
    BY <2>2, <2>3 DEF Top
<1>6. QED
  BY <1>2, <1>3, <1>4, <1>5 DEF OtherStep

LEMMA OtherAccounts ==
  ASSUME HInv, [Next]_vars, NEW g \in Goroutines, OtherStep(g)
  PROVE  Accounts'
<1>1. HTypeOK /\ Fits /\ Awaited /\ InUse /\ Apart /\ PinsBalance /\ Resolving
  BY DEF HInv, Accounts
<1>2. UNCHANGED <<pins, obj, wrapped, garbage, pendingRel, lost, work>>
      /\ UNCHANGED <<queued, finalized>>
  BY DEF OtherStep, hvars, Arm, BeginClose, Callback, Lock
<1>3. PICK d \in Depths :
        /\ FrameOnly(g, d)
        /\ \/ frame'[g][d].call = frame[g][d].call
              /\ frame'[g][d].at \in {"guest", "handler"}
           \/ frame[g][d].at = "arm" /\ frame'[g][d].call = "op"
           \/ frame[g][d] = NoFrame /\ frame'[g][d].call = "close"
  BY OtherFrame
<1>4. WorkOnly(g, d) /\ SameMoves(g, d) /\ SameIds(g, d)
  BY <1>1, <1>2, SameWork
<1>5. HTypeOK'
  BY <1>1, <1>2 DEF HTypeOK
<1>6. Fits'
  <2>1. Suits(frame[g][d], work[g][d]) /\ work'[g][d] = work[g][d]
    BY <1>1, <1>2 DEF Fits
  <2>2. Suits(frame'[g][d], work'[g][d])
    BY <1>3, <2>1 DEF Suits, NoFrame, NoWork
  <2>3. QED
    BY <1>1, <1>3, <1>4, <2>2, FitsKept
<1>7. Awaited' /\ PinsBalance'
  BY <1>1, <1>2, BalanceKept DEF Awaited
<1>8. InUse' /\ Apart'
  BY <1>1, <1>2, <1>4, StayPut
<1>9. Resolving'
  BY <1>1, <1>2 DEF Resolving, Reachable, HandlesResolve, Known
<1>10. QED
  BY <1>5, <1>6, <1>7, <1>8, <1>9 DEF Accounts

-----------------------------------------------------------------------------
(***************************************************************************)
(* The invariant and the theorems.                                         *)
(***************************************************************************)
LEMMA InitHandles == HInit => HInv
<1> SUFFICES ASSUME HInit PROVE HInv
  OBVIOUS
<1>1. CloseInv
  BY InitClose DEF HInit
<1>2. /\ pins = [o \in Objects |-> 0] /\ obj = [h \in Handles |-> NoObject]
      /\ wrapped = {} /\ garbage = {} /\ pendingRel = {} /\ lost = {}
  BY DEF HInit
<1>3. \A g \in Goroutines, d \in Depths : work[g][d] = NoWork
  BY DEF HInit
<1>4. HTypeOK
  <2>1. work \in [Goroutines -> [Depths -> Work]]
    BY NoWorkType DEF HInit
  <2>2. QED
    BY <1>2, <2>1 DEF HTypeOK
<1>5. Fits /\ Awaited
  BY <1>2, <1>3 DEF Fits, Suits, NoWork, Awaited
<1>6. \A g \in Goroutines, d \in Depths : Moving(g, d) = {}
  BY <1>3 DEF Moving, NoWork
<1>7. InUse
  BY <1>2, <1>6 DEF InUse, IsSettled
<1>8. Apart
  BY <1>2, <1>3, <1>6 DEF Apart, SettledOnce, MovedOnce, NoWork
<1>9. PinsBalance
  <2> SUFFICES ASSUME NEW o \in Objects
               PROVE  pins[o] = Cardinality({h \in Handles : obj[h] = o})
    BY DEF PinsBalance
  <2>1. {h \in Handles : obj[h] = o} = {}
    BY <1>2, ObjectsAssumption
  <2>2. QED
    BY <1>2, <2>1, FS_EmptySet
<1>10. Resolving
  BY <1>3 DEF Resolving, Reachable, HandlesResolve, NoWork
<1>11. QED
  BY <1>1, <1>4, <1>5, <1>7, <1>8, <1>9, <1>10 DEF HInv, Accounts

LEMMA NextHandles == HInv /\ [HNext]_handleVars => HInv'
<1> SUFFICES ASSUME HInv, [HNext]_handleVars PROVE HInv'
  OBVIOUS
<1>1. [Next]_vars
  BY StepOfInvoke
<1>2. CloseInv'
  BY <1>1, NextClose DEF HInv
<1>3. CASE UNCHANGED handleVars
  <2>1. Accounts
    BY DEF HInv
  <2>2. Accounts'
    BY <1>3, <2>1 DEF handleVars, Accounts, HTypeOK, Fits, Awaited, InUse,
       Apart, PinsBalance, Resolving, Reachable, HandlesResolve, Known,
       IsSettled, SettledOnce, MovedOnce, Moving
  <2>3. QED
    BY <1>2, <2>2 DEF HInv
<1>4. ASSUME NEW h \in Handles, Drop(h) \/ Finalize(h)
      PROVE  Accounts'
  BY <1>4, DropStep, FinalizeStep
<1>5. ASSUME NEW g \in Goroutines,
             \/ StartOp(g) \/ TakeReleases(g) \/ Decode(g) \/ Answer(g)
             \/ Finish(g)
      PROVE  Accounts'
  BY <1>1, <1>5, StartStep, TakeStep, DecodeStep, AnswerStep, FinishStep
<1>6. ASSUME NEW g \in Goroutines,
             \/ LookUp(g) \/ EndDrain(g) \/ EndOp(g) \/ EndClose(g)
             \/ OtherStep(g)
      PROVE  Accounts'
  BY <1>1, <1>6, LookUpStep, EndDrainStep, EndOpStep, EndCloseStep,
     OtherAccounts
<1>7. ASSUME NEW g \in Goroutines, NEW h \in Handles,
             Release(g, h) \/ \E o \in Objects : Pin(g, h, o)
      PROVE  Accounts'
  BY <1>7, ReleaseStep, PinStep
<1>8. CASE HNext
  <2>1. Accounts'
    BY <1>4, <1>5, <1>6, <1>7, <1>8 DEF HNext
  <2>2. QED
    BY <1>2, <2>1 DEF HInv
<1>9. QED
  BY <1>3, <1>8

LEMMA HandlesInvariant == HSpec => []HInv
BY InitHandles, NextHandles, PTL DEF HSpec

(* Types of the registry, of the handles and of the work of an operation. *)
THEOREM HandleTypes == HSpec => []HTypeOK
<1>1. HInv => HTypeOK
  BY DEF HInv, Accounts
<1>2. QED
  BY <1>1, HandlesInvariant, PTL

(* A handle in use is in exactly one place: no wrapper that can still be   *)
(* used is queued, and no id is queued or released twice.                  *)
THEOREM EachInOnePlace == HSpec => []OnePlace
<1>1. HInv => OnePlace
  <2> SUFFICES ASSUME HInv PROVE OnePlace
    OBVIOUS
  <2>1. HTypeOK /\ InUse /\ Apart
    BY DEF HInv, Accounts
  <2>2. \A h : (\E i \in 1 .. 4 : h \in Settled[i]) <=> IsSettled(h)
    BY DEF Settled, IsSettled
  <2>3. \A h \in Handles :
          obj[h] # NoObject <=>
            \/ \E i \in 1 .. 4 : h \in Settled[i]
            \/ \E g \in Goroutines : \E d \in Depths : h \in Moving(g, d)
    BY <2>1, <2>2 DEF InUse
  <2>4. \A i \in 1 .. 4 : Settled[i] \subseteq Handles
    BY <2>1 DEF Settled, HTypeOK
  <2>5. \A i, j \in 1 .. 4 : i # j => Settled[i] \cap Settled[j] = {}
    <3>1. /\ wrapped \cap garbage = {} /\ wrapped \cap pendingRel = {}
          /\ wrapped \cap lost = {} /\ garbage \cap pendingRel = {}
          /\ garbage \cap lost = {} /\ pendingRel \cap lost = {}
      BY <2>1 DEF Apart, SettledOnce, HTypeOK
    <3>2. QED
      BY <3>1 DEF Settled
  <2>6. ASSUME NEW g \in Goroutines, NEW d \in Depths
        PROVE  /\ Moving(g, d) \subseteq Handles
               /\ \A i \in 1 .. 4 : Settled[i] \cap Moving(g, d) = {}
               /\ work[g][d].nodes \cap work[g][d].taken = {}
               /\ \A h \in Goroutines : \A e \in Depths :
                    <<h, e>> # <<g, d>> => Moving(g, d) \cap Moving(h, e) = {}
    <3>1. Moving(g, d) \subseteq Handles
      BY <2>1, JobType DEF Moving
    <3>2. \A h \in Moving(g, d) : ~IsSettled(h)
      BY <2>1, <3>1 DEF Apart, MovedOnce
    <3>3. \A i \in 1 .. 4 : Settled[i] \cap Moving(g, d) = {}
      BY <2>2, <3>2
    <3>4. work[g][d].nodes \cap work[g][d].taken = {}
      BY <2>1, <3>1 DEF Apart, MovedOnce, Moving
    <3>5. ASSUME NEW h \in Goroutines, NEW e \in Depths,
                 <<h, e>> # <<g, d>>
          PROVE  Moving(g, d) \cap Moving(h, e) = {}
      BY <2>1, <3>1, <3>5 DEF Apart
    <3>6. QED
      BY <3>1, <3>3, <3>4, <3>5
  <2>7. QED
    BY <2>3, <2>5, <2>6 DEF OnePlace
<1>2. QED
  BY <1>1, HandlesInvariant, PTL

(* The guest's registry has an object pinned once for each handle on it:   *)
(* no release is lost or made twice.                                       *)
THEOREM PinsAccounted == HSpec => []PinsBalance
<1>1. HInv => PinsBalance
  BY DEF HInv, Accounts
<1>2. QED
  BY <1>1, HandlesInvariant, PTL

(* If the program keeps a wrapper reachable until the guest has looked its *)
(* id up, the id resolves unless Close has finalized the runtime.  Without *)
(* the premise it need not: run HandlesCollected.                          *)
THEOREM IdsResolve == ASSUME KeepsAlive PROVE HSpec => []HandlesResolve
<1>1. HInv => HandlesResolve
  BY DEF HInv, Accounts, Resolving
<1>2. QED
  BY <1>1, HandlesInvariant, PTL
=============================================================================
