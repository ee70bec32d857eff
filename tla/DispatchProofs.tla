--------------------------- MODULE DispatchProofs ---------------------------
(***************************************************************************)
(* Theorems about module Dispatch, for every set of goroutines, every      *)
(* bound and with or without failing guest calls.                          *)
(***************************************************************************)
EXTENDS Dispatch, FiniteSets, FiniteSetTheorems, TLAPS

(***************************************************************************)
(* What the three helpers do to the stacks of tasks.                       *)
(***************************************************************************)

(* Every task but the d-th of g is what it was. *)
OnlyTask(g, d) ==
  \A h \in Goroutines, e \in Depths :
    h # g \/ e # d => frame'[h][e] = frame[h][e]

FrameType == frame \in [Goroutines -> [Depths -> Task]]
DepthType == depth \in [Goroutines -> 0 .. MaxDepth]

LEMMA NoTaskType == NoTask \in Task
BY DEF NoTask, Task, GuestCalls

LEMMA TopTask ==
  ASSUME FrameType, DepthType, NEW g \in Goroutines, depth[g] > 0
  PROVE  depth[g] \in Depths /\ Top(g) \in Task
BY LimitsAssumption DEF FrameType, DepthType, Depths, Top

(* The innermost task of g becomes another one, is over, or opens a new    *)
(* one.                                                                    *)
Moved(g, task) ==
  /\ depth[g] \in Depths /\ depth' = depth
  /\ frame'[g][depth[g]] = task
  /\ OnlyTask(g, depth[g])
  /\ FrameType' /\ DepthType'

Left(g) ==
  /\ depth[g] \in Depths /\ depth'[g] = depth[g] - 1
  /\ \A h \in Goroutines \ {g} : depth'[h] = depth[h]
  /\ frame'[g][depth[g]] = NoTask
  /\ OnlyTask(g, depth[g])
  /\ FrameType' /\ DepthType'

Opened(g, task) ==
  /\ depth[g] + 1 \in Depths /\ depth'[g] = depth[g] + 1
  /\ \A h \in Goroutines \ {g} : depth'[h] = depth[h]
  /\ frame'[g][depth[g] + 1] = task
  /\ OnlyTask(g, depth[g] + 1)
  /\ FrameType' /\ DepthType'

LEMMA BecomeMoves ==
  ASSUME FrameType, DepthType, NEW g \in Goroutines, depth[g] > 0,
         NEW task \in Task, Become(g, task)
  PROVE  Moved(g, task)
<1>1. depth[g] \in Depths
  BY TopTask
<1>2. QED
  BY <1>1 DEF Become, FrameType, DepthType, OnlyTask, Moved

LEMMA PushOpens ==
  ASSUME FrameType, DepthType, NEW g \in Goroutines,
         NEW task \in Task, Push(g, task)
  PROVE  Opened(g, task)
<1>1. depth[g] + 1 \in Depths
  BY LimitsAssumption DEF DepthType, Depths, Push
<1>2. QED
  BY <1>1, LimitsAssumption
  DEF Push, FrameType, DepthType, Depths, OnlyTask, Opened

LEMMA ReturnLeaves ==
  ASSUME FrameType, DepthType, NEW g \in Goroutines, depth[g] > 0, Return(g)
  PROVE  Left(g)
<1>1. depth[g] \in Depths
  BY TopTask
<1>2. QED
  BY <1>1, NoTaskType, LimitsAssumption
  DEF Return, FrameType, DepthType, Depths, OnlyTask, Left

(***************************************************************************)
(* Record updates of a task, field by field.                               *)
(***************************************************************************)
Phases == {"none", "begin", "wait", "guest", "handler", "relock"}

LEMMA SetAt ==
  ASSUME NEW t \in Task, NEW at \in GuestCalls \cup {"table"}
  PROVE  [t EXCEPT !.at = at] =
           [at |-> at, phase |-> t.phase, fn |-> t.fn, id |-> t.id]
BY DEF Task

LEMMA SetPhase ==
  ASSUME NEW t \in Task, NEW phase \in Phases
  PROVE  [t EXCEPT !.phase = phase] =
           [at |-> t.at, phase |-> phase, fn |-> t.fn, id |-> t.id]
BY DEF Task

LEMMA SetAtPhase ==
  ASSUME NEW t \in Task, NEW at \in GuestCalls \cup {"table"},
         NEW phase \in Phases
  PROVE  [t EXCEPT !.at = at, !.phase = phase] =
           [at |-> at, phase |-> phase, fn |-> t.fn, id |-> t.id]
<1> DEFINE r == [t EXCEPT !.at = at]
<1>1. [t EXCEPT !.at = at, !.phase = phase] = [r EXCEPT !.phase = phase]
  OBVIOUS
<1>2. r = [at |-> at, phase |-> t.phase, fn |-> t.fn, id |-> t.id]
  BY SetAt
<1> HIDE DEF r
<1>3. QED
  BY <1>1, <1>2 DEF Task

LEMMA SetAtPhaseId ==
  ASSUME NEW t \in Task, NEW at \in GuestCalls \cup {"table"},
         NEW phase \in Phases, NEW id \in Nat
  PROVE  [t EXCEPT !.at = at, !.phase = phase, !.id = id] =
           [at |-> at, phase |-> phase, fn |-> t.fn, id |-> id]
<1> DEFINE r == [t EXCEPT !.at = at, !.phase = phase]
<1>1. [t EXCEPT !.at = at, !.phase = phase, !.id = id] = [r EXCEPT !.id = id]
  OBVIOUS
<1>2. r = [at |-> at, phase |-> phase, fn |-> t.fn, id |-> t.id]
  BY SetAtPhase
<1> HIDE DEF r
<1>3. QED
  BY <1>1, <1>2 DEF Task

LEMMA SetPhaseFnId ==
  ASSUME NEW t \in Task, NEW phase \in Phases, NEW fn \in Nat, NEW id \in Nat
  PROVE  [t EXCEPT !.phase = phase, !.fn = fn, !.id = id] =
           [at |-> t.at, phase |-> phase, fn |-> fn, id |-> id]
<1> DEFINE r == [t EXCEPT !.phase = phase]
           s == [r EXCEPT !.fn = fn]
<1>1. [t EXCEPT !.phase = phase, !.fn = fn, !.id = id] = [s EXCEPT !.id = id]
  OBVIOUS
<1>2. r = [at |-> t.at, phase |-> phase, fn |-> t.fn, id |-> t.id]
  BY SetPhase
<1> HIDE DEF r
<1>3. s = [at |-> t.at, phase |-> phase, fn |-> fn, id |-> t.id]
  BY <1>2 DEF Task
<1> HIDE DEF s
<1>4. QED
  BY <1>1, <1>3 DEF Task

LEMMA TaskFields ==
  ASSUME NEW t \in Task
  PROVE  /\ t.at \in GuestCalls \cup {"none", "ensure", "table"}
         /\ t.phase \in Phases /\ t.fn \in Nat /\ t.id \in Nat
BY DEF Task, Phases

LEMMA TaskRecord ==
  ASSUME NEW at \in GuestCalls \cup {"none", "ensure", "table"},
         NEW phase \in Phases, NEW fn \in Nat, NEW id \in Nat
  PROVE  [at |-> at, phase |-> phase, fn |-> fn, id |-> id] \in Task
BY DEF Task, Phases

(* What each action does to the stacks. *)
LEMMA Effects ==
  ASSUME TypeOK, NEW g \in Goroutines
  PROVE  /\ Bind(g) => Opened(g, [at |-> "ensure", phase |-> "none",
                                  fn |-> binds + 1, id |-> 0])
         /\ Eval(g) => Opened(g, [at |-> "eval", phase |-> "begin",
                                  fn |-> 0, id |-> 0])
         /\ EnsureSet(g) =>
              Moved(g, [at |-> "table", phase |-> "none",
                        fn |-> Top(g).fn, id |-> Top(g).id])
         /\ EnsureClosed(g) => Left(g)
         /\ Register(g) =>
              Moved(g, [at |-> "set", phase |-> "wait",
                        fn |-> Top(g).fn, id |-> nextCBID + 1])
         /\ EnterFunction(g) =>
              Moved(g, [at |-> "new", phase |-> "begin",
                        fn |-> Top(g).fn, id |-> nextFuncID + 1])
         /\ BeginCall(g) =>
              \/ Left(g)
              \/ Moved(g, [at |-> Top(g).at, phase |-> "wait",
                           fn |-> Top(g).fn, id |-> Top(g).id])
         /\ Enter(g) \/ Relock(g) =>
              Moved(g, [at |-> Top(g).at, phase |-> "guest",
                        fn |-> Top(g).fn, id |-> Top(g).id])
         /\ SetReturns(g) =>
              Moved(g, [at |-> "table", phase |-> "none",
                        fn |-> Top(g).fn, id |-> 0])
         /\ CallReturns(g) =>
              Moved(g, [at |-> Following(Top(g).at), phase |-> "begin",
                        fn |-> Top(g).fn, id |-> Top(g).id])
         /\ TaskReturns(g) \/ CallFails(g) => Left(g)
         /\ \A id \in FuncIDs :
              Call(g, id) =>
                Moved(g, [at |-> Top(g).at, phase |-> "handler",
                          fn |-> funcs[id], id |-> id])
         /\ FunctionReturns(g) =>
              Moved(g, [at |-> Top(g).at, phase |-> "relock",
                        fn |-> 0, id |-> 0])
<1>1. FrameType /\ DepthType
  BY DEF TypeOK, FrameType, DepthType
<1>2. ASSUME depth[g] > 0
      PROVE  Top(g) \in Task
  BY <1>1, <1>2, TopTask
<1>3. ASSUME Bind(g)
      PROVE  Opened(g, [at |-> "ensure", phase |-> "none",
                        fn |-> binds + 1, id |-> 0])
  <2> DEFINE new == [at |-> "ensure", phase |-> "none",
                     fn |-> binds + 1, id |-> 0]
             half == [NoTask EXCEPT !.at = "ensure"]
  <2>1. [NoTask EXCEPT !.at = "ensure", !.fn = binds + 1] =
          [half EXCEPT !.fn = binds + 1]
    OBVIOUS
  <2>2. half = [at |-> "ensure", phase |-> "none", fn |-> 0, id |-> 0]
    BY DEF NoTask
  <2> HIDE DEF half
  <2>3. [half EXCEPT !.fn = binds + 1] = new
    BY <2>2
  <2>4. new \in Task
    BY DEF Task, TypeOK
  <2>5. Push(g, new)
    BY <1>3, <2>1, <2>3 DEF Bind
  <2> HIDE DEF new
  <2>6. Opened(g, new)
    BY <1>1, <2>4, <2>5, PushOpens
  <2>7. QED
    BY <2>6 DEF new
<1>4. ASSUME Eval(g)
      PROVE  Opened(g, [at |-> "eval", phase |-> "begin",
                        fn |-> 0, id |-> 0])
  <2> DEFINE new == [NoTask EXCEPT !.at = "eval", !.phase = "begin"]
  <2>1. new = [at |-> "eval", phase |-> "begin",
               fn |-> NoTask.fn, id |-> NoTask.id]
    BY NoTaskType, SetAtPhase DEF GuestCalls, Phases
  <2>2. new = [at |-> "eval", phase |-> "begin", fn |-> 0, id |-> 0]
    BY <2>1 DEF NoTask
  <2> HIDE DEF new
  <2>3. new \in Task
    BY <2>2 DEF Task, GuestCalls
  <2>4. Push(g, new)
    BY <1>4 DEF Eval, new
  <2>5. QED
    BY <1>1, <2>2, <2>3, <2>4, PushOpens
<1>5. ASSUME EnsureSet(g)
      PROVE  Moved(g, [at |-> "table", phase |-> "none",
                        fn |-> Top(g).fn, id |-> Top(g).id])
  <2> DEFINE new == [Top(g) EXCEPT !.at = "table"]
  <2>0. depth[g] > 0 /\ Top(g) \in Task /\ Top(g).phase = "none"
    BY <1>2, <1>5 DEF EnsureSet, At
  <2>1. new = [at |-> "table", phase |-> "none",
               fn |-> Top(g).fn, id |-> Top(g).id]
    BY <2>0, SetAt, Zenon DEF GuestCalls, Phases
  <2>2. new \in Task
    <3>1. /\ Top(g).at \in GuestCalls \cup {"none", "ensure", "table"}
          /\ Top(g).fn \in Nat /\ Top(g).id \in Nat
      BY <2>0, TaskFields
    <3> HIDE DEF new
    <3>2. QED
      BY <2>0, <2>1, <3>1 DEF Task, GuestCalls
  <2>3. Become(g, new)
    BY <1>5 DEF EnsureSet
  <2> HIDE DEF new
  <2>4. Moved(g, new)
    BY <1>1, <2>0, <2>2, <2>3, BecomeMoves
  <2>5. QED
    BY <2>1, <2>4
<1>6. ASSUME EnsureClosed(g) PROVE Left(g)
  BY <1>1, <1>6, ReturnLeaves DEF EnsureClosed, At
<1>7. ASSUME Register(g)
      PROVE  Moved(g, [at |-> "set", phase |-> "wait",
                        fn |-> Top(g).fn, id |-> nextCBID + 1])
  <2> DEFINE new == [Top(g) EXCEPT !.at = "set", !.phase = "wait",
                                  !.id = nextCBID + 1]
  <2>0. depth[g] > 0 /\ Top(g) \in Task
        /\ nextCBID + 1 \in Nat
    BY <1>2, <1>7 DEF Register, At, TypeOK
  <2>1. new = [at |-> "set", phase |-> "wait",
               fn |-> Top(g).fn, id |-> nextCBID + 1]
    BY <2>0, SetAtPhaseId, Zenon DEF GuestCalls, Phases
  <2>2. new \in Task
    <3>1. /\ Top(g).at \in GuestCalls \cup {"none", "ensure", "table"}
          /\ Top(g).fn \in Nat /\ Top(g).id \in Nat
      BY <2>0, TaskFields
    <3> HIDE DEF new
    <3>2. QED
      BY <2>0, <2>1, <3>1 DEF Task, GuestCalls
  <2>3. Become(g, new)
    BY <1>7 DEF Register
  <2> HIDE DEF new
  <2>4. Moved(g, new)
    BY <1>1, <2>0, <2>2, <2>3, BecomeMoves
  <2>5. QED
    BY <2>1, <2>4
<1>8. ASSUME EnterFunction(g)
      PROVE  Moved(g, [at |-> "new", phase |-> "begin",
                        fn |-> Top(g).fn, id |-> nextFuncID + 1])
  <2> DEFINE new == [Top(g) EXCEPT !.at = "new", !.phase = "begin",
                                  !.id = nextFuncID + 1]
  <2>0. depth[g] > 0 /\ Top(g) \in Task
        /\ nextFuncID + 1 \in Nat
    BY <1>2, <1>8 DEF EnterFunction, At, TypeOK
  <2>1. new = [at |-> "new", phase |-> "begin",
               fn |-> Top(g).fn, id |-> nextFuncID + 1]
    BY <2>0, SetAtPhaseId, Zenon DEF GuestCalls, Phases
  <2>2. new \in Task
    <3>1. /\ Top(g).at \in GuestCalls \cup {"none", "ensure", "table"}
          /\ Top(g).fn \in Nat /\ Top(g).id \in Nat
      BY <2>0, TaskFields
    <3> HIDE DEF new
    <3>2. QED
      BY <2>0, <2>1, <3>1 DEF Task, GuestCalls
  <2>3. Become(g, new)
    BY <1>8 DEF EnterFunction
  <2> HIDE DEF new
  <2>4. Moved(g, new)
    BY <1>1, <2>0, <2>2, <2>3, BecomeMoves
  <2>5. QED
    BY <2>1, <2>4
<1>9. ASSUME BeginCall(g), ~closed
      PROVE  Moved(g, [at |-> Top(g).at, phase |-> "wait",
                        fn |-> Top(g).fn, id |-> Top(g).id])
  <2> DEFINE new == [Top(g) EXCEPT !.phase = "wait"]
  <2>0. depth[g] > 0 /\ Top(g) \in Task
    BY <1>2, <1>9 DEF BeginCall
  <2>1. new = [at |-> Top(g).at, phase |-> "wait",
               fn |-> Top(g).fn, id |-> Top(g).id]
    BY <2>0, SetPhase, Zenon DEF GuestCalls, Phases
  <2>2. new \in Task
    <3>1. /\ Top(g).at \in GuestCalls \cup {"none", "ensure", "table"}
          /\ Top(g).fn \in Nat /\ Top(g).id \in Nat
      BY <2>0, TaskFields
    <3> HIDE DEF new
    <3>2. QED
      BY <2>0, <2>1, <3>1 DEF Task, GuestCalls
  <2>3. Become(g, new)
    BY <1>9 DEF BeginCall
  <2> HIDE DEF new
  <2>4. Moved(g, new)
    BY <1>1, <2>0, <2>2, <2>3, BecomeMoves
  <2>5. QED
    BY <2>1, <2>4
<1>10. ASSUME BeginCall(g), closed PROVE Left(g)
  BY <1>1, <1>10, ReturnLeaves DEF BeginCall
<1>11. ASSUME Enter(g) \/ Relock(g)
      PROVE  Moved(g, [at |-> Top(g).at, phase |-> "guest",
                        fn |-> Top(g).fn, id |-> Top(g).id])
  <2> DEFINE new == [Top(g) EXCEPT !.phase = "guest"]
  <2>0. depth[g] > 0 /\ Top(g) \in Task
    BY <1>2, <1>11 DEF Enter, Relock, At
  <2>1. new = [at |-> Top(g).at, phase |-> "guest",
               fn |-> Top(g).fn, id |-> Top(g).id]
    BY <2>0, SetPhase, Zenon DEF GuestCalls, Phases
  <2>2. new \in Task
    <3>1. /\ Top(g).at \in GuestCalls \cup {"none", "ensure", "table"}
          /\ Top(g).fn \in Nat /\ Top(g).id \in Nat
      BY <2>0, TaskFields
    <3> HIDE DEF new
    <3>2. QED
      BY <2>0, <2>1, <3>1 DEF Task, GuestCalls
  <2>3. Become(g, new)
    BY <1>11 DEF Enter, Relock
  <2> HIDE DEF new
  <2>4. Moved(g, new)
    BY <1>1, <2>0, <2>2, <2>3, BecomeMoves
  <2>5. QED
    BY <2>1, <2>4
<1>12. ASSUME SetReturns(g)
      PROVE  Moved(g, [at |-> "table", phase |-> "none",
                        fn |-> Top(g).fn, id |-> 0])
  <2> DEFINE new == [Top(g) EXCEPT !.at = "table", !.phase = "none",
                                  !.id = 0]
  <2>0. depth[g] > 0 /\ Top(g) \in Task
    BY <1>2, <1>12 DEF SetReturns, At
  <2>1. new = [at |-> "table", phase |-> "none",
               fn |-> Top(g).fn, id |-> 0]
    BY <2>0, SetAtPhaseId, Zenon DEF GuestCalls, Phases
  <2>2. new \in Task
    <3>1. /\ Top(g).at \in GuestCalls \cup {"none", "ensure", "table"}
          /\ Top(g).fn \in Nat /\ Top(g).id \in Nat
      BY <2>0, TaskFields
    <3> HIDE DEF new
    <3>2. QED
      BY <2>0, <2>1, <3>1 DEF Task, GuestCalls
  <2>3. Become(g, new)
    BY <1>12 DEF SetReturns
  <2> HIDE DEF new
  <2>4. Moved(g, new)
    BY <1>1, <2>0, <2>2, <2>3, BecomeMoves
  <2>5. QED
    BY <2>1, <2>4
<1>13. ASSUME CallReturns(g)
      PROVE  Moved(g, [at |-> Following(Top(g).at), phase |-> "begin",
                        fn |-> Top(g).fn, id |-> Top(g).id])
  <2> DEFINE new == [Top(g) EXCEPT !.at = Following(@), !.phase = "begin"]
  <2>0. depth[g] > 0 /\ Top(g) \in Task
        /\ Following(Top(g).at) \in GuestCalls
    BY <1>2, <1>13 DEF CallReturns, At, Following, GuestCalls
  <2>1. new = [at |-> Following(Top(g).at), phase |-> "begin",
               fn |-> Top(g).fn, id |-> Top(g).id]
    BY <2>0, SetAtPhase, Zenon DEF GuestCalls, Phases
  <2>2. new \in Task
    <3>1. /\ Top(g).at \in GuestCalls \cup {"none", "ensure", "table"}
          /\ Top(g).fn \in Nat /\ Top(g).id \in Nat
      BY <2>0, TaskFields
    <3> HIDE DEF new
    <3>2. QED
      BY <2>0, <2>1, <3>1 DEF Task, GuestCalls
  <2>3. Become(g, new)
    BY <1>13 DEF CallReturns
  <2> HIDE DEF new
  <2>4. Moved(g, new)
    BY <1>1, <2>0, <2>2, <2>3, BecomeMoves
  <2>5. QED
    BY <2>1, <2>4
<1>14. ASSUME TaskReturns(g) PROVE Left(g)
  BY <1>1, <1>14, ReturnLeaves DEF TaskReturns, At
<1>15. ASSUME CallFails(g) PROVE Left(g)
  BY <1>1, <1>15, ReturnLeaves DEF CallFails, At
<1>16. ASSUME NEW id \in FuncIDs, Call(g, id)
      PROVE  Moved(g, [at |-> Top(g).at, phase |-> "handler",
                        fn |-> funcs[id], id |-> id])
  <2> DEFINE new == [Top(g) EXCEPT !.phase = "handler", !.fn = funcs[id],
                                  !.id = id]
  <2>0. depth[g] > 0 /\ Top(g) \in Task
        /\ funcs[id] \in Nat /\ id \in Nat
    BY <1>2, <1>16 DEF Call, At, TypeOK, FuncIDs
  <2>1. new = [at |-> Top(g).at, phase |-> "handler",
               fn |-> funcs[id], id |-> id]
    <3>1. /\ [Top(g) EXCEPT !.phase = "handler", !.fn = funcs[id], !.id = id] =
               [at |-> Top(g).at, phase |-> "handler",
                fn |-> funcs[id], id |-> id]
      <4>1. "handler" \in Phases
        BY DEF Phases
      <4>2. QED
        BY <2>0, <4>1, SetPhaseFnId, Zenon
    <3>2. QED
      BY <3>1
  <2>2. new \in Task
    <3>1. /\ Top(g).at \in GuestCalls \cup {"none", "ensure", "table"}
          /\ Top(g).fn \in Nat /\ Top(g).id \in Nat
      BY <2>0, TaskFields
    <3> HIDE DEF new
    <3>2. QED
      BY <2>0, <2>1, <3>1 DEF Task, GuestCalls
  <2>3. Become(g, new)
    BY <1>16 DEF Call
  <2> HIDE DEF new
  <2>4. Moved(g, new)
    BY <1>1, <2>0, <2>2, <2>3, BecomeMoves
  <2>5. QED
    BY <2>1, <2>4
<1>17. ASSUME FunctionReturns(g)
      PROVE  Moved(g, [at |-> Top(g).at, phase |-> "relock",
                        fn |-> 0, id |-> 0])
  <2> DEFINE new == [Top(g) EXCEPT !.phase = "relock", !.fn = 0, !.id = 0]
  <2>0. depth[g] > 0 /\ Top(g) \in Task
    BY <1>2, <1>17 DEF FunctionReturns, At
  <2>1. new = [at |-> Top(g).at, phase |-> "relock",
               fn |-> 0, id |-> 0]
    <3>1. \A k \in Nat :
            [Top(g) EXCEPT !.phase = "relock", !.fn = k, !.id = k] =
              [at |-> Top(g).at, phase |-> "relock", fn |-> k, id |-> k]
      <4>1. "relock" \in Phases
        BY DEF Phases
      <4>2. QED
        BY <2>0, <4>1, SetPhaseFnId, Zenon
    <3>2. QED
      BY <3>1
  <2>2. new \in Task
    <3>1. /\ Top(g).at \in GuestCalls \cup {"none", "ensure", "table"}
          /\ Top(g).fn \in Nat /\ Top(g).id \in Nat
      BY <2>0, TaskFields
    <3> HIDE DEF new
    <3>2. QED
      BY <2>0, <2>1, <3>1 DEF Task, GuestCalls
  <2>3. Become(g, new)
    BY <1>17 DEF FunctionReturns
  <2> HIDE DEF new
  <2>4. Moved(g, new)
    BY <1>1, <2>0, <2>2, <2>3, BecomeMoves
  <2>5. QED
    BY <2>1, <2>4
<1>18. QED
  BY <1>3, <1>4, <1>5, <1>6, <1>7, <1>8, <1>9, <1>10, <1>11, <1>12, <1>13, <1>14, <1>15, <1>16, <1>17

-----------------------------------------------------------------------------
(***************************************************************************)
(* The inductive invariant.                                                *)
(***************************************************************************)

(* Only the innermost task of a goroutine is anywhere but in a Go function *)
(* that Python code called.                                                *)
Nested ==
  \A g \in Goroutines, d \in Depths :
    /\ d < depth[g] => frame[g][d].at = "eval"
    /\ d > depth[g] => frame[g][d] = NoTask

(* What a task that is at some point has done already: each stage of Bind  *)
(* is reached with what the earlier ones established still true.           *)
InCall == {"begin", "wait", "guest"}

TaskOK(g, d) ==
  LET t == frame[g][d] IN
    /\ t.at \in {"ensure", "set", "table", "new"} => t.fn \in 1 .. binds
    /\ t.at \in {"ensure", "table"} => t.phase = "none"
    /\ t.at = "set" => t.phase \in {"wait", "guest"} /\ t.id \in callbacks
    /\ t.at \in {"new", "import", "attr"} => t.phase \in InCall
    /\ t.at \in {"table", "new"} => dispatcherSet
    /\ t.at = "new" => t.id \in 1 .. nextFuncID /\ funcs[t.id] = t.fn
    /\ t.at \in {"import", "attr"} => t.id \in FuncIDs /\ made[t.id] # 0

Tasks == \A g \in Goroutines, d \in Depths : TaskOK(g, d)

(* The tables: an id is handed out once, in order, and what the guest      *)
(* knows of is in the host's tables.                                       *)
Tables ==
  /\ callbacks \subseteq 1 .. nextCBID
  /\ dispatcherSet => guestDispatcher \in callbacks
  /\ \A id \in FuncIDs : id > nextFuncID => funcs[id] = 0
  /\ \A id \in FuncIDs :
       made[id] # 0 => dispatcherSet /\ id <= nextFuncID /\ funcs[id] = made[id]
  /\ main # 0 => main \in FuncIDs /\ made[main] # 0

(* A registration under way is of an instance that has no dispatcher yet.  *)
Unregistered ==
  \A g \in Goroutines, d \in Depths :
    frame[g][d].at = "set" => ~dispatcherSet

(* No two tasks bind the same function, and no id is handed out that was   *)
(* not asked for by a call of Bind: the functions whose task has still to  *)
(* take an id, together with the ids taken, are no more than the binds.    *)
Early == {"ensure", "set", "table"}

FnsAt(points) ==
  {k \in 1 .. MaxBinds :
     \E g \in Goroutines, d \in Depths :
       frame[g][d].at \in points /\ frame[g][d].fn = k}

Distinct ==
  \A g, h \in Goroutines, d, e \in Depths :
    /\ frame[g][d].at \in Early
    /\ frame[h][e].at \in Early
    /\ frame[g][d].fn = frame[h][e].fn
    => g = h /\ d = e

Counted ==
  /\ nextCBID + Cardinality(FnsAt({"ensure"})) <= binds
  /\ nextFuncID + Cardinality(FnsAt(Early)) <= binds

IInv ==
  /\ TypeOK /\ Nested /\ Tasks /\ Tables
  /\ Unregistered /\ DispatcherLock /\ Distinct /\ Counted

(***************************************************************************)
(* What no step takes back.                                                *)
(***************************************************************************)
Grows ==
  /\ binds' \in Nat /\ binds <= binds'
  /\ dispatcherSet => dispatcherSet'
  /\ callbacks \subseteq callbacks'
  /\ nextFuncID' \in Nat /\ nextFuncID <= nextFuncID'
  /\ \A id \in 1 .. nextFuncID : funcs'[id] = funcs[id]
  /\ \A id \in FuncIDs : made[id] # 0 => made'[id] # 0

LEMMA TaskKept ==
  ASSUME TypeOK, Grows, NEW g \in Goroutines, NEW d \in Depths,
         TaskOK(g, d), frame'[g][d] = frame[g][d]
  PROVE  TaskOK(g, d)'
<1>1. frame[g][d].fn \in 1 .. binds => frame[g][d].fn \in 1 .. binds'
  BY DEF TypeOK, Grows
<1>2. frame[g][d].id \in 1 .. nextFuncID =>
        /\ frame[g][d].id \in 1 .. nextFuncID'
        /\ funcs'[frame[g][d].id] = funcs[frame[g][d].id]
  BY DEF TypeOK, Grows
<1>3. QED
  BY <1>1, <1>2 DEF TaskOK, Grows

(* The functions of the tasks at some points are finitely many, no more    *)
(* when no task arrives there, and one fewer when a task leaves.           *)
LEMMA FnsFinite ==
  ASSUME TypeOK, NEW points
  PROVE  IsFiniteSet(FnsAt(points)) /\ Cardinality(FnsAt(points)) \in Nat
<1>1. IsFiniteSet(1 .. MaxBinds)
  BY LimitsAssumption, FS_Interval
<1>2. FnsAt(points) \in SUBSET (1 .. MaxBinds)
  BY DEF FnsAt
<1>3. IsFiniteSet(FnsAt(points))
  BY <1>1, <1>2, FS_Subset
<1>4. QED
  BY <1>3, FS_CardinalityType

LEMMA NoneArrives ==
  ASSUME TypeOK, NEW points,
         \A h \in Goroutines, e \in Depths :
           frame'[h][e].at \in points =>
             frame[h][e].at \in points /\ frame'[h][e].fn = frame[h][e].fn
  PROVE  /\ Cardinality(FnsAt(points))' \in Nat
         /\ Cardinality(FnsAt(points))' <= Cardinality(FnsAt(points))
<1>1. FnsAt(points)' \in SUBSET FnsAt(points)
  BY DEF FnsAt
<1>2. QED
  BY <1>1, FnsFinite, FS_Subset, FS_CardinalityType

LEMMA OneLeaves ==
  ASSUME TypeOK, Tasks, Distinct, NEW points, points \subseteq Early,
         NEW g \in Goroutines, depth[g] \in Depths, Top(g).at \in points,
         OnlyTask(g, depth[g]), frame'[g][depth[g]].at \notin points
  PROVE  /\ Cardinality(FnsAt(points))' \in Nat
         /\ Cardinality(FnsAt(points))' + 1 <= Cardinality(FnsAt(points))
<1> DEFINE k == Top(g).fn
           rest == FnsAt(points) \ {k}
<1>1. k \in FnsAt(points)
  <2>1. Top(g).at \in Early /\ Top(g) = frame[g][depth[g]]
    BY DEF Top
  <2>2. k \in 1 .. binds
    BY <2>1 DEF Tasks, TaskOK, Early
  <2>3. k \in 1 .. MaxBinds
    BY <2>2, LimitsAssumption DEF TypeOK
  <2>4. QED
    BY <2>1, <2>3 DEF FnsAt
<1>2. FnsAt(points)' \in SUBSET rest
  <2> SUFFICES ASSUME NEW n \in FnsAt(points)' PROVE n \in rest
    OBVIOUS
  <2>1. PICK h \in Goroutines, e \in Depths :
          frame'[h][e].at \in points /\ frame'[h][e].fn = n
    BY DEF FnsAt
  <2>2. ~(h = g /\ e = depth[g])
    BY <2>1
  <2>3. frame'[h][e] = frame[h][e]
    BY <2>2 DEF OnlyTask
  <2>4. n \in FnsAt(points)
    BY <2>1, <2>3 DEF FnsAt
  <2>5. n # k
    BY <2>1, <2>2, <2>3 DEF Distinct, Top
  <2>6. QED
    BY <2>4, <2>5
<1>3. IsFiniteSet(FnsAt(points)) /\ Cardinality(FnsAt(points)) \in Nat
  BY FnsFinite
<1>4. IsFiniteSet(rest) /\ Cardinality(rest) = Cardinality(FnsAt(points)) - 1
  BY <1>1, <1>3, FS_RemoveElement
<1>5. /\ IsFiniteSet(FnsAt(points)')
      /\ Cardinality(FnsAt(points)') <= Cardinality(rest)
  BY <1>2, <1>4, FS_Subset
<1>6. Cardinality(FnsAt(points)') \in Nat
  BY <1>5, FS_CardinalityType
<1>7. QED
  BY <1>3, <1>4, <1>5, <1>6

(***************************************************************************)
(* A step of g in its innermost task.                                      *)
(***************************************************************************)
Stays(g) ==
  \/ depth' = depth
  \/ /\ depth'[g] = depth[g] - 1
     /\ \A h \in Goroutines \ {g} : depth'[h] = depth[h]
     /\ frame'[g][depth[g]] = NoTask

(* It does not come to an earlier stage of Bind by it. *)
NotBack(g) ==
  LET t == frame'[g][depth[g]] IN
    /\ t.at \in Early => Top(g).at \in Early /\ t.fn = Top(g).fn
    /\ t.at = "ensure" => Top(g).at = "ensure"

LEMMA TopStep ==
  ASSUME IInv, NEW g \in Goroutines, NEW d \in Depths, d = depth[g],
         OnlyTask(g, depth[g]), Stays(g), Grows, NotBack(g), TaskOK(g, d)'
  PROVE  /\ Nested' /\ Tasks' /\ Distinct'
         /\ Cardinality(FnsAt({"ensure"}))' \in Nat
         /\ Cardinality(FnsAt({"ensure"}))' <= Cardinality(FnsAt({"ensure"}))
         /\ Cardinality(FnsAt(Early))' \in Nat
         /\ Cardinality(FnsAt(Early))' <= Cardinality(FnsAt(Early))
<1>1. TypeOK /\ Nested /\ Tasks /\ Distinct
  BY DEF IInv
<1>2. \A h \in Goroutines, e \in Depths :
        h # g \/ e # depth[g] => frame'[h][e] = frame[h][e]
  BY DEF OnlyTask
<1>3. Nested'
  <2> SUFFICES ASSUME NEW h \in Goroutines, NEW e \in Depths
               PROVE  /\ e < depth'[h] => frame'[h][e].at = "eval"
                      /\ e > depth'[h] => frame'[h][e] = NoTask
    BY DEF Nested
  <2>1. depth[g] \in Nat /\ depth[h] \in Nat /\ e \in Nat
    BY <1>1, LimitsAssumption DEF TypeOK, Depths
  <2>2. /\ e < depth[h] => frame[h][e].at = "eval"
        /\ e > depth[h] => frame[h][e] = NoTask
    BY <1>1 DEF Nested
  <2>3. CASE h # g
    <3>1. depth'[h] = depth[h] /\ frame'[h][e] = frame[h][e]
      BY <1>2, <2>3 DEF Stays
    <3>2. QED
      BY <2>2, <3>1
  <2>4. CASE h = g /\ e # depth[g]
    <3>1. frame'[h][e] = frame[g][e]
      BY <1>2, <2>4
    <3>2. depth'[h] = depth[g] \/ depth'[h] = depth[g] - 1
      BY <2>4 DEF Stays
    <3>3. QED
      BY <2>1, <2>2, <2>4, <3>1, <3>2
  <2>5. CASE h = g /\ e = depth[g]
    BY <2>1, <2>5 DEF Stays
  <2>6. QED
    BY <2>3, <2>4, <2>5
<1>4. Tasks'
  <2> SUFFICES ASSUME NEW h \in Goroutines, NEW e \in Depths
               PROVE  TaskOK(h, e)'
    BY DEF Tasks
  <2>1. CASE h = g /\ e = depth[g]
    BY <2>1
  <2>2. CASE h # g \/ e # depth[g]
    <3>1. frame'[h][e] = frame[h][e]
      BY <1>2, <2>2
    <3>2. TaskOK(h, e)
      BY <1>1 DEF Tasks
    <3>3. QED
      BY <1>1, <3>1, <3>2, TaskKept
  <2>3. QED
    BY <2>1, <2>2
<1>5. ASSUME NEW h \in Goroutines, NEW e \in Depths
      PROVE  /\ frame'[h][e].at \in Early =>
                   frame[h][e].at \in Early /\ frame'[h][e].fn = frame[h][e].fn
             /\ frame'[h][e].at = "ensure" =>
                   frame[h][e].at = "ensure" /\ frame'[h][e].fn = frame[h][e].fn
  <2>1. CASE h = g /\ e = depth[g]
    BY <2>1 DEF NotBack, Top, Early
  <2>2. CASE h # g \/ e # depth[g]
    BY <1>2, <2>2
  <2>3. QED
    BY <2>1, <2>2
<1>6. Distinct'
  BY <1>1, <1>5 DEF Distinct
<1>7. /\ Cardinality(FnsAt({"ensure"}))' \in Nat
      /\ Cardinality(FnsAt({"ensure"}))' <= Cardinality(FnsAt({"ensure"}))
  BY <1>1, <1>5, NoneArrives
<1>8. /\ Cardinality(FnsAt(Early))' \in Nat
      /\ Cardinality(FnsAt(Early))' <= Cardinality(FnsAt(Early))
  BY <1>1, <1>5, NoneArrives
<1>9. QED
  BY <1>3, <1>4, <1>6, <1>7, <1>8

(* The same facts about a step that opens a task: the frame it takes was   *)
(* empty, and a new call of Bind has a function of its own.                *)
LEMMA OpenStep ==
  ASSUME IInv, NEW g \in Goroutines, InHostCode(g), Grows,
         NEW task, Opened(g, task),
         NEW d \in Depths, d = depth[g] + 1, TaskOK(g, d)',
         task.at \in Early => task.fn = binds + 1
  PROVE  Nested' /\ Tasks' /\ Distinct' /\ frame[g][depth[g] + 1] = NoTask
<1> DEFINE new == depth[g] + 1
<1>1. TypeOK /\ Nested /\ Tasks /\ Distinct
  BY DEF IInv
<1>2. /\ new \in Depths /\ frame'[g][new] = task /\ depth'[g] = new
      /\ \A h \in Goroutines \ {g} : depth'[h] = depth[h]
      /\ \A h \in Goroutines, e \in Depths :
           h # g \/ e # new => frame'[h][e] = frame[h][e]
  BY DEF Opened, OnlyTask
<1>3. frame[g][new] = NoTask
  BY <1>1, <1>2, LimitsAssumption DEF Nested, TypeOK
<1>4. Nested'
  <2> SUFFICES ASSUME NEW h \in Goroutines, NEW e \in Depths
               PROVE  /\ e < depth'[h] => frame'[h][e].at = "eval"
                      /\ e > depth'[h] => frame'[h][e] = NoTask
    BY DEF Nested
  <2>1. depth[g] \in Nat /\ depth[h] \in Nat /\ e \in Nat /\ e > 0
    BY <1>1, LimitsAssumption DEF TypeOK, Depths
  <2>2. /\ e < depth[h] => frame[h][e].at = "eval"
        /\ e > depth[h] => frame[h][e] = NoTask
    BY <1>1 DEF Nested
  <2>3. CASE h # g
    <3>1. depth'[h] = depth[h] /\ frame'[h][e] = frame[h][e]
      BY <1>2, <2>3
    <3>2. QED
      BY <2>2, <3>1
  <2>4. CASE h = g /\ e # new
    <3>1. frame'[h][e] = frame[g][e]
      BY <1>2, <2>4
    <3>2. e = depth[g] => frame[g][e].at = "eval"
      BY <2>1 DEF InHostCode, At, Top
    <3>3. QED
      BY <1>2, <2>1, <2>2, <2>4, <3>1, <3>2
  <2>5. CASE h = g /\ e = new
    BY <1>2, <2>1, <2>5
  <2>6. QED
    BY <2>3, <2>4, <2>5
<1>5. Tasks'
  <2> SUFFICES ASSUME NEW h \in Goroutines, NEW e \in Depths
               PROVE  TaskOK(h, e)'
    BY DEF Tasks
  <2>1. CASE h = g /\ e = new
    BY <2>1
  <2>2. CASE h # g \/ e # new
    <3>1. frame'[h][e] = frame[h][e]
      BY <1>2, <2>2
    <3>2. TaskOK(h, e)
      BY <1>1 DEF Tasks
    <3>3. QED
      BY <1>1, <3>1, <3>2, TaskKept
  <2>3. QED
    BY <2>1, <2>2
<1>6. Distinct'
  <2>1. ASSUME NEW h \in Goroutines, NEW e \in Depths,
               frame[h][e].at \in Early
        PROVE  frame[h][e].fn # binds + 1
    <3>1. TaskOK(h, e)
      BY <1>1 DEF Tasks
    <3>2. frame[h][e].fn \in 1 .. binds /\ binds \in Nat
      BY <1>1, <2>1, <3>1 DEF TaskOK, Early, TypeOK
    <3>3. QED
      BY <3>2
  <2>2. QED
    BY <1>1, <1>2, <2>1 DEF Distinct
<1>7. QED
  BY <1>3, <1>4, <1>5, <1>6

(* dispMu and the flag stay, and with them what is said of the tasks that  *)
(* register, if the step neither begins nor ends a registration.           *)
LEMMA LockKept ==
  ASSUME IInv, NEW g \in Goroutines, NEW d \in Depths, OnlyTask(g, d),
         dispMu' = dispMu, dispatcherSet' = dispatcherSet,
         frame'[g][d].at = "set" <=> frame[g][d].at = "set"
  PROVE  DispatcherLock' /\ Unregistered'
<1>1. ASSUME NEW h \in Goroutines, NEW e \in Depths
      PROVE  frame'[h][e].at = "set" <=> frame[h][e].at = "set"
  <2>1. CASE h = g /\ e = d
    BY <2>1
  <2>2. CASE h # g \/ e # d
    BY <2>2 DEF OnlyTask
  <2>3. QED
    BY <2>1, <2>2
<1>2. DispatcherLock /\ Unregistered
  BY DEF IInv
<1>3. QED
  BY <1>1, <1>2 DEF DispatcherLock, Unregistered

(* The steps that touch neither a table nor dispMu. *)
LEMMA QuietStep ==
  ASSUME IInv, NEW g \in Goroutines, NEW d \in Depths, d = depth[g],
         OnlyTask(g, d), FrameType', DepthType', Stays(g), NotBack(g),
         TaskOK(g, d)', frame'[g][d].at = "set" <=> frame[g][d].at = "set",
         UNCHANGED <<binds, hostTables, guestState, closed, dispMu>>,
         mu' \in Goroutines \cup {NoOne}
  PROVE  IInv'
<1>1. TypeOK /\ Tables /\ Counted
  BY DEF IInv
<1>2. Grows
  BY <1>1 DEF Grows, TypeOK, hostTables, guestState
<1>3. /\ Nested' /\ Tasks' /\ Distinct'
      /\ Cardinality(FnsAt({"ensure"}))' \in Nat
      /\ Cardinality(FnsAt({"ensure"}))' <= Cardinality(FnsAt({"ensure"}))
      /\ Cardinality(FnsAt(Early))' \in Nat
      /\ Cardinality(FnsAt(Early))' <= Cardinality(FnsAt(Early))
  BY <1>2, TopStep
<1>4. TypeOK'
  BY <1>1 DEF TypeOK, FrameType, DepthType, hostTables, guestState
<1>5. Tables'
  BY <1>1 DEF Tables, hostTables, guestState
<1>6. DispatcherLock' /\ Unregistered'
  BY LockKept DEF hostTables
<1>7. Counted'
  <2>1. /\ Cardinality(FnsAt({"ensure"})) \in Nat
        /\ Cardinality(FnsAt(Early)) \in Nat
        /\ binds \in Nat /\ nextCBID \in Nat /\ nextFuncID \in Nat
    BY <1>1, FnsFinite DEF TypeOK
  <2>2. binds' = binds /\ nextCBID' = nextCBID /\ nextFuncID' = nextFuncID
    BY DEF hostTables
  <2>3. QED
    BY <1>1, <1>3, <2>1, <2>2 DEF Counted
<1>8. QED
  BY <1>3, <1>4, <1>5, <1>6, <1>7 DEF IInv

(* Where the innermost task of g is, and what is known of it. *)
LEMMA TopFacts ==
  ASSUME IInv, NEW g \in Goroutines, depth[g] > 0
  PROVE  /\ depth[g] \in Depths /\ Top(g) = frame[g][depth[g]]
         /\ Top(g) \in Task /\ TaskOK(g, depth[g])
<1>1. FrameType /\ DepthType
  BY DEF IInv, TypeOK, FrameType, DepthType
<1>2. QED
  BY <1>1, TopTask DEF IInv, Tasks, Top

LEMMA QuietActions ==
  ASSUME IInv, NEW g \in Goroutines,
         \/ EnsureSet(g) \/ EnsureClosed(g) \/ BeginCall(g) \/ Enter(g)
         \/ Relock(g) \/ FunctionReturns(g)
         \/ \E id \in FuncIDs : Call(g, id)
  PROVE  IInv'
<1>1. TypeOK
  BY DEF IInv
<1>2. depth[g] > 0 /\ UNCHANGED <<binds, hostTables, guestState, closed, dispMu>>
      /\ mu' \in Goroutines \cup {NoOne}
  BY <1>1 DEF EnsureSet, EnsureClosed, BeginCall, Enter, Relock,
     FunctionReturns, Call, At, TypeOK, locks
<1>3. PICK d \in Depths : d = depth[g]
  BY <1>2, TopFacts
<1>4. Top(g) = frame[g][d] /\ Top(g) \in Task /\ TaskOK(g, d)
  BY <1>2, <1>3, TopFacts
<1> DEFINE Fine == /\ OnlyTask(g, d) /\ FrameType' /\ DepthType'
                   /\ Stays(g) /\ NotBack(g) /\ TaskOK(g, d)'
                   /\ frame'[g][d].at = "set" <=> frame[g][d].at = "set"
<1>5. ASSUME Left(g), Top(g).at # "set" PROVE Fine
  <2>1. /\ OnlyTask(g, d) /\ FrameType' /\ DepthType' /\ Stays(g)
        /\ frame'[g][d] = NoTask
    BY <1>3, <1>5 DEF Left, Stays
  <2>2. NotBack(g) /\ TaskOK(g, d)'
    BY <1>3, <2>1 DEF NotBack, TaskOK, NoTask, Early
  <2>3. QED
    BY <1>4, <1>5, <2>1, <2>2 DEF NoTask
<1>6. ASSUME NEW t, Moved(g, t)
      PROVE  /\ OnlyTask(g, d) /\ FrameType' /\ DepthType'
             /\ Stays(g) /\ frame'[g][d] = t /\ frame'[g][depth[g]] = t
  BY <1>3, <1>6 DEF Moved, Stays
<1>7. UNCHANGED <<binds, callbacks, dispatcherSet, nextFuncID, funcs, made>>
  BY <1>2 DEF hostTables, guestState
<1>8. CASE EnsureSet(g)
  <2>1. Moved(g, [at |-> "table", phase |-> "none",
                  fn |-> Top(g).fn, id |-> Top(g).id])
    BY <1>1, <1>8, Effects
  <2>2. Top(g).at = "ensure" /\ dispatcherSet
    BY <1>8 DEF EnsureSet, At
  <2>3. NotBack(g)
    BY <1>6, <2>1, <2>2 DEF NotBack, Early
  <2>4. TaskOK(g, d)'
    BY <1>4, <1>6, <1>7, <2>1, <2>2 DEF TaskOK
  <2>5. Fine
    BY <1>4, <1>6, <2>1, <2>2, <2>3, <2>4
  <2>6. QED
    BY <1>2, <1>3, <2>5, QuietStep
<1>9. CASE EnsureClosed(g)
  <2>1. Left(g) /\ Top(g).at # "set"
    BY <1>1, <1>9, Effects DEF EnsureClosed, At
  <2>2. QED
    BY <1>2, <1>3, <1>5, <2>1, QuietStep
<1>10. ASSUME NEW phase \in {"wait", "guest"}, Top(g).phase \in {"begin", "wait", "relock"},
              Moved(g, [at |-> Top(g).at, phase |-> phase,
                        fn |-> Top(g).fn, id |-> Top(g).id])
       PROVE  Fine
  <2>1. NotBack(g)
    BY <1>6, <1>10 DEF NotBack
  <2>2. TaskOK(g, d)'
    BY <1>4, <1>6, <1>7, <1>10 DEF TaskOK, InCall
  <2>3. QED
    BY <1>4, <1>6, <1>10, <2>1, <2>2
<1>11. CASE BeginCall(g)
  <2>1. Top(g).phase = "begin" /\ Top(g).at # "set"
    BY <1>4, <1>11 DEF BeginCall, TaskOK
  <2>2. \/ Left(g)
        \/ Moved(g, [at |-> Top(g).at, phase |-> "wait",
                     fn |-> Top(g).fn, id |-> Top(g).id])
    BY <1>1, <1>11, Effects
  <2>3. Fine
    BY <1>5, <1>10, <2>1, <2>2
  <2>4. QED
    BY <1>2, <1>3, <2>3, QuietStep
<1>12. CASE Enter(g) \/ Relock(g)
  <2>1. Top(g).phase \in {"wait", "relock"}
    BY <1>12 DEF Enter, Relock, At
  <2>2. Moved(g, [at |-> Top(g).at, phase |-> "guest",
                  fn |-> Top(g).fn, id |-> Top(g).id])
    BY <1>1, <1>12, Effects
  <2>3. Fine
    BY <1>10, <2>1, <2>2
  <2>4. QED
    BY <1>2, <1>3, <2>3, QuietStep
<1>13. ASSUME NEW phase, NEW fn, NEW id, Top(g).at = "eval",
              Moved(g, [at |-> Top(g).at, phase |-> phase, fn |-> fn, id |-> id])
       PROVE  Fine
  <2>1. NotBack(g)
    BY <1>6, <1>13 DEF NotBack, Early
  <2>2. TaskOK(g, d)'
    BY <1>6, <1>13 DEF TaskOK
  <2>3. QED
    BY <1>4, <1>6, <1>13, <2>1, <2>2
<1>14. CASE FunctionReturns(g)
  <2>1. Fine
    BY <1>1, <1>13, <1>14, Effects DEF FunctionReturns, At
  <2>2. QED
    BY <1>2, <1>3, <2>1, QuietStep
<1>15. CASE \E id \in FuncIDs : Call(g, id)
  <2>1. PICK id \in FuncIDs : Call(g, id)
    BY <1>15
  <2>2. Fine
    BY <1>1, <1>13, <2>1, Effects DEF Call, At
  <2>3. QED
    BY <1>2, <1>3, <2>2, QuietStep
<1>16. QED
  BY <1>8, <1>9, <1>11, <1>12, <1>14, <1>15

(* A registration takes the next callback id, and dispMu, which is free.   *)
LEMMA RegisterStep ==
  ASSUME IInv, NEW g \in Goroutines, Register(g)
  PROVE  IInv'
<1>1. TypeOK /\ Tables /\ Counted /\ Tasks /\ Distinct
  BY DEF IInv
<1>2. depth[g] > 0 /\ Top(g).at = "ensure" /\ Top(g).phase = "none"
      /\ dispMu = NoOne /\ dispMu' = g /\ ~dispatcherSet
      /\ nextCBID' = nextCBID + 1 /\ callbacks' = callbacks \cup {nextCBID + 1}
      /\ UNCHANGED <<binds, mu, closed, dispatcherSet, nextFuncID, funcs,
                     guestDispatcher, made, main>>
  BY DEF Register, At, guestState
<1>3. PICK d \in Depths : d = depth[g]
  BY <1>2, TopFacts
<1>4. Top(g) = frame[g][d] /\ Top(g) \in Task /\ TaskOK(g, d)
  BY <1>2, <1>3, TopFacts
<1>5. Moved(g, [at |-> "set", phase |-> "wait",
                fn |-> Top(g).fn, id |-> nextCBID + 1])
  BY <1>1, Effects
<1>6. /\ OnlyTask(g, d) /\ FrameType' /\ DepthType' /\ Stays(g)
      /\ frame'[g][d].at = "set" /\ frame'[g][d].phase = "wait"
      /\ frame'[g][d].fn = Top(g).fn /\ frame'[g][d].id = nextCBID + 1
  BY <1>3, <1>5 DEF Moved, Stays
<1>7. Grows
  BY <1>1, <1>2 DEF Grows, TypeOK
<1>8. NotBack(g)
  BY <1>2, <1>3, <1>6 DEF NotBack, Early
<1>9. TaskOK(g, d)'
  BY <1>2, <1>4, <1>6 DEF TaskOK
<1>10. /\ Nested' /\ Tasks' /\ Distinct'
       /\ Cardinality(FnsAt(Early))' \in Nat
       /\ Cardinality(FnsAt(Early))' <= Cardinality(FnsAt(Early))
  BY <1>3, <1>6, <1>7, <1>8, <1>9, TopStep
<1>11. Counted' /\ nextCBID' \in 0 .. MaxBinds
  <2>1. /\ Cardinality(FnsAt({"ensure"}))' \in Nat
        /\ Cardinality(FnsAt({"ensure"}))' + 1 <= Cardinality(FnsAt({"ensure"}))
    BY <1>1, <1>2, <1>3, <1>6, OneLeaves DEF Early
  <2>2. /\ Cardinality(FnsAt({"ensure"})) \in Nat
        /\ Cardinality(FnsAt(Early)) \in Nat
        /\ binds \in 0 .. MaxBinds /\ nextCBID \in Nat /\ nextFuncID \in Nat
    BY <1>1, FnsFinite DEF TypeOK
  <2>3. QED
    BY <1>1, <1>2, <1>10, <2>1, <2>2, LimitsAssumption DEF Counted
<1>12. TypeOK'
  BY <1>1, <1>2, <1>6, <1>11
  DEF TypeOK, FrameType, DepthType, CallbackIDs
<1>13. Tables'
  BY <1>1, <1>2 DEF Tables, TypeOK
<1>14. DispatcherLock /\ Unregistered
  BY DEF IInv
<1>15. \A h \in Goroutines, e \in Depths :
         frame'[h][e].at = "set" <=> h = g /\ e = d
  <2>1. \A h \in Goroutines, e \in Depths : frame[h][e].at # "set"
    BY <1>2, <1>14, NobodyAssumption DEF DispatcherLock
  <2>2. QED
    BY <1>6, <2>1 DEF OnlyTask
<1>16. DispatcherLock' /\ Unregistered'
  BY <1>2, <1>15 DEF DispatcherLock, Unregistered
<1>17. QED
  BY <1>10, <1>11, <1>12, <1>13, <1>16 DEF IInv

(* NewFunction takes the next function id.                                 *)
LEMMA EnterFunctionStep ==
  ASSUME IInv, NEW g \in Goroutines, EnterFunction(g)
  PROVE  IInv' /\ nextFuncID + 1 \in FuncIDs /\ funcs[nextFuncID + 1] = 0
<1>1. TypeOK /\ Tables /\ Counted /\ Tasks /\ Distinct
  BY DEF IInv
<1>2. depth[g] > 0 /\ Top(g).at = "table" /\ Top(g).phase = "none"
      /\ nextFuncID' = nextFuncID + 1
      /\ funcs' = [funcs EXCEPT ![nextFuncID + 1] = Top(g).fn]
      /\ UNCHANGED <<binds, mu, dispMu, closed, dispatcherSet, nextCBID,
                     callbacks, guestDispatcher, made, main>>
  BY DEF EnterFunction, At, guestState, locks
<1>3. PICK d \in Depths : d = depth[g]
  BY <1>2, TopFacts
<1>4. Top(g) = frame[g][d] /\ Top(g) \in Task /\ TaskOK(g, d)
  BY <1>2, <1>3, TopFacts
<1>5. Moved(g, [at |-> "new", phase |-> "begin",
                fn |-> Top(g).fn, id |-> nextFuncID + 1])
  BY <1>1, Effects
<1>6. /\ OnlyTask(g, d) /\ FrameType' /\ DepthType' /\ Stays(g)
      /\ frame'[g][d].at = "new" /\ frame'[g][d].phase = "begin"
      /\ frame'[g][d].fn = Top(g).fn /\ frame'[g][d].id = nextFuncID + 1
  BY <1>3, <1>5 DEF Moved, Stays
<1>7. Top(g).fn \in 1 .. binds /\ dispatcherSet
  BY <1>2, <1>4 DEF TaskOK
<1>8. /\ Cardinality(FnsAt(Early))' \in Nat
      /\ Cardinality(FnsAt(Early))' + 1 <= Cardinality(FnsAt(Early))
  BY <1>1, <1>2, <1>3, <1>6, OneLeaves DEF Early
<1>9. /\ Cardinality(FnsAt({"ensure"})) \in Nat
      /\ Cardinality(FnsAt(Early)) \in Nat
      /\ binds \in 0 .. MaxBinds /\ nextCBID \in Nat /\ nextFuncID \in Nat
  BY <1>1, FnsFinite DEF TypeOK
<1>10. nextFuncID + 1 \in FuncIDs
  BY <1>1, <1>8, <1>9, LimitsAssumption DEF Counted, FuncIDs
<1>11. /\ funcs' \in [FuncIDs -> 0 .. MaxBinds]
       /\ funcs'[nextFuncID + 1] = Top(g).fn
       /\ \A id \in FuncIDs \ {nextFuncID + 1} : funcs'[id] = funcs[id]
  <2>1. Top(g).fn \in 0 .. MaxBinds
    BY <1>7, <1>9, LimitsAssumption
  <2>2. QED
    BY <1>1, <1>2, <1>10, <2>1 DEF TypeOK
<1>12. Grows
  <2>1. \A id \in 1 .. nextFuncID : id \in FuncIDs \ {nextFuncID + 1}
    BY <1>9, <1>10, LimitsAssumption DEF FuncIDs
  <2>2. QED
    BY <1>2, <1>9, <1>11, <2>1 DEF Grows
<1>13. NotBack(g)
  BY <1>3, <1>6 DEF NotBack, Early
<1>14. TaskOK(g, d)'
  BY <1>2, <1>6, <1>7, <1>9, <1>11 DEF TaskOK, InCall
<1>15. /\ Nested' /\ Tasks' /\ Distinct'
       /\ Cardinality(FnsAt({"ensure"}))' \in Nat
       /\ Cardinality(FnsAt({"ensure"}))' <= Cardinality(FnsAt({"ensure"}))
  BY <1>3, <1>6, <1>12, <1>13, <1>14, TopStep
<1>16. Counted'
  BY <1>1, <1>2, <1>8, <1>9, <1>15 DEF Counted
<1>17. TypeOK'
  <2>1. nextFuncID' \in 0 .. MaxBinds
    BY <1>2, <1>9, <1>10 DEF FuncIDs
  <2>2. QED
    BY <1>1, <1>2, <1>6, <1>11, <2>1 DEF TypeOK, FrameType, DepthType
<1>18. Tables'
  <2>1. \A id \in FuncIDs : id > nextFuncID' => funcs'[id] = 0
    BY <1>1, <1>2, <1>9, <1>11 DEF Tables, FuncIDs
  <2>2. \A id \in FuncIDs :
          made[id] # 0 =>
            dispatcherSet /\ id <= nextFuncID' /\ funcs'[id] = made[id]
    BY <1>1, <1>2, <1>9, <1>11 DEF Tables, FuncIDs
  <2>3. QED
    BY <1>1, <1>2, <2>1, <2>2 DEF Tables
<1>19. DispatcherLock' /\ Unregistered'
  BY <1>2, <1>4, <1>6, LockKept
<1>20. funcs[nextFuncID + 1] = 0
  BY <1>1, <1>9, <1>10 DEF Tables
<1>21. QED
  BY <1>10, <1>15, <1>16, <1>17, <1>18, <1>19, <1>20 DEF IInv

(* What a guest call does, also one that fails afterwards, agrees with the *)
(* tables.                                                                 *)
LEMMA GuestEffect ==
  ASSUME IInv, NEW g \in Goroutines, depth[g] > 0, Top(g).phase = "guest",
         Effect(Top(g)) \/ UNCHANGED guestState,
         UNCHANGED <<nextCBID, callbacks, nextFuncID, funcs>>,
         \/ dispatcherSet' = dispatcherSet
         \/ Top(g).at = "set" /\ dispatcherSet' = TRUE /\ Effect(Top(g))
  PROVE  /\ guestDispatcher' \in 0 .. MaxBinds
         /\ made' \in [FuncIDs -> 0 .. MaxBinds]
         /\ main' \in 0 .. MaxBinds
         /\ \A id \in FuncIDs : made[id] # 0 => made'[id] # 0
         /\ Tables'
<1>1. TypeOK /\ Tables /\ Unregistered
  BY DEF IInv
<1>2. PICK d \in Depths : d = depth[g]
  BY TopFacts
<1>3. Top(g) = frame[g][d] /\ Top(g) \in Task /\ TaskOK(g, d)
  BY <1>2, TopFacts
<1>4. /\ Top(g).at = "set" => Top(g).id \in callbacks /\ ~dispatcherSet
      /\ Top(g).at = "new" =>
           /\ dispatcherSet /\ Top(g).id \in 1 .. nextFuncID
           /\ Top(g).fn \in 1 .. binds /\ funcs[Top(g).id] = Top(g).fn
      /\ Top(g).at = "attr" => Top(g).id \in FuncIDs /\ made[Top(g).id] # 0
  BY <1>1, <1>3 DEF TaskOK, Unregistered
<1>5. CASE UNCHANGED guestState
  BY <1>1, <1>4, <1>5 DEF Effect, guestState, TypeOK, Tables
<1>6. CASE Effect(Top(g)) /\ Top(g).at = "set"
  <2>1. guestDispatcher' = Top(g).id /\ made' = made /\ main' = main
    BY <1>6 DEF Effect
  <2>2. Top(g).id \in 0 .. MaxBinds
    <3>1. Top(g).id \in 1 .. MaxBinds
      BY <1>1, <1>4, <1>6 DEF TypeOK, CallbackIDs
    <3>2. QED
      BY <3>1, LimitsAssumption
  <2>3. QED
    BY <1>1, <1>4, <1>6, <2>1, <2>2 DEF TypeOK, Tables
<1>7. CASE Effect(Top(g)) /\ Top(g).at = "new"
  <2>1. guestDispatcher' = guestDispatcher /\ main' = main
        /\ made' = [made EXCEPT ![Top(g).id] = Top(g).fn]
    BY <1>7 DEF Effect
  <2>2. Top(g).id \in FuncIDs /\ Top(g).id <= nextFuncID
        /\ Top(g).fn \in 0 .. MaxBinds /\ Top(g).fn # 0
    BY <1>1, <1>4, <1>7, LimitsAssumption DEF TypeOK, FuncIDs
  <2>3. /\ made' \in [FuncIDs -> 0 .. MaxBinds]
        /\ made'[Top(g).id] = Top(g).fn
        /\ \A id \in FuncIDs \ {Top(g).id} : made'[id] = made[id]
    BY <1>1, <2>1, <2>2 DEF TypeOK
  <2>4. \A id \in FuncIDs : made[id] # 0 => made'[id] # 0
    BY <2>2, <2>3
  <2>5. dispatcherSet' /\ dispatcherSet
    BY <1>4, <1>7
  <2>6. \A id \in FuncIDs :
          made'[id] # 0 => id <= nextFuncID /\ funcs[id] = made'[id]
    BY <1>1, <1>4, <1>7, <2>2, <2>3 DEF Tables
  <2>7. Tables'
    BY <1>1, <2>1, <2>4, <2>5, <2>6 DEF Tables
  <2>8. QED
    BY <1>1, <2>1, <2>3, <2>4, <2>7 DEF TypeOK
<1>8. CASE Effect(Top(g)) /\ Top(g).at = "attr"
  <2>1. guestDispatcher' = guestDispatcher /\ made' = made
        /\ main' = Top(g).id /\ dispatcherSet' = dispatcherSet
    BY <1>8 DEF Effect
  <2>2. main' \in 0 .. MaxBinds
    BY <1>4, <1>8, <2>1, LimitsAssumption DEF FuncIDs
  <2>3. QED
    BY <1>1, <1>4, <1>8, <2>1, <2>2 DEF TypeOK, Tables
<1>9. CASE Effect(Top(g)) /\ Top(g).at # "set" /\ Top(g).at # "new"
                          /\ Top(g).at # "attr"
  <2>1. guestDispatcher' = guestDispatcher /\ made' = made /\ main' = main
        /\ dispatcherSet' = dispatcherSet
    BY <1>9 DEF Effect
  <2>2. QED
    BY <1>1, <2>1 DEF TypeOK, Tables
<1>10. QED
  BY <1>5, <1>6, <1>7, <1>8, <1>9, Zenon

(* The returns that do not end a registration. *)
LEMMA ReturnStep ==
  ASSUME IInv, NEW g \in Goroutines, CallReturns(g) \/ TaskReturns(g)
  PROVE  IInv'
<1>1. TypeOK /\ Tables /\ Counted /\ Tasks /\ Distinct
  BY DEF IInv
<1>2. depth[g] > 0 /\ Top(g).at \in {"new", "import", "attr", "eval"}
      /\ Top(g).phase = "guest" /\ mu' = NoOne /\ Effect(Top(g))
      /\ UNCHANGED <<binds, dispMu, closed, dispatcherSet, nextCBID, callbacks,
                     nextFuncID, funcs>>
  BY DEF CallReturns, TaskReturns, At, hostTables
<1>3. PICK d \in Depths : d = depth[g]
  BY <1>2, TopFacts
<1>4. Top(g) = frame[g][d] /\ Top(g) \in Task /\ TaskOK(g, d)
  BY <1>2, <1>3, TopFacts
<1>5. /\ guestDispatcher' \in 0 .. MaxBinds
      /\ made' \in [FuncIDs -> 0 .. MaxBinds]
      /\ main' \in 0 .. MaxBinds
      /\ \A id \in FuncIDs : made[id] # 0 => made'[id] # 0
      /\ Tables'
  BY <1>2, GuestEffect
<1>6. Grows
  BY <1>1, <1>2, <1>5 DEF Grows, TypeOK
<1>7. /\ OnlyTask(g, d) /\ FrameType' /\ DepthType' /\ Stays(g)
      /\ NotBack(g) /\ TaskOK(g, d)' /\ frame'[g][d].at # "set"
  <2>1. CASE CallReturns(g)
    <3>1. Moved(g, [at |-> Following(Top(g).at), phase |-> "begin",
                    fn |-> Top(g).fn, id |-> Top(g).id])
      BY <1>1, <2>1, Effects
    <3>2. /\ OnlyTask(g, d) /\ FrameType' /\ DepthType' /\ Stays(g)
          /\ frame'[g][d].at = Following(Top(g).at)
          /\ frame'[g][d].phase = "begin" /\ frame'[g][d].id = Top(g).id
      BY <1>3, <3>1 DEF Moved, Stays
    <3>3. Following(Top(g).at) \in {"import", "attr"}
      BY DEF Following
    <3>4. NotBack(g)
      BY <1>3, <3>2, <3>3 DEF NotBack, Early
    <3>5. Top(g).at \in {"new", "import"}
      BY <2>1 DEF CallReturns, At
    <3>6. Top(g).id \in FuncIDs /\ made'[Top(g).id] # 0
      <4>1. CASE Top(g).at = "new"
        <5>1. Top(g).id \in 1 .. nextFuncID /\ Top(g).fn \in 1 .. binds
          BY <1>4, <4>1 DEF TaskOK
        <5>2. Top(g).id \in FuncIDs
          BY <1>1, <5>1, LimitsAssumption DEF TypeOK, FuncIDs
        <5>3. made' = [made EXCEPT ![Top(g).id] = Top(g).fn]
          BY <1>2, <4>1 DEF Effect
        <5>4. QED
          BY <1>1, <5>1, <5>2, <5>3 DEF TypeOK
      <4>2. CASE Top(g).at = "import"
        BY <1>4, <1>5, <4>2 DEF TaskOK
      <4>3. QED
        BY <3>5, <4>1, <4>2
    <3>7. TaskOK(g, d)'
      BY <3>2, <3>3, <3>6 DEF TaskOK, InCall
    <3>8. QED
      BY <3>2, <3>3, <3>4, <3>7
  <2>2. CASE TaskReturns(g)
    <3>1. Left(g)
      BY <1>1, <2>2, Effects
    <3>2. /\ OnlyTask(g, d) /\ FrameType' /\ DepthType' /\ Stays(g)
          /\ frame'[g][d] = NoTask
      BY <1>3, <3>1 DEF Left, Stays
    <3>3. QED
      BY <1>3, <3>2 DEF NotBack, TaskOK, NoTask, Early
  <2>3. QED
    BY <2>1, <2>2
<1>8. /\ Nested' /\ Tasks' /\ Distinct'
      /\ Cardinality(FnsAt({"ensure"}))' \in Nat
      /\ Cardinality(FnsAt({"ensure"}))' <= Cardinality(FnsAt({"ensure"}))
      /\ Cardinality(FnsAt(Early))' \in Nat
      /\ Cardinality(FnsAt(Early))' <= Cardinality(FnsAt(Early))
  BY <1>3, <1>6, <1>7, TopStep
<1>9. Counted'
  <2>1. /\ Cardinality(FnsAt({"ensure"})) \in Nat
        /\ Cardinality(FnsAt(Early)) \in Nat
        /\ binds \in Nat /\ nextCBID \in Nat /\ nextFuncID \in Nat
    BY <1>1, FnsFinite DEF TypeOK
  <2>2. QED
    BY <1>1, <1>2, <1>8, <2>1 DEF Counted
<1>10. TypeOK'
  BY <1>1, <1>2, <1>5, <1>7 DEF TypeOK, FrameType, DepthType
<1>11. DispatcherLock' /\ Unregistered'
  BY <1>2, <1>4, <1>7, LockKept
<1>12. QED
  BY <1>5, <1>8, <1>9, <1>10, <1>11 DEF IInv

(* A registration ends, well or not: the only task that is at "set" leaves *)
(* it with dispMu.  Any other guest call that fails leaves dispMu alone.   *)
LEMMA EndOfSet ==
  ASSUME IInv, NEW g \in Goroutines, NEW d \in Depths, d = depth[g],
         OnlyTask(g, d), frame'[g][d].at # "set", ReleaseDispatcher(g),
         frame[g][d].at # "set" => dispatcherSet' = dispatcherSet
  PROVE  DispatcherLock' /\ Unregistered' /\ dispMu' \in Goroutines \cup {NoOne}
<1>1. TypeOK /\ Nested /\ DispatcherLock /\ Unregistered
  BY DEF IInv
<1>2. dispMu = g => frame[g][d].at = "set"
  <2>1. ASSUME dispMu = g PROVE \E e \in Depths : frame[g][e].at = "set"
    BY <1>1, <2>1 DEF DispatcherLock
  <2>2. \A e \in Depths : e # d => frame[g][e].at # "set"
    <3>1. d \in Nat /\ \A e \in Depths : e \in Nat
      BY LimitsAssumption DEF Depths
    <3>2. QED
      BY <1>1, <3>1 DEF Nested, NoTask
  <2>3. QED
    BY <2>1, <2>2
<1>3. CASE frame[g][d].at = "set"
  <2>1. dispMu = g
    BY <1>1, <1>3 DEF DispatcherLock
  <2>2. dispMu' = NoOne
    BY <2>1 DEF ReleaseDispatcher
  <2>3. \A h \in Goroutines, e \in Depths : frame'[h][e].at # "set"
    <3>1. \A h \in Goroutines, e \in Depths :
            frame[h][e].at = "set" => h = g /\ e = d
      <4>1. \A h \in Goroutines, e \in Depths :
              frame[h][e].at = "set" => h = g
        BY <1>1, <2>1 DEF DispatcherLock
      <4>2. \A e \in Depths : frame[g][e].at = "set" => e = d
        <5>1. d \in Nat /\ \A e \in Depths : e \in Nat
          BY LimitsAssumption DEF Depths
        <5>2. QED
          BY <1>1, <5>1 DEF Nested, NoTask
      <4>3. QED
        BY <4>1, <4>2
    <3>2. QED
      BY <3>1 DEF OnlyTask
  <2>4. QED
    BY <2>2, <2>3, NobodyAssumption DEF DispatcherLock, Unregistered
<1>4. CASE frame[g][d].at # "set"
  <2>1. dispMu' = dispMu /\ dispatcherSet' = dispatcherSet
    BY <1>2, <1>4 DEF ReleaseDispatcher
  <2>2. QED
    BY <1>1, <1>4, <2>1, LockKept DEF TypeOK
<1>5. QED
  BY <1>3, <1>4

LEMMA SetReturnsOrFails ==
  ASSUME IInv, NEW g \in Goroutines, SetReturns(g) \/ CallFails(g)
  PROVE  IInv'
<1>1. TypeOK /\ Tables /\ Counted /\ Tasks /\ Distinct
  BY DEF IInv
<1>2. /\ depth[g] > 0 /\ Top(g).phase = "guest" /\ mu' = NoOne
      /\ ReleaseDispatcher(g)
      /\ Effect(Top(g)) \/ UNCHANGED guestState
      /\ UNCHANGED <<binds, closed, nextCBID, callbacks, nextFuncID, funcs>>
      /\ \/ dispatcherSet' = dispatcherSet
         \/ Top(g).at = "set" /\ dispatcherSet' = TRUE /\ Effect(Top(g))
  BY DEF SetReturns, CallFails, At, hostTables
<1>3. PICK d \in Depths : d = depth[g]
  BY <1>2, TopFacts
<1>4. Top(g) = frame[g][d] /\ Top(g) \in Task /\ TaskOK(g, d)
  BY <1>2, <1>3, TopFacts
<1>5. /\ guestDispatcher' \in 0 .. MaxBinds
      /\ made' \in [FuncIDs -> 0 .. MaxBinds]
      /\ main' \in 0 .. MaxBinds
      /\ \A id \in FuncIDs : made[id] # 0 => made'[id] # 0
      /\ Tables'
  BY <1>2, GuestEffect
<1>6. Grows
  BY <1>1, <1>2, <1>5 DEF Grows, TypeOK
<1>7. /\ OnlyTask(g, d) /\ FrameType' /\ DepthType' /\ Stays(g)
      /\ NotBack(g) /\ TaskOK(g, d)' /\ frame'[g][d].at # "set"
  <2>1. CASE SetReturns(g)
    <3>1. Moved(g, [at |-> "table", phase |-> "none",
                    fn |-> Top(g).fn, id |-> 0])
      BY <1>1, <2>1, Effects
    <3>2. /\ OnlyTask(g, d) /\ FrameType' /\ DepthType' /\ Stays(g)
          /\ frame'[g][d].at = "table" /\ frame'[g][d].phase = "none"
          /\ frame'[g][d].fn = Top(g).fn
      BY <1>3, <3>1 DEF Moved, Stays
    <3>3. Top(g).at = "set" /\ dispatcherSet'
      BY <2>1 DEF SetReturns, At
    <3>4. NotBack(g)
      BY <1>3, <3>2, <3>3 DEF NotBack, Early
    <3>5. TaskOK(g, d)'
      BY <1>2, <1>4, <3>2, <3>3 DEF TaskOK
    <3>6. QED
      BY <3>2, <3>4, <3>5
  <2>2. CASE CallFails(g)
    <3>1. Left(g)
      BY <1>1, <2>2, Effects
    <3>2. /\ OnlyTask(g, d) /\ FrameType' /\ DepthType' /\ Stays(g)
          /\ frame'[g][d] = NoTask
      BY <1>3, <3>1 DEF Left, Stays
    <3>3. QED
      BY <1>3, <3>2 DEF NotBack, TaskOK, NoTask, Early
  <2>3. QED
    BY <2>1, <2>2
<1>8. /\ Nested' /\ Tasks' /\ Distinct'
      /\ Cardinality(FnsAt({"ensure"}))' \in Nat
      /\ Cardinality(FnsAt({"ensure"}))' <= Cardinality(FnsAt({"ensure"}))
      /\ Cardinality(FnsAt(Early))' \in Nat
      /\ Cardinality(FnsAt(Early))' <= Cardinality(FnsAt(Early))
  BY <1>3, <1>6, <1>7, TopStep
<1>9. Counted'
  <2>1. /\ Cardinality(FnsAt({"ensure"})) \in Nat
        /\ Cardinality(FnsAt(Early)) \in Nat
        /\ binds \in Nat /\ nextCBID \in Nat /\ nextFuncID \in Nat
    BY <1>1, FnsFinite DEF TypeOK
  <2>2. QED
    BY <1>1, <1>2, <1>8, <2>1 DEF Counted
<1>10. /\ DispatcherLock' /\ Unregistered'
       /\ dispMu' \in Goroutines \cup {NoOne}
  BY <1>2, <1>3, <1>4, <1>7, EndOfSet
<1>11. TypeOK'
  BY <1>1, <1>2, <1>5, <1>7, <1>10 DEF TypeOK, FrameType, DepthType
<1>12. QED
  BY <1>5, <1>8, <1>9, <1>10, <1>11 DEF IInv

(* A new task is in a frame of its own. *)
LEMMA BindOrEval ==
  ASSUME IInv, NEW g \in Goroutines, Bind(g) \/ Eval(g)
  PROVE  IInv'
<1>1. TypeOK /\ Tables /\ Counted /\ Tasks /\ Distinct
  BY DEF IInv
<1>2. /\ InHostCode(g)
      /\ UNCHANGED <<mu, dispMu, closed, dispatcherSet, nextCBID, callbacks,
                     nextFuncID, funcs, guestDispatcher, made, main>>
      /\ \/ binds' = binds + 1 /\ binds < MaxBinds
         \/ binds' = binds
  BY DEF Bind, Eval, hostTables, guestState, locks
<1>3. PICK task :
        /\ Opened(g, task)
        /\ \/ /\ task.at = "ensure" /\ task.phase = "none"
              /\ task.fn = binds + 1 /\ binds' = binds + 1
           \/ task.at = "eval" /\ binds' = binds
  <2>1. CASE Bind(g)
    <3>1. Opened(g, [at |-> "ensure", phase |-> "none",
                     fn |-> binds + 1, id |-> 0])
      BY <1>1, <2>1, Effects
    <3>2. QED
      BY <2>1, <3>1 DEF Bind
  <2>2. CASE Eval(g)
    <3>1. Opened(g, [at |-> "eval", phase |-> "begin", fn |-> 0, id |-> 0])
      BY <1>1, <2>2, Effects
    <3>2. QED
      BY <2>2, <3>1 DEF Eval
  <2>3. QED
    BY <2>1, <2>2
<1>4. PICK d \in Depths : d = depth[g] + 1
  BY <1>3 DEF Opened
<1>5. /\ FrameType' /\ DepthType' /\ frame'[g][d] = task /\ OnlyTask(g, d)
  BY <1>3, <1>4 DEF Opened
<1>6. binds \in Nat /\ binds' \in 0 .. MaxBinds
  BY <1>1, <1>2, LimitsAssumption DEF TypeOK
<1>7. Grows
  BY <1>1, <1>2, <1>6 DEF Grows, TypeOK
<1>8. TaskOK(g, d)'
  BY <1>3, <1>5, <1>6 DEF TaskOK
<1>9. task.at \in Early => task.fn = binds + 1
  BY <1>3 DEF Early
<1>10. Nested' /\ Tasks' /\ Distinct' /\ frame[g][d] = NoTask
  BY <1>2, <1>3, <1>4, <1>7, <1>8, <1>9, OpenStep
<1>11. TypeOK'
  BY <1>1, <1>2, <1>5, <1>6 DEF TypeOK, FrameType, DepthType
<1>12. Tables'
  BY <1>1, <1>2 DEF Tables
<1>13. DispatcherLock' /\ Unregistered'
  BY <1>2, <1>3, <1>5, <1>10, LockKept DEF NoTask
<1>14. Counted'
  <2>1. CASE task.at = "eval"
    <3>1. \A h \in Goroutines, e \in Depths :
            frame'[h][e].at \in Early =>
              frame'[h][e] = frame[h][e]
      BY <1>5, <2>1 DEF OnlyTask, Early
    <3>2. /\ Cardinality(FnsAt({"ensure"}))' \in Nat
          /\ Cardinality(FnsAt({"ensure"}))' <= Cardinality(FnsAt({"ensure"}))
      BY <1>1, <3>1, NoneArrives DEF Early
    <3>3. /\ Cardinality(FnsAt(Early))' \in Nat
          /\ Cardinality(FnsAt(Early))' <= Cardinality(FnsAt(Early))
      BY <1>1, <3>1, NoneArrives
    <3>4. /\ Cardinality(FnsAt({"ensure"})) \in Nat
          /\ Cardinality(FnsAt(Early)) \in Nat
          /\ nextCBID \in Nat /\ nextFuncID \in Nat
      BY <1>1, FnsFinite DEF TypeOK
    <3>5. binds' = binds /\ nextCBID' = nextCBID /\ nextFuncID' = nextFuncID
      BY <1>2, <1>3, <2>1
    <3>6. QED
      BY <1>1, <1>6, <3>2, <3>3, <3>4, <3>5 DEF Counted
  <2>2. CASE task.at = "ensure"
    <3>1. task.fn = binds + 1 /\ binds' = binds + 1
      BY <1>3, <2>2
    <3>2. ASSUME NEW points, points \subseteq Early
          PROVE  /\ Cardinality(FnsAt(points)) \in Nat
                 /\ Cardinality(FnsAt(points))' \in Nat
                 /\ Cardinality(FnsAt(points))' <=
                      Cardinality(FnsAt(points)) + 1
      <4>1. FnsAt(points)' \in SUBSET (FnsAt(points) \cup {binds + 1})
        <5>1. \A h \in Goroutines, e \in Depths :
                ~(h = g /\ e = d) => frame'[h][e] = frame[h][e]
          BY <1>5 DEF OnlyTask
        <5>2. QED
          BY <1>5, <3>1, <5>1 DEF FnsAt
      <4>2. IsFiniteSet(FnsAt(points)) /\ Cardinality(FnsAt(points)) \in Nat
        BY <1>1, FnsFinite
      <4>3. /\ IsFiniteSet(FnsAt(points) \cup {binds + 1})
            /\ Cardinality(FnsAt(points) \cup {binds + 1})
                 \in {Cardinality(FnsAt(points)), Cardinality(FnsAt(points)) + 1}
        BY <4>2, FS_AddElement
      <4>4. /\ IsFiniteSet(FnsAt(points)')
            /\ Cardinality(FnsAt(points)') <=
                 Cardinality(FnsAt(points) \cup {binds + 1})
        BY <4>1, <4>3, FS_Subset
      <4>5. Cardinality(FnsAt(points)') \in Nat
        BY <4>4, FS_CardinalityType
      <4>6. QED
        BY <4>2, <4>3, <4>4, <4>5
    <3>3. nextCBID' = nextCBID /\ nextFuncID' = nextFuncID
          /\ nextCBID \in Nat /\ nextFuncID \in Nat
      BY <1>1, <1>2 DEF TypeOK
    <3>4. {"ensure"} \subseteq Early /\ Early \subseteq Early
      BY DEF Early
    <3>5. QED
      BY <1>1, <1>6, <3>1, <3>2, <3>3, <3>4 DEF Counted
  <2>3. QED
    BY <1>3, <2>1, <2>2
<1>15. QED
  BY <1>10, <1>11, <1>12, <1>13, <1>14 DEF IInv

LEMMA MarkClosedStep == IInv /\ (MarkClosed \/ UNCHANGED vars) => IInv'
<1> SUFFICES ASSUME IInv, MarkClosed \/ UNCHANGED vars PROVE IInv'
  OBVIOUS
<1>1. /\ UNCHANGED <<mu, dispMu, dispatcherSet, nextCBID, callbacks, nextFuncID,
                     funcs, guestDispatcher, made, main, binds, depth, frame>>
      /\ closed' = TRUE \/ closed' = closed
  BY DEF MarkClosed, vars, locks, hostTables, guestState
<1>2. TypeOK'
  BY <1>1 DEF IInv, TypeOK
<1>3. Nested' /\ Tables' /\ Unregistered' /\ DispatcherLock' /\ Distinct'
  BY <1>1 DEF IInv, Nested, Tables, Unregistered, DispatcherLock, Distinct
<1>4. Tasks'
  BY <1>1 DEF IInv, Tasks, TaskOK
<1>5. Counted'
  BY <1>1 DEF IInv, Counted, FnsAt
<1>6. QED
  BY <1>2, <1>3, <1>4, <1>5 DEF IInv

LEMMA InitInv == Init => IInv
<1> SUFFICES ASSUME Init PROVE IInv
  OBVIOUS
<1>1. \A g \in Goroutines, d \in Depths : frame[g][d] = NoTask
  BY DEF Init
<1>2. \A points : points \subseteq Early => FnsAt(points) = {}
  BY <1>1 DEF FnsAt, Early, NoTask
<1>3. TypeOK
  <2>1. 0 \in 0 .. MaxDepth /\ 0 \in 0 .. MaxBinds
    BY LimitsAssumption
  <2>2. frame \in [Goroutines -> [Depths -> Task]]
    BY NoTaskType DEF Init
  <2>3. depth \in [Goroutines -> 0 .. MaxDepth]
    BY <2>1 DEF Init
  <2>4. QED
    BY <2>1, <2>2, <2>3 DEF Init, TypeOK
<1>4. Nested
  <2>1. \A d \in Depths : ~(d < 0)
    BY LimitsAssumption DEF Depths
  <2>2. QED
    BY <1>1, <2>1 DEF Init, Nested
<1>5. Tasks
  BY <1>1 DEF Tasks, TaskOK, NoTask
<1>6. Tables
  BY DEF Init, Tables
<1>7. Unregistered /\ DispatcherLock /\ Distinct
  BY <1>1, NobodyAssumption
  DEF Init, Unregistered, DispatcherLock, Distinct, NoTask, Early
<1>8. Counted
  <2>1. FnsAt({"ensure"}) = {} /\ FnsAt(Early) = {}
    BY <1>2 DEF Early
  <2>2. QED
    BY <2>1, FS_EmptySet DEF Init, Counted
<1>9. QED
  BY <1>3, <1>4, <1>5, <1>6, <1>7, <1>8 DEF IInv

LEMMA NextInv == IInv /\ [Next]_vars => IInv'
<1> SUFFICES ASSUME IInv, [Next]_vars PROVE IInv'
  OBVIOUS
<1>1. CASE MarkClosed \/ UNCHANGED vars
  BY <1>1, MarkClosedStep
<1>2. ASSUME NEW g \in Goroutines,
             \/ Bind(g) \/ Eval(g) \/ HostStep(g) \/ GuestReturn(g)
             \/ FunctionReturns(g)
             \/ \E id \in FuncIDs : Call(g, id)
      PROVE  IInv'
  BY <1>2, BindOrEval, QuietActions, RegisterStep, EnterFunctionStep,
     ReturnStep, SetReturnsOrFails
  DEF HostStep, GuestReturn
<1>3. QED
  BY <1>1, <1>2 DEF Next

LEMMA SpecInv == Spec => []IInv
BY InitInv, NextInv, PTL DEF Spec

-----------------------------------------------------------------------------
(* Every variable keeps its type; in particular the callback and function  *)
(* ids handed out stay within the number of calls of Bind, so that every   *)
(* id the guest is given has its place in the tables.                      *)
THEOREM DispatchTypes == Spec => []TypeOK
<1>1. IInv => TypeOK
  BY DEF IInv
<1>2. QED
  BY <1>1, SpecInv, PTL

(* dispMu is held by whoever has a registration under way and by nobody    *)
(* else, also after a registration that failed: EnsureDispatcher's         *)
(* deferred unlock neither leaks the mutex nor lets go of somebody else's. *)
THEOREM LockForRegistration == Spec => []DispatcherLock
<1>1. IInv => DispatcherLock
  BY DEF IInv
<1>2. QED
  BY <1>1, SpecInv, PTL

(* Whenever the guest has a function object, calling it reaches the Go     *)
(* function it was made for: the dispatcher id it calls back with is known *)
(* to the host and its own id is in the table with that function, whatever *)
(* registrations and binds failed half way and however the goroutines'     *)
(* steps interleave.                                                       *)
THEOREM CallsReach == Spec => []CallsReachFunction
<1>1. IInv => CallsReachFunction
  <2> SUFFICES ASSUME IInv PROVE CallsReachFunction
    OBVIOUS
  <2>1. TypeOK /\ Tables
    BY DEF IInv
  <2>2. QED
    BY <2>1 DEF Tables, CallsReachFunction, Routed
<1>2. QED
  BY <1>1, SpecInv, PTL

(* Once a registration has succeeded the guest's dispatcher never changes  *)
(* and no other callback is registered: no later registration can be under *)
(* way then, so that none can come back late and overwrite it.             *)
THEOREM RegisteredOnce == Spec => OneDispatcher
<1> DEFINE Same == dispatcherSet => guestDispatcher' = guestDispatcher
                                    /\ callbacks' = callbacks
<1>1. IInv /\ [Next]_vars => [Same]_vars
  <2> SUFFICES ASSUME IInv, Next, dispatcherSet
               PROVE  guestDispatcher' = guestDispatcher /\ callbacks' = callbacks
    BY DEF vars
  <2>1. CASE MarkClosed
    BY <2>1 DEF MarkClosed, hostTables, guestState
  <2>2. ASSUME NEW g \in Goroutines,
               \/ Bind(g) \/ Eval(g) \/ EnsureSet(g) \/ EnsureClosed(g)
               \/ EnterFunction(g) \/ BeginCall(g) \/ Enter(g) \/ Relock(g)
               \/ FunctionReturns(g)
               \/ \E id \in FuncIDs : Call(g, id)
        PROVE  guestDispatcher' = guestDispatcher /\ callbacks' = callbacks
    BY <2>2 DEF Bind, Eval, EnsureSet, EnsureClosed, EnterFunction, BeginCall,
       Enter, Relock, FunctionReturns, Call, hostTables, guestState
  <2>3. ASSUME NEW g \in Goroutines, Register(g)
        PROVE  FALSE
    BY <2>3 DEF Register
  <2>4. ASSUME NEW g \in Goroutines, GuestReturn(g)
        PROVE  guestDispatcher' = guestDispatcher /\ callbacks' = callbacks
    <3>1. depth[g] > 0
      BY <2>4 DEF GuestReturn, SetReturns, CallReturns, TaskReturns,
         CallFails, At
    <3>2. Top(g).at # "set"
      BY <3>1, TopFacts DEF IInv, Unregistered
    <3>3. Effect(Top(g)) \/ UNCHANGED guestState
      BY <2>4 DEF GuestReturn, SetReturns, CallReturns, TaskReturns, CallFails
    <3>4. callbacks' = callbacks
      BY <2>4 DEF GuestReturn, SetReturns, CallReturns, TaskReturns,
         CallFails, hostTables
    <3>5. QED
      BY <3>2, <3>3, <3>4 DEF Effect, guestState
  <2>5. QED
    BY <2>1, <2>2, <2>3, <2>4 DEF Next, HostStep
<1>2. QED
  BY <1>1, SpecInv, PTL DEF Spec, OneDispatcher

(* The id of a function is never given to another one: the place that      *)
(* NewFunction fills was empty.                                            *)
THEOREM FunctionsStay == Spec => FunctionsPermanent
<1> DEFINE Same == \A id \in FuncIDs : funcs[id] # 0 => funcs'[id] = funcs[id]
<1>1. IInv /\ [Next]_vars => [Same]_vars
  <2> SUFFICES ASSUME IInv, Next PROVE Same
    OBVIOUS
  <2>1. CASE MarkClosed
    BY <2>1 DEF MarkClosed, hostTables
  <2>2. ASSUME NEW g \in Goroutines,
               \/ Bind(g) \/ Eval(g) \/ HostStep(g) \/ GuestReturn(g)
               \/ FunctionReturns(g)
               \/ \E id \in FuncIDs : Call(g, id)
        PROVE  Same
    <3>1. CASE EnterFunction(g)
      <4>1. nextFuncID + 1 \in FuncIDs /\ funcs[nextFuncID + 1] = 0
        BY <3>1, EnterFunctionStep
      <4>2. funcs' = [funcs EXCEPT ![nextFuncID + 1] = Top(g).fn]
        BY <3>1 DEF EnterFunction
      <4>3. QED
        BY <4>1, <4>2 DEF IInv, TypeOK
    <3>2. CASE ~EnterFunction(g)
      <4>1. funcs' = funcs
        BY <2>2, <3>2 DEF HostStep, GuestReturn, Bind, Eval, EnsureSet,
           EnsureClosed, Register, BeginCall, Enter, Relock, SetReturns,
           CallReturns, TaskReturns, CallFails, FunctionReturns, Call,
           hostTables
      <4>2. QED
        BY <4>1
    <3>3. QED
      BY <3>1, <3>2
  <2>3. QED
    BY <2>1, <2>2 DEF Next
<1>2. QED
  BY <1>1, SpecInv, PTL DEF Spec, FunctionsPermanent


-----------------------------------------------------------------------------
(***************************************************************************)
(* The two mutexes never leave everybody waiting.                          *)
(***************************************************************************)

(* Module.mu is held by the goroutine whose innermost task is in the guest *)
(* and by nobody else.                                                     *)
InGuest(g) == depth[g] > 0 /\ Top(g).phase = "guest"

GuestLock == \A g \in Goroutines : mu = g <=> InGuest(g)

(* A goroutine waits in its innermost task only: below it are Go functions *)
(* that Python code called, and these hold no lock.                        *)
PhaseOK(t) ==
  /\ t.at = "eval" => t.phase # "none"
  /\ t.phase \in {"handler", "relock"} => t.at = "eval"

Waits ==
  \A g \in Goroutines, d \in Depths :
    /\ PhaseOK(frame[g][d])
    /\ d <= depth[g] => frame[g][d].at # "none"
    /\ d < depth[g] => frame[g][d].phase = "handler"

LocksInv == IInv /\ GuestLock /\ Waits

(* The guards of the steps of g that neither Bind nor Eval begins: what a  *)
(* goroutine with an open task is about to do, and the mutex it needs for  *)
(* it.                                                                     *)
CanGoOn(g) ==
  /\ depth[g] > 0
  /\ \/ At(g, "ensure", "none") /\ dispMu = NoOne
     \/ At(g, "table", "none")
     \/ Top(g).phase = "begin"
     \/ Top(g).phase = "wait" /\ mu = NoOne
     \/ At(g, "eval", "relock") /\ mu = NoOne
     \/ At(g, "eval", "handler")
     \/ Top(g).at \in GuestCalls /\ Top(g).phase = "guest"

(* How a step of g leaves Module.mu: held by g or not, and by nobody else  *)
(* who did not hold it before.                                             *)
Turn(g, holds) ==
  /\ mu' = g <=> holds
  /\ \A h \in Goroutines \ {g} : mu' = h <=> mu = h

LEMMA TopOf ==
  ASSUME NEW g \in Goroutines
  PROVE  /\ InGuest(g) <=> depth[g] > 0 /\ frame[g][depth[g]].phase = "guest"
         /\ InGuest(g)' <=>
              depth'[g] > 0 /\ frame'[g][depth'[g]].phase = "guest"
BY DEF InGuest, Top

(* A goroutine whose stack does not change holds what it held. *)
LEMMA OthersKeep ==
  ASSUME GuestLock, NEW g \in Goroutines, NEW d \in Depths, OnlyTask(g, d),
         NEW h \in Goroutines \ {g}, depth'[h] = depth[h],
         TypeOK, mu' = h <=> mu = h
  PROVE  mu' = h <=> InGuest(h)'
<1>1. mu = h <=> InGuest(h)
  BY DEF GuestLock
<1>2. depth[h] \in Nat /\ (depth[h] > 0 => depth[h] \in Depths)
  BY LimitsAssumption DEF TypeOK, Depths
<1>3. depth[h] > 0 => frame'[h][depth[h]] = frame[h][depth[h]]
  BY <1>2 DEF OnlyTask
<1>4. QED
  BY <1>1, <1>3, TopOf

LEMMA MovedLocks ==
  ASSUME TypeOK, GuestLock, Waits, NEW g \in Goroutines, NEW t,
         Moved(g, t), PhaseOK(t), t.at # "none", Turn(g, t.phase = "guest")
  PROVE  GuestLock' /\ Waits'
<1>1. GuestLock'
  <2>1. mu' = g <=> InGuest(g)'
    BY TopOf, LimitsAssumption DEF Moved, Turn, Depths
  <2>2. ASSUME NEW h \in Goroutines \ {g}
        PROVE  mu' = h <=> InGuest(h)'
    BY OthersKeep DEF Moved, Turn
  <2>3. QED
    BY <2>1, <2>2 DEF GuestLock
<1>2. Waits'
  <2> SUFFICES ASSUME NEW h \in Goroutines, NEW d \in Depths
               PROVE  /\ PhaseOK(frame'[h][d])
                      /\ d <= depth'[h] => frame'[h][d].at # "none"
                      /\ d < depth'[h] => frame'[h][d].phase = "handler"
    BY DEF Waits, PhaseOK
  <2>1. CASE h = g /\ d = depth[g]
    BY <2>1, LimitsAssumption DEF Moved, Depths
  <2>2. CASE h # g \/ d # depth[g]
    BY <2>2 DEF Moved, OnlyTask, Waits
  <2>3. QED
    BY <2>1, <2>2
<1>3. QED
  BY <1>1, <1>2

LEMMA LeftLocks ==
  ASSUME TypeOK, GuestLock, Waits, NEW g \in Goroutines, Left(g),
         Turn(g, FALSE)
  PROVE  GuestLock' /\ Waits'
<1>0. /\ depth[g] \in Depths /\ depth[g] \in Nat /\ depth[g] > 0
      /\ depth'[g] = depth[g] - 1
  BY LimitsAssumption DEF Left, Depths
<1>1. GuestLock'
  <2>1. ~InGuest(g)'
    <3>1. CASE depth[g] = 1
      BY <1>0, <3>1, TopOf
    <3>2. CASE depth[g] > 1
      <4>1. depth[g] - 1 \in Depths /\ depth[g] - 1 # depth[g]
        BY <1>0, <3>2, LimitsAssumption DEF Depths
      <4>2. frame'[g][depth[g] - 1] = frame[g][depth[g] - 1]
        BY <4>1 DEF Left, OnlyTask
      <4>3. frame[g][depth[g] - 1].phase = "handler"
        BY <1>0, <4>1 DEF Waits
      <4>4. QED
        BY <1>0, <4>2, <4>3, TopOf
    <3>3. QED
      BY <1>0, <3>1, <3>2
  <2>2. ASSUME NEW h \in Goroutines \ {g}
        PROVE  mu' = h <=> InGuest(h)'
    BY OthersKeep DEF Left, Turn
  <2>3. QED
    BY <2>1, <2>2 DEF GuestLock, Turn
<1>2. Waits'
  <2> SUFFICES ASSUME NEW h \in Goroutines, NEW d \in Depths
               PROVE  /\ PhaseOK(frame'[h][d])
                      /\ d <= depth'[h] => frame'[h][d].at # "none"
                      /\ d < depth'[h] => frame'[h][d].phase = "handler"
    BY DEF Waits, PhaseOK
  <2>1. CASE h = g /\ d = depth[g]
    <3>1. PhaseOK(NoTask)
      BY DEF PhaseOK, NoTask
    <3>2. QED
      BY <1>0, <2>1, <3>1 DEF Left
  <2>2. CASE h = g /\ d # depth[g]
    <3>1. frame'[h][d] = frame[h][d] /\ d \in Nat
      BY <2>2, LimitsAssumption DEF Left, OnlyTask, Depths
    <3>2. QED
      BY <1>0, <2>2, <3>1 DEF Waits
  <2>3. CASE h # g
    BY <2>3 DEF Left, OnlyTask, Waits
  <2>4. QED
    BY <2>1, <2>2, <2>3
<1>3. QED
  BY <1>1, <1>2

LEMMA OpenedLocks ==
  ASSUME TypeOK, GuestLock, Waits, NEW g \in Goroutines, NEW t,
         InHostCode(g), Opened(g, t), PhaseOK(t), t.at # "none",
         t.phase # "guest", mu' = mu
  PROVE  GuestLock' /\ Waits'
<1>0. /\ depth[g] \in Nat /\ depth'[g] = depth[g] + 1
      /\ depth[g] + 1 \in Depths
  BY LimitsAssumption DEF Opened, Depths, TypeOK
<1>1. GuestLock'
  <2>1. ~InGuest(g)
    BY DEF InHostCode, At, InGuest
  <2>2. ~InGuest(g)'
    BY <1>0, TopOf DEF Opened
  <2>3. ASSUME NEW h \in Goroutines \ {g}
        PROVE  mu' = h <=> InGuest(h)'
    BY <1>0, OthersKeep DEF Opened
  <2>4. QED
    BY <2>1, <2>2, <2>3 DEF GuestLock
<1>2. Waits'
  <2> SUFFICES ASSUME NEW h \in Goroutines, NEW d \in Depths
               PROVE  /\ PhaseOK(frame'[h][d])
                      /\ d <= depth'[h] => frame'[h][d].at # "none"
                      /\ d < depth'[h] => frame'[h][d].phase = "handler"
    BY DEF Waits, PhaseOK
  <2>1. CASE h = g /\ d = depth[g] + 1
    BY <1>0, <2>1 DEF Opened
  <2>2. CASE h = g /\ d # depth[g] + 1
    <3>1. frame'[h][d] = frame[h][d] /\ d \in Nat /\ d > 0
      BY <2>2, LimitsAssumption DEF Opened, OnlyTask, Depths
    <3>2. d = depth[g] => frame[h][d].phase = "handler"
      BY <2>2, <3>1 DEF InHostCode, At, Top
    <3>3. QED
      BY <1>0, <2>2, <3>1, <3>2 DEF Waits
  <2>3. CASE h # g
    BY <2>3 DEF Opened, OnlyTask, Waits
  <2>4. QED
    BY <2>1, <2>2, <2>3
<1>3. QED
  BY <1>1, <1>2

(* Every step of g in its innermost task, by what becomes of the mutex. *)
LEMMA MutexTurns ==
  ASSUME TypeOK, GuestLock, NEW g \in Goroutines
  PROVE  /\ EnsureSet(g) \/ EnsureClosed(g) \/ Register(g)
              \/ EnterFunction(g) \/ BeginCall(g) \/ FunctionReturns(g)
              \/ GuestReturn(g) \/ (\E id \in FuncIDs : Call(g, id))
              => Turn(g, FALSE)
         /\ Enter(g) \/ Relock(g) => Turn(g, TRUE)
<1>1. ASSUME \/ EnsureSet(g) \/ EnsureClosed(g) \/ Register(g)
             \/ EnterFunction(g) \/ BeginCall(g) \/ FunctionReturns(g)
      PROVE  Turn(g, FALSE)
  <2>1. mu' = mu
    BY <1>1 DEF EnsureSet, EnsureClosed, Register, EnterFunction, BeginCall,
       FunctionReturns, locks
  <2>2. ~InGuest(g)
    BY <1>1 DEF EnsureSet, EnsureClosed, Register, EnterFunction, BeginCall,
       FunctionReturns, At, InGuest
  <2>3. QED
    BY <2>1, <2>2 DEF GuestLock, Turn
<1>2. ASSUME GuestReturn(g) \/ \E id \in FuncIDs : Call(g, id)
      PROVE  Turn(g, FALSE)
  <2>1. mu' = NoOne
    BY <1>2 DEF GuestReturn, SetReturns, CallReturns, TaskReturns, CallFails,
       Call
  <2>2. InGuest(g)
    BY <1>2 DEF GuestReturn, SetReturns, CallReturns, TaskReturns, CallFails,
       Call, At, InGuest
  <2>3. mu = g
    BY <2>2 DEF GuestLock
  <2>4. QED
    BY <2>1, <2>3, NobodyAssumption DEF Turn
<1>3. ASSUME Enter(g) \/ Relock(g)
      PROVE  Turn(g, TRUE)
  BY <1>3, NobodyAssumption DEF Enter, Relock, Turn
<1>4. QED
  BY <1>1, <1>2, <1>3


LEMMA LocksStep ==
  ASSUME LocksInv, NEW g \in Goroutines,
         \/ Bind(g) \/ Eval(g) \/ HostStep(g) \/ GuestReturn(g)
         \/ FunctionReturns(g)
         \/ \E id \in FuncIDs : Call(g, id)
  PROVE  GuestLock' /\ Waits'
<1>1. TypeOK /\ GuestLock /\ Waits
  BY DEF LocksInv, IInv
<1>2. depth[g] > 0 => PhaseOK(Top(g)) /\ Top(g).at # "none"
  <2> SUFFICES ASSUME depth[g] > 0 PROVE PhaseOK(Top(g)) /\ Top(g).at # "none"
    OBVIOUS
  <2>1. depth[g] \in Depths /\ Top(g) = frame[g][depth[g]]
    BY TopFacts DEF LocksInv
  <2>2. depth[g] <= depth[g]
    BY <1>1, LimitsAssumption DEF TypeOK
  <2>3. QED
    BY <1>1, <2>1, <2>2 DEF Waits
<1>3. CASE Bind(g)
  <2> DEFINE t == [at |-> "ensure", phase |-> "none", fn |-> binds + 1, id |-> 0]
  <2>1. Opened(g, t) /\ InHostCode(g) /\ mu' = mu
    BY <1>1, <1>3, Effects DEF Bind, locks
  <2>2. PhaseOK(t) /\ t.at # "none" /\ t.phase # "guest"
    BY DEF PhaseOK
  <2> HIDE DEF t
  <2>3. QED
    BY <1>1, <2>1, <2>2, OpenedLocks
<1>4. CASE Eval(g)
  <2> DEFINE t == [at |-> "eval", phase |-> "begin", fn |-> 0, id |-> 0]
  <2>1. Opened(g, t) /\ InHostCode(g) /\ mu' = mu
    BY <1>1, <1>4, Effects DEF Eval, locks
  <2>2. PhaseOK(t) /\ t.at # "none" /\ t.phase # "guest"
    BY DEF PhaseOK
  <2> HIDE DEF t
  <2>3. QED
    BY <1>1, <2>1, <2>2, OpenedLocks
<1>5. CASE EnsureClosed(g) \/ TaskReturns(g) \/ CallFails(g)
  <2>1. Left(g) /\ Turn(g, FALSE)
    BY <1>1, <1>5, Effects, MutexTurns DEF GuestReturn
  <2>2. QED
    BY <1>1, <2>1, LeftLocks
<1>6. CASE EnsureSet(g)
  <2> DEFINE t == [at |-> "table", phase |-> "none",
                   fn |-> Top(g).fn, id |-> Top(g).id]
  <2>1. Moved(g, t) /\ Turn(g, t.phase = "guest")
    BY <1>1, <1>6, Effects, MutexTurns
  <2>2. PhaseOK(t) /\ t.at # "none"
    BY DEF PhaseOK
  <2> HIDE DEF t
  <2>3. QED
    BY <1>1, <2>1, <2>2, MovedLocks
<1>7. CASE Register(g)
  <2> DEFINE t == [at |-> "set", phase |-> "wait",
                   fn |-> Top(g).fn, id |-> nextCBID + 1]
  <2>1. Moved(g, t) /\ Turn(g, t.phase = "guest")
    BY <1>1, <1>7, Effects, MutexTurns
  <2>2. PhaseOK(t) /\ t.at # "none"
    BY DEF PhaseOK
  <2> HIDE DEF t
  <2>3. QED
    BY <1>1, <2>1, <2>2, MovedLocks
<1>8. CASE EnterFunction(g)
  <2> DEFINE t == [at |-> "new", phase |-> "begin",
                   fn |-> Top(g).fn, id |-> nextFuncID + 1]
  <2>1. Moved(g, t) /\ Turn(g, t.phase = "guest")
    BY <1>1, <1>8, Effects, MutexTurns
  <2>2. PhaseOK(t) /\ t.at # "none"
    BY DEF PhaseOK
  <2> HIDE DEF t
  <2>3. QED
    BY <1>1, <2>1, <2>2, MovedLocks
<1>9. CASE BeginCall(g)
  <2> DEFINE t == [at |-> Top(g).at, phase |-> "wait",
                   fn |-> Top(g).fn, id |-> Top(g).id]
  <2>1. (Left(g) \/ Moved(g, t)) /\ Turn(g, FALSE)
    BY <1>1, <1>9, Effects, MutexTurns
  <2>2. PhaseOK(t) /\ t.at # "none" /\ (t.phase = "guest") = FALSE
    BY <1>2, <1>9 DEF PhaseOK, BeginCall
  <2> HIDE DEF t
  <2>3. QED
    BY <1>1, <2>1, <2>2, MovedLocks, LeftLocks
<1>10. CASE Enter(g) \/ Relock(g)
  <2> DEFINE t == [at |-> Top(g).at, phase |-> "guest",
                   fn |-> Top(g).fn, id |-> Top(g).id]
  <2>1. Moved(g, t) /\ Turn(g, TRUE)
    BY <1>1, <1>10, Effects, MutexTurns
  <2>2. PhaseOK(t) /\ t.at # "none" /\ (t.phase = "guest") = TRUE
    BY <1>2, <1>10 DEF PhaseOK, Enter, Relock, At
  <2> HIDE DEF t
  <2>3. QED
    BY <1>1, <2>1, <2>2, MovedLocks
<1>11. CASE SetReturns(g)
  <2> DEFINE t == [at |-> "table", phase |-> "none",
                   fn |-> Top(g).fn, id |-> 0]
  <2>1. Moved(g, t) /\ Turn(g, t.phase = "guest")
    BY <1>1, <1>11, Effects, MutexTurns DEF GuestReturn
  <2>2. PhaseOK(t) /\ t.at # "none"
    BY DEF PhaseOK
  <2> HIDE DEF t
  <2>3. QED
    BY <1>1, <2>1, <2>2, MovedLocks
<1>12. CASE CallReturns(g)
  <2> DEFINE t == [at |-> Following(Top(g).at), phase |-> "begin",
                   fn |-> Top(g).fn, id |-> Top(g).id]
  <2>1. Moved(g, t) /\ Turn(g, t.phase = "guest")
    BY <1>1, <1>12, Effects, MutexTurns DEF GuestReturn
  <2>2. PhaseOK(t) /\ t.at # "none"
    BY DEF PhaseOK, Following
  <2> HIDE DEF t
  <2>3. QED
    BY <1>1, <2>1, <2>2, MovedLocks
<1>13. ASSUME NEW id \in FuncIDs, Call(g, id)
       PROVE  GuestLock' /\ Waits'
  <2> DEFINE t == [at |-> Top(g).at, phase |-> "handler",
                   fn |-> funcs[id], id |-> id]
  <2>1. Moved(g, t) /\ Turn(g, t.phase = "guest")
    BY <1>1, <1>13, Effects, MutexTurns
  <2>2. PhaseOK(t) /\ t.at # "none"
    BY <1>13 DEF PhaseOK, Call, At
  <2> HIDE DEF t
  <2>3. QED
    BY <1>1, <2>1, <2>2, MovedLocks
<1>14. CASE FunctionReturns(g)
  <2> DEFINE t == [at |-> Top(g).at, phase |-> "relock", fn |-> 0, id |-> 0]
  <2>1. Moved(g, t) /\ Turn(g, t.phase = "guest")
    BY <1>1, <1>14, Effects, MutexTurns
  <2>2. PhaseOK(t) /\ t.at # "none"
    BY <1>14 DEF PhaseOK, FunctionReturns, At
  <2> HIDE DEF t
  <2>3. QED
    BY <1>1, <2>1, <2>2, MovedLocks
<1>15. QED
  BY <1>3, <1>4, <1>5, <1>6, <1>7, <1>8, <1>9, <1>10, <1>11, <1>12, <1>13,
     <1>14
  DEF HostStep, GuestReturn

LEMMA LocksAlways == Spec => []LocksInv
<1>1. Init => GuestLock /\ Waits
  BY NobodyAssumption
  DEF Init, GuestLock, Waits, InGuest, PhaseOK, NoTask, Depths
<1>2. LocksInv /\ [Next]_vars => GuestLock' /\ Waits'
  <2> SUFFICES ASSUME LocksInv, [Next]_vars PROVE GuestLock' /\ Waits'
    OBVIOUS
  <2>1. CASE MarkClosed \/ UNCHANGED vars
    <3>1. mu' = mu /\ depth' = depth /\ frame' = frame
      BY <2>1 DEF MarkClosed, vars, locks
    <3>2. QED
      BY <3>1 DEF LocksInv, GuestLock, Waits, InGuest, PhaseOK, Top
  <2>2. QED
    BY <2>1, LocksStep DEF Next
<1>3. LocksInv /\ [Next]_vars => LocksInv'
  BY <1>2, NextInv DEF LocksInv
<1>4. Init => LocksInv
  BY <1>1, InitInv DEF LocksInv
<1>5. QED
  BY <1>3, <1>4, PTL DEF Spec

(* One goroutine at a time is in the guest, and it is the one that holds   *)
(* Module.mu: the mutex is given back around every Go function and after   *)
(* every call, also one that failed.                                       *)
THEOREM OneInGuest == Spec => []GuestLock
<1>1. LocksInv => GuestLock
  BY DEF LocksInv
<1>2. QED
  BY <1>1, LocksAlways, PTL

(* There is no lock cycle between dispMu and Module.mu: while a task is    *)
(* open one that is open can go on.  The holder of Module.mu is in the     *)
(* guest and needs no mutex to leave it; and when Module.mu is free the    *)
(* holder of dispMu is in no Go function but about to take Module.mu.      *)
THEOREM SomeoneGoesOn ==
  Spec => []((\E g \in Goroutines : depth[g] > 0) =>
               \E g \in Goroutines : CanGoOn(g))
<1>1. LocksInv => ((\E g \in Goroutines : depth[g] > 0) =>
                     \E g \in Goroutines : CanGoOn(g))
  <2> SUFFICES ASSUME LocksInv, NEW g \in Goroutines, depth[g] > 0
               PROVE  \E h \in Goroutines : CanGoOn(h)
    OBVIOUS
  <2>0. TypeOK /\ IInv /\ GuestLock /\ Waits /\ DispatcherLock /\ Nested
    BY DEF LocksInv, IInv
  <2>1. ASSUME NEW h \in Goroutines, depth[h] > 0
        PROVE  /\ depth[h] \in Depths /\ Top(h) = frame[h][depth[h]]
               /\ Top(h) \in Task /\ TaskOK(h, depth[h])
               /\ PhaseOK(Top(h)) /\ Top(h).at # "none"
    <3>1. /\ depth[h] \in Depths /\ Top(h) = frame[h][depth[h]]
          /\ Top(h) \in Task /\ TaskOK(h, depth[h])
      BY <2>0, <2>1, TopFacts
    <3>2. depth[h] <= depth[h]
      BY <2>0, LimitsAssumption DEF TypeOK
    <3>3. QED
      BY <2>0, <3>1, <3>2 DEF Waits
  <2>2. CASE mu # NoOne
    <3>1. mu \in Goroutines
      BY <2>0, <2>2 DEF TypeOK
    <3>2. PICK h \in Goroutines : h = mu
      BY <3>1
    <3>3. depth[h] > 0 /\ Top(h).phase = "guest"
      BY <2>0, <3>2 DEF GuestLock, InGuest
    <3>4. Top(h).at \in GuestCalls
      BY <2>1, <3>3 DEF TaskOK, Task
    <3>5. QED
      BY <3>3, <3>4 DEF CanGoOn
  <2>3. CASE mu = NoOne /\ dispMu # NoOne
    <3>1. PICK h \in Goroutines : h = dispMu
      BY <2>0, <2>3 DEF TypeOK
    <3>2. PICK d \in Depths : frame[h][d].at = "set"
      BY <2>0, <3>1 DEF DispatcherLock
    <3>3. d = depth[h] /\ depth[h] > 0
      <4>1. d \in Nat /\ d > 0 /\ depth[h] \in Nat
        BY <2>0, LimitsAssumption DEF TypeOK, Depths
      <4>2. ~(d < depth[h]) /\ ~(d > depth[h])
        BY <2>0, <3>2 DEF Nested, NoTask
      <4>3. QED
        BY <4>1, <4>2
    <3>4. Top(h).phase \in {"wait", "guest"} /\ Top(h).at = "set"
      BY <2>1, <3>2, <3>3 DEF TaskOK
    <3>5. QED
      BY <2>3, <3>3, <3>4 DEF CanGoOn, GuestCalls
  <2>4. CASE mu = NoOne /\ dispMu = NoOne
    <3>1. /\ Top(g).at \in GuestCalls \cup {"ensure", "table"}
          /\ Top(g).phase \in Phases
          /\ TaskOK(g, depth[g]) /\ Top(g) = frame[g][depth[g]]
          /\ PhaseOK(Top(g))
      BY <2>1, TaskFields
    <3>2. Top(g).at \in {"ensure", "table"} => Top(g).phase = "none"
      BY <3>1 DEF TaskOK
    <3>3. Top(g).at \in GuestCalls \ {"eval"} => Top(g).phase \in InCall
      BY <3>1 DEF TaskOK, GuestCalls, InCall
    <3>4. Top(g).at = "eval" =>
            Top(g).phase \in InCall \cup {"handler", "relock"}
      BY <3>1 DEF PhaseOK, Phases, InCall
    <3>5. CanGoOn(g)
      BY <2>4, <3>1, <3>2, <3>3, <3>4 DEF CanGoOn, At, InCall, GuestCalls
    <3>6. QED
      BY <3>5
  <2>5. QED
    BY <2>2, <2>3, <2>4
<1>2. QED
  BY <1>1, LocksAlways, PTL
=============================================================================
