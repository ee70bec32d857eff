------------------------------ MODULE Dispatch ------------------------------
(***************************************************************************)
(* Go functions callable from Python (src/bridge.go,                       *)
(* src/internal/dispatch.go): goroutines that make functions and bind them *)
(* to names while others run the Python code that calls them.              *)
(*                                                                         *)
(* Bind is a sequence of steps on both sides: register this instance's     *)
(* dispatcher with the guest, once (EnsureDispatcher, under dispMu); enter *)
(* the function in the table under a new id; have the guest make a         *)
(* function object that carries the id; set it as an attribute of          *)
(* __main__.  Each guest call can fail, and then the rest is not done.     *)
(*                                                                         *)
(* A Go function may itself make functions or run code, so a goroutine has *)
(* a stack of such tasks: frame[g][d] for d up to depth[g].  The Go         *)
(* functions are numbered in the order in which Bind was called with them. *)
(***************************************************************************)
EXTENDS Naturals

CONSTANTS
  Goroutines,  \* the goroutines that use the instance
  NoOne,       \* the owner of an unlocked mutex
  Failures,    \* TRUE: guest calls may fail
  MaxDepth,    \* bound: tasks a goroutine has open at once
  MaxBinds     \* bound: calls of Bind

ASSUME NobodyAssumption == NoOne \notin Goroutines
ASSUME FailuresAssumption == Failures \in BOOLEAN
ASSUME LimitsAssumption == MaxDepth \in Nat \ {0} /\ MaxBinds \in Nat

VARIABLES
  mu,             \* Module.mu
  dispMu,         \* Python.dispMu
  dispatcherSet,  \* Python.dispatcherSet
  closed,         \* Python.closed
  nextCBID,       \* Module.nextCBID
  callbacks,      \* the keys of Module.callbacks
  nextFuncID,     \* Python.nextFuncID
  funcs,          \* Python.funcs: funcs[id] is a Go function, or 0
  guestDispatcher,\* the callback id the guest calls back with, 0 for none
  made,           \* made[id]: the Go function for which the guest has made
                  \* a function object that carries id
  main,           \* the id carried by what the name in __main__ is bound to,
                  \* 0 when it is not
  binds,          \* calls of Bind so far
  depth,          \* depth[g]: tasks goroutine g has open
  frame           \* frame[g][d]: the d-th task of g

vars == <<mu, dispMu, dispatcherSet, closed, nextCBID, callbacks, nextFuncID,
          funcs, guestDispatcher, made, main, binds, depth, frame>>

locks == <<mu, dispMu>>
hostTables == <<dispatcherSet, nextCBID, callbacks, nextFuncID, funcs>>
guestState == <<guestDispatcher, made, main>>

(***************************************************************************)
(* What a task is about to do or is in the middle of: "ensure" at          *)
(* dispMu.Lock(); "table" at the function table; the guest calls "set"     *)
(* (py_set_go_dispatcher), "new" (py_new_function), "import" and "attr"    *)
(* (of Bind) and "eval", each with the phase it is in.                     *)
(***************************************************************************)
GuestCalls == {"set", "new", "import", "attr", "eval"}

Task == [at : {"none", "ensure", "table"} \cup GuestCalls,
         phase : {"none", "begin", "wait", "guest", "handler", "relock"},
         fn : Nat,
         id : Nat]

NoTask == [at |-> "none", phase |-> "none", fn |-> 0, id |-> 0]

Depths == 1 .. MaxDepth
FuncIDs == 1 .. MaxBinds
CallbackIDs == 1 .. MaxBinds

Init ==
  /\ mu = NoOne
  /\ dispMu = NoOne
  /\ dispatcherSet = FALSE
  /\ closed = FALSE
  /\ nextCBID = 0
  /\ callbacks = {}
  /\ nextFuncID = 0
  /\ funcs = [id \in FuncIDs |-> 0]
  /\ guestDispatcher = 0
  /\ made = [id \in FuncIDs |-> 0]
  /\ main = 0
  /\ binds = 0
  /\ depth = [g \in Goroutines |-> 0]
  /\ frame = [g \in Goroutines |-> [d \in Depths |-> NoTask]]

Top(g) == frame[g][depth[g]]

At(g, at, phase) == depth[g] > 0 /\ Top(g).at = at /\ Top(g).phase = phase

InHostCode(g) == depth[g] = 0 \/ At(g, "eval", "handler")

Push(g, task) ==
  /\ depth[g] < MaxDepth
  /\ depth' = [depth EXCEPT ![g] = @ + 1]
  /\ frame' = [frame EXCEPT ![g][depth[g] + 1] = task]

Become(g, task) ==
  /\ frame' = [frame EXCEPT ![g][depth[g]] = task]
  /\ UNCHANGED depth

Return(g) ==
  /\ frame' = [frame EXCEPT ![g][depth[g]] = NoTask]
  /\ depth' = [depth EXCEPT ![g] = @ - 1]

(***************************************************************************)
(* Making and binding a function.                                          *)
(***************************************************************************)

Bind(g) ==
  /\ InHostCode(g)
  /\ binds < MaxBinds
  /\ binds' = binds + 1
  /\ Push(g, [NoTask EXCEPT !.at = "ensure", !.fn = binds + 1])
  /\ UNCHANGED <<locks, closed, hostTables, guestState>>

Eval(g) ==
  /\ InHostCode(g)
  /\ Push(g, [NoTask EXCEPT !.at = "eval", !.phase = "begin"])
  /\ UNCHANGED <<binds, locks, closed, hostTables, guestState>>

(* The flag that Close sets; what it does in the guest is Invoke's.        *)
MarkClosed ==
  /\ ~closed
  /\ closed' = TRUE
  /\ UNCHANGED <<binds, locks, hostTables, guestState, depth, frame>>

(* Mutant: dispatcherSet is looked at without dispMu. *)
RegisterUnlocked(g) ==
  /\ At(g, "ensure", "none")
  /\ ~dispatcherSet
  /\ ~closed
  /\ dispMu' = g
  /\ nextCBID' = nextCBID + 1
  /\ callbacks' = callbacks \cup {nextCBID + 1}
  /\ Become(g, [Top(g) EXCEPT !.at = "set", !.phase = "wait",
                              !.id = nextCBID + 1])
  /\ UNCHANGED <<binds, mu, closed, dispatcherSet, nextFuncID, funcs,
                 guestState>>

(* Mutant: the callback id is the counter before it is counted up. *)
RegisterFromZero(g) ==
  /\ At(g, "ensure", "none")
  /\ dispMu = NoOne
  /\ ~dispatcherSet
  /\ ~closed
  /\ dispMu' = g
  /\ nextCBID' = nextCBID + 1
  /\ callbacks' = callbacks \cup {nextCBID}
  /\ Become(g, [Top(g) EXCEPT !.at = "set", !.phase = "wait", !.id = nextCBID])
  /\ UNCHANGED <<binds, mu, closed, dispatcherSet, nextFuncID, funcs,
                 guestState>>

(* EnsureDispatcher up to its guest call, which is made with dispMu held.  *)
(* A dispatcher that is set is good also on a closed instance.             *)
EnsureSet(g) ==
  /\ At(g, "ensure", "none")
  /\ dispMu = NoOne
  /\ dispatcherSet
  /\ Become(g, [Top(g) EXCEPT !.at = "table"])
  /\ UNCHANGED <<binds, locks, closed, hostTables, guestState>>

EnsureClosed(g) ==
  /\ At(g, "ensure", "none")
  /\ dispMu = NoOne
  /\ ~dispatcherSet
  /\ closed
  /\ Return(g)
  /\ UNCHANGED <<binds, locks, closed, hostTables, guestState>>

Register(g) ==
  /\ At(g, "ensure", "none")
  /\ dispMu = NoOne
  /\ ~dispatcherSet
  /\ ~closed
  /\ dispMu' = g
  /\ nextCBID' = nextCBID + 1
  /\ callbacks' = callbacks \cup {nextCBID + 1}
  /\ Become(g, [Top(g) EXCEPT !.at = "set", !.phase = "wait",
                              !.id = nextCBID + 1])
  /\ UNCHANGED <<binds, mu, closed, dispatcherSet, nextFuncID, funcs,
                 guestState>>

(* Mutant: the id is not counted up. *)
EnterSameId(g) ==
  /\ At(g, "table", "none")
  /\ funcs' = [funcs EXCEPT ![nextFuncID + 1] = Top(g).fn]
  /\ Become(g, [Top(g) EXCEPT !.at = "new", !.phase = "begin",
                              !.id = nextFuncID + 1])
  /\ UNCHANGED <<binds, locks, closed, dispatcherSet, nextCBID, callbacks,
                 nextFuncID, guestState>>

(* NewFunction enters the function before the guest hears of its id. *)
EnterFunction(g) ==
  /\ At(g, "table", "none")
  /\ nextFuncID' = nextFuncID + 1
  /\ funcs' = [funcs EXCEPT ![nextFuncID + 1] = Top(g).fn]
  /\ Become(g, [Top(g) EXCEPT !.at = "new", !.phase = "begin",
                              !.id = nextFuncID + 1])
  /\ UNCHANGED <<binds, locks, closed, dispatcherSet, nextCBID, callbacks,
                 guestState>>

(***************************************************************************)
(* Guest calls.                                                            *)
(***************************************************************************)

(* valueOp looks at closed, and then waits for the mutex. *)
BeginCall(g) ==
  /\ depth[g] > 0 /\ Top(g).phase = "begin"
  /\ IF closed THEN Return(g)
               ELSE Become(g, [Top(g) EXCEPT !.phase = "wait"])
  /\ UNCHANGED <<binds, locks, closed, hostTables, guestState>>

Enter(g) ==
  /\ depth[g] > 0 /\ Top(g).phase = "wait"
  /\ mu = NoOne
  /\ mu' = g
  /\ Become(g, [Top(g) EXCEPT !.phase = "guest"])
  /\ UNCHANGED <<binds, dispMu, closed, hostTables, guestState>>

(* What the guest does in a call, at the latest when it returns. *)
Effect(task) ==
  /\ guestDispatcher' = IF task.at = "set" THEN task.id ELSE guestDispatcher
  /\ made' = IF task.at = "new" THEN [made EXCEPT ![task.id] = task.fn]
                                ELSE made
  /\ main' = IF task.at = "attr" THEN task.id ELSE main

(* Bind's next guest call. *)
Following(at) == IF at = "new" THEN "import" ELSE "attr"

(* Mutant: the mutex is unlocked on success only. *)
KeepDispatcher(g) ==
  dispMu' = IF dispMu = g /\ dispatcherSet' THEN NoOne ELSE dispMu

(* EnsureDispatcher's deferred unlock. *)
ReleaseDispatcher(g) == dispMu' = IF dispMu = g THEN NoOne ELSE dispMu

SetReturns(g) ==
  /\ At(g, "set", "guest")
  /\ mu' = NoOne
  /\ dispatcherSet' = TRUE
  /\ ReleaseDispatcher(g)
  /\ Effect(Top(g))
  /\ Become(g, [Top(g) EXCEPT !.at = "table", !.phase = "none", !.id = 0])
  /\ UNCHANGED <<binds, closed, nextCBID, callbacks, nextFuncID, funcs>>

CallReturns(g) ==
  /\ At(g, "new", "guest") \/ At(g, "import", "guest")
  /\ mu' = NoOne
  /\ Effect(Top(g))
  /\ Become(g, [Top(g) EXCEPT !.at = Following(@), !.phase = "begin"])
  /\ UNCHANGED <<binds, dispMu, closed, hostTables>>

TaskReturns(g) ==
  /\ At(g, "attr", "guest") \/ At(g, "eval", "guest")
  /\ mu' = NoOne
  /\ Effect(Top(g))
  /\ Return(g)
  /\ UNCHANGED <<binds, dispMu, closed, hostTables>>

(* A trap or an exception, before or after the guest did what it was       *)
(* called for.  The rest of the task is not done and nothing is undone.    *)
CallFails(g) ==
  /\ Failures
  /\ depth[g] > 0 /\ Top(g).phase = "guest"
  /\ mu' = NoOne
  /\ UNCHANGED <<binds, closed, hostTables>>
  /\ ReleaseDispatcher(g)
  /\ Effect(Top(g)) \/ UNCHANGED guestState
  /\ Return(g)

(***************************************************************************)
(* Python code calls a function object that carries id: handleCallback     *)
(* finds the dispatcher, HandleCallback and handleUserCallback the         *)
(* function.  (What is not found is answered at once and the guest goes    *)
(* on: no step.)                                                           *)
(***************************************************************************)
Routed(id) == guestDispatcher \in callbacks /\ funcs[id] # 0

(* Mutant: the mutex is kept while the Go function runs. *)
CallKeepsLock(g, id) ==
  /\ At(g, "eval", "guest")
  /\ made[id] # 0
  /\ Routed(id)
  /\ Become(g, [Top(g) EXCEPT !.phase = "handler", !.fn = funcs[id], !.id = id])
  /\ UNCHANGED <<binds, locks, closed, hostTables, guestState>>

Call(g, id) ==
  /\ At(g, "eval", "guest")
  /\ made[id] # 0
  /\ Routed(id)
  /\ mu' = NoOne
  /\ Become(g, [Top(g) EXCEPT !.phase = "handler", !.fn = funcs[id], !.id = id])
  /\ UNCHANGED <<binds, dispMu, closed, hostTables, guestState>>

(* The function returns, or panics and safeCall recovers. *)
FunctionReturns(g) ==
  /\ At(g, "eval", "handler")
  /\ Become(g, [Top(g) EXCEPT !.phase = "relock", !.fn = 0, !.id = 0])
  /\ UNCHANGED <<binds, locks, closed, hostTables, guestState>>

Relock(g) ==
  /\ At(g, "eval", "relock")
  /\ mu = NoOne
  /\ mu' = g
  /\ Become(g, [Top(g) EXCEPT !.phase = "guest"])
  /\ UNCHANGED <<binds, dispMu, closed, hostTables, guestState>>

HostStep(g) ==
  \/ EnsureSet(g) \/ EnsureClosed(g) \/ Register(g) \/ EnterFunction(g)
  \/ BeginCall(g) \/ Enter(g) \/ Relock(g)

GuestReturn(g) ==
  SetReturns(g) \/ CallReturns(g) \/ TaskReturns(g) \/ CallFails(g)

Next ==
  \/ MarkClosed
  \/ \E g \in Goroutines :
       \/ Bind(g) \/ Eval(g) \/ HostStep(g) \/ GuestReturn(g)
       \/ FunctionReturns(g)
       \/ \E id \in FuncIDs : Call(g, id)

Spec == Init /\ [][Next]_vars

-----------------------------------------------------------------------------
(* Types of the variables. *)
TypeOK ==
  /\ {mu, dispMu} \subseteq Goroutines \cup {NoOne}
  /\ dispatcherSet \in BOOLEAN /\ closed \in BOOLEAN
  /\ nextCBID \in 0 .. MaxBinds /\ callbacks \subseteq CallbackIDs
  /\ nextFuncID \in 0 .. MaxBinds
  /\ funcs \in [FuncIDs -> 0 .. MaxBinds]
  /\ guestDispatcher \in 0 .. MaxBinds
  /\ made \in [FuncIDs -> 0 .. MaxBinds]
  /\ main \in 0 .. MaxBinds
  /\ binds \in 0 .. MaxBinds
  /\ depth \in [Goroutines -> 0 .. MaxDepth]
  /\ frame \in [Goroutines -> [Depths -> Task]]

(* A call from Python reaches the Go function the object was made for:     *)
(* whenever the guest has a function object its id is in the table with    *)
(* that function, and the guest calls back with an id the host knows,      *)
(* whichever steps of whichever registrations failed; and what the name is *)
(* bound to is such an object.                                             *)
CallsReachFunction ==
  /\ \A id \in FuncIDs :
       made[id] # 0 => Routed(id) /\ funcs[id] = made[id]
  /\ main # 0 => made[main] # 0

(* "Runs once per instance" (comment on EnsureDispatcher): once a          *)
(* registration has succeeded the guest's dispatcher never changes and no  *)
(* other is registered.                                                    *)
OneDispatcher ==
  [][dispatcherSet => guestDispatcher' = guestDispatcher
                      /\ callbacks' = callbacks]_vars

(* "It stays callable for the instance's lifetime" (comment on             *)
(* NewFunction): the id of a function is never given to another one.       *)
FunctionsPermanent ==
  [][\A id \in FuncIDs : funcs[id] # 0 => funcs'[id] = funcs[id]]_vars

(* dispMu is held for the registration and for nothing else, also when the *)
(* registration fails.                                                     *)
DispatcherLock ==
  \A g \in Goroutines :
    dispMu = g <=> \E d \in Depths : frame[g][d].at = "set"

(* No lock cycle between dispMu, which EnsureDispatcher holds while it     *)
(* waits for Module.mu, and Module.mu, which a goroutine in guest code     *)
(* holds until it calls a Go function that may need dispMu: while a task   *)
(* is open one that is open can go on.                                     *)
NoDeadlock ==
  (\E g \in Goroutines : depth[g] > 0) =>
    \E g \in Goroutines :
      \/ ENABLED HostStep(g)
      \/ ENABLED GuestReturn(g)
      \/ ENABLED FunctionReturns(g)
=============================================================================
