------------------------------ MODULE Handles ------------------------------
(***************************************************************************)
(* Handles on Python objects (src/object.go, src/wire.go) and their release *)
(* (src/internal/instance.go:165-203): the operations of module Invoke,     *)
(* with the objects that they mention.                                     *)
(*                                                                         *)
(* An object crosses to Go as a node that carries its id in the guest's    *)
(* registry, where it is pinned once for every node.  Decoding the node    *)
(* makes a wrapper (objectHandle).  When the Go collector finds a wrapper  *)
(* unreachable its finalizer appends the id to pendingRel, and the next    *)
(* operation takes the queue and has the guest release one pin per id.     *)
(*                                                                         *)
(* A handle is one pin's life from its node to its release.  Invoke's      *)
(* queued is "pendingRel is not empty".                                    *)
(***************************************************************************)
EXTENDS Invoke, FiniteSets

CONSTANTS
  Handles,     \* the handles there can be at once; a released one is reused
  Objects,     \* the Python objects that cross by handle
  NoObject,    \* the object of a handle not in use
  KeepsAlive,  \* TRUE: the program keeps a wrapper reachable while the guest
               \* has yet to look up the id that was read from it
  Traps        \* TRUE: guest calls may trap

ASSUME ObjectsAssumption == NoObject \notin Objects /\ IsFiniteSet(Handles)
ASSUME HandleSwitches == KeepsAlive \in BOOLEAN /\ Traps \in BOOLEAN

VARIABLES
  pins,        \* pins[o]: how often the guest's registry has o pinned
  obj,         \* obj[h]: the object of handle h, or NoObject
  wrapped,     \* handles whose wrapper the program can reach
  garbage,     \* handles whose wrapper is unreachable, not finalized yet
  pendingRel,  \* Python.pendingRel
  lost,        \* handles whose pin nobody will release
  work         \* work[g][d]: the handles the d-th operation of g is moving

hvars == <<pins, obj, wrapped, garbage, pendingRel, lost, work>>

handleVars == <<mu, sp, closed, finalized, queued, depth, frame,
                pins, obj, wrapped, garbage, pendingRel, lost, work>>

(* uses: objects whose ids are in the request, or in the answer of the Go  *)
(* function, and not looked up yet.  missing: one of them was not pinned   *)
(* when the guest looked it up.  nodes: pinned for a response or for the   *)
(* arguments of a Go function, and not decoded yet.  taken: removed from   *)
(* pendingRel and not released yet.                                        *)
Work == [uses : SUBSET Objects, missing : BOOLEAN,
         nodes : SUBSET Handles, taken : SUBSET Handles]

NoWork == [uses |-> {}, missing |-> FALSE, nodes |-> {}, taken |-> {}]

HInit ==
  /\ Init
  /\ pins = [o \in Objects |-> 0]
  /\ obj = [h \in Handles |-> NoObject]
  /\ wrapped = {}
  /\ garbage = {}
  /\ pendingRel = {}
  /\ lost = {}
  /\ work = [g \in Goroutines |-> [d \in Depths |-> NoWork]]

Job(g) == work[g][depth[g]]

(* Mutant: encodeHandle does not ask whether there is a handle. *)
KnownOrNone == {obj[h] : h \in Handles}

(* What the program can name: it has a wrapper of it. *)
Known == {obj[h] : h \in wrapped}

AwaitsLookup(o) ==
  \E g \in Goroutines : \E d \in Depths : o \in work[g][d].uses

(***************************************************************************)
(* The Go collector and the finalizers, on goroutines of their own.        *)
(***************************************************************************)

(* The last reference to a wrapper goes away. *)
Drop(h) ==
  /\ h \in wrapped
  /\ KeepsAlive /\ AwaitsLookup(obj[h]) =>
       \E other \in wrapped \ {h} : obj[other] = obj[h]
  /\ wrapped' = wrapped \ {h}
  /\ garbage' = garbage \cup {h}
  /\ UNCHANGED <<vars, pins, obj, pendingRel, lost, work>>

(* Mutant: the finalizer leaves the wrapper to be finalized again. *)
FinalizeAgain(h) ==
  /\ h \in garbage
  /\ pendingRel' = pendingRel \cup {h}
  /\ QueueRelease \/ (queued /\ UNCHANGED vars)
  /\ UNCHANGED <<pins, obj, wrapped, garbage, lost, work>>

(* The finalizer of newObjectHandle: released flips, the id is queued. *)
Finalize(h) ==
  /\ h \in garbage
  /\ garbage' = garbage \ {h}
  /\ pendingRel' = pendingRel \cup {h}
  /\ QueueRelease \/ (queued /\ UNCHANGED vars)
  /\ UNCHANGED <<pins, obj, wrapped, lost, work>>

(***************************************************************************)
(* The operation's own goroutine.                                          *)
(***************************************************************************)

(* A method of object reads the ids of its receiver and of the values it   *)
(* is given into the request, and valueOp begins.  What a Go function was  *)
(* called with has been decoded by then.                                   *)
StartOp(g) ==
  /\ depth[g] > 0 => Job(g).nodes = {}
  /\ BeginOp(g)
  /\ \E ids \in SUBSET Known :
       work' = [work EXCEPT ![g][depth[g] + 1] = [NoWork EXCEPT !.uses = ids]]
  /\ UNCHANGED <<pins, obj, wrapped, garbage, pendingRel, lost>>

(* drainReleases takes the queue; on a closed instance it drops it. *)
TakeReleases(g) ==
  /\ Drain(g)
  /\ pendingRel' = {}
  /\ IF closed
     THEN lost' = lost \cup pendingRel /\ UNCHANGED work
     ELSE work' = [work EXCEPT ![g][depth[g]].taken = pendingRel]
          /\ UNCHANGED lost
  /\ UNCHANGED <<pins, obj, wrapped, garbage>>

(* Mutant: a node of an object that has a wrapper makes no other one, and  *)
(* its pin is forgotten.                                                   *)
DecodeShared(g) ==
  /\ At(g, "handler") \/ At(g, "disarm")
  /\ Job(g).nodes # {}
  /\ LET seen == {h \in Job(g).nodes : obj[h] \in Known}
     IN  /\ wrapped' = wrapped \cup (Job(g).nodes \ seen)
         /\ obj' = [h \in Handles |-> IF h \in seen THEN NoObject ELSE obj[h]]
  /\ work' = [work EXCEPT ![g][depth[g]].nodes = {}]
  /\ UNCHANGED <<vars, pins, garbage, pendingRel, lost>>

(* Mutant: the response is decoded twice, once for its status, so that two *)
(* wrappers share a pin and one is garbage at once.                        *)
DecodeTwice(g) ==
  /\ At(g, "handler") \/ At(g, "disarm")
  /\ Job(g).nodes # {}
  /\ wrapped' = wrapped \cup Job(g).nodes
  /\ garbage' = garbage \cup Job(g).nodes
  /\ work' = [work EXCEPT ![g][depth[g]].nodes = {}]
  /\ UNCHANGED <<vars, pins, obj, pendingRel, lost>>

(* decodeNode for every node of the response, or of the Go function's      *)
(* arguments: each becomes a wrapper of its own, also of an object that    *)
(* has one already.                                                        *)
Decode(g) ==
  /\ At(g, "handler") \/ At(g, "disarm")
  /\ Job(g).nodes # {}
  /\ wrapped' = wrapped \cup Job(g).nodes
  /\ work' = [work EXCEPT ![g][depth[g]].nodes = {}]
  /\ UNCHANGED <<vars, pins, obj, garbage, pendingRel, lost>>

(* The Go function's answer: a value or an exception, by handle. *)
Answer(g) ==
  /\ HandlerReturn(g)
  /\ Job(g).nodes = {}
  /\ \E ids \in SUBSET Known :
       work' = [work EXCEPT ![g][depth[g]].uses = ids]
  /\ UNCHANGED <<pins, obj, wrapped, garbage, pendingRel, lost>>

Finish(g) ==
  /\ Disarm(g)
  /\ Job(g).nodes = {}
  /\ work' = [work EXCEPT ![g][depth[g]] = NoWork]
  /\ UNCHANGED <<pins, obj, wrapped, garbage, pendingRel, lost>>

(***************************************************************************)
(* The guest (python-wasm's bridge; not under src/).                       *)
(***************************************************************************)

(* The guest call starts, or goes on after a Go function: the guest looks  *)
(* up the ids it was given and from then on holds the objects itself.      *)
LookUp(g) ==
  /\ \/ Lock(g) /\ Top(g).call = "op"
     \/ Relock(g)
  /\ work' = [work EXCEPT ![g][depth[g]] =
       [@ EXCEPT !.uses = {},
                 !.missing = Job(g).missing
                               \/ \E o \in Job(g).uses : pins[o] = 0]]
  /\ UNCHANGED <<pins, obj, wrapped, garbage, pendingRel, lost>>

(* The guest encodes an object node: one pin more. *)
Pin(g, h, o) ==
  /\ At(g, "guest")
  /\ obj[h] = NoObject
  /\ pins' = [pins EXCEPT ![o] = @ + 1]
  /\ obj' = [obj EXCEPT ![h] = o]
  /\ work' = [work EXCEPT ![g][depth[g]].nodes = @ \cup {h}]
  /\ UNCHANGED <<vars, wrapped, garbage, pendingRel, lost>>

(* py_release takes one id of the batch; after py_close there is no pin to *)
(* take away.                                                              *)
Release(g, h) ==
  /\ At(g, "guest")
  /\ h \in Job(g).taken
  /\ pins' = [pins EXCEPT ![obj[h]] = IF @ = 0 THEN 0 ELSE @ - 1]
  /\ obj' = [obj EXCEPT ![h] = NoObject]
  /\ work' = [work EXCEPT ![g][depth[g]].taken = @ \ {h}]
  /\ UNCHANGED <<vars, wrapped, garbage, pendingRel, lost>>

(* The release call returns when the batch is done, or traps; what it did  *)
(* not get to is not queued again.                                         *)
EndDrain(g) ==
  /\ ReturnDrain(g)
  /\ Traps \/ Job(g).taken = {}
  /\ lost' = lost \cup Job(g).taken \cup Job(g).nodes
  /\ work' = [work EXCEPT ![g][depth[g]] =
                [@ EXCEPT !.taken = {}, !.nodes = {}]]
  /\ UNCHANGED <<pins, obj, wrapped, garbage, pendingRel>>

(* The operation's call returns the nodes it has encoded, or traps and     *)
(* nobody learns of them.                                                  *)
EndOp(g) ==
  /\ ReturnOp(g)
  /\ \/ UNCHANGED <<lost, work>>
     \/ /\ Traps
        /\ lost' = lost \cup Job(g).nodes
        /\ work' = [work EXCEPT ![g][depth[g]].nodes = {}]
  /\ UNCHANGED <<pins, obj, wrapped, garbage, pendingRel>>

(* py_close drops every pin. *)
EndClose(g) ==
  /\ ReturnClose(g)
  /\ pins' = [o \in Objects |-> 0]
  /\ lost' = lost \cup Job(g).nodes
  /\ work' = [work EXCEPT ![g][depth[g]] = NoWork]
  /\ UNCHANGED <<obj, wrapped, garbage, pendingRel>>

OtherStep(g) ==
  /\ \/ Arm(g) \/ BeginClose(g) \/ Callback(g)
     \/ Lock(g) /\ Top(g).call # "op"
  /\ UNCHANGED hvars

HNext ==
  \/ \E h \in Handles : Drop(h) \/ Finalize(h)
  \/ \E g \in Goroutines :
       \/ StartOp(g) \/ TakeReleases(g) \/ Decode(g) \/ Answer(g) \/ Finish(g)
       \/ LookUp(g) \/ EndDrain(g) \/ EndOp(g) \/ EndClose(g) \/ OtherStep(g)
       \/ \E h \in Handles : \/ Release(g, h)
                             \/ \E o \in Objects : Pin(g, h, o)

HSpec == HInit /\ [][HNext]_handleVars
-----------------------------------------------------------------------------
(* Types of the variables this module adds. *)
HTypeOK ==
  /\ pins \in [Objects -> Nat]
  /\ obj \in [Handles -> Objects \cup {NoObject}]
  /\ wrapped \subseteq Handles
  /\ garbage \subseteq Handles
  /\ pendingRel \subseteq Handles
  /\ lost \subseteq Handles
  /\ work \in [Goroutines -> [Depths -> Work]]

(* The guest's registry and the Go side agree on every object: it is       *)
(* pinned once for each node, wrapper, queued id and release under way,    *)
(* and for each pin that was lost.  No release is lost or made twice,      *)
(* however finalizers, drains of several goroutines and Close interleave.  *)
PinsBalance ==
  ~finalized =>
    \A o \in Objects : pins[o] = Cardinality({h \in Handles : obj[h] = o})

(* A handle in use is in exactly one place: a wrapper that can still be    *)
(* used is never queued, an id is queued once and released by one drain.   *)
Settled == <<wrapped, garbage, pendingRel, lost>>

Moving(g, d) == work[g][d].nodes \cup work[g][d].taken

OnePlace ==
  /\ \A h \in Handles :
       obj[h] # NoObject <=>
         \/ \E i \in 1 .. 4 : h \in Settled[i]
         \/ \E g \in Goroutines : \E d \in Depths : h \in Moving(g, d)
  /\ \A i, j \in 1 .. 4 : i # j => Settled[i] \cap Settled[j] = {}
  /\ \A g \in Goroutines : \A d \in Depths :
       /\ \A i \in 1 .. 4 : Settled[i] \cap Moving(g, d) = {}
       /\ work[g][d].nodes \cap work[g][d].taken = {}
       /\ \A h \in Goroutines : \A e \in Depths :
            <<h, e>> # <<g, d>> => Moving(g, d) \cap Moving(h, e) = {}

(* "Passing it back dereferences to THE SAME object" (src/bridge.go:9-11): *)
(* whatever id an operation or the answer of a Go function mentions, the   *)
(* object is still pinned when the guest looks it up, unless Close has     *)
(* finalized the runtime meanwhile.                                        *)
HandlesResolve ==
  \A g \in Goroutines : \A d \in Depths : work[g][d].missing => finalized
=============================================================================
