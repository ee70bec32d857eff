-------------------------------- MODULE Memory --------------------------------
(***************************************************************************)
(* The linear memory of one instance: the buffers that invoke and          *)
(* handleCallback pass to the guest (src/internal/python.go:644-680,       *)
(* 740-805) and the words of the interrupt, which watchdogs write at any   *)
(* moment (src/internal/instance.go:629-682).                              *)
(*                                                                         *)
(* The guest's allocator gives out a block or, when the memory is at its   *)
(* limit, address 0; it may grow the memory, which replaces the array that *)
(* holds it.  A Go slice of the memory that was taken before goes on       *)
(* showing the array that was left behind, so each is stamped with the     *)
(* size the memory had when it was taken.                                  *)
(***************************************************************************)
EXTENDS Interrupt, Integers

CONSTANTS
  PageBytes,       \* bytes of a wasm page; a block of the model takes a page
  InitialPages,    \* pages of a new memory
  MaxMemoryBytes,  \* InstanceOptions.MaxMemoryBytes
  Unlimited        \* bound: pages of a memory that has no limit of its own

ASSUME MemoryAssumption ==
  /\ PageBytes \in Nat \ {0} /\ InitialPages \in Nat \ {0}
  /\ MaxMemoryBytes \in Int
  /\ Unlimited \in Nat /\ Unlimited >= InitialPages

(* Mutant: the limit is rounded up to whole pages. *)
LimitRoundedUp ==
  IF MaxMemoryBytes > InitialPages * PageBytes
  THEN (MaxMemoryBytes + PageBytes - 1) \div PageBytes
  ELSE Unlimited

(* boot rounds the limit down to whole pages and ignores one below the     *)
(* initial memory.                                                         *)
Limit ==
  LET max == MaxMemoryBytes \div PageBytes
  IN  IF MaxMemoryBytes > 0 /\ max >= InitialPages THEN max ELSE Unlimited

VARIABLES
  pages,   \* the size of the memory
  heap,    \* heap[p]: what the block at p holds
  buffer,  \* buffer[g][d]: the addresses that an operation deals with
  moving   \* what a growing memory has copied to its new array so far

memVars == <<pages, heap, buffer, moving>>

everything == <<mu, sp, closed, finalized, queued, depth, frame, staged, bit,
                loaded, erased, intr, pages, heap, buffer, moving>>

None == -1  \* no buffer
Null == 0   \* the address that stands for "out of memory"

Blocks == 1 .. Limit

Addresses == Blocks \cup {None, Null}

(* req is the request in invoke; answer is what handleCallback has         *)
(* returned and the guest has not read; resp is the response that the      *)
(* guest leaves to invoke; mem is the size of the memory in the slice that *)
(* handleCallback took on entry.                                           *)
Buffers ==
  [req : Addresses, answer : Addresses, resp : Addresses, mem : 0 .. Limit]

NoBuffers == [req |-> None, answer |-> None, resp |-> None, mem |-> 0]

(* A block holds a buffer of some operation, or bytes that nobody wrote    *)
(* there, or the guest has lost it in a trap.                              *)
Content(g, what) == <<g, depth[g], what>>

Contents ==
  (Goroutines \X Depths \X {"req", "answer", "resp"})
    \cup {<<"free">>, <<"junk">>, <<"lost">>}

NotMoving == <<>>

MInit ==
  /\ IInit
  /\ pages = InitialPages
  /\ heap = [p \in Blocks \cup {Null} |-> <<"free">>]
  /\ buffer = [g \in Goroutines |-> [d \in Depths |-> NoBuffers]]
  /\ moving = NotMoving

Own(g) == buffer[g][depth[g]]

(***************************************************************************)
(* The memory (the wasm2go runtime and the guest's allocator; not under    *)
(* src/).                                                                  *)
(***************************************************************************)

FreeBlocks == {p \in 1 .. pages : heap[p] = <<"free">>}

(* The lowest block, which one makes no difference; else a new page.       *)
WasmAlloc ==
  CASE FreeBlocks # {} -> CHOOSE p \in FreeBlocks :
                            \A q \in FreeBlocks : p <= q
    [] FreeBlocks = {} /\ pages < Limit -> pages + 1
    [] OTHER -> Null

PagesFor(p) == IF p > pages THEN p ELSE pages

(* A copy through a slice of a memory of size mem, when the memory has     *)
(* size now: it does not reach an array that has replaced that one.        *)
Stored(mem, now, p, x) ==
  [heap EXCEPT ![p] = IF mem = now THEN x ELSE <<"junk">>]

Freed(ps) == [p \in DOMAIN heap |-> IF p \in ps \cap Blocks THEN <<"free">>
                                                           ELSE heap[p]]

(* memory.grow in two steps, under the lock that AccessMemory takes.  Its  *)
(* copy of the words of the interrupt is what counts here.                 *)
BeginGrow(g) ==
  /\ At(g, "guest")
  /\ Own(g).answer = None /\ Own(g).resp = None
  /\ moving = NotMoving
  /\ pages < Limit
  /\ moving' = <<staged, bit>>
  /\ UNCHANGED <<allVars, pages, heap, buffer>>

EndGrow(g) ==
  /\ At(g, "guest")
  /\ moving # NotMoving
  /\ staged' = moving[1]
  /\ bit' = moving[2]
  /\ moving' = NotMoving
  /\ pages' = pages + 1
  /\ UNCHANGED <<vars, loaded, erased, intr, heap, buffer>>

(***************************************************************************)
(* The host's writes to the words of the interrupt: AccessMemory.          *)
(***************************************************************************)

(* Mutant: fireInterrupt stores through a slice of its own. *)
FireWithoutLock(g, d) ==
  FireInterrupt(g, d) /\ UNCHANGED memVars

MFireInterrupt(g, d) ==
  moving = NotMoving /\ FireInterrupt(g, d) /\ UNCHANGED memVars

MArmInterrupt(g) ==
  /\ ArmInterrupt(g)
  /\ moving = NotMoving \/ Current(g).ctx = "background"
  /\ UNCHANGED memVars

MDisarmInterrupt(g) ==
  /\ DisarmInterrupt(g)
  /\ moving = NotMoving \/ Current(g).dog = "off"
  /\ UNCHANGED memVars

(***************************************************************************)
(* invoke and handleCallback.                                              *)
(***************************************************************************)

(* invoke has the mutex: allocate, then copy the request through a slice   *)
(* that is taken after that.                                               *)
MLock(g) ==
  /\ Lock(g) /\ UNCHANGED ivars
  /\ pages' = PagesFor(WasmAlloc)
  /\ heap' = Stored(pages', pages', WasmAlloc, Content(g, "req"))
  /\ buffer' = [buffer EXCEPT ![g][depth[g]].req = WasmAlloc]
  /\ UNCHANGED moving

(* handleCallback takes a slice and reads the arguments from it, then      *)
(* gives the mutex up.                                                     *)
MCallback(g) ==
  /\ Callback(g) /\ UNCHANGED ivars
  /\ moving = NotMoving
  /\ Own(g).answer = None /\ Own(g).resp = None
  /\ buffer' = [buffer EXCEPT ![g][depth[g]].mem = pages]
  /\ UNCHANGED <<pages, heap, moving>>

(* Mutant: the answer is copied through the slice that handleCallback took *)
(* before the handler ran.                                                 *)
AnswerThroughOldSlice(g) ==
  /\ Relock(g) /\ UNCHANGED ivars
  /\ pages' = PagesFor(WasmAlloc)
  /\ heap' = Stored(Own(g).mem, pages', WasmAlloc, Content(g, "answer"))
  /\ buffer' = [buffer EXCEPT ![g][depth[g]].answer = WasmAlloc]
  /\ UNCHANGED moving

(* The mutex is back.  An answer is encoded (encodeCallbackResult); an     *)
(* empty one takes no memory.                                              *)
AnswerNothing(g) ==
  Relock(g) /\ UNCHANGED ivars /\ UNCHANGED memVars

Answer(g) ==
  /\ Relock(g) /\ UNCHANGED ivars
  /\ pages' = PagesFor(WasmAlloc)
  /\ heap' = Stored(pages', pages', WasmAlloc, Content(g, "answer"))
  /\ buffer' = [buffer EXCEPT ![g][depth[g]].answer = WasmAlloc]
  /\ UNCHANGED moving

(* The guest reads the answer, before anything else, and frees it.         *)
ReadAnswer(g) ==
  /\ At(g, "guest")
  /\ Own(g).answer # None
  /\ heap' = Freed({Own(g).answer})
  /\ buffer' = [buffer EXCEPT ![g][depth[g]].answer = None]
  /\ UNCHANGED <<allVars, pages, moving>>

(* The guest leaves a response that is not empty, as the last thing.       *)
Respond(g) ==
  /\ At(g, "guest")
  /\ moving = NotMoving /\ loaded = "no"
  /\ Own(g).answer = None /\ Own(g).resp = None
  /\ WasmAlloc # Null
  /\ pages' = PagesFor(WasmAlloc)
  /\ heap' = Stored(pages', pages', WasmAlloc, Content(g, "resp"))
  /\ buffer' = [buffer EXCEPT ![g][depth[g]].resp = WasmAlloc]
  /\ UNCHANGED <<allVars, moving>>

(* Mutant: the request is freed only on the way out of a call that did not *)
(* trap.                                                                   *)
FreeUnlessTrap(g, trapped) ==
  heap' = IF trapped THEN heap ELSE Freed({Own(g).req, Own(g).resp})

(* The response is copied out and freed; the deferred WasmFree gives the   *)
(* request back also after a trap, whose answer from a handler the guest   *)
(* may not have read: that is lost to the guest.                           *)
FreeBuffers(g, trapped) ==
  heap' = [p \in DOMAIN heap |->
             CASE p \in {Own(g).req, Own(g).resp} \ {Null} -> <<"free">>
               [] p = Own(g).answer /\ p # Null            -> <<"lost">>
               [] OTHER                                    -> heap[p]]

Leave(g, trapped) ==
  /\ moving = NotMoving
  /\ Own(g).answer # None => trapped
  /\ trapped => Own(g).resp = None
  /\ FreeBuffers(g, trapped)
  /\ buffer' = [buffer EXCEPT ![g][depth[g]] = NoBuffers]
  /\ UNCHANGED <<pages, moving>>

MFinishOp(g) ==
  \E trapped \in BOOLEAN :
    /\ FinishOp(g)
    /\ Leave(g, trapped)
    /\ trapped => intr'[g][depth[g]].answer = "error"

MReturnOther(g) ==
  /\ ReturnDrain(g) \/ ReturnClose(g)
  /\ UNCHANGED ivars
  /\ \E trapped \in BOOLEAN : Leave(g, trapped)

(* Guest code that is in the middle of neither a growth nor an answer.     *)
MPoll(g) ==
  /\ Poll(g)
  /\ moving = NotMoving
  /\ Own(g).answer = None /\ Own(g).resp = None
  /\ UNCHANGED memVars

(* What leaves the memory alone. *)
HostStepAlone ==
  /\ \/ QueueRelease /\ UNCHANGED ivars
     \/ \E g \in Goroutines :
          \/ StartOp(g) \/ Quit(g)
          \/ (Drain(g) \/ BeginClose(g) \/ HandlerReturn(g)) /\ UNCHANGED ivars
          \/ \E d \in Depths : CancelContext(g, d)
  /\ UNCHANGED memVars

MNext ==
  \/ HostStepAlone
  \/ \E g \in Goroutines :
       \/ MArmInterrupt(g) \/ MDisarmInterrupt(g)
       \/ MLock(g) \/ MCallback(g) \/ AnswerNothing(g) \/ Answer(g)
       \/ ReadAnswer(g) \/ Respond(g) \/ MFinishOp(g) \/ MReturnOther(g)
       \/ MPoll(g) \/ BeginGrow(g) \/ EndGrow(g)
       \/ \E d \in Depths : MFireInterrupt(g, d)

MSpec == MInit /\ [][MNext]_everything
-----------------------------------------------------------------------------
(* Types of the variables this module and Interrupt add; a memory that has *)
(* a limit stays within it, to the byte.                                   *)
MTypeOK ==
  /\ ITypeOK
  /\ pages \in InitialPages .. Limit
  /\ MaxMemoryBytes >= InitialPages * PageBytes =>
       pages * PageBytes <= MaxMemoryBytes
  /\ heap \in [Blocks \cup {Null} -> Contents]
  /\ buffer \in [Goroutines -> [Depths -> Buffers]]
  /\ moving \in {NotMoving} \cup (BOOLEAN \X BOOLEAN)

(* A buffer holds what was written for the operation that deals with it,   *)
(* for as long as it does, though other operations run, the memory grows   *)
(* and guest calls trap while it is suspended; what went to address 0 for  *)
(* want of memory is not safe (src/internal/python.go:652-664, 740-744).   *)
BuffersIntact ==
  \A g \in Goroutines : \A d \in Depths :
    LET own == buffer[g][d]
    IN  /\ own.req \notin {None, Null} => heap[own.req] = <<g, d, "req">>
        /\ own.answer \notin {None, Null} =>
             heap[own.answer] = <<g, d, "answer">>
        /\ own.resp # None => heap[own.resp] = <<g, d, "resp">>

(* "Free reqPtr unconditionally on return so the request buffer never      *)
(* lingers in wasm memory when the call traps" (src/internal/              *)
(* python.go:657-659): a block that is in use belongs to an operation that *)
(* is in the guest, except what trapped guest code has left behind.        *)
NothingLeaked ==
  \A p \in Blocks :
    \/ heap[p] \in {<<"free">>, <<"lost">>}
    \/ \E g \in Goroutines : \E d \in Depths :
         /\ Entered(frame[g][d])
         /\ p \in {buffer[g][d].req, buffer[g][d].answer, buffer[g][d].resp}

(* "So the bit lands in the array the guest observes" (comment on          *)
(* fireInterrupt): no write of arm, fire or disarm is lost to a memory     *)
(* that is growing, whose new array has been filled already.               *)
WritesSurviveGrowth == moving # NotMoving => moving = <<staged, bit>>
=============================================================================
