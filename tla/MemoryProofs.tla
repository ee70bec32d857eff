----------------------------- MODULE MemoryProofs -----------------------------
(***************************************************************************)
(* Theorems about module Memory: the memory adds nothing to what module    *)
(* Interrupt allows, no write to the words of the interrupt is lost while  *)
(* it grows, and a buffer is neither overwritten nor leaked.               *)
(***************************************************************************)
EXTENDS Memory, InterruptProofs, WellFoundedInduction

Uses == {"req", "answer", "resp"}

(* Operation d of g deals with the block at p, and what for.               *)
Has(g, d, use, p) ==
  \/ use = "req" /\ buffer[g][d].req = p
  \/ use = "answer" /\ buffer[g][d].answer = p
  \/ use = "resp" /\ buffer[g][d].resp = p

(* A block that an operation deals with holds what it put there, and       *)
(* nobody else deals with a block that is in use.                          *)
Held ==
  \A g \in Goroutines, d \in Depths, use \in Uses, p \in Blocks :
    Has(g, d, use, p) => heap[p] = <<g, d, use>>

Owned ==
  \A p \in Blocks :
    \/ heap[p] \in {<<"free">>, <<"lost">>}
    \/ \E g \in Goroutines, d \in Depths, use \in Uses : Has(g, d, use, p)

(* What lies beyond the memory has not been given out. *)
Beyond == \A p \in Blocks : p > pages => heap[p] = <<"free">>

(* An operation outside the guest deals with no buffer; while it is in a   *)
(* Go function the guest has neither an answer nor a response.             *)
Empty ==
  \A g \in Goroutines, d \in Depths :
    /\ ~Entered(frame[g][d]) => buffer[g][d] = NoBuffers
    /\ frame[g][d].at \in {"handler", "relock"} =>
         buffer[g][d].answer = None /\ buffer[g][d].resp = None
    /\ buffer[g][d].resp # Null

(* Nobody but the guest code that grows the memory takes pages of it.      *)
Growing ==
  moving # NotMoving =>
    pages < Limit /\ \E g \in Goroutines : At(g, "guest")

MInv ==
  /\ IInv /\ MTypeOK /\ loaded = "no" /\ WritesSurviveGrowth
  /\ Held /\ Owned /\ Beyond /\ Empty /\ Growing

-----------------------------------------------------------------------------
(***************************************************************************)
(* The limit and the allocator.                                            *)
(***************************************************************************)
LEMMA Rounded ==
  ASSUME NEW m \in Int, NEW b \in Nat \ {0}
  PROVE  /\ m \div b \in Int /\ (m \div b) * b <= m
         /\ \A i \in Nat : i * b <= m => i <= m \div b
OBVIOUS

LEMMA LimitType == Limit \in Nat /\ InitialPages <= Limit
<1>1. MaxMemoryBytes \div PageBytes \in Int
  BY MemoryAssumption, Rounded
<1>2. QED
  BY <1>1, MemoryAssumption DEF Limit

(* A memory that has a limit stays within it to the byte.                  *)
LEMMA WithinLimit ==
  ASSUME NEW n \in Nat, n <= Limit, MaxMemoryBytes >= InitialPages * PageBytes
  PROVE  n * PageBytes <= MaxMemoryBytes
<1> DEFINE max == MaxMemoryBytes \div PageBytes
<1>1. max \in Int /\ max * PageBytes <= MaxMemoryBytes /\ InitialPages <= max
  BY MemoryAssumption, Rounded
<1>2. Limit = max
  <2>1. InitialPages * PageBytes > 0
    BY MemoryAssumption
  <2>2. QED
    BY <1>1, <2>1, MemoryAssumption DEF Limit
<1> HIDE DEF max
<1>3. n <= max
  BY <1>2
<1>4. n * PageBytes <= max * PageBytes
  BY <1>1, <1>3, MemoryAssumption
<1>5. max * PageBytes \in Int /\ n * PageBytes \in Int
  BY <1>1, MemoryAssumption
<1>6. QED
  BY <1>1, <1>4, <1>5, MemoryAssumption

(* A set of numbers that is not empty has a least element.                 *)
LEMMA Least ==
  ASSUME NEW S, S \subseteq Nat, S # {}
  PROVE  \E p \in S : \A q \in S : p <= q
<1> DEFINE R == OpToRel(<, Nat)
<1>1. IsWellFoundedOn(R, Nat)
  BY NatLessThanWellFounded
<1> HIDE DEF R
<1>2. PICK p \in S : \A q \in S : ~(<<q, p>> \in R)
  BY <1>1, WFMin
<1>3. \A q \in S : <<q, p>> \in R <=> q < p
  BY DEF R, OpToRel
<1>4. \A q \in S : ~(q < p)
  BY <1>2, <1>3
<1>5. \A q \in S : q \in Nat /\ p \in Nat
  OBVIOUS
<1>6. QED
  BY <1>4, <1>5

(* The allocator gives out a block that nobody has, or none; the memory    *)
(* only grows, and up to its limit.                                        *)
LEMMA Allocates ==
  ASSUME MTypeOK, Beyond
  PROVE  /\ WasmAlloc \in Blocks \cup {Null}
         /\ WasmAlloc \in Blocks => heap[WasmAlloc] = <<"free">>
         /\ PagesFor(WasmAlloc) \in InitialPages .. Limit
         /\ pages <= PagesFor(WasmAlloc)
         /\ WasmAlloc <= PagesFor(WasmAlloc)
<1>1. /\ pages \in InitialPages .. Limit /\ Limit \in Nat
      /\ InitialPages \in Nat \ {0}
  BY LimitType, MemoryAssumption DEF MTypeOK
<1>2. CASE FreeBlocks # {}
  <2>1. FreeBlocks \subseteq Nat
    BY DEF FreeBlocks
  <2>2. \E p \in FreeBlocks : \A q \in FreeBlocks : p <= q
    BY <1>2, <2>1, Least
  <2>3. WasmAlloc = CHOOSE p \in FreeBlocks : \A q \in FreeBlocks : p <= q
    BY <1>2 DEF WasmAlloc
  <2>4. WasmAlloc \in FreeBlocks
    BY <2>2, <2>3
  <2>5. QED
    BY <1>1, <2>4 DEF FreeBlocks, PagesFor, Blocks
<1>3. CASE FreeBlocks = {} /\ pages < Limit
  <2>1. WasmAlloc = pages + 1
    BY <1>3 DEF WasmAlloc
  <2>2. pages + 1 \in Blocks
    BY <1>1, <1>3 DEF Blocks
  <2>3. QED
    BY <1>1, <1>3, <2>1, <2>2 DEF PagesFor, Beyond
<1>4. CASE FreeBlocks = {} /\ ~(pages < Limit)
  <2>1. WasmAlloc = Null
    BY <1>4 DEF WasmAlloc
  <2>2. QED
    BY <1>1, <2>1 DEF PagesFor, Blocks, Null
<1>5. QED
  BY <1>2, <1>3, <1>4

-----------------------------------------------------------------------------
(***************************************************************************)
(* What a step does to the buffers and the blocks.                         *)
(***************************************************************************)
BufferType == buffer' \in [Goroutines -> [Depths -> Buffers]]

BufferOnly(g, d) ==
  \A h \in Goroutines, e \in Depths :
    h # g \/ e # d => buffer'[h][e] = buffer[h][e]

LEMMA NoBuffersType == NoBuffers \in Buffers
BY LimitType DEF NoBuffers, Buffers, Addresses

LEMMA SetBuffers ==
  ASSUME buffer \in [Goroutines -> [Depths -> Buffers]],
         NEW g \in Goroutines, NEW d \in Depths, NEW new \in Buffers,
         buffer' = [buffer EXCEPT ![g][d] = new]
  PROVE  BufferType /\ buffer'[g][d] = new /\ BufferOnly(g, d)
BY DEF BufferType, BufferOnly

LEMMA SetOne ==
  ASSUME buffer \in [Goroutines -> [Depths -> Buffers]],
         NEW g \in Goroutines, NEW d \in Depths
  PROVE  LET old == buffer[g][d]
             Set(new) == BufferType /\ buffer'[g][d] = new /\ BufferOnly(g, d)
         IN  /\ old \in Buffers
             /\ \A p \in Addresses :
                  /\ buffer' = [buffer EXCEPT ![g][d].req = p] =>
                       Set([old EXCEPT !.req = p])
                  /\ buffer' = [buffer EXCEPT ![g][d].answer = p] =>
                       Set([old EXCEPT !.answer = p])
                  /\ buffer' = [buffer EXCEPT ![g][d].resp = p] =>
                       Set([old EXCEPT !.resp = p])
             /\ \A n \in 0 .. Limit :
                  buffer' = [buffer EXCEPT ![g][d].mem = n] =>
                    Set([old EXCEPT !.mem = n])
<1> DEFINE old == buffer[g][d]
           Set(new) == BufferType /\ buffer'[g][d] = new /\ BufferOnly(g, d)
<1>1. old \in Buffers
  OBVIOUS
<1>2. ASSUME NEW p \in Addresses
      PROVE  /\ buffer' = [buffer EXCEPT ![g][d].req = p] =>
                  Set([old EXCEPT !.req = p])
             /\ buffer' = [buffer EXCEPT ![g][d].answer = p] =>
                  Set([old EXCEPT !.answer = p])
             /\ buffer' = [buffer EXCEPT ![g][d].resp = p] =>
                  Set([old EXCEPT !.resp = p])
  <2>1. /\ [old EXCEPT !.req = p] \in Buffers
        /\ [old EXCEPT !.answer = p] \in Buffers
        /\ [old EXCEPT !.resp = p] \in Buffers
    BY <1>1 DEF Buffers
  <2>2. ASSUME buffer' = [buffer EXCEPT ![g][d].req = p]
        PROVE  buffer' = [buffer EXCEPT ![g][d] = [old EXCEPT !.req = p]]
    BY <2>2
  <2>3. ASSUME buffer' = [buffer EXCEPT ![g][d].answer = p]
        PROVE  buffer' = [buffer EXCEPT ![g][d] = [old EXCEPT !.answer = p]]
    BY <2>3
  <2>4. ASSUME buffer' = [buffer EXCEPT ![g][d].resp = p]
        PROVE  buffer' = [buffer EXCEPT ![g][d] = [old EXCEPT !.resp = p]]
    BY <2>4
  <2>5. ASSUME NEW new \in Buffers, buffer' = [buffer EXCEPT ![g][d] = new]
        PROVE  Set(new)
    BY <2>5, SetBuffers
  <2> HIDE DEF Set
  <2>6. QED
    BY <2>1, <2>2, <2>3, <2>4, <2>5
<1>3. ASSUME NEW n \in 0 .. Limit,
             buffer' = [buffer EXCEPT ![g][d].mem = n]
      PROVE  Set([old EXCEPT !.mem = n])
  <2>1. [old EXCEPT !.mem = n] \in Buffers
    BY <1>1 DEF Buffers
  <2>2. buffer' = [buffer EXCEPT ![g][d] = [old EXCEPT !.mem = n]]
    BY <1>3
  <2>3. QED
    BY <2>1, <2>2, SetBuffers
<1>4. QED
  BY <1>1, <1>2, <1>3

(* A block is given to one use of one operation.                           *)
Given(g, d, use, new) ==
  /\ new \in Blocks => heap[new] = <<"free">> /\ heap'[new] = <<g, d, use>>
  /\ \A p \in Blocks \ {new} : heap'[p] = heap[p]
  /\ \A h \in Goroutines, e \in Depths, v \in Uses, p \in Blocks :
       Has(h, e, v, p)' <=>
         \/ Has(h, e, v, p)
         \/ h = g /\ e = d /\ v = use /\ p = new

LEMMA GiveOut ==
  ASSUME Held, Owned, NEW g \in Goroutines, NEW d \in Depths,
         NEW use \in Uses, NEW new, Given(g, d, use, new)
  PROVE  Held' /\ Owned'
<1> USE DEF Given
<1>1. Blocks' = Blocks
  BY DEF Blocks, Limit
<1>2. ASSUME NEW h \in Goroutines, NEW e \in Depths, NEW v \in Uses,
             NEW p \in Blocks, Has(h, e, v, p)'
      PROVE  heap'[p] = <<h, e, v>>
  <2>1. CASE p = new /\ Has(h, e, v, p)
    <3>1. <<"free">> = <<h, e, v>>
      BY <2>1 DEF Held
    <3>2. QED
      BY <3>1
  <2>2. CASE p # new
    BY <1>2, <2>2 DEF Held
  <2>3. CASE h = g /\ e = d /\ v = use /\ p = new
    BY <2>3
  <2>4. QED
    BY <1>2, <2>1, <2>2, <2>3
<1>3. Held'
  BY <1>1, <1>2 DEF Held
<1>4. ASSUME NEW p \in Blocks
      PROVE  \/ heap'[p] \in {<<"free">>, <<"lost">>}
             \/ \E h \in Goroutines, e \in Depths, v \in Uses : Has(h, e, v, p)'
  <2>1. CASE p = new
    <3>1. Has(g, d, use, p)'
      BY <2>1
    <3>2. QED
      BY <3>1
  <2>2. CASE p # new
    BY <2>2 DEF Owned
  <2>3. QED
    BY <2>1, <2>2
<1>5. Owned'
  BY <1>1, <1>4 DEF Owned
<1>6. QED
  BY <1>3, <1>5

(* An operation gives up blocks, which are free or lost from then on.      *)
LEMMA GiveUp ==
  ASSUME Held, Owned, NEW g \in Goroutines, NEW d \in Depths,
         \A h \in Goroutines, e \in Depths, v \in Uses, p \in Blocks :
           Has(h, e, v, p)' =>
             Has(h, e, v, p) /\ (h = g /\ e = d => heap'[p] = heap[p]),
         \A p \in Blocks :
           \/ /\ heap'[p] \in {<<"free">>, <<"lost">>}
              /\ \E use \in Uses : Has(g, d, use, p)
           \/ /\ heap'[p] = heap[p]
              /\ \A h \in Goroutines, e \in Depths, v \in Uses :
                   Has(h, e, v, p) => Has(h, e, v, p)'
  PROVE  Held' /\ Owned'
<1>1. Blocks' = Blocks
  BY DEF Blocks, Limit
<1>2. ASSUME NEW h \in Goroutines, NEW e \in Depths, NEW v \in Uses,
             NEW p \in Blocks, Has(h, e, v, p)'
      PROVE  heap'[p] = <<h, e, v>>
  <2>1. Has(h, e, v, p) /\ heap[p] = <<h, e, v>>
    BY <1>2 DEF Held
  <2>2. CASE heap'[p] = heap[p]
    BY <2>1, <2>2
  <2>3. CASE \E use \in Uses : Has(g, d, use, p)
    <3>1. PICK use \in Uses : Has(g, d, use, p)
      BY <2>3
    <3>2. <<g, d, use>> = <<h, e, v>>
      BY <2>1, <3>1 DEF Held
    <3>3. heap'[p] = heap[p]
      BY <1>2, <3>2
    <3>4. QED
      BY <2>1, <3>3
  <2>4. QED
    BY <2>2, <2>3
<1>3. Held'
  BY <1>1, <1>2 DEF Held
<1>4. Owned'
  BY <1>1 DEF Owned
<1>5. QED
  BY <1>3, <1>4

-----------------------------------------------------------------------------
(***************************************************************************)
(* Every step of Memory is one of Interrupt or leaves its state alone: a   *)
(* memory that has grown holds the words it held when it began to.         *)
(***************************************************************************)
LEMMA StepOfInterrupt == MInv /\ [MNext]_everything => [INext]_allVars
<1> SUFFICES ASSUME MInv, [MNext]_everything PROVE [INext]_allVars
  OBVIOUS
<1>1. CASE UNCHANGED everything
  BY <1>1 DEF everything, allVars
<1>2. CASE HostStepAlone
  BY <1>2 DEF HostStepAlone, INext, OtherStep
<1>3. ASSUME NEW g \in Goroutines,
             \/ MArmInterrupt(g) \/ MDisarmInterrupt(g) \/ MFinishOp(g)
             \/ MPoll(g) \/ \E d \in Depths : MFireInterrupt(g, d)
      PROVE  INext
  BY <1>3 DEF MArmInterrupt, MDisarmInterrupt, MFinishOp, MPoll,
     MFireInterrupt, INext
<1>4. ASSUME NEW g \in Goroutines,
             \/ MLock(g) \/ MCallback(g) \/ AnswerNothing(g) \/ Answer(g)
             \/ MReturnOther(g)
      PROVE  INext
  <2>1. OtherStep(g)
    BY <1>4 DEF MInv, MLock, MCallback, AnswerNothing, Answer, MReturnOther,
       OtherStep
  <2>2. QED
    BY <2>1 DEF INext
<1>5. ASSUME NEW g \in Goroutines,
             ReadAnswer(g) \/ Respond(g) \/ BeginGrow(g)
      PROVE  UNCHANGED allVars
  BY <1>5 DEF ReadAnswer, Respond, BeginGrow
<1>6. ASSUME NEW g \in Goroutines, EndGrow(g) PROVE UNCHANGED allVars
  <2>1. moving = <<staged, bit>>
    BY <1>6 DEF MInv, WritesSurviveGrowth, EndGrow
  <2>2. staged' = staged /\ bit' = bit
    BY <1>6, <2>1 DEF EndGrow
  <2>3. QED
    BY <1>6, <2>2 DEF EndGrow, allVars, vars
<1>7. QED
  BY <1>1, <1>2, <1>3, <1>4, <1>5, <1>6 DEF MNext

-----------------------------------------------------------------------------
(***************************************************************************)
(* The invariant's parts, from what a step does to one operation.          *)
(***************************************************************************)
LEMMA GoesTo ==
  ASSUME TypeOK, NEW g \in Goroutines, depth[g] > 0,
         NEW call \in Calls, NEW point \in Points, GoTo(g, call, point)
  PROVE  \E d \in Depths :
           /\ d = depth[g] /\ depth' = depth /\ FrameOnly(g, d)
           /\ frame[g][d] = Top(g) /\ frame'[g][d].at = point
<1>1. PICK d \in Depths : d = depth[g]
  BY TopType
<1>2. /\ depth' = depth
      /\ frame'[g][d] = [call |-> call, at |-> point, base |-> Top(g).base]
      /\ \A h \in Goroutines, e \in Depths :
           h # g \/ e # d => frame'[h][e] = frame[h][e]
  BY <1>1, GoToFrame
<1>3. frame'[g][d].at = point
  BY <1>2
<1>4. QED
  BY <1>1, <1>2, <1>3 DEF FrameOnly, Top

(* The innermost frame of g and the call it is concerned with.             *)
LEMMA TopAt ==
  ASSUME TypeOK, NEW g \in Goroutines, NEW point, At(g, point)
  PROVE  /\ depth[g] > 0 /\ depth[g] \in Depths
         /\ frame[g][depth[g]].at = point /\ Top(g) = frame[g][depth[g]]
         /\ Top(g).call \in Calls
BY TopType DEF At, Top, Frame

(* The operation comes no further into the guest, nor into or out of a Go  *)
(* function.                                                               *)
Stays(g, d) ==
  /\ Entered(frame[g][d]) => Entered(frame[g][d])'
  /\ frame'[g][d].at \in {"handler", "relock"} =>
       frame[g][d].at \in {"handler", "relock"}

LEMMA EmptyAlone ==
  ASSUME Empty, buffer' = buffer, NEW g \in Goroutines, NEW d \in Depths,
         FrameOnly(g, d), Stays(g, d)
  PROVE  Empty'
<1> SUFFICES ASSUME NEW h \in Goroutines, NEW e \in Depths
             PROVE  /\ ~Entered(frame[h][e])' => buffer'[h][e] = NoBuffers
                    /\ frame'[h][e].at \in {"handler", "relock"} =>
                         buffer'[h][e].answer = None /\ buffer'[h][e].resp = None
                    /\ buffer'[h][e].resp # Null
  BY DEF Empty
<1>1. CASE h = g /\ e = d
  BY <1>1 DEF Empty, Stays
<1>2. CASE ~(h = g /\ e = d)
  BY <1>2 DEF Empty, FrameOnly, Entered
<1>3. QED
  BY <1>1, <1>2

LEMMA EmptyKept ==
  ASSUME Empty, NEW g \in Goroutines, NEW d \in Depths,
         FrameOnly(g, d), BufferOnly(g, d),
         ~Entered(frame[g][d])' => buffer'[g][d] = NoBuffers,
         frame'[g][d].at \in {"handler", "relock"} =>
           buffer'[g][d].answer = None /\ buffer'[g][d].resp = None,
         buffer'[g][d].resp # Null
  PROVE  Empty'
<1> SUFFICES ASSUME NEW h \in Goroutines, NEW e \in Depths
             PROVE  /\ ~Entered(frame[h][e])' => buffer'[h][e] = NoBuffers
                    /\ frame'[h][e].at \in {"handler", "relock"} =>
                         buffer'[h][e].answer = None /\ buffer'[h][e].resp = None
                    /\ buffer'[h][e].resp # Null
  BY DEF Empty
<1>1. CASE h = g /\ e = d
  BY <1>1
<1>2. CASE ~(h = g /\ e = d)
  BY <1>2 DEF Empty, FrameOnly, BufferOnly, Entered
<1>3. QED
  BY <1>1, <1>2

LEMMA GrowingKept ==
  ASSUME TypeOK, Growing, NEW g \in Goroutines, ~At(g, "guest"),
         NEW d \in Depths, FrameOnly(g, d), moving' = moving, pages' = pages,
         \A h \in Goroutines \ {g} : depth'[h] = depth[h]
  PROVE  Growing'
<1>1. Limit' = Limit
  BY DEF Limit
<1> SUFFICES ASSUME moving # NotMoving
             PROVE  \E h \in Goroutines : At(h, "guest")'
  BY <1>1 DEF Growing, NotMoving
<1>2. PICK h \in Goroutines : At(h, "guest")
  BY DEF Growing
<1>3. h # g /\ depth[h] \in Depths /\ depth'[h] = depth[h]
  BY <1>2, TopType DEF At
<1>4. At(h, "guest")'
  BY <1>2, <1>3 DEF At, Top, FrameOnly
<1>5. QED
  BY <1>4

(* The rest of the invariant, for a step that leaves the memory alone.     *)
LEMMA MemoryAlone ==
  ASSUME MInv, IInv', UNCHANGED memVars, loaded' = "no", Empty', Growing',
         moving # NotMoving => staged' = staged /\ bit' = bit
  PROVE  MInv'
<1>1. /\ pages' = pages /\ heap' = heap /\ buffer' = buffer /\ moving' = moving
  BY DEF memVars
<1>2. Blocks' = Blocks /\ Limit' = Limit /\ Contents' = Contents
      /\ Buffers' = Buffers
  BY DEF Blocks, Limit, Contents, Buffers, Addresses
<1>3. MTypeOK'
  BY <1>1, <1>2 DEF MInv, IInv, MTypeOK, NotMoving
<1>4. WritesSurviveGrowth'
  BY <1>1 DEF MInv, WritesSurviveGrowth, NotMoving
<1>5. Held' /\ Owned' /\ Beyond'
  BY <1>1, <1>2 DEF MInv, Held, Owned, Beyond, Has
<1>6. QED
  BY <1>3, <1>4, <1>5 DEF MInv

(* The steps that leave the memory alone. *)
LEMMA SameFrames ==
  ASSUME MInv, IInv', UNCHANGED memVars, loaded' = "no",
         frame' = frame, depth' = depth,
         moving # NotMoving => staged' = staged /\ bit' = bit
  PROVE  MInv'
<1>1. buffer' = buffer /\ moving' = moving /\ pages' = pages
  BY DEF memVars
<1>2. Empty'
  BY <1>1 DEF MInv, Empty, Entered
<1>3. Growing'
  <2>1. Limit' = Limit
    BY DEF Limit
  <2>2. QED
    BY <1>1, <2>1 DEF MInv, Growing, NotMoving, At, Top
<1>4. QED
  BY <1>2, <1>3, MemoryAlone

LEMMA OneFrame ==
  ASSUME MInv, IInv', UNCHANGED memVars, loaded' = "no",
         NEW g \in Goroutines, ~At(g, "guest"), NEW d \in Depths,
         FrameOnly(g, d), Stays(g, d),
         \A h \in Goroutines \ {g} : depth'[h] = depth[h],
         moving # NotMoving => staged' = staged /\ bit' = bit
  PROVE  MInv'
<1>1. buffer' = buffer /\ moving' = moving /\ pages' = pages /\ TypeOK
  BY DEF memVars, MInv, IInv, CloseInv, LockInv
<1>2. Empty'
  BY <1>1, EmptyAlone DEF MInv
<1>3. Growing'
  BY <1>1, GrowingKept DEF MInv
<1>4. QED
  BY <1>2, <1>3, MemoryAlone

LEMMA AloneSteps ==
  ASSUME MInv, IInv', NEW g \in Goroutines, UNCHANGED memVars,
         \/ StartOp(g) \/ Quit(g)
         \/ (Drain(g) \/ BeginClose(g) \/ HandlerReturn(g)) /\ UNCHANGED ivars
         \/ \E d \in Depths : CancelContext(g, d)
         \/ MArmInterrupt(g) \/ MDisarmInterrupt(g) \/ AnswerNothing(g)
         \/ MPoll(g) \/ \E d \in Depths : MFireInterrupt(g, d)
  PROVE  MInv'
<1>1. /\ TypeOK /\ ITypeOK /\ CloseInv /\ Nested /\ loaded = "no"
      /\ depth \in [Goroutines -> Nat]
  BY DEF MInv, IInv, CloseInv, LockInv, TypeOK
<1>2. CASE \/ Quit(g) \/ MPoll(g)
           \/ \E d \in Depths : CancelContext(g, d) \/ MFireInterrupt(g, d)
  <2>1. UNCHANGED <<vars, loaded>>
    BY <1>2 DEF Quit, MPoll, Poll, CancelContext, MFireInterrupt, FireInterrupt
  <2>2. frame' = frame /\ depth' = depth /\ loaded' = "no"
    BY <1>1, <2>1 DEF vars
  <2>3. moving # NotMoving => staged' = staged /\ bit' = bit
    BY <1>2 DEF Quit, MPoll, CancelContext, MFireInterrupt
  <2>4. QED
    BY <2>2, <2>3, SameFrames
<1>3. CASE StartOp(g)
  <2>1. PICK d \in Depths :
          /\ d = depth[g] + 1 /\ FrameOnly(g, d)
          /\ \A h \in Goroutines \ {g} : depth'[h] = depth[h]
          /\ frame'[g][d].at = "queue"
    BY <1>1, <1>3, StartEffect
  <2>2. frame[g][d] = NoFrame
    BY <1>1, <2>1 DEF Nested
  <2>3. Stays(g, d)
    BY <2>1, <2>2 DEF Stays, Entered, NoFrame
  <2>4. InHostCode(g) /\ UNCHANGED <<staged, bit, loaded>>
    BY <1>3 DEF StartOp, BeginOp
  <2>5. ~At(g, "guest")
    BY <1>1, <2>4 DEF InHostCode, At
  <2>6. QED
    BY <1>1, <2>1, <2>3, <2>4, <2>5, OneFrame
<1>4. CASE MArmInterrupt(g)
  <2>1. PICK d \in Depths :
          /\ d = depth[g] /\ depth' = depth /\ FrameOnly(g, d)
          /\ frame[g][d].at = "arm" /\ frame'[g][d].at = "wait"
          /\ bit' = bit /\ loaded' = loaded
    BY <1>1, <1>4, ArmEffect DEF MArmInterrupt
  <2>2. Stays(g, d) /\ ~At(g, "guest")
    BY <2>1 DEF Stays, Entered, At, Top
  <2>3. moving # NotMoving => staged' = staged
    BY <1>4 DEF MArmInterrupt, ArmInterrupt, ivars
  <2>4. QED
    BY <1>1, <2>1, <2>2, <2>3, OneFrame
<1>5. CASE MDisarmInterrupt(g)
  <2>1. PICK d \in Depths :
          /\ d = depth[g] /\ FrameOnly(g, d)
          /\ \A h \in Goroutines \ {g} : depth'[h] = depth[h]
          /\ frame[g][d].at = "disarm" /\ frame'[g][d] = NoFrame
          /\ loaded' = loaded
    BY <1>1, <1>5, DisarmEffect DEF MDisarmInterrupt
  <2>2. Stays(g, d) /\ ~At(g, "guest")
    BY <2>1 DEF Stays, Entered, At, Top, NoFrame
  <2>3. ASSUME moving # NotMoving PROVE staged' = staged /\ bit' = bit
    <3>1. Current(g).dog = "off"
      BY <1>5, <2>3 DEF MDisarmInterrupt
    <3>2. staged' = (staged /\ TRUE)
      BY <1>5, <3>1 DEF MDisarmInterrupt, DisarmInterrupt
    <3>3. bit' = (bit /\ TRUE)
      BY <1>5, <3>1 DEF MDisarmInterrupt, DisarmInterrupt
    <3>4. QED
      BY <1>1, <3>2, <3>3 DEF ITypeOK
  <2>4. QED
    BY <1>1, <2>1, <2>2, <2>3, OneFrame
<1>6. ASSUME NEW point \in {"queue", "handler", "relock"},
             NEW to \in {"wait", "arm", "relock", "guest"},
             NEW call \in Calls,
             At(g, point), GoTo(g, call, to), UNCHANGED ivars,
             point # "queue" => to \in {"relock", "guest"},
             point = "queue" => to \in {"wait", "arm"}
      PROVE  MInv'
  <2>1. /\ depth[g] > 0 /\ frame[g][depth[g]].at = point
        /\ Top(g) = frame[g][depth[g]] /\ to \in Points
    BY <1>1, <1>6, TopAt DEF Points
  <2>2. PICK d \in Depths :
          /\ d = depth[g] /\ depth' = depth /\ FrameOnly(g, d)
          /\ frame'[g][d].at = to
    BY <1>1, <1>6, <2>1, GoesTo
  <2>3. Stays(g, d)
    BY <1>6, <2>1, <2>2 DEF Stays, Entered
  <2>4. ~At(g, "guest")
    BY <1>6 DEF At
  <2>5. UNCHANGED <<staged, bit, loaded>>
    BY <1>6 DEF ivars
  <2>6. QED
    BY <1>1, <2>2, <2>3, <2>4, <2>5, OneFrame
<1>7. CASE Drain(g) /\ UNCHANGED ivars
  <2>1. \/ At(g, "queue") /\ GoTo(g, "drain", "wait")
        \/ At(g, "queue") /\ GoTo(g, "op", "arm")
    BY <1>7 DEF Drain
  <2>2. QED
    BY <1>6, <1>7, <2>1 DEF Calls
<1>8. CASE HandlerReturn(g) /\ UNCHANGED ivars
  <2>1. At(g, "handler") /\ GoTo(g, Top(g).call, "relock")
    BY <1>8 DEF HandlerReturn
  <2>2. Top(g).call \in Calls
    BY <1>1, <2>1, TopAt
  <2>3. QED
    BY <1>6, <1>8, <2>1, <2>2
<1>9. CASE AnswerNothing(g)
  <2>1. At(g, "relock") /\ GoTo(g, Top(g).call, "guest") /\ UNCHANGED ivars
    BY <1>9 DEF AnswerNothing, Relock
  <2>2. Top(g).call \in Calls
    BY <1>1, <2>1, TopAt
  <2>3. QED
    BY <1>6, <2>1, <2>2
<1>10. CASE BeginClose(g) /\ UNCHANGED ivars
  <2>1. ~ReturnClose(g) /\ ~At(g, "guest")
    <3>1. InHostCode(g)
      BY <1>10 DEF BeginClose
    <3>2. ~At(g, "guest")
      BY <1>1, <3>1 DEF InHostCode, At
    <3>3. QED
      BY <3>2 DEF ReturnClose, LeaveGuest
  <2>2. PICK d \in Depths :
          /\ FrameOnly(g, d)
          /\ \A h \in Goroutines \ {g} : depth'[h] = depth[h]
          /\ frame[g][d] = NoFrame /\ frame'[g][d].at = "wait"
    BY <1>1, <1>10, <2>1, CloseEffect
  <2>3. Stays(g, d)
    BY <2>2 DEF Stays, Entered, NoFrame
  <2>4. UNCHANGED <<staged, bit, loaded>>
    BY <1>10 DEF ivars
  <2>5. QED
    BY <1>1, <2>1, <2>2, <2>3, <2>4, OneFrame
<1>11. QED
  BY <1>2, <1>3, <1>4, <1>5, <1>7, <1>8, <1>9, <1>10

(* The address p goes to one use of operation d of g.                      *)
Placed(g, d, use, p) ==
  /\ BufferType /\ BufferOnly(g, d)
  /\ \A q \in Blocks, v \in Uses :
       Has(g, d, v, q)' <=>
         \/ v # use /\ Has(g, d, v, q)
         \/ v = use /\ q = p
  /\ use # "req" => buffer'[g][d].req = buffer[g][d].req
  /\ use # "answer" => buffer'[g][d].answer = buffer[g][d].answer
  /\ use # "resp" => buffer'[g][d].resp = buffer[g][d].resp
  /\ use = "answer" => buffer'[g][d].answer = p
  /\ use = "resp" => buffer'[g][d].resp = p

LEMMA SetUse ==
  ASSUME MInv, NEW g \in Goroutines, NEW d \in Depths, NEW p \in Addresses,
         NEW use \in Uses,
         \/ use = "req" /\ buffer' = [buffer EXCEPT ![g][d].req = p]
         \/ use = "answer" /\ buffer' = [buffer EXCEPT ![g][d].answer = p]
         \/ use = "resp" /\ buffer' = [buffer EXCEPT ![g][d].resp = p]
  PROVE  Placed(g, d, use, p)
<1>1. buffer \in [Goroutines -> [Depths -> Buffers]]
  BY DEF MInv, MTypeOK
<1> DEFINE old == buffer[g][d]
<1>2. old \in Buffers
  BY <1>1
<1>3. CASE use = "req"
  <2>1. /\ BufferType /\ BufferOnly(g, d)
        /\ buffer'[g][d] = [old EXCEPT !.req = p]
    <3>1. buffer' = [buffer EXCEPT ![g][d].req = p]
      BY <1>3
    <3>2. QED
      BY <1>1, <3>1, SetOne
  <2>2. /\ buffer'[g][d].req = p /\ buffer'[g][d].answer = old.answer
        /\ buffer'[g][d].resp = old.resp
    BY <1>2, <2>1 DEF Buffers
  <2>3. QED
    BY <1>3, <2>1, <2>2 DEF Placed, Has, Uses
<1>4. CASE use = "answer"
  <2>1. /\ BufferType /\ BufferOnly(g, d)
        /\ buffer'[g][d] = [old EXCEPT !.answer = p]
    <3>1. buffer' = [buffer EXCEPT ![g][d].answer = p]
      BY <1>4
    <3>2. QED
      BY <1>1, <3>1, SetOne
  <2>2. /\ buffer'[g][d].req = old.req /\ buffer'[g][d].answer = p
        /\ buffer'[g][d].resp = old.resp
    BY <1>2, <2>1 DEF Buffers
  <2>3. QED
    BY <1>4, <2>1, <2>2 DEF Placed, Has, Uses
<1>5. CASE use = "resp"
  <2>1. /\ BufferType /\ BufferOnly(g, d)
        /\ buffer'[g][d] = [old EXCEPT !.resp = p]
    <3>1. buffer' = [buffer EXCEPT ![g][d].resp = p]
      BY <1>5
    <3>2. QED
      BY <1>1, <3>1, SetOne
  <2>2. /\ buffer'[g][d].req = old.req /\ buffer'[g][d].answer = old.answer
        /\ buffer'[g][d].resp = p
    BY <1>2, <2>1 DEF Buffers
  <2>3. QED
    BY <1>5, <2>1, <2>2 DEF Placed, Has, Uses
<1>6. QED
  BY <1>3, <1>4, <1>5 DEF Uses

(* The steps that take a block: the allocator's answer goes to one use of  *)
(* g's innermost operation, and what is written goes to the block.         *)
LEMMA TakeBlock ==
  ASSUME MInv, NEW g \in Goroutines, NEW d \in Depths, NEW use \in Uses,
         d = depth[g], NEW new \in Addresses, new = WasmAlloc,
         Placed(g, d, use, new), \A q \in Blocks : ~Has(g, d, use, q),
         pages' = PagesFor(WasmAlloc),
         heap' = Stored(pages', pages', WasmAlloc, Content(g, use))
  PROVE  /\ Held' /\ Owned' /\ Beyond'
         /\ pages' \in InitialPages .. Limit /\ pages <= pages'
         /\ heap' \in [Blocks \cup {Null} -> Contents]
<1>1. MTypeOK /\ Beyond /\ Held /\ Owned
  BY DEF MInv
<1>2. /\ WasmAlloc \in Blocks \cup {Null}
      /\ WasmAlloc \in Blocks => heap[WasmAlloc] = <<"free">>
      /\ pages' \in InitialPages .. Limit /\ pages <= pages'
      /\ WasmAlloc <= pages'
  BY <1>1, Allocates
<1>3. heap' = [heap EXCEPT ![new] = <<g, d, use>>]
  BY DEF Stored, Content
<1>4. <<g, d, use>> \in Contents
  BY DEF Contents, Uses
<1>5. heap \in [Blocks \cup {Null} -> Contents]
  BY <1>1 DEF MTypeOK
<1>6. /\ heap' \in [Blocks \cup {Null} -> Contents]
      /\ heap'[new] = <<g, d, use>>
      /\ \A p \in Blocks \ {new} : heap'[p] = heap[p]
  BY <1>2, <1>3, <1>4, <1>5
<1>7. \A h \in Goroutines, e \in Depths, v \in Uses, p \in Blocks :
        Has(h, e, v, p)' <=>
          \/ Has(h, e, v, p)
          \/ h = g /\ e = d /\ v = use /\ p = new
  <2> SUFFICES ASSUME NEW h \in Goroutines, NEW e \in Depths, NEW v \in Uses,
                      NEW p \in Blocks
               PROVE  Has(h, e, v, p)' <=>
                        \/ Has(h, e, v, p)
                        \/ h = g /\ e = d /\ v = use /\ p = new
    OBVIOUS
  <2>1. CASE h = g /\ e = d
    BY <2>1 DEF Placed
  <2>2. CASE ~(h = g /\ e = d)
    BY <2>2 DEF Placed, Has, BufferOnly
  <2>3. QED
    BY <2>1, <2>2
<1>8. Held' /\ Owned'
  <2>1. new \in Blocks =>
          heap[new] = <<"free">> /\ heap'[new] = <<g, d, use>>
    BY <1>2, <1>6
  <2>2. Given(g, d, use, new)
    BY <1>6, <1>7, <2>1 DEF Given
  <2>3. QED
    BY <1>1, <2>2, GiveOut
<1>9. Beyond'
  <2>1. Blocks' = Blocks
    BY DEF Blocks, Limit
  <2>2. ASSUME NEW p \in Blocks, p > pages' PROVE heap'[p] = <<"free">>
    <3>1. p # new /\ p > pages
      BY <1>1, <1>2, <2>2, LimitType, MemoryAssumption
         DEF MTypeOK, Blocks, Null
    <3>2. QED
      BY <1>1, <1>6, <3>1 DEF Beyond
  <2>3. QED
    BY <2>1, <2>2 DEF Beyond
<1>10. QED
  BY <1>2, <1>6, <1>8, <1>9

(* The invariant from its parts.                                           *)
LEMMA Together ==
  ASSUME MInv, IInv', loaded' = "no", BufferType,
         pages' \in InitialPages .. Limit,
         heap' \in [Blocks \cup {Null} -> Contents],
         \/ moving' = NotMoving
         \/ moving' = <<staged', bit'>> /\ Growing',
         Held', Owned', Beyond', Empty'
  PROVE  MInv'
<1>1. Blocks' = Blocks /\ Limit' = Limit /\ Contents' = Contents
      /\ Buffers' = Buffers
  BY DEF Blocks, Limit, Contents, Buffers, Addresses
<1>2. ITypeOK'
  BY DEF IInv
<1>3. staged' \in BOOLEAN /\ bit' \in BOOLEAN
  BY <1>2 DEF ITypeOK
<1>4. moving' \in {NotMoving} \cup (BOOLEAN \X BOOLEAN)
  BY <1>3
<1>5. MaxMemoryBytes >= InitialPages * PageBytes =>
        pages' * PageBytes <= MaxMemoryBytes
  <2>1. pages' \in Nat /\ pages' <= Limit
    BY LimitType, MemoryAssumption
  <2>2. QED
    BY <2>1, WithinLimit
<1>6. MTypeOK'
  BY <1>1, <1>2, <1>4, <1>5 DEF MTypeOK, BufferType, NotMoving
<1>7. WritesSurviveGrowth' /\ Growing'
  BY DEF WritesSurviveGrowth, Growing, NotMoving
<1>8. QED
  BY <1>6, <1>7 DEF MInv

-----------------------------------------------------------------------------
(***************************************************************************)
(* The steps that change the memory.                                       *)
(***************************************************************************)

(* While the mutex is free nobody grows the memory.                        *)
LEMMA NotGrowing ==
  ASSUME MInv, mu = NoOne PROVE moving = NotMoving
<1> SUFFICES ASSUME moving # NotMoving PROVE FALSE
  OBVIOUS
<1>1. PICK h \in Goroutines : At(h, "guest")
  BY DEF MInv, Growing
<1>2. TypeOK /\ GuestOwnsLock
  BY DEF MInv, IInv, CloseInv, LockInv
<1>3. depth[h] \in Depths /\ frame[h][depth[h]].at = "guest"
  BY <1>1, <1>2, TopAt
<1>4. mu = h
  BY <1>2, <1>3 DEF GuestOwnsLock
<1>5. QED
  BY <1>4, NoOneAssumption

LEMMA LockStep ==
  ASSUME MInv, IInv', NEW g \in Goroutines, MLock(g) PROVE MInv'
<1>1. /\ TypeOK /\ MTypeOK /\ Empty /\ Beyond /\ loaded = "no"
      /\ moving = NotMoving
  BY NotGrowing DEF MInv, IInv, CloseInv, LockInv, MLock, Lock
<1>2. Lock(g) /\ At(g, "wait") /\ UNCHANGED ivars
  BY DEF MLock, Lock
<1>3. PICK d \in Depths :
        d = depth[g] /\ frame[g][d].at = "wait" /\ FrameOnly(g, d)
        /\ frame'[g][d].at = "guest"
  <2>1. PICK d \in Depths : d = depth[g] /\ frame[g][d].at = "wait"
    BY <1>1, <1>2, TopAt
  <2>2. /\ frame'[g][d] = [call |-> Top(g).call, at |-> "guest", base |-> sp]
        /\ \A h \in Goroutines, e \in Depths :
             h # g \/ e # d => frame'[h][e] = frame[h][e]
    BY <1>1, <1>2, <2>1, LockFrame
  <2>3. QED
    BY <2>1, <2>2 DEF FrameOnly
<1>4. buffer[g][d] = NoBuffers
  BY <1>1, <1>3 DEF Empty, Entered
<1>5. PICK p \in Addresses : p = WasmAlloc
  BY <1>1, Allocates DEF Addresses
<1>6. buffer' = [buffer EXCEPT ![g][d].req = p]
  BY <1>3, <1>5 DEF MLock
<1>7. Placed(g, d, "req", p) /\ BufferType /\ BufferOnly(g, d)
      /\ buffer'[g][d].answer = buffer[g][d].answer
      /\ buffer'[g][d].resp = buffer[g][d].resp
  <2>1. Placed(g, d, "req", p)
    BY <1>6, SetUse DEF Uses
  <2>2. QED
    BY <2>1 DEF Placed
<1>8. \A q \in Blocks : ~Has(g, d, "req", q)
  BY <1>4 DEF Has, NoBuffers, Blocks, None
<1>9. /\ Held' /\ Owned' /\ Beyond'
      /\ pages' \in InitialPages .. Limit
      /\ heap' \in [Blocks \cup {Null} -> Contents]
  <2>1. /\ pages' = PagesFor(WasmAlloc)
        /\ heap' = Stored(pages', pages', WasmAlloc, Content(g, "req"))
    BY DEF MLock
  <2>2. "req" \in Uses
    BY DEF Uses
  <2>3. QED
    BY <1>3, <1>5, <1>7, <1>8, <2>1, <2>2, TakeBlock
<1>10. Empty'
  <2>1. Entered(frame[g][d])' /\ frame'[g][d].at \notin {"handler", "relock"}
    BY <1>3 DEF Entered
  <2>2. buffer'[g][d].resp # Null
    BY <1>4, <1>7 DEF NoBuffers, None, Null
  <2>3. QED
    BY <1>1, <1>3, <1>7, <2>1, <2>2, EmptyKept
<1>11. moving' = NotMoving /\ loaded' = "no"
  BY <1>1, <1>2 DEF MLock, ivars
<1>12. QED
  BY <1>7, <1>9, <1>10, <1>11, Together

LEMMA AnswerStep ==
  ASSUME MInv, IInv', NEW g \in Goroutines, Answer(g) PROVE MInv'
<1>1. /\ TypeOK /\ MTypeOK /\ Empty /\ Beyond /\ loaded = "no"
      /\ moving = NotMoving
  BY NotGrowing DEF MInv, IInv, CloseInv, LockInv, Answer, Relock
<1>2. /\ At(g, "relock") /\ GoTo(g, Top(g).call, "guest") /\ UNCHANGED ivars
      /\ "guest" \in Points
  BY DEF Answer, Relock, Points
<1>3. PICK d \in Depths :
        d = depth[g] /\ frame[g][d].at = "relock" /\ FrameOnly(g, d)
        /\ frame'[g][d].at = "guest"
  <2>1. depth[g] > 0 /\ Top(g).call \in Calls /\ Top(g).at = "relock"
    BY <1>1, <1>2, TopAt DEF At
  <2>2. QED
    BY <1>1, <1>2, <2>1, GoesTo
<1>4. buffer[g][d].answer = None /\ buffer[g][d].resp = None
  BY <1>1, <1>3 DEF Empty
<1>5. PICK p \in Addresses : p = WasmAlloc
  BY <1>1, Allocates DEF Addresses
<1>6. buffer' = [buffer EXCEPT ![g][d].answer = p]
  BY <1>3, <1>5 DEF Answer
<1>7. Placed(g, d, "answer", p) /\ BufferType /\ BufferOnly(g, d)
      /\ buffer'[g][d].resp = buffer[g][d].resp
  <2>1. Placed(g, d, "answer", p)
    BY <1>6, SetUse DEF Uses
  <2>2. QED
    BY <2>1 DEF Placed
<1>8. \A q \in Blocks : ~Has(g, d, "answer", q)
  BY <1>4 DEF Has, Blocks, None
<1>9. /\ Held' /\ Owned' /\ Beyond'
      /\ pages' \in InitialPages .. Limit
      /\ heap' \in [Blocks \cup {Null} -> Contents]
  <2>1. /\ pages' = PagesFor(WasmAlloc)
        /\ heap' = Stored(pages', pages', WasmAlloc, Content(g, "answer"))
    BY DEF Answer
  <2>2. "answer" \in Uses
    BY DEF Uses
  <2>3. QED
    BY <1>3, <1>5, <1>7, <1>8, <2>1, <2>2, TakeBlock
<1>10. Empty'
  <2>1. Entered(frame[g][d])' /\ frame'[g][d].at \notin {"handler", "relock"}
    BY <1>3 DEF Entered
  <2>2. buffer'[g][d].resp # Null
    BY <1>4, <1>7 DEF None, Null
  <2>3. QED
    BY <1>1, <1>3, <1>7, <2>1, <2>2, EmptyKept
<1>11. moving' = NotMoving /\ loaded' = "no"
  BY <1>1, <1>2 DEF Answer, ivars
<1>12. QED
  BY <1>7, <1>9, <1>10, <1>11, Together

LEMMA RespondStep ==
  ASSUME MInv, IInv', NEW g \in Goroutines, Respond(g) PROVE MInv'
<1>1. /\ TypeOK /\ MTypeOK /\ Empty /\ Beyond /\ loaded = "no"
      /\ moving = NotMoving
  BY DEF MInv, IInv, CloseInv, LockInv, Respond
<1>2. /\ At(g, "guest") /\ Own(g).resp = None /\ WasmAlloc # Null
      /\ UNCHANGED <<allVars, moving>>
  BY DEF Respond
<1>3. PICK d \in Depths : d = depth[g] /\ frame[g][d].at = "guest"
  BY <1>1, <1>2, TopAt
<1>4. buffer[g][d].resp = None /\ frame' = frame /\ FrameOnly(g, d)
  BY <1>2, <1>3 DEF Own, allVars, FrameOnly
<1>5. PICK p \in Addresses : p = WasmAlloc
  BY <1>1, Allocates DEF Addresses
<1>6. buffer' = [buffer EXCEPT ![g][d].resp = p]
  BY <1>3, <1>5 DEF Respond
<1>7. Placed(g, d, "resp", p) /\ BufferType /\ BufferOnly(g, d)
      /\ buffer'[g][d].resp = p
  <2>1. Placed(g, d, "resp", p)
    BY <1>6, SetUse DEF Uses
  <2>2. QED
    BY <2>1 DEF Placed
<1>8. \A q \in Blocks : ~Has(g, d, "resp", q)
  BY <1>4 DEF Has, Blocks, None
<1>9. /\ Held' /\ Owned' /\ Beyond'
      /\ pages' \in InitialPages .. Limit
      /\ heap' \in [Blocks \cup {Null} -> Contents]
  <2>1. /\ pages' = PagesFor(WasmAlloc)
        /\ heap' = Stored(pages', pages', WasmAlloc, Content(g, "resp"))
    BY DEF Respond
  <2>2. "resp" \in Uses
    BY DEF Uses
  <2>3. QED
    BY <1>3, <1>5, <1>7, <1>8, <2>1, <2>2, TakeBlock
<1>10. Empty'
  <2>1. Entered(frame[g][d])' /\ frame'[g][d].at \notin {"handler", "relock"}
    BY <1>3, <1>4 DEF Entered
  <2>2. buffer'[g][d].resp # Null
    BY <1>2, <1>5, <1>7
  <2>3. QED
    BY <1>1, <1>4, <1>7, <2>1, <2>2, EmptyKept
<1>11. moving' = NotMoving /\ loaded' = "no"
  BY <1>1, <1>2 DEF allVars
<1>12. QED
  BY <1>7, <1>9, <1>10, <1>11, Together

LEMMA CallbackStep ==
  ASSUME MInv, IInv', NEW g \in Goroutines, MCallback(g) PROVE MInv'
<1>1. /\ TypeOK /\ MTypeOK /\ Empty /\ Beyond /\ Held /\ Owned
      /\ loaded = "no"
  BY DEF MInv, IInv, CloseInv, LockInv
<1>2. /\ At(g, "guest") /\ GoTo(g, Top(g).call, "handler")
      /\ UNCHANGED ivars /\ UNCHANGED <<pages, heap, moving>>
      /\ moving = NotMoving /\ Own(g).answer = None /\ Own(g).resp = None
      /\ "handler" \in Points
  BY DEF MCallback, Callback, Points
<1>3. PICK d \in Depths :
        d = depth[g] /\ FrameOnly(g, d) /\ frame'[g][d].at = "handler"
  <2>1. depth[g] > 0 /\ Top(g).call \in Calls
    BY <1>1, <1>2, TopAt
  <2>2. QED
    BY <1>1, <1>2, <2>1, GoesTo
<1>4. PICK n \in 0 .. Limit : n = pages
  BY <1>1, MemoryAssumption, LimitType DEF MTypeOK
<1>5. /\ buffer \in [Goroutines -> [Depths -> Buffers]]
      /\ buffer' = [buffer EXCEPT ![g][d].mem = n]
  BY <1>1, <1>3, <1>4 DEF MCallback, MTypeOK
<1>6. /\ BufferType /\ BufferOnly(g, d) /\ buffer[g][d] \in Buffers
      /\ buffer'[g][d] = [buffer[g][d] EXCEPT !.mem = n]
  BY <1>5, SetOne
<1>7. /\ buffer'[g][d].req = buffer[g][d].req
      /\ buffer'[g][d].answer = None /\ buffer'[g][d].resp = None
      /\ buffer[g][d].answer = None /\ buffer[g][d].resp = None
  BY <1>2, <1>3, <1>6 DEF Buffers, Own
<1>8. \A h \in Goroutines, e \in Depths, v \in Uses, p \in Blocks :
        Has(h, e, v, p)' <=> Has(h, e, v, p)
  <2> SUFFICES ASSUME NEW h \in Goroutines, NEW e \in Depths, NEW v \in Uses,
                      NEW p \in Blocks
               PROVE  Has(h, e, v, p)' <=> Has(h, e, v, p)
    OBVIOUS
  <2>1. CASE h = g /\ e = d
    BY <1>7, <2>1 DEF Has
  <2>2. CASE ~(h = g /\ e = d)
    BY <1>6, <2>2 DEF Has, BufferOnly
  <2>3. QED
    BY <2>1, <2>2
<1>9. Blocks' = Blocks /\ pages' = pages /\ heap' = heap
  BY <1>2 DEF Blocks, Limit
<1>10. Held'
  BY <1>1, <1>8, <1>9 DEF Held
<1>11. Owned'
  BY <1>1, <1>8, <1>9 DEF Owned
<1>12. Beyond'
  BY <1>1, <1>9 DEF Beyond
<1>13. Empty'
  <2>1. Entered(frame[g][d])' /\ None # Null
    BY <1>3 DEF Entered, None, Null
  <2>2. QED
    BY <1>1, <1>3, <1>6, <1>7, <2>1, EmptyKept
<1>14. /\ pages' \in InitialPages .. Limit
       /\ heap' \in [Blocks \cup {Null} -> Contents]
       /\ moving' = NotMoving /\ loaded' = "no"
  BY <1>1, <1>2 DEF MTypeOK, ivars
<1>15. QED
  BY <1>6, <1>10, <1>11, <1>12, <1>13, <1>14, Together

(* The guest gives the answer's block up. *)
LEMMA ReadAnswerStep ==
  ASSUME MInv, IInv', NEW g \in Goroutines, ReadAnswer(g) PROVE MInv'
<1>1. /\ TypeOK /\ MTypeOK /\ Empty /\ Beyond /\ Held /\ Owned
      /\ loaded = "no" /\ WritesSurviveGrowth /\ Growing
  BY DEF MInv, IInv, CloseInv, LockInv
<1>2. /\ At(g, "guest") /\ UNCHANGED <<allVars, pages, moving>>
      /\ heap' = Freed({Own(g).answer})
      /\ buffer' = [buffer EXCEPT ![g][depth[g]].answer = None]
  BY DEF ReadAnswer
<1>3. PICK d \in Depths : d = depth[g] /\ frame[g][d].at = "guest"
  BY <1>1, <1>2, TopAt
<1>4. /\ frame' = frame /\ depth' = depth /\ FrameOnly(g, d)
      /\ pages' = pages /\ moving' = moving /\ staged' = staged /\ bit' = bit
      /\ loaded' = "no"
  BY <1>1, <1>2 DEF allVars, FrameOnly
<1>5. Placed(g, d, "answer", None)
  BY <1>2, <1>3, SetUse DEF Uses, Addresses
<1>6. /\ BufferType /\ BufferOnly(g, d)
      /\ buffer'[g][d].resp = buffer[g][d].resp
      /\ \A q \in Blocks, v \in Uses :
           Has(g, d, v, q)' <=> v # "answer" /\ Has(g, d, v, q)
  BY <1>5 DEF Placed, Blocks, None
<1> DEFINE was == buffer[g][d].answer
<1>7. \A p \in Blocks :
        \/ heap'[p] = <<"free">> /\ p = was
        \/ heap'[p] = heap[p] /\ p # was
  BY <1>1, <1>2, <1>3 DEF Freed, Own, MTypeOK
<1>8. heap' \in [Blocks \cup {Null} -> Contents]
  BY <1>1, <1>2 DEF Freed, MTypeOK, Contents
<1>9. \A p \in Blocks : p = was <=> Has(g, d, "answer", p)
  BY DEF Has
<1> HIDE DEF was
<1>10. Held' /\ Owned'
  <2>1. ASSUME NEW h \in Goroutines, NEW e \in Depths, NEW v \in Uses,
               NEW p \in Blocks, Has(h, e, v, p)'
        PROVE  Has(h, e, v, p) /\ (h = g /\ e = d => heap'[p] = heap[p])
    <3>1. CASE h = g /\ e = d
      <4>1. v # "answer" /\ Has(g, d, v, p)
        BY <1>6, <2>1, <3>1
      <4>2. heap[p] = <<g, d, v>>
        BY <1>1, <4>1 DEF Held
      <4>3. ASSUME p = was PROVE FALSE
        <5>1. heap[p] = <<g, d, "answer">>
          BY <1>1, <1>9, <4>3 DEF Held, Uses
        <5>2. QED
          BY <4>1, <4>2, <5>1
      <4>4. QED
        BY <1>7, <3>1, <4>1, <4>3
    <3>2. CASE ~(h = g /\ e = d)
      BY <1>6, <2>1, <3>2 DEF Has, BufferOnly
    <3>3. QED
      BY <3>1, <3>2
  <2>2. ASSUME NEW p \in Blocks
        PROVE  \/ /\ heap'[p] \in {<<"free">>, <<"lost">>}
                  /\ \E use \in Uses : Has(g, d, use, p)
               \/ /\ heap'[p] = heap[p]
                  /\ \A h \in Goroutines, e \in Depths, v \in Uses :
                       Has(h, e, v, p) => Has(h, e, v, p)'
    <3>1. CASE p = was
      BY <1>7, <1>9, <3>1 DEF Uses
    <3>2. CASE p # was
      <4>1. ASSUME NEW h \in Goroutines, NEW e \in Depths, NEW v \in Uses,
                   Has(h, e, v, p)
            PROVE  Has(h, e, v, p)'
        <5>1. CASE h = g /\ e = d
          BY <1>6, <1>9, <3>2, <4>1, <5>1
        <5>2. CASE ~(h = g /\ e = d)
          BY <1>6, <4>1, <5>2 DEF Has, BufferOnly
        <5>3. QED
          BY <5>1, <5>2
      <4>2. QED
        BY <1>7, <3>2, <4>1
    <3>3. QED
      BY <3>1, <3>2
  <2>3. QED
    BY <1>1, <2>1, <2>2, GiveUp
<1>11. Beyond'
  <2>1. Blocks' = Blocks
    BY DEF Blocks, Limit
  <2>2. QED
    BY <1>1, <1>4, <1>7, <2>1 DEF Beyond
<1>12. Empty'
  <2>1. Entered(frame[g][d])' /\ frame'[g][d].at \notin {"handler", "relock"}
    BY <1>3, <1>4 DEF Entered
  <2>2. buffer'[g][d].resp # Null
    BY <1>1, <1>6 DEF Empty
  <2>3. QED
    BY <1>1, <1>4, <1>6, <2>1, <2>2, EmptyKept
<1>13. \/ moving' = NotMoving
       \/ moving' = <<staged', bit'>> /\ Growing'
  <2>1. Growing'
    <3>1. Limit' = Limit
      BY DEF Limit
    <3>2. QED
      BY <1>1, <1>4, <3>1 DEF Growing, NotMoving, At, Top
  <2>2. QED
    BY <1>1, <1>4, <2>1 DEF WritesSurviveGrowth
<1>14. pages' \in InitialPages .. Limit
  BY <1>1, <1>4 DEF MTypeOK
<1>15. QED
  BY <1>4, <1>6, <1>8, <1>10, <1>11, <1>12, <1>13, <1>14, Together

(* Leaving the guest gives every block of the operation up. *)
LEMMA LeaveBlocks ==
  ASSUME MInv, NEW g \in Goroutines, NEW d \in Depths, d = depth[g],
         NEW trapped \in BOOLEAN, Leave(g, trapped)
  PROVE  /\ Held' /\ Owned' /\ Beyond' /\ BufferType /\ BufferOnly(g, d)
         /\ buffer'[g][d] = NoBuffers
         /\ pages' \in InitialPages .. Limit
         /\ heap' \in [Blocks \cup {Null} -> Contents]
         /\ moving' = NotMoving
<1>1. MTypeOK /\ Held /\ Owned /\ Beyond
  BY DEF MInv
<1>2. /\ moving' = NotMoving /\ pages' = pages
      /\ buffer' = [buffer EXCEPT ![g][d] = NoBuffers]
  BY DEF Leave, NotMoving
<1>3. BufferType /\ BufferOnly(g, d) /\ buffer'[g][d] = NoBuffers
  <2>1. buffer \in [Goroutines -> [Depths -> Buffers]]
    BY <1>1 DEF MTypeOK
  <2>2. NoBuffers \in Buffers
    BY NoBuffersType
  <2> DEFINE none == NoBuffers
  <2>3. none \in Buffers /\ buffer' = [buffer EXCEPT ![g][d] = none]
    BY <1>2, <2>2
  <2> HIDE DEF none
  <2>4. BufferType /\ BufferOnly(g, d) /\ buffer'[g][d] = none
    BY <2>1, <2>3 DEF BufferType, BufferOnly
  <2>5. QED
    BY <2>4 DEF none
<1>4. DOMAIN heap = Blocks \cup {Null}
  BY <1>1 DEF MTypeOK
<1>5. heap' = [p \in Blocks \cup {Null} |->
                 CASE p \in {buffer[g][d].req, buffer[g][d].resp} \ {Null}
                        -> <<"free">>
                   [] p = buffer[g][d].answer /\ p # Null -> <<"lost">>
                   [] OTHER -> heap[p]]
  BY <1>4 DEF Leave, FreeBuffers, Own
<1>6. \A p \in Blocks : p # Null
  BY DEF Blocks, Null
<1>7. ASSUME NEW p \in Blocks
      PROVE  \/ /\ heap'[p] \in {<<"free">>, <<"lost">>}
                /\ \E use \in Uses : Has(g, d, use, p)
             \/ /\ heap'[p] = heap[p]
                /\ \A use \in Uses : ~Has(g, d, use, p)
  <2>1. CASE p \in {buffer[g][d].req, buffer[g][d].resp}
    <3>1. heap'[p] = <<"free">>
      <4>1. /\ p \in Blocks \cup {Null}
            /\ p \in {buffer[g][d].req, buffer[g][d].resp} \ {Null}
        BY <1>6, <2>1
      <4>2. ~(p = buffer[g][d].answer /\ p # Null)
        <5>1. SUFFICES ASSUME p = buffer[g][d].answer PROVE FALSE
          OBVIOUS
        <5>2. heap[p] = <<g, d, "answer">>
          BY <1>1, <5>1 DEF Held, Has, Uses
        <5>3. heap[p] = <<g, d, "req">> \/ heap[p] = <<g, d, "resp">>
          BY <1>1, <2>1 DEF Held, Has, Uses
        <5>4. QED
          BY <5>2, <5>3
      <4>3. QED
        BY <1>5, <4>1, <4>2
    <3>2. Has(g, d, "req", p) \/ Has(g, d, "resp", p)
      BY <2>1 DEF Has
    <3>3. QED
      BY <3>1, <3>2 DEF Uses
  <2>2. CASE /\ p \notin {buffer[g][d].req, buffer[g][d].resp}
             /\ p = buffer[g][d].answer
    <3>1. heap'[p] = <<"lost">>
      BY <1>5, <1>6, <2>2
    <3>2. Has(g, d, "answer", p)
      BY <2>2 DEF Has
    <3>3. QED
      BY <3>1, <3>2 DEF Uses
  <2>3. CASE p \notin {buffer[g][d].req, buffer[g][d].resp,
                       buffer[g][d].answer}
    <3>1. heap'[p] = heap[p]
      BY <1>5, <1>6, <2>3
    <3>2. QED
      BY <2>3, <3>1 DEF Has
  <2>4. QED
    BY <2>1, <2>2, <2>3
<1>8. heap' \in [Blocks \cup {Null} -> Contents]
  <2>1. <<"free">> \in Contents /\ <<"lost">> \in Contents
    BY DEF Contents
  <2>2. heap \in [Blocks \cup {Null} -> Contents]
    BY <1>1 DEF MTypeOK
  <2>3. heap'[Null] = heap[Null]
    BY <1>5
  <2>4. \A p \in Blocks \cup {Null} : heap'[p] \in Contents
    BY <1>7, <2>1, <2>2, <2>3
  <2>5. QED
    BY <1>5, <2>4
<1>9. Held' /\ Owned'
  <2>1. ASSUME NEW h \in Goroutines, NEW e \in Depths, NEW v \in Uses,
               NEW p \in Blocks, Has(h, e, v, p)'
        PROVE  Has(h, e, v, p) /\ (h = g /\ e = d => heap'[p] = heap[p])
    <3>1. CASE h = g /\ e = d
      <4>1. p = None
        BY <1>3, <2>1, <3>1 DEF Has, NoBuffers
      <4>2. QED
        BY <4>1 DEF Blocks, None
    <3>2. CASE ~(h = g /\ e = d)
      BY <1>3, <2>1, <3>2 DEF Has, BufferOnly
    <3>3. QED
      BY <3>1, <3>2
  <2>2. ASSUME NEW p \in Blocks
        PROVE  \/ /\ heap'[p] \in {<<"free">>, <<"lost">>}
                  /\ \E use \in Uses : Has(g, d, use, p)
               \/ /\ heap'[p] = heap[p]
                  /\ \A h \in Goroutines, e \in Depths, v \in Uses :
                       Has(h, e, v, p) => Has(h, e, v, p)'
    <3>1. CASE heap'[p] = heap[p] /\ \A use \in Uses : ~Has(g, d, use, p)
      <4>1. ASSUME NEW h \in Goroutines, NEW e \in Depths, NEW v \in Uses,
                   Has(h, e, v, p)
            PROVE  Has(h, e, v, p)'
        BY <1>3, <3>1, <4>1 DEF Has, BufferOnly
      <4>2. QED
        BY <3>1, <4>1
    <3>2. QED
      BY <1>7, <3>1
  <2>3. QED
    BY <1>1, <2>1, <2>2, GiveUp
<1>10. Beyond'
  <2>1. ASSUME NEW p \in Blocks, p > pages' PROVE heap'[p] = <<"free">>
    <3>1. heap[p] = <<"free">>
      BY <1>1, <1>2, <2>1 DEF Beyond
    <3>2. ASSUME NEW use \in Uses, Has(g, d, use, p) PROVE FALSE
      <4>1. <<"free">> = <<g, d, use>>
        BY <1>1, <3>1, <3>2 DEF Held
      <4>2. QED
        BY <4>1
    <3>3. QED
      BY <1>7, <3>1, <3>2
  <2>2. Blocks' = Blocks
    BY DEF Blocks, Limit
  <2>3. QED
    BY <2>1, <2>2 DEF Beyond
<1>11. pages' \in InitialPages .. Limit
  BY <1>1, <1>2 DEF MTypeOK
<1>12. QED
  BY <1>2, <1>3, <1>8, <1>9, <1>10, <1>11

LEMMA FinishStep ==
  ASSUME MInv, IInv', NEW g \in Goroutines, MFinishOp(g) \/ MReturnOther(g)
  PROVE  MInv'
<1>1. /\ TypeOK /\ ITypeOK /\ CloseInv /\ Empty /\ loaded = "no"
  BY DEF MInv, IInv, CloseInv, LockInv
<1>2. At(g, "guest")
  BY DEF MFinishOp, FinishOp, ReturnOp, MReturnOther, ReturnDrain,
     ReturnClose, LeaveGuest
<1>3. PICK d \in Depths : d = depth[g]
  BY <1>1, <1>2, TopAt
<1>4. PICK trapped \in BOOLEAN : Leave(g, trapped)
  BY DEF MFinishOp, MReturnOther
<1>5. /\ Held' /\ Owned' /\ Beyond' /\ BufferType /\ BufferOnly(g, d)
      /\ buffer'[g][d] = NoBuffers
      /\ pages' \in InitialPages .. Limit
      /\ heap' \in [Blocks \cup {Null} -> Contents]
      /\ moving' = NotMoving
  BY <1>3, <1>4, LeaveBlocks
<1>6. FrameOnly(g, d)
  <2>1. CASE MFinishOp(g)
    <3>1. FinishOp(g)
      BY <2>1 DEF MFinishOp
    <3>2. QED
      BY <1>1, <1>3, <3>1, FinishEffect
  <2>2. CASE ReturnDrain(g)
    <3>1. depth[g] > 0 /\ GoTo(g, "op", "arm") /\ "op" \in Calls
          /\ "arm" \in Points
      BY <1>2, <2>2 DEF ReturnDrain, At, Calls, Points
    <3>2. QED
      BY <1>1, <1>3, <3>1, GoesTo
  <2>3. CASE ReturnClose(g)
    <3>1. depth[g] > 0 /\ Pop(g)
      BY <1>2, <2>3 DEF ReturnClose, At
    <3>2. QED
      BY <1>1, <1>3, <3>1, PopFrame DEF FrameOnly
  <2>4. QED
    BY <2>1, <2>2, <2>3 DEF MReturnOther
<1>7. frame'[g][d].at \notin {"handler", "relock"}
  <2>1. CASE MFinishOp(g)
    <3>1. FinishOp(g)
      BY <2>1 DEF MFinishOp
    <3>2. frame'[g][d].at = "disarm"
      BY <1>1, <1>3, <3>1, FinishEffect
    <3>3. QED
      BY <3>2
  <2>2. CASE ReturnDrain(g)
    <3>1. depth[g] > 0 /\ GoTo(g, "op", "arm") /\ "op" \in Calls
          /\ "arm" \in Points
      BY <1>2, <2>2 DEF ReturnDrain, At, Calls, Points
    <3>2. frame'[g][d].at = "arm"
      BY <1>1, <1>3, <3>1, GoesTo
    <3>3. QED
      BY <3>2
  <2>3. CASE ReturnClose(g)
    <3>1. depth[g] > 0 /\ Pop(g)
      BY <1>2, <2>3 DEF ReturnClose, At
    <3>2. frame'[g][d] = NoFrame
      BY <1>1, <1>3, <3>1, PopFrame
    <3>3. QED
      BY <3>2 DEF NoFrame
  <2>4. QED
    BY <2>1, <2>2, <2>3 DEF MReturnOther
<1>8. Empty'
  <2>1. buffer'[g][d].resp # Null
    BY <1>5 DEF NoBuffers, None, Null
  <2>2. QED
    BY <1>1, <1>5, <1>6, <1>7, <2>1, EmptyKept
<1>9. loaded' = "no"
  BY <1>1 DEF MFinishOp, FinishOp, MReturnOther, ivars
<1>10. QED
  BY <1>5, <1>8, <1>9, Together

LEMMA GrowStep ==
  ASSUME MInv, IInv', NEW g \in Goroutines, BeginGrow(g) \/ EndGrow(g)
  PROVE  MInv'
<1>1. /\ TypeOK /\ MTypeOK /\ Held /\ Owned /\ Beyond /\ Empty /\ Growing
      /\ WritesSurviveGrowth /\ loaded = "no"
      /\ pages \in InitialPages .. Limit
  BY DEF MInv, MTypeOK, IInv, CloseInv, LockInv
<1>2. /\ frame' = frame /\ depth' = depth /\ heap' = heap /\ buffer' = buffer
      /\ loaded' = "no" /\ At(g, "guest")
  BY <1>1 DEF BeginGrow, EndGrow, allVars, vars
<1>3. Blocks' = Blocks /\ Limit' = Limit
  BY DEF Blocks, Limit
<1>4. Empty'
  BY <1>1, <1>2 DEF Empty, Entered
<1>5. Held'
  BY <1>1, <1>2, <1>3 DEF Held, Has
<1>6. Owned'
  BY <1>1, <1>2, <1>3 DEF Owned, Has
<1>7. BufferType /\ heap' \in [Blocks \cup {Null} -> Contents]
  BY <1>1, <1>2 DEF BufferType, MTypeOK
<1>8. CASE BeginGrow(g)
  <2>1. /\ pages' = pages /\ pages < Limit /\ moving' = <<staged, bit>>
        /\ staged' = staged /\ bit' = bit
    BY <1>8 DEF BeginGrow, allVars
  <2>2. Beyond'
    BY <1>1, <1>2, <1>3, <2>1 DEF Beyond
  <2>3. Growing'
    BY <1>2, <1>3, <2>1 DEF Growing, At, Top
  <2>4. QED
    BY <1>1, <1>2, <1>4, <1>5, <1>6, <1>7, <2>1, <2>2, <2>3, Together
<1>9. CASE EndGrow(g)
  <2>1. pages' = pages + 1 /\ moving # NotMoving /\ moving' = NotMoving
    BY <1>9 DEF EndGrow, NotMoving
  <2>2. pages < Limit
    BY <1>1, <2>1 DEF Growing
  <2>3. pages' \in InitialPages .. Limit
    BY <1>1, <2>1, <2>2, LimitType, MemoryAssumption
  <2>4. \A p \in Blocks : p > pages' => p > pages
    BY <1>1, <2>1, LimitType, MemoryAssumption DEF Blocks
  <2>5. Beyond'
    BY <1>1, <1>2, <1>3, <2>4 DEF Beyond
  <2>6. QED
    BY <1>2, <1>4, <1>5, <1>6, <1>7, <2>1, <2>3, <2>5, Together
<1>10. QED
  BY <1>8, <1>9

-----------------------------------------------------------------------------
LEMMA InitMInv == MInit => MInv
<1> SUFFICES ASSUME MInit PROVE MInv
  OBVIOUS
<1>1. IInit /\ Init
  BY DEF MInit, IInit
<1>2. IInv /\ loaded = "no"
  BY <1>1, InitIInv DEF IInit
<1>3. \A g \in Goroutines, d \in Depths :
        buffer[g][d] = NoBuffers /\ frame[g][d] = NoFrame
  BY <1>1 DEF MInit, Init
<1>4. \A p \in Blocks \cup {Null} : heap[p] = <<"free">>
  BY DEF MInit
<1>5. MTypeOK
  <2>1. pages \in InitialPages .. Limit
    BY LimitType, MemoryAssumption DEF MInit
  <2>2. MaxMemoryBytes >= InitialPages * PageBytes =>
          pages * PageBytes <= MaxMemoryBytes
    BY DEF MInit
  <2>3. heap \in [Blocks \cup {Null} -> Contents]
    BY DEF MInit, Contents
  <2>4. buffer \in [Goroutines -> [Depths -> Buffers]]
    BY NoBuffersType DEF MInit
  <2>5. ITypeOK
    BY <1>2 DEF IInv
  <2>6. moving \in {NotMoving} \cup (BOOLEAN \X BOOLEAN)
    BY DEF MInit
  <2>7. QED
    BY <2>1, <2>2, <2>3, <2>4, <2>5, <2>6, MemoryAssumption DEF MTypeOK, MInit
<1>6. WritesSurviveGrowth /\ Growing
  BY DEF MInit, WritesSurviveGrowth, Growing
<1>7. Held
  BY <1>3 DEF Held, Has, NoBuffers, Blocks, None
<1>8. Owned /\ Beyond
  BY <1>4 DEF Owned, Beyond
<1>9. Empty
  BY <1>3 DEF Empty, NoBuffers, NoFrame, None, Null
<1>10. QED
  BY <1>2, <1>5, <1>6, <1>7, <1>8, <1>9 DEF MInv

LEMMA NextMInv == MInv /\ [MNext]_everything => MInv'
<1> SUFFICES ASSUME MInv, [MNext]_everything PROVE MInv'
  OBVIOUS
<1>1. IInv'
  BY StepOfInterrupt, NextIInv DEF MInv
<1>2. CASE UNCHANGED everything \/ (QueueRelease /\ UNCHANGED ivars /\ UNCHANGED memVars)
  <2>1. /\ UNCHANGED memVars /\ frame' = frame /\ depth' = depth
        /\ loaded' = loaded /\ staged' = staged /\ bit' = bit
    BY <1>2 DEF everything, memVars, QueueRelease, ivars
  <2>2. loaded' = "no"
    BY <2>1 DEF MInv
  <2>3. QED
    BY <1>1, <2>1, <2>2, SameFrames
<1>3. ASSUME NEW g \in Goroutines, UNCHANGED memVars,
             \/ StartOp(g) \/ Quit(g)
             \/ (Drain(g) \/ BeginClose(g) \/ HandlerReturn(g)) /\ UNCHANGED ivars
             \/ \E d \in Depths : CancelContext(g, d)
      PROVE  MInv'
  BY <1>1, <1>3, AloneSteps
<1>4. ASSUME NEW g \in Goroutines,
             \/ MArmInterrupt(g) \/ MDisarmInterrupt(g) \/ AnswerNothing(g)
             \/ MPoll(g) \/ \E d \in Depths : MFireInterrupt(g, d)
      PROVE  MInv'
  <2>1. UNCHANGED memVars
    BY <1>4 DEF MArmInterrupt, MDisarmInterrupt, AnswerNothing, MPoll,
       MFireInterrupt
  <2>2. QED
    BY <1>1, <1>4, <2>1, AloneSteps
<1>5. ASSUME NEW g \in Goroutines,
             \/ MLock(g) \/ Answer(g) \/ Respond(g) \/ MCallback(g)
             \/ ReadAnswer(g) \/ MFinishOp(g) \/ MReturnOther(g)
             \/ BeginGrow(g) \/ EndGrow(g)
      PROVE  MInv'
  BY <1>1, <1>5, LockStep, AnswerStep, RespondStep, CallbackStep,
     ReadAnswerStep, FinishStep, GrowStep
<1>6. QED
  BY <1>2, <1>3, <1>4, <1>5 DEF MNext, HostStepAlone

LEMMA MemoryInv == MSpec => []MInv
BY InitMInv, NextMInv, PTL DEF MSpec

(* The memory and its buffers take nothing from the behaviours of Interrupt*)
(* and add none: what is proved of module Interrupt, and of Invoke, holds  *)
(* with a memory that grows.                                               *)
THEOREM MemoryInterrupts == MSpec => ISpec
<1>1. MInit => IInit
  BY DEF MInit
<1>2. MInv /\ [MNext]_everything => [INext]_allVars
  BY StepOfInterrupt
<1>3. QED
  BY <1>1, <1>2, MemoryInv, PTL DEF MSpec, ISpec

(* A memory that has a limit stays within it, to the byte, whatever the    *)
(* page size, the limit and the initial memory.                            *)
THEOREM MemoryTypes == MSpec => []MTypeOK
<1>1. MInv => MTypeOK
  BY DEF MInv
<1>2. QED
  BY <1>1, MemoryInv, PTL

(* "So the bit lands in the array the guest observes": no write of arm,    *)
(* fire or disarm is lost to a memory that is growing.                     *)
THEOREM WritesSurvive == MSpec => []WritesSurviveGrowth
<1>1. MInv => WritesSurviveGrowth
  BY DEF MInv
<1>2. QED
  BY <1>1, MemoryInv, PTL

(* No request, answer or response is overwritten while an operation deals  *)
(* with it, in a memory of any size and with any number of goroutines      *)
(* nested to any depth.                                                    *)
THEOREM BuffersStayIntact == MSpec => []BuffersIntact
<1>1. MInv => BuffersIntact
  <2> SUFFICES ASSUME MInv, NEW g \in Goroutines, NEW d \in Depths
               PROVE  LET own == buffer[g][d]
                      IN  /\ own.req \notin {None, Null} =>
                               heap[own.req] = <<g, d, "req">>
                          /\ own.answer \notin {None, Null} =>
                               heap[own.answer] = <<g, d, "answer">>
                          /\ own.resp # None =>
                               heap[own.resp] = <<g, d, "resp">>
    BY DEF BuffersIntact
  <2>1. buffer[g][d] \in Buffers /\ buffer[g][d].resp # Null
    BY DEF MInv, MTypeOK, Empty
  <2>2. \A use \in Uses, p \in Blocks :
          Has(g, d, use, p) => heap[p] = <<g, d, use>>
    BY DEF MInv, Held
  <2>3. QED
    BY <2>1, <2>2 DEF Buffers, Addresses, Has, Uses
<1>2. QED
  BY <1>1, MemoryInv, PTL

(* "Free reqPtr unconditionally on return so the request buffer never      *)
(* lingers in wasm memory when the call traps": the blocks in use belong   *)
(* to operations that are in the guest, but for what a trap lost.          *)
THEOREM NoBufferLeaks == MSpec => []NothingLeaked
<1>1. MInv => NothingLeaked
  <2> SUFFICES ASSUME MInv, NEW p \in Blocks,
                      heap[p] \notin {<<"free">>, <<"lost">>}
               PROVE  \E g \in Goroutines : \E d \in Depths :
                        /\ Entered(frame[g][d])
                        /\ p \in {buffer[g][d].req, buffer[g][d].answer,
                                  buffer[g][d].resp}
    BY DEF NothingLeaked
  <2>1. PICK g \in Goroutines, d \in Depths, use \in Uses : Has(g, d, use, p)
    BY DEF MInv, Owned
  <2>2. p \in {buffer[g][d].req, buffer[g][d].answer, buffer[g][d].resp}
    BY <2>1 DEF Has
  <2>3. p # None
    BY DEF Blocks, None
  <2>4. Entered(frame[g][d])
    BY <2>2, <2>3 DEF MInv, Empty, NoBuffers
  <2>5. QED
    BY <2>2, <2>4
<1>2. QED
  BY <1>1, MemoryInv, PTL

(* With the memory, too, no interrupt is left staged or set: none of the   *)
(* words is lost or brought back by a growth.                              *)
THEOREM NothingStaysInMemory == MSpec => []NothingLingers
<1> DEFINE Inv == MInv /\ StagedByArmed /\ BitByFired
<1>1. MInit => Inv
  BY InitMInv, InitIInv DEF MInit
<1>2. Inv /\ [MNext]_everything => Inv'
  <2> SUFFICES ASSUME Inv, [MNext]_everything PROVE Inv'
    OBVIOUS
  <2>1. MInv' /\ [INext]_allVars /\ IInv /\ loaded = "no"
    BY NextMInv, StepOfInterrupt DEF MInv
  <2>2. StagedByArmed' /\ BitByFired'
    BY <2>1, StagedStep, BitStep
  <2>3. QED
    BY <2>1, <2>2
<1>3. Inv => NothingLingers
  BY DEF StagedByArmed, BitByFired, Armed, Fired, NothingLingers
<1>4. QED
  BY <1>1, <1>2, <1>3, PTL DEF MSpec
=============================================================================
