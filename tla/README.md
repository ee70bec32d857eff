# Verifying go-python's host side in TLA+

go-python embeds a CPython interpreter, transpiled to Go, in a Go program. The
interpreter is single-threaded; the Go side around it is not. This directory
models that Go side: how goroutines enter the interpreter, how Python code calls
back into Go, where the bytes that cross are kept, how a context cancels running
Python code, how the pins on Python objects are counted, what Close does to all
of it, how requests and answers are laid out and read, and how scripts are run.
TLC checks the models on small instances; TLAPS proves every safety invariant
and action property that a passing run checks, but one about deadlock, for every number of
goroutines, objects, functions and files, every depth of nesting, every message
and every size of a byte and a word.

Run `tlc -config X.cfg M` for a run `X` of module `M` (the table below pairs
them) and `tlapm M.tla` for a proof module.

## 1. The system

| Component (source) | State | Operations | Meets |
|---|---|---|---|
| Module (`internal/python.go`) | `mu`, `cbMu`, `callbacks`, `nextCBID`, linear memory | `invoke`, `handleCallback`, `Register/UnregisterCallback` | every other component enters the guest through it |
| Instance operations (`internal/instance.go`) | `closed`, `pendingRel`, the interpreter handle `h` | `valueOp` and its 30 operations, `drainReleases`, `QueueRelease`, `Close` | Module, Interrupt, the finalizers |
| Cancellation (`internal/instance.go`) | the guest's `async_exc` slot and breaker bit, a watchdog goroutine per call | `armInterrupt`, `fireInterrupt`, `disarm`, `clearInterrupt` | `context.Context`, CPython's eval breaker |
| Handles (`object.go`) | `objectHandle.released`, one pin in the guest's registry per handle | the object protocol, the finalizer | instance operations, wire codec |
| Function bridge (`bridge.go`, `internal/dispatch.go`) | `funcs`, `nextFuncID`, `dispatcherSet`, the callback table | `NewFunction`, `Bind`, `EnsureDispatcher`, `handleUserCallback` | Module, wire codec |
| Value wire codec (`wire.go`), value model (`value.go`) | none | `encodeValue`, `decodeNode`, envelopes, `ValueOf` | handles: every object node read makes one |
| Protobuf codec (`internal/python.go`) | none | varints, tags, fields | every request and response |
| Boot (`internal/instance.go`, `config.go`) | module, WASI stubs, memory limit | `New`, `buildWASI`, `boot` | Module |
| Scripts (`python.go`) | the guest's `sys.path`, its stdio buffers | `RunFile`, `FlushStdio`, `AddPath`, `Eval`, `Import` | instance operations |
| Embedded library (`fs/`) | two `sync.Once`s and what they made | `ExtractStdlib`, `loadStdlibEntries`, `NewStdlibMemFS` | boot |
| Command line (`cli/`, `exit.go`) | none | `Run`, `parseArgs`, exit codes | scripts |
| Generated wrappers (`internal/python.go`) | the process-global Module | `Py*` functions | nothing calls them; they spell out the guest's side of a request |

What is hard, and what makes each part correct:

* **Entering the guest.** `m.mu` is held for a guest call and given up in the
  middle of it, while a bound Go function runs. Correct: guest code runs only
  under `m.mu`; a call that calls out sees its part of the C stack untouched
  when it resumes; a trap gives the stack back; nobody waits for ever.
* **Linear memory.** Requests, responses and answers of Go functions are bytes in
  a memory that may move when it grows, and may be at its limit. Correct: a
  buffer keeps its bytes as long as it is needed and is given back on every way
  out, and what a watchdog writes is not lost to a growth.
* **Close.** It may come at any time from any goroutine. Correct: the runtime is
  finalized once, and nothing enters it afterwards.
* **Cancellation.** One exception slot and one bit serve all operations, and the
  watchdog fires without the lock. Correct: a cancelled call stops and reports
  the context's error, no other call is interrupted, nothing lingers.
* **Handles.** The Go collector decides when a wrapper dies, on its own
  goroutine. Correct: an object a Go wrapper stands for is alive in the guest; a
  pin is released once; a release is not lost while the instance lives.
* **Function bridge.** A registration is a sequence of steps on both sides, any
  of which may fail, and races with others. Correct: an id the guest holds is
  always bound to the function it was made for, one dispatcher is registered.
* **Requests.** Entry points, fields and decoders are written by hand against
  generated code. Correct: the export that is entered takes what the operation
  was given, and answers in the form that is decoded.
* **Codecs.** Integer widths and lengths at their boundaries. Correct: what is
  encoded decodes to itself, a short buffer is an error and never a wrong value.
* **Scripts and the command line.** A failed step must not swallow the output
  or the exit code of the one before.
* **Library.** It is made once for all instances of the process. Correct: no
  interpreter starts on a part of it, whoever fails where.

PROJECT.json lists the hazards line by line with the properties aimed at them.

## 2. The modules

| Module | Models | EXTENDS / INSTANCE |
|---|---|---|
| `CallStack` | abstract: one C stack, activations leave it last-in first-out | |
| `Invoke` | `invoke`, `handleCallback`, `valueOp`, `drainReleases`, `Close` | INSTANCE CallStack |
| `Interrupt` | Invoke with contexts, watchdogs and the guest's poll | EXTENDS Invoke |
| `Memory` | Interrupt with the linear memory: buffers, growth, the limit | EXTENDS Interrupt |
| `Handles` | Invoke with objects: pins, wrappers, finalizers, the release queue | EXTENDS Invoke |
| `Dispatch` | `EnsureDispatcher`, `NewFunction`, `Bind`, `handleUserCallback` | |
| `Protobuf` | varints, tags, fields, `pbReader` | |
| `Wire` | `encodeValue`, lists, `nodeReader`, `decodeNode`, `ValueOf` | EXTENDS Protobuf |
| `Requests` | the requests of all operations, their decoders, `As`; the exports of the guest | EXTENDS Wire |
| `Codec` | an operation's request and its answer: the guest's reading, `pbExtractError`, `readScalarAtField`, every `decodeXResult`; the arguments of a Go function | EXTENDS Requests |
| `Script` | `RunFile`, `FlushStdio`, `AddPath`, `cli.Run`, `ExtractStdlib`, `NewStdlibMemFS`, `New` | |
| `InvokeProofs` | Invoke: type correctness, mutual exclusion, Close, the stack discipline and the refinement | EXTENDS Invoke, TLAPS |
| `InterruptProofs` | Interrupt refines Invoke; no interrupt lingers or strays, outcomes are honest | EXTENDS Interrupt, InvokeProofs |
| `MemoryProofs` | Memory refines Interrupt; the limit, the watchdog's writes, the buffers | EXTENDS Memory, InterruptProofs |
| `HandlesProofs` | Handles refines Invoke; places of a handle, pins, resolving | EXTENDS Handles, InvokeProofs |
| `DispatchProofs` | Dispatch: types, the lock, the tables, two action properties, no lock cycle | EXTENDS Dispatch, TLAPS |
| `WireProofs` | Wire, Protobuf, Requests: decoding of any bytes, of bytes that are cut short, and of what was encoded; the layout of requests | EXTENDS Requests, TLAPS |
| `CodecProofs` | Codec: requests are understood, whole answers exact, cut ones told, readers in bounds | EXTENDS Codec, WireProofs |
| `ScriptProofs` | Script: outcome, library, what a script sees, output and exit code | EXTENDS Script, TLAPS |
| `MCInvoke`, `MCInterrupt`, `MCMemory`, `MCHandles`, `MCDispatch`, `MCCodec`, `MCScript` | sets of goroutines, handles, objects and messages for TLC | EXTENDS the above |

### CallStack

What the comment on `Module` (internal/python.go:489-506) promises, with no
goroutines or mutexes in it: `Enter`, `CallOut`, `Resume`, `Leave` on a stack of
activations. `Resume` is enabled for the topmost activation only; that is
"exits before the outer call resumes".

### Invoke

`frame[g][d]` is what the d-th nested operation of goroutine g does. Its `at`
walks through the code: `queue` (about to call `drainReleases`), `arm`, `wait`
(in `m.mu.Lock()`), `guest`, `handler` (in a bound Go function), `relock` (in
the deferred `m.mu.Lock()` of `handleCallback`), `disarm`. Its `call` says which
guest call it is concerned with, since `drainReleases` makes one of its own
before the operation's. `base` is where its activation found the C stack
pointer `sp`.

| Action | Code |
|---|---|
| `BeginOp` | `valueOp` up to and including the closed check |
| `Drain` | `drainReleases`, first half: take the queue, look at `closed` again |
| `Arm`, `Disarm` | the call of `armInterrupt`, of `disarm`, and the return |
| `BeginClose` | `Close`: the compare-and-swap on `closed` |
| `Lock` | `m.mu.Lock()` of `invoke`, request copied, guest entered |
| `Callback`, `HandlerReturn`, `Relock` | `handleCallback`: unlock, the function returns or panics, the deferred lock |
| `ReturnDrain`, `ReturnOp`, `ReturnClose` | the guest call returns or traps, the deferred unlock of `invoke` |
| `QueueRelease` | a finalizer |

A bound Go function is any sequence of operations (`BeginOp` when the innermost
operation is in `handler`). A trap and a return are one step: the generated
entry points restore the wasm globals on either path ("call is the trap-safe
per-export entry point", internal/python.go:647-650). The bytes that `invoke`
copies are left to Memory: nothing of the control depends on them.

### Interrupt

Adds the guest's `async_exc` slot (`staged`), the breaker bit (`bit`), and for
each operation its context, watchdog and answer (`intr[g][d]`). `FireInterrupt`
runs at any time without `m.mu`. `Poll` is CPython's back-edge: clear the bit,
empty the slot, raise what it held; it is external code, modelled from the
comments at internal/instance.go:610-682. `LoadBreaker`/`StoreBreaker` are the guest's own
unsynchronised read-modify-write of the breaker word, on when
`GuestWritesBreaker` is TRUE; `erased` records that one has overwritten a bit
just set. In that case a cancellation is lost, which `CancelledReturns` admits
explicitly; the comment at internal/instance.go:657-661 argues that this is as
strong as CPython's own signalling.

### Memory

`heap[p]` says what the block at p holds; a block of the model is a page, so that
each allocation may have to grow the memory. `buffer[g][d]` is what an operation
deals with: the request of `invoke`, the answer of a Go function that the guest
has not read yet, the guest's response. `MLock` is `Lock` with the allocation and
the copy of the request, `Answer` is `Relock` with `encodeCallbackResult`, and
`Leave` is the way out of `invoke`, which copies the response and frees both,
after a trap the request alone. `mem` is the size of the memory when
`handleCallback` took its slice: a write through a slice that is older than the
last growth goes to an array the guest has left, and `Stored` puts `junk` where
the guest looks.

The allocator is external: the lowest free block, a new page, or address 0 when
the memory is at `Limit`. The code copies the request to address 0 then, and
so does `MLock`; what is there afterwards is nobody's, and the properties leave
that address out.

`BeginGrow` and `EndGrow` are `memory.grow` with the copy to the new array
between them (`moving`). The comment on `fireInterrupt` says that
`base.AccessMemory` takes the same lock: `MFireInterrupt`, `MArmInterrupt` and
`MDisarmInterrupt` wait for `moving` to be over. A guest call that is in the middle of a
growth does nothing else, and between a Go function's answer and its reading
neither grows nor calls.

### Handles

A handle is one pin from the object node that made it to its release. It goes
through `work[g][d].nodes` (encoded, not decoded yet), `wrapped` (a reachable
`objectHandle`), `garbage` (unreachable), `pendingRel`, `work[g][d].taken`
(taken by a drain) and is then free again, or ends in `lost`. `pins` is the
guest's own count.

| Action | Code |
|---|---|
| `Drop`, `Finalize` | the collector, and the finalizer of `newObjectHandle` with `QueueRelease` |
| `StartOp` | a method of `object`: the ids of receiver and arguments are read into the request, `valueOp` begins |
| `TakeReleases`, `Release`, `EndDrain` | `drainReleases` and the guest's `py_release` |
| `LookUp` | the guest is entered, or resumed with a Go function's answer, and dereferences the ids |
| `Pin`, `Decode` | the guest encodes an object node; `decodeNode` wraps it |
| `Answer` | `handleUserCallback` encodes the result, or `callbackRaised` the exception |
| `EndOp`, `Finish`, `EndClose` | the call returns or traps; `valueOp` returns; `py_close` |

The registry is external. That a release of an object without pins is ignored
is assumed for one case, a straggler's drain after `py_close`; before Close no
release finds the count at 0 (`PinsBalance`). `lost` keeps count of the pins
that nobody will release, which is what a trap in the release call and a drain
on a closed instance leave: the balance holds with them, not without.

### Dispatch

A module of its own, not an extension of Invoke: it needs the two mutexes and
the tables, not the C stack or Close's call. `frame[g][d]` is a task: a `Bind`,
which goes through `ensure` (at `dispMu.Lock()`), `set` (the guest call of
`EnsureDispatcher`, made with `dispMu` held), `table`, `new`, `import`, `attr`,
or the run of Python code (`eval`). The phases of a guest call are Invoke's.
`made` and `main` are the guest's side: which function an object with an id was
made for, and what the name is bound to. Any guest call may fail, before or
after it had its effect, and the rest of the task is then not done.
`EnsureDispatcher` calls `invoke` itself, without draining or arming.

### Protobuf, Wire, Requests, Codec

Operators and functions on sequences of bytes; Codec is the state machine that
applies them to one operation's request and its answer. The sizes are parameters: `ByteSize` values of a
byte, `WordBytes` bytes of a uint64, `HalfBytes` of a uint32, `ShortBytes` of a
uint16. Numbers wrap at the size of their type. A float is the word that holds
its bits; a string is its bytes.

Requests has both sides of the boundary. The host's is written by hand:
`Entry` is the number in the `Inv_0_N` that an operation calls, `Request` the
fields it writes, `Decoder` the decoder its caller uses, `As` the type that is
then asked for. The guest's is generated from its header: `Exports` are the
wrappers of internal/python.go in the order of their numbers, each with the
fields it takes and the kind of answer its comment names.
internal/methodids_test.go compares the `mid` constants with the wrappers; the
literal next to each constant, the fields and the decoders are compared by no
test. In Codec the guest takes from the bytes of the request what the export
entered has parameters for (`TakeParameter`), and answers as that export does: an
operation that enters another export, or lays out a field otherwise, is
misunderstood (`RequestsUnderstood`) or misread (`WholeExact`). Nodes inside a
request are bytes here; that nodes decode to the values they were made from is
checked on the answers and on the arguments of a Go function. Requests are not
cut short: the host itself writes them.

`at` walks through the request and the decoders: `request` is the guest's scan
over the fields, `error` and `field` are the host's two scans, of which `tag` is the
field `next` has returned; `envelope`
reads the status byte; `raised`, `exit`, `payload`, `nodes`, `output` are the
parts of an envelope; `keywords` and `pairs` are the second list of
`handleUserCallback`. `sent` is the message as values, `got` what has been
decoded of it. The guest's encoder is external and written from what the
decoders expect; an int may come in its long form even when it is small.

With `Short`, any suffix of the bytes may be missing. A `nodeReader` then sets
`fail`, but not every decoder asks. `CutShortTold` says that the flag is set
whenever something wrong was decoded, and that the decoders which ask (`Looked`)
decode nothing wrong. Outside those, a scalar or an exit code that is missing is
zero, and an empty answer is `ok` with no payload: `decodeNode` reports an error
for a missing tag, a string, a big int or a handle, not for a bool, an int, a
float or a complex.

### Script

`job[g]` is a goroutine in `cli.Run` (a Command) or one that uses the package
(an Embedder). `step` counts the calls of `RunFile`, `runCommand` or
`FlushStdio`, each an operation of the instance that may fail; `ended` is
`runErr`, `ret` what RunFile returns. `guest[g]` has what the calls change:
`sys.path`, `sys.argv`, and of the two streams what `sys` names in their place
(`Bindings`) and which of the interpreter's own buffers hold text. A script may
bind `sys.stdout` to None or to another object, whose flush succeeds (an
`io.StringIO`) or fails like any call, and back; the text that a replaced stream holds
stays in its buffer, past `FlushStep`, and perhaps reaches the host in `Close`.
Every call may fail with an exception, a failure of the host or a `SystemExit`
of any status (`Errors`): a flush runs code of the script too. `screen` is what has reached the host.
`library` has the two `sync.Once`s: that of `ExtractStdlib`, with the files
written so far to the directory all share, and that of `loadStdlibEntries`, with
the entries that all in-memory filesystems are copied from (none after a
failure). `fs[g]` is the filesystem of an instance: the host's, or one in memory
with the files that `NewStdlibMemFS` has copied so far (`CopyFile`). A Command
uses the host's files.
Each goroutine has its own instance: what happens inside one is the business
of the other modules.

## 3. The runs

| Run | Module | Result | Shows |
|---|---|---|---|
| `InvokeNested` | MCInvoke | pass | 3 goroutines, one calling Go functions, 3 deep, Close when idle: lock, stack, refinement of CallStack, Close |
| `InvokeShared` | MCInvoke | pass | 2 goroutines both in callbacks that call back: every operation returns |
| `InvokeInterleavedCallbacks` | MCInvoke | violation | with two goroutines in callbacks at once the outer call can resume over the inner one |
| `InvokeCloseStraggler` | MCInvoke | violation | an operation that passed its closed check waits while Close finalizes, then enters |
| `InterruptSerial` | MCInterrupt | pass | operations one at a time: a cancelled one returns, with the right error, and no later one is hit |
| `InterruptOverlap` | MCMemory | pass | overlapping and nested operations in a memory that grows and runs out: buffers intact and given back, no watchdog's write lost, nothing lingers |
| `InterruptNestedLost` | MCInterrupt | violation | a nested cancellable call empties the slot of the outer one, which can then not be cancelled |
| `HandlesBalance` | MCHandles | pass | callbacks, traps, Close at any moment, finalizers at any moment: pins balance, a handle is in one place, ids resolve |
| `HandlesCollected` | MCHandles | violation | the collector takes the receiver of an operation under way, whose own drain releases it |
| `DispatchBind` | MCDispatch | pass | 2 goroutines binding, calling and binding inside calls, guest calls failing: a call reaches its function, one dispatcher, no lock cycle |
| `CodecAnswers` | MCCodec | pass | every operation's request, every kind of answer, whole and cut short anywhere, between other fields of known and unknown wire types: understood, exact, flagged, in bounds, and decoding ends |
| `ScriptRuns` | MCScript | pass | a command and an embedder, every call failing, cancelled runs, rebound streams: outcome, output of the streams that `sys` still names, exit code, a whole library on the host and in memory, and a command ends whoever extracts |

**Bounds.** `MaxDepth` limits the operations one goroutine has open at once,
`MaxStack` the activations before a new operation may begin. Three levels show a
callback inside a callback inside a call, where the relock order could first go
wrong; the stack bound is above what these goroutines can reach at that depth,
or small (liveness run) because each further level repeats the same lock
protocol. Three goroutines give an owner, a waiter in `invoke` and a waiter in
`handleCallback`. For unbounded values see the proofs. `Collects` turns the
finalizers on; it is off in the liveness run, where a drain is one more guest
call that behaves as the others do.

Three handles and two objects let one object have two pins while another is
released, and a finalizer queue two ids that two drains could fight for; handles
and objects are symmetric, goroutines are not (they have different roles).
`MaxBinds` is 3: one function bound, one half bound after a failure, and one
bound by another goroutine; two tasks deep is a Bind inside a Go function.

In `InterruptOverlap` the memory begins with one page of four bytes and its limit
is 11 bytes, which is two pages, so that it grows once and then has no room for a second
operation's request: every allocation succeeds, grows and fails in some
behaviour. Finalizers are off, whose release calls have buffers like any other
call's; with them the run has four million states and shows the same.

In `CodecAnswers` a byte has 16 values, the least for which a tag is a byte, a
uint64 two of them and a uint32 one. Two bytes are the least with a varint
longer than a byte, a high byte, and a word wider than a half. The messages hold
every operation with arguments whose bytes and numbers differ from field to
field, the numbers at both ends of every range and the first ones beyond, and lists and
keywords up to two long; the fields around the one looked for have every wire
type, and one that is unknown, which `skip` leaves to the next tag. All of it is
cut short at every byte. A length that is negative as an int is in no run: the
guest sends none, and what the code would do is in section 5. Since the code reads a length as it reads any number, longer texts add no
case.

`MaxRunsInMemory` is 1 in `ScriptRuns`: what a run leaves to the next does not
depend on the filesystem. The run has one Embedder, so that the second `Once` has
one caller at a time; the theorem `LibraryIsComplete` is about any number. In
`ScriptRuns` two files make an extraction that can stop half way, two runs
show what one leaves to the next, and `MaxInstances` is 1: instances share
nothing but the library, so that steps of two booted ones commute, while an
extraction still meets every state of the other goroutine. The
command waits in `Do` for an extraction of the Embedder that succeeds or fails,
or the other way round: `CommandsEnd` is checked of both cases.

**Conditions.** Two constants separate what the code gets right from what it
does not. `CallbackUsers` are the goroutines whose Python code calls Go
functions: with one of them the stack discipline holds, with two it does not
(`InvokeInterleavedCallbacks`). `CloseRaces` allows Close while operations are
open: without it nothing runs on a finalized runtime, with it a straggler does
(`InvokeCloseStraggler`). Likewise `Overlap` in Interrupt: an interrupt never
strays as long as operations are not open together. `KeepsAlive` of Handles is
the program's `runtime.KeepAlive`: with it every id resolves, without it not
(`HandlesCollected`). `Traps` and `Failures` let guest calls fail; the passing
runs have them on.

**Deadlock.** `InvokeNested` stops when the instance is closed,
`InterruptOverlap` when a lost cancellation leaves code running for ever, and
`HandlesBalance` when closed or out of handles, so they do not check deadlock.
`CodecAnswers` and `ScriptRuns` end when all is decoded or run. Neither does
`DispatchBind` check it, whose steps that only open new tasks would hide
one: `NoDeadlock` says instead that an open task can always go on. It is an
invariant and not a liveness property because two mutexes with three binds make
the behaviour graph too large for TLC's liveness checking in the time of a run.

**Fairness.** `Proceed` is strongly fair for each goroutine: a waiting goroutine
is handed a `sync.Mutex` in the end, because the mutex enters its starvation
mode after a millisecond of waiting, and the other steps of `Proceed` are local
and never disabled again. Guest calls and Go functions are assumed to return, one
condition per depth; strong, because what they do in between may call back in.
In Interrupt code that `loops` returns only when interrupted; its `Poll` is
strongly fair since a running loop passes a back-edge again and again, and the
watchdog goroutine is weakly fair. No fairness is assumed of `BeginOp`,
`BeginClose`, `CancelContext`, `QueueRelease` or `Callback`. Codec is one
goroutine that waits for nothing: weak fairness of `Next`. In Script each
goroutine's next step is weakly fair: it is disabled only while another is inside
`Do`, or has the one instance of `MaxInstances` (a bound, not of the code), and
then for as long as that takes; scripts are assumed to end.

## 4. The proofs

The theorems hold for any set of goroutines, any depth and any other bound. They
use the assumptions that the modules name, which TLC evaluates in every run: the
owner of a free mutex is no goroutine, roles are sets of goroutines, bounds are
naturals, there is a directory, the sets of handles and objects are what their
module says. No theorem takes a further hypothesis, but for the conditions of
section 3 where its statement says so (`ASSUME ~CloseRaces PROVE ...`); each of
those is there because without it a run ends in a violation or TLC finds one.

* `InvokeProofs!TypeCorrect`, `InvokeProofs!MutualExclusion`. `GuestOwnsLock`
  alone is not inductive: that a goroutine's innermost operation is the one in
  the guest needs `Nested`, that every operation but the innermost is in a Go
  function and that nothing lies above the innermost. `LockInv` is the three
  together.
* `InvokeProofs!ClosedOnce`, `ClosedQuietly`. `CloseFrames` says that an open
  `py_close` implies `closed`, and that it is the only one: the compare-and-swap
  can succeed once. `RunsLive` needs more, and a condition: `Alone` says that
  with `closed` set every open operation is that Close, which only holds if Close
  is not called over open operations (`~CloseRaces`); the run
  `InvokeCloseStraggler` shows the other case.
* `InvokeProofs!LastInFirstOut`, `StackReturned`, `FramesApart`, `Refinement`,
  under the condition `OneCaller`: at most one goroutine calls Go functions.
  `InnermostRuns` says nothing of suspended activations, so a pop could reveal
  anything. `StackInv` says where every activation lies: the d-th operation of
  the calling goroutine at position d - 1 (`BaseIsDepth`), the stack as high as
  that goroutine is deep plus one for a visitor in the guest (`StackHeight`), and
  a visitor, which calls nothing, never suspended (`VisitorsFlat`) and on top
  (`VisitorOnTop`). The condition is exactly the one whose absence
  `InvokeInterleavedCallbacks` refutes.
* `InterruptProofs!InterruptsInvoke`: every step of Interrupt is a step of
  Invoke or leaves its variables alone, so `LockInv` and `CloseInv` come for
  free. `IInv` adds what is known of an operation's context and watchdog from
  where the operation stands (`Fits`: no watchdog before arming or after
  disarming, one that fired has seen its context done) and that whoever has
  loaded the breaker is in the guest (`Loading`).
* `InterruptProofs!NothingStaysSet`. `NothingLingers` is about the moment when
  nothing is armed; the invariants say who answers for what is set:
  a staged exception has an armed watchdog, a set bit a fired one
  (`StagedByArmed`, `BitByFired`). The second breaks when one call's disarm
  clears the bit between the load and the store of another call's guest code,
  which puts it back; hence the proviso that the guest does not write the
  breaker or that operations do not overlap.
* `InterruptProofs!InterruptsInside`, `NoneAstray`, `OutcomesHonest`. With
  operations of one goroutine at a time (`Solo`, which is inductive when
  `Overlap` and `CloseRaces` are FALSE) a bit that is set was set by a watchdog
  of that goroutine; so an interrupt hits an operation whose watchdog fired or
  one nested in it (`InterruptsMeant`), and without nesting that operation itself.
* `MemoryProofs`. `MemoryInterrupts` is the refinement of Interrupt. `MInv` says
  of each block who deals with it: what an operation deals with is marked as its
  own (`Held`), every block in use is some operation's (`Owned`), what lies
  beyond the memory is free (`Beyond`), an operation outside the guest has no
  buffer, one in a Go function no answer and no response (`Empty`), and while the
  memory moves, somebody is in the guest and the limit is not reached
  (`Growing`). `Held` alone is not inductive: an allocation must not hand out a
  block in use, which takes `Owned` for the block's mark and `Beyond` for new
  pages. Theorems: `MemoryTypes`, `WritesSurvive`, `BuffersStayIntact`,
  `NoBufferLeaks`, `NothingStaysInMemory`. Memory's guest code does not write the
  breaker, so the last needs no proviso.
* `HandlesProofs`. `HandlesInvoke` is the refinement of Invoke. `OnePlace` counts
  the places of a handle; the proof says it handle by handle (`InUse`: a handle
  has an object exactly when it is somewhere; `Apart`: no handle is in two
  places, and no two operations move the same one), with what an operation may
  be moving from where it stands (`Fits`). `PinsBalance` then is a count of a
  set that each step changes by one element or not at all. `IdsResolve` needs that the
  program can name what the guest is still to look up (`Reachable`), which is
  what `KeepsAlive` provides.
* `DispatchProofs`. The stages of a Bind carry what the earlier ones established
  (`Tasks`): a task past the registration finds a dispatcher, one that creates
  the function object finds its id in the table. `Tables` says the same of the
  tables once the task is over. `Distinct` and `Counted` bound the ids handed out
  by the functions asked for, so that every id has its place. `RegisteredOnce`
  needs `Unregistered`: no registration is under way when one has succeeded, or
  it would come back late and change the dispatcher; that is the work of
  `dispMu` (`DispatcherLock`). `FunctionsStay` needs that the place
  `NewFunction` fills was empty.
* `DispatchProofs!SomeoneGoesOn` is what `NoDeadlock` says, with the guards of
  the steps (`CanGoOn`) in the place of ENABLED, which the prover cannot expand.
  `LocksInv` adds to the invariant who holds `Module.mu` (`GuestLock`, the theorem
  `OneInGuest`) and that everything below the innermost task is in a Go function
  (`Waits`). The argument: the holder of `Module.mu` is in the guest and needs no
  mutex to leave it; if there is none and `dispMu` is held, its holder's task at
  `set` is its innermost one and can take `Module.mu`; if both are free, every
  task can go on.
* `ScriptProofs!CallerIsTold`. `OutcomeTold` speaks of the moment when RunFile
  returns, but what it returns was decided several calls before. `Told` adds what
  is known on the way: no outcome and no flush up to the end of the script, an
  outcome and no flush while `FlushStdio` runs. A lemma per group of steps shows
  that the step's new job has its type and is `Told`; the other goroutines' jobs
  stay.
* `ScriptProofs!LibraryIsComplete`. `LibraryInv` adds to `LibraryComplete` that
  the one goroutine inside a `sync.Once` is alone there and the Once busy
  (`OneExtracts`), that a Once is ready only with all files (`ReadyComplete`),
  and that a goroutine past it, at any later point of its run, or with an
  interpreter, found its Once ready or has a filesystem with all files
  (`ReadyWhenPast`). A ready Once is never begun again, so no file is written
  under a running interpreter.

* The other theorems of `ScriptProofs`. `RunsInv` says of each goroutine what
  its job tells of its interpreter: from which step of the setup on `sys.argv`
  and the head of `sys.path` are this run's (`Given`), which buffers are empty
  from which step of the flush on (`Seen`), that nothing is reported before
  `Report` and nothing delivered after it if the flush went well (`Shown`), and
  that the code is the outcome's (`Coded`). `FlushedMeansSeen` and
  `CodeTellsOutcome` speak of the end of these chains. `ReportLast` rests on
  `Seen`: Close delivers nothing because nothing is left in a buffer. What the
  statements leave out: `FlushedMeansSeen` and `ReportLast` say nothing of a stream
  that the script has replaced (section 5), and
  `CodeTellsOutcome` lets the code be 0 when what is reported is a
  `SystemExit(0)`, also one of a flush after a script that went well (section 5).
  A script that failed has code 1, and one that exits its own status, whatever a
  flush raises after it. `ScriptTypes` collects the types of all variables: those
  of the jobs are `JobsTyped` with `Numbers`, which bounds a step by the calls of
  the setup or of the flush, those of guest and screen `RunsTyped`, the rest
  `LibraryTyped`. A guest's `sys.path` is a list of directories when one is
  inserted since `AddPath` has looked two calls before (`Given`).

* `WireProofs`. `DecodingIsTotal` and `CutShortIsTold` are about `DecodeNode` and
  hold for any bytes, not only those an encoder wrote. `NodeSize` says how many
  bytes the node at hand takes, by its tag and its length field; what is left is
  always `Past` of that. In two readers of which one has only the first bytes of
  the other (`Continues`), a part that is there is the same in both, first the
  number that gives a length and then the text of that length; so if the shorter
  one does not fail, size, value and place agree (`SameNode`). Since the two
  readers are again such a pair, the statement goes on to any number of nodes,
  one after the other. That the little-endian number of some bytes is a natural
  number is an induction over them (`FromLittleEndian` is a fold); it is done
  without an induction theorem, from the least counterexample (`LeastOf`), once
  for the existence of the recursive function and once for its values.

* `WireProofs!VarintComesBack` and `NodesComeBack`: what is written is read, and the
  reader stops where it ends. Both are inductions over recursive functions,
  which a prover without induction has to be led to: that a recursive function
  exists is proved once for a recursion on any size (`RecursionExists`), and that
  all numbers have a property from the least one that has not (`AllNumbers`). From
  these come the laws of `Power`, that the digits of a number of a width make the
  number (`LittleEndian`, `Magnitude`), and that the groups of a varint do. A
  statement about a reader that may have been given the first bytes only
  (`ReadsAs`: read exactly if they are there, else `fail`) composes: of nodes,
  texts and fields one after the other.
* `CodecProofs`. `CodecInvariant` proves `IInv`, which has a conjunct for each
  part of `at`. `RequestInv`: the request consists of the fields that the export
  has parameters for, up to some of which the guest has read, and what it has
  taken are their values. `FieldInv`: the answer is the guest's field with others
  around it or the first bytes of that, and the scan is before one of the
  fields or behind the last. `NodeInv`: the bytes are the guest's envelope or the
  first of them, and unless the reader has failed, `got` is what the
  bytes before its position were written for, while what is still to be
  decoded lies ahead (`OnTrack`; one track for each of the envelope's parts).
  `DoneInv` and `TakenInv` keep what was reached. The runs' properties speak of
  the end only (`WholeExact`, `CutShortTold`) or of what the guest has taken when
  it is done (`RequestsUnderstood`); none is inductive without the tracks.
  There is a lemma for each action. `FullShape` and its like say how an envelope is
  made of parts, `WantIs` which decoder an operation has.
  `WireProofs!RequestIsLaid` goes through the ways in which the thirty-odd
  operations lay a request out, against the parameters of the export they name
  (`TablesOfRows` looks them up).
  What the theorems ask of the messages is `IsSent` of Codec: numbers in the
  range of their Go type, a text, a list or an integer no longer than its
  length field can count, an answer of the form that the export's comment names,
  and in all less than the half of a word's range, which is what an int can
  count. Longer ones do not fit in a linear memory of 32 bits. `IsField` is what may
  surround the guest's field: any field of another number below 15 that is
  complete, or a lone tag of an unknown wire type. No length is negative in such
  a message. Nothing is asked of where the bytes end. TLC evaluates
  these assumptions on the messages of `CodecAnswers`; `IInv` itself it cannot
  evaluate, since `RequestInv` speaks of any values and places.

Only model-checked: liveness (`OperationsReturn`, `CancelledReturns`,
`DecodingEnds`, `CommandsEnd`), which is out of the prover's reach, and
`NoDeadlock` of Dispatch as it stands, because of its ENABLED; `SomeoneGoesOn`
proves it with the guards.

## 5. Where code and comments differ

Runs that end in a violation, each a counterexample of a sentence in the code:

1. `InvokeInterleavedCallbacks`: "exits before the outer call resumes"
   (internal/python.go:501-506) is not so for two goroutines in callbacks.
2. `InvokeCloseStraggler`: "errors out instead of calling into a finalized
   runtime" (internal/instance.go:161-163) is not so for an operation that waits
   for the mutex while Close runs.
3. `InterruptNestedLost`: cancelling stops the running code (python.go:96-99),
   unless a nested cancellable call has emptied the slot.
4. `HandlesCollected`: "Passing it back dereferences to THE SAME object"
   (bridge.go:9-11) is not so when the program's last use of the wrapper is the
   operation itself: nothing keeps it reachable after its id was read
   (object.go:130), and the operation's own drain (internal/instance.go:395) may
   release the pin.

Met while modelling, without a run: "Flush now so the caller sees everything the
script printed when RunFile returns" (python.go:142-144) is not so of a script that
prints and then binds `sys.stdout` to None or to an object such as an
`io.StringIO`, since `FlushStdio` looks at what `sys` names by then: it skips the one
(python.go:166-169) and calls the flush of the other, which succeeds, and RunFile
returns nil while the text stays in the buffer of the stream that was replaced
(Script has these behaviours; `FlushedMeansSeen` and `ReportLast` leave such a
stream out); the same sentence is not so of a script that was cancelled, since the
flush is made under the same context and fails at its first call, nor of stderr when
the flush of stdout fails (both properties exclude it by `flushed`); if the script
goes well and a stream it has rebound raises `SystemExit(0)` in its flush, `FlushStdio` returns `ExitError{0}`
(wire.go:377-378), RunFile returns that (python.go:145) and the command exits with
0 (cli/cli.go:158), its output not flushed; a script that calls `sys.exit(0)` and
whose flush fails exits with 0 as well, as its own outcome is the one that is told
(`CodeTellsOutcome` admits both by `ret = "exit0"`); a length of 2^63 or more is
negative as an int: `pbReader.skip` then moves back, perhaps to the same tag
for ever, and `readBytes` makes a slice of negative length (internal/python.go:250-259,
311-326). "Any overrun flips fail so decoding is total" (wire.go:199-200) is of the
other reader, and the guest sends no such length, so `DecodingEnds` and `ReaderInBounds` are
stated for what it does send; an interrupt fired while its own operation
waits for the mutex is raised in the operation that holds it (the reason for
`Overlap` = FALSE in `InterruptSerial`); an exception of the Python code is
dropped in favour of `ctx.Err()` when the context ends between the exception and
the disarm (`OutcomeHonest` excludes it); a scalar that is
missing at the end of an answer decodes to zero (`CutShortTold` asks of it only
that the flag is up); when the guest's allocator returns 0 the request is copied
to address 0 of the linear memory, on top of another one's if that is there.

## 6. Plan

All modules of section 2 are written and the proofs of section 4 are complete.
A change of the code shows up here in this order: the map of PROJECT.json names
the definition, the run of its module tells whether a property breaks, and the
lemma of its action, in the proof module, whether the argument still holds. What would
be worth adding next is the value model beyond the codec (the accessors of
`value.go`) and the `MemFS` of the base package, once its source is part of the
repository.

## 7. Not modelled

* CPython itself and the transpiled code: external, modelled from how `src/`
  uses them.
* The WASI capability hooks of `buildWASI` (a hook that is nil is refused by the
  stubs; one that is set forwards to it) and the options of `config.go`: each
  copies a field, in no order that matters.
* `MemFS` (of the wasm2go base package, outside `src/`) and `hostFS`, which
  forwards to `os`.
* The process-global Module of the generated `Py*` wrappers and
  `resolveTypeName`, which nothing in the package calls; the wrappers themselves
  are the guest's side in Requests.
* The `MemoryError` that the guest raises at the limit: the host sees it as it
  sees any exception (`raised` of Codec).
* Memory of the host: the count of a node list is trusted for an allocation
  (wire.go:424).
