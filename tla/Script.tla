-------------------------------- MODULE Script --------------------------------
(***************************************************************************)
(* Running scripts: RunFile and FlushStdio (src/python.go:109-202), the    *)
(* python command around them (src/cli/cli.go), which may run several      *)
(* times at once in one process, the standard library they share           *)
(* (src/fs/stdlib.go:38-159) and the start of an instance                  *)
(* (src/python.go:48-88, src/internal/instance.go:205-340).                *)
(*                                                                         *)
(* Every goroutine has an instance of its own.  A Command is a call of     *)
(* cli.Run, on the host's files; an Embedder runs several files in one     *)
(* instance, each under a context that may be cancelled, on the host's     *)
(* files or on a filesystem in memory that New makes for it.               *)
(***************************************************************************)
EXTENDS Integers, SequencesExt, FiniteSetsExt

CONSTANTS
  Commands, Embedders,  \* goroutines
  Dirs,                 \* where scripts are
  Files,                \* files of the standard library
  MaxRuns,              \* bound: scripts that an Embedder runs
  MaxRunsInMemory,      \* the same bound on a filesystem in memory
  MaxInstances          \* bound: goroutines that have an instance at once

ASSUME RolesAssumption == Commands \cap Embedders = {}
ASSUME DirsAssumption == Dirs # {}
ASSUME BoundsAssumption ==
  /\ Files \in Nat /\ MaxRuns \in Nat \ {0} /\ MaxInstances \in Nat \ {0}
  /\ MaxRunsInMemory \in 1 .. MaxRuns

Goroutines == Commands \cup Embedders

VARIABLES
  job,      \* what a goroutine does
  guest,    \* its interpreter: sys.path, sys.argv and the two streams
  interp,   \* whether the interpreter runs
  screen,   \* what a Command's run has written to Config.Stdout and Stderr
  library,  \* the two sync.Onces: the files extracted, the entries inflated
  fs        \* Config.FS; of the one in memory, how much of the library it has

vars == <<job, guest, interp, screen, library, fs>>

(* Where a library is: in the directory of ExtractStdlib, or in the        *)
(* entries of loadStdlibEntries, of which every instance gets a copy.      *)
Kinds == {"host", "memory"}

Streams == {"stdout", "stderr"}

NotAList == <<"not a list">>

(* A stream that the interpreter began with is block-buffered: held are    *)
(* those with text in the buffer.  Python code may rebind sys.stdout to    *)
(* None (or a number: no object) or to another object, as an io.StringIO,  *)
(* whose flush succeeds or raises like any call, and back; what a replaced *)
(* stream holds stays in its buffer.                                       *)
Bindings == {"stream", "None", "other"}

NewGuest ==
  [path |-> <<>>, argv |-> 0, bound |-> [s \in Streams |-> "stream"],
   held |-> {}]

(* The calls before the script runs, and those of FlushStdio.              *)
FileSteps == <<"sys", "path", "insert", "sys", "NewList", "argv", "runpy">>
CommandSteps ==
  <<"sys", "NewList", "argv", "__main__", "__dict__", "builtins", "compile">>

(* Mutant: only what is printed is flushed. *)
FlushStdoutOnly == <<"sys", "stdout", "flush stdout">>

FlushSteps == <<"sys", "stdout", "flush stdout", "stderr", "flush stderr">>

Steps(mode) == IF mode = "file" THEN FileSteps ELSE CommandSteps

ExitStatus == [exit0 |-> 0, exit3 |-> 3]

(* How an operation of the instance fails: valueOp looks at the context    *)
(* first; else there is an exception, a sys.exit with any status (of a     *)
(* module that is imported, of a flush) or a failure of the host.          *)
Errors(ctx) ==
  IF ctx = "done" THEN {"cancelled"}
                  ELSE {"raised", "host"} \cup DOMAIN ExitStatus

NewJob(point) ==
  [at |-> point, mode |-> "file", run |-> 0, dir |-> CHOOSE d \in Dirs : TRUE,
   ctx |-> "live", step |-> 0, ended |-> "none", flushed |-> FALSE,
   ret |-> "none", code |-> -1]

Init ==
  /\ job = [g \in Goroutines |->
              NewJob(IF g \in Commands THEN "args" ELSE "library")]
  /\ guest = [g \in Goroutines |-> NewGuest]
  /\ interp = [g \in Goroutines |-> "none"]
  /\ screen = [g \in Commands |-> <<>>]
  /\ library = [kind \in Kinds |-> [once |-> "new", files |-> 0]]
  /\ fs \in [Goroutines -> [kind : Kinds, files : {0}]]
  /\ \A g \in Commands : fs[g].kind = "host"

-----------------------------------------------------------------------------
At(g, point) == job[g].at = point

GoTo(g, point) == job' = [job EXCEPT ![g].at = point]

Exit(g, code) == job' = [job EXCEPT ![g].at = "exit", ![g].code = code]

(* parseArgs; in file mode the script must be there. *)
ParseArgs(g) ==
  /\ At(g, "args")
  /\ \/ GoTo(g, "stat")
     \/ job' = [job EXCEPT ![g].at = "library", ![g].mode = "command"]
     \/ Exit(g, 2)
  /\ UNCHANGED <<guest, interp, screen, library, fs>>

StatFile(g) ==
  /\ At(g, "stat")
  /\ GoTo(g, "library") \/ Exit(g, 2)
  /\ UNCHANGED <<guest, interp, screen, library, fs>>

-----------------------------------------------------------------------------
(* ExtractStdlib and loadStdlibEntries: the first caller extracts, the     *)
(* others wait in Do; the result and the error stay what they became.      *)
Library(g) == library[fs[g].kind]

BeginExtract(g) ==
  /\ At(g, "library") /\ Library(g).once = "new"
  /\ library' = [library EXCEPT ![fs[g].kind].once = "busy"]
  /\ GoTo(g, "extract")
  /\ UNCHANGED <<guest, interp, screen, fs>>

(* Mutant: one file too many. *)
ExtractOneMore(g) ==
  /\ At(g, "extract") /\ Library(g).files <= Files
  /\ library' = [library EXCEPT ![fs[g].kind].files = @ + 1]
  /\ UNCHANGED <<job, guest, interp, screen, fs>>

ExtractFile(g) ==
  /\ At(g, "extract") /\ Library(g).files < Files
  /\ library' = [library EXCEPT ![fs[g].kind].files = @ + 1]
  /\ UNCHANGED <<job, guest, interp, screen, fs>>

(* After an error the files that were written stay, the entries do not.    *)
EndExtract(g) ==
  /\ At(g, "extract")
  /\ \/ Library(g).files = Files
        /\ library' = [library EXCEPT ![fs[g].kind].once = "ready"]
     \/ \E files \in IF fs[g].kind = "host" THEN {Library(g).files} ELSE {0} :
          library' = [library EXCEPT ![fs[g].kind] =
                        [once |-> "failed", files |-> files]]
  /\ GoTo(g, "library")
  /\ UNCHANGED <<guest, interp, screen, fs>>

AfterLibrary(g) == IF fs[g].kind = "host" THEN "boot" ELSE "populate"

(* Mutant: whoever comes second does not wait. *)
HaveLibraryAtOnce(g) ==
  /\ At(g, "library") /\ Library(g).once # "new"
  /\ IF Library(g).once = "failed" THEN Exit(g, 1)
                                   ELSE GoTo(g, AfterLibrary(g))
  /\ UNCHANGED <<guest, interp, screen, library, fs>>

(* Mutant: the error of the first caller is not kept for the others. *)
HaveLibraryIfReady(g) ==
  /\ At(g, "library") /\ Library(g).once = "ready"
  /\ GoTo(g, AfterLibrary(g))
  /\ UNCHANGED <<guest, interp, screen, library, fs>>

HaveLibrary(g) ==
  /\ At(g, "library") /\ Library(g).once \in {"ready", "failed"}
  /\ IF Library(g).once = "failed" THEN Exit(g, 1)
                                   ELSE GoTo(g, AfterLibrary(g))
  /\ UNCHANGED <<guest, interp, screen, library, fs>>

(* NewStdlibMemFS copies the entries into a filesystem of the instance's   *)
(* own, one after another.                                                 *)
CopyFile(g) ==
  /\ At(g, "populate") /\ fs[g].files < library["memory"].files
  /\ fs' = [fs EXCEPT ![g].files = @ + 1]
  /\ UNCHANGED <<job, guest, interp, screen, library>>

EndCopy(g) ==
  /\ At(g, "populate")
  /\ \/ fs[g].files = library["memory"].files /\ GoTo(g, "boot")
     \/ Exit(g, 1)
  /\ UNCHANGED <<guest, interp, screen, library, fs>>

-----------------------------------------------------------------------------
Cleared(g) ==
  IF g \in Commands THEN [screen EXCEPT ![g] = <<>>] ELSE screen

(* A new run of RunFile or runCommand. *)
BeginRun(g) ==
  /\ interp' = [interp EXCEPT ![g] = "up"]
  /\ \E dir \in IF job[g].mode = "file" THEN Dirs ELSE {job[g].dir} :
       job' = [job EXCEPT ![g] = [job[g] EXCEPT
                 !.at = "setup", !.run = job[g].run + 1, !.dir = dir,
                 !.ctx = "live", !.step = 1, !.ended = "none",
                 !.flushed = FALSE, !.ret = "none"]]
  /\ screen' = Cleared(g)
  /\ UNCHANGED <<guest, library, fs>>

HasInstance(g) ==
  job[g].at \in {"setup", "call", "script", "flush", "returned", "close",
                 "exit"}

Boot(g) ==
  /\ At(g, "boot")
  /\ Cardinality({h \in Goroutines : HasInstance(h)}) < MaxInstances
  /\ BeginRun(g)

(* New fails before or after py_new; an interpreter is not closed then. *)
BootFails(g) ==
  /\ At(g, "boot")
  /\ \E i \in {"none", "abandoned"} : interp' = [interp EXCEPT ![g] = i]
  /\ Exit(g, 1)
  /\ UNCHANGED <<guest, screen, library, fs>>

NextRun(g) ==
  /\ g \in Embedders /\ At(g, "returned")
  /\ job[g].run < IF fs[g].kind = "host" THEN MaxRuns ELSE MaxRunsInMemory
  /\ BeginRun(g)

(* Mutant: directories go to the end of sys.path. *)
AppendedPath(g) == Append(guest[g].path, job[g].dir)

InsertedPath(g) == <<job[g].dir>> \o guest[g].path

SetupStep(g) ==
  /\ At(g, "setup") /\ job[g].ctx = "live"
  /\ LET steps == Steps(job[g].mode)
         step  == steps[job[g].step]
     IN  /\ step = "path" => guest[g].path # NotAList
         /\ guest' = CASE step = "insert" ->
                            [guest EXCEPT ![g].path = InsertedPath(g)]
                       [] step = "argv" ->
                            [guest EXCEPT ![g].argv = job[g].run]
                       [] OTHER -> guest
         /\ IF job[g].step < Len(steps)
            THEN job' = [job EXCEPT ![g].step = @ + 1]
            ELSE GoTo(g, "call")
  /\ UNCHANGED <<interp, screen, library, fs>>

Return(g, ret, flushed) ==
  job' = [job EXCEPT ![g] = [job[g] EXCEPT
            !.at = "returned", !.step = 0, !.flushed = flushed, !.ret = ret]]

SetupFails(g) ==
  /\ At(g, "setup")
  /\ \E e \in Errors(job[g].ctx) : Return(g, e, FALSE)
  /\ UNCHANGED <<guest, interp, screen, library, fs>>

-----------------------------------------------------------------------------
CallScript(g) ==
  /\ At(g, "call") /\ job[g].ctx = "live"
  /\ GoTo(g, "script")
  /\ UNCHANGED <<guest, interp, screen, library, fs>>

(* run_path or exec is over: runErr, and what remains to be done. *)
CallReturns(g, runErr) ==
  job' = [job EXCEPT ![g].at = "flush", ![g].step = 1, ![g].ended = runErr]

CallFails(g) ==
  /\ At(g, "call")
  /\ \E e \in Errors(job[g].ctx) : CallReturns(g, e)
  /\ UNCHANGED <<guest, interp, screen, library, fs>>

(* The script's code: it prints, it may rebind a stream or sys.path, and   *)
(* it ends.  If it raises, the watchdog may have been the reason.          *)
ScriptEnds(g) ==
  /\ At(g, "script")
  /\ \E printed \in SUBSET Streams, rebound \in Streams,
        to \in Bindings, path \in {guest[g].path, NotAList} :
       guest' = [guest EXCEPT ![g] = [guest[g] EXCEPT
                   !.held = guest[g].held \cup
                     {s \in printed : guest[g].bound[s] = "stream"},
                   !.bound[rebound] = to,
                   !.path = path]]
  /\ \E end \in {"ok", "raised", "exit0", "exit3", "host"} \cup
                 (IF job[g].ctx = "done" THEN {"cancelled"} ELSE {}) :
       CallReturns(g, end)
  /\ UNCHANGED <<interp, screen, library, fs>>

(* The embedder's context ends, at any moment of its run. *)
CancelContext(g) ==
  /\ g \in Embedders /\ job[g].at \in {"setup", "call", "script", "flush"}
  /\ job[g].ctx = "live"
  /\ job' = [job EXCEPT ![g].ctx = "done"]
  /\ UNCHANGED <<guest, interp, screen, library, fs>>

-----------------------------------------------------------------------------
(* What the buffers of ss hold reaches the host. *)
Deliver(g, ss) ==
  /\ screen' = IF g \in Commands
               THEN [screen EXCEPT ![g] = @ \o SetToSeq(ss \cap guest[g].held)]
               ELSE screen
  /\ guest' = [guest EXCEPT ![g].held = @ \ ss]

StreamOf(step) == IF step \in {2, 3} THEN "stdout" ELSE "stderr"

(* Mutant: a stream that is None ends FlushStdio. *)
PastStreamNone(g) ==
  LET step == job[g].step
  IN  IF step \in {2, 4} /\ guest[g].bound[StreamOf(step)] = "None"
      THEN Len(FlushSteps) + 1 ELSE step + 1

(* The next step: flush is left out for a stream that is None. *)
PastStream(g) ==
  LET step == job[g].step
  IN  IF step \in {2, 4} /\ guest[g].bound[StreamOf(step)] = "None"
      THEN step + 2 ELSE step + 1

(* The flush of another object succeeds and says nothing of the stream     *)
(* that it has replaced.                                                   *)
FlushStep(g) ==
  /\ At(g, "flush") /\ job[g].ctx = "live"
  /\ LET step == job[g].step
         s    == StreamOf(step)
     IN  /\ IF step \in {3, 5} /\ guest[g].bound[s] = "stream"
            THEN Deliver(g, {s})
            ELSE UNCHANGED <<guest, screen>>
         /\ IF PastStream(g) <= Len(FlushSteps)
            THEN job' = [job EXCEPT ![g].step = PastStream(g)]
            ELSE Return(g, job[g].ended, TRUE)
  /\ UNCHANGED <<interp, library, fs>>

(* Mutant: the error of the flush hides how the script ended. *)
AfterFailedFlushAlways(g, e) == e

(* if err := p.FlushStdio(ctx); err != nil && runErr == nil { return err } *)
AfterFailedFlush(g, e) == IF job[g].ended = "ok" THEN e ELSE job[g].ended

FlushFails(g) ==
  /\ At(g, "flush")
  /\ \E e \in Errors(job[g].ctx) : Return(g, AfterFailedFlush(g, e), FALSE)
  /\ UNCHANGED <<guest, interp, screen, library, fs>>

-----------------------------------------------------------------------------
(* Mutant: what the script asked for is an error like any other. *)
ExitCodeOfError(ret) == IF ret = "ok" THEN 0 ELSE 1

(* reportRunError. *)
ExitCodeOf(ret) ==
  CASE ret = "ok"                 -> 0
    [] ret \in DOMAIN ExitStatus  -> ExitStatus[ret]
    [] OTHER                      -> 1

Report(g) ==
  /\ g \in Commands /\ At(g, "returned")
  /\ job' = [job EXCEPT ![g].at = "close", ![g].code = ExitCodeOf(job[g].ret)]
  /\ screen' = IF job[g].ret \in {"raised", "host", "cancelled"}
               THEN [screen EXCEPT ![g] = Append(@, "report")]
               ELSE screen
  /\ UNCHANGED <<guest, interp, library, fs>>

(* Close, deferred by the command.  The interpreter flushes sys.stdout and *)
(* sys.stderr, and perhaps the streams that were replaced.                 *)
Close(g) ==
  /\ At(g, IF g \in Commands THEN "close" ELSE "returned")
  /\ interp' = [interp EXCEPT ![g] = "closed"]
  /\ \E ss \in SUBSET Streams :
       Deliver(g, ss \cup {s \in Streams : guest[g].bound[s] = "stream"})
  /\ GoTo(g, "exit")
  /\ UNCHANGED <<library, fs>>

(* Run returns; what it has kept in its variables is gone. *)
RunReturns(g) ==
  /\ At(g, "exit")
  /\ job' = [job EXCEPT ![g] = NewJob("done")]
  /\ guest' = [guest EXCEPT ![g] = NewGuest]
  /\ screen' = Cleared(g)
  /\ UNCHANGED <<interp, library, fs>>

Step(g) ==
  \/ ParseArgs(g) \/ StatFile(g)
  \/ BeginExtract(g) \/ ExtractFile(g) \/ EndExtract(g) \/ HaveLibrary(g)
  \/ CopyFile(g) \/ EndCopy(g)
  \/ Boot(g) \/ BootFails(g) \/ NextRun(g) \/ SetupStep(g) \/ SetupFails(g)
  \/ CallScript(g) \/ CallFails(g) \/ ScriptEnds(g)
  \/ FlushStep(g) \/ FlushFails(g) \/ Report(g) \/ Close(g)
  \/ RunReturns(g)

Next == \E g \in Goroutines : Step(g) \/ CancelContext(g)

(* Every goroutine goes on unless it waits for the library; scripts end.   *)
Spec ==
  Init /\ [][Next]_vars /\ \A g \in Goroutines : WF_vars(Step(g))
-----------------------------------------------------------------------------
Points == {"args", "stat", "library", "extract", "populate", "boot", "setup",
           "call", "script", "flush", "returned", "close", "exit", "done"}

Outcomes == {"ok", "raised", "exit0", "exit3", "host", "cancelled"}

JobType ==
  [at : Points, mode : {"file", "command"}, run : 0 .. MaxRuns, dir : Dirs,
   ctx : {"live", "done"}, step : 0 .. Len(FileSteps),
   ended : Outcomes \cup {"none"}, flushed : BOOLEAN,
   ret : Outcomes \cup {"none"}, code : -1 .. 3]

GuestType ==
  [path : Seq(Dirs) \cup {NotAList}, argv : 0 .. MaxRuns,
   bound : [Streams -> Bindings], held : SUBSET Streams]

(* Every variable has its type.  A setup is at one of its seven calls and  *)
(* a flush at one of its five, whichever streams are None.                 *)
ScriptTypeOK ==
  /\ job \in [Goroutines -> JobType]
  /\ \A g \in Goroutines :
       /\ At(g, "setup") => job[g].step \in DOMAIN Steps(job[g].mode)
       /\ At(g, "flush") => job[g].step \in DOMAIN FlushSteps
  /\ guest \in [Goroutines -> GuestType]
  /\ interp \in [Goroutines -> {"none", "up", "abandoned", "closed"}]
  /\ screen \in [Commands -> Seq(Streams \cup {"report"})]
  /\ library \in [Kinds -> [once : {"new", "busy", "ready", "failed"},
                            files : 0 .. Files]]
  /\ fs \in [Goroutines -> [kind : Kinds, files : 0 .. Files]]

(* "sys.argv is [path, args...], the script's directory heads sys.path"    *)
(* (src/python.go:110-111), also after runs that ended half way or left    *)
(* their own argv and directory behind.                                    *)
ScriptSeesItsOwn ==
  \A g \in Goroutines :
    At(g, "script") =>
      /\ guest[g].argv = job[g].run
      /\ job[g].mode = "file" => Head(guest[g].path) = job[g].dir

(* The caller learns how the script ended.  A flush that fails is told     *)
(* only if the script did not fail, and nil means that both went well      *)
(* (src/python.go:136-149).                                                *)
OutcomeTold ==
  \A g \in Goroutines :
    At(g, "returned") =>
      /\ job[g].ended \notin {"none", "ok"} => job[g].ret = job[g].ended
      /\ job[g].ret = "ok" => job[g].ended = "ok" /\ job[g].flushed

(* A stream that sys still names, or names again, has nothing in its       *)
(* buffer when FlushStdio has returned nil, also if the other one is None  *)
(* or is another object (src/python.go:152-175).  The text of a stream     *)
(* that the script has replaced may be held on to, without an error.       *)
FlushedMeansSeen ==
  \A g \in Goroutines :
    At(g, "returned") /\ job[g].flushed =>
      \A s \in Streams :
        guest[g].bound[s] = "stream" => s \notin guest[g].held

(* "Deliver the program's buffered output before any traceback is          *)
(* reported" (src/cli/cli.go:143-144): after the report comes nothing, if  *)
(* both flushes succeeded and sys still names both streams.                *)
ReportLast ==
  \A g \in Commands :
    At(g, "exit") /\ job[g].flushed
      /\ (\A s \in Streams : guest[g].bound[s] = "stream")
    => \A i \in DOMAIN screen[g] :
         screen[g][i] = "report" => i = Len(screen[g])

(* The exit code of the command (src/cli/cli.go:46-49).  It is the status  *)
(* that the script asked for, and 1 if the script failed, also if a flush  *)
(* then exits with a status of its own.  It is 0 without a sys.exit(0) of  *)
(* some call (the script's, of a module imported before it, of a flush     *)
(* after it) only if script and flushes went well.  And no interpreter     *)
(* that New gave out is left open.                                         *)
CodeTellsOutcome ==
  \A g \in Commands :
    At(g, "exit") =>
      /\ interp[g] # "up"
      /\ job[g].ended \in DOMAIN ExitStatus =>
           job[g].code = ExitStatus[job[g].ended]
      /\ job[g].ended \in {"raised", "host"} => job[g].code = 1
      /\ job[g].code = 0 =>
           job[g].ret = "exit0" \/ (job[g].ended = "ok" /\ job[g].flushed)

(* No interpreter starts on a library that is not all there, though the    *)
(* files appear one by one, in a directory all share or in a filesystem of *)
(* its own whose content all share (src/fs/stdlib.go:38-159).              *)
LibraryComplete ==
  \A g \in Goroutines :
    At(g, "boot") \/ interp[g] = "up" =>
      Files = IF fs[g].kind = "host" THEN library["host"].files
                                     ELSE fs[g].files

(* Every command ends, also one that waits while another extracts the      *)
(* library, and also if that fails.                                        *)
CommandsEnd == \A g \in Commands : <>At(g, "done")
=============================================================================
