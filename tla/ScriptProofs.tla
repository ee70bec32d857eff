----------------------------- MODULE ScriptProofs -----------------------------
(***************************************************************************)
(* Theorems about module Script, for every set of goroutines, every number *)
(* of files of the library and every value of the bounds.                  *)
(***************************************************************************)
EXTENDS Script, SequenceTheorems, FiniteSetTheorems, TLAPS

(* A job, but for the bounds of its counters, which RunsInv gives. *)
Job ==
  [at : Points, mode : {"file", "command"}, run : Int, dir : Dirs,
   ctx : {"live", "done"}, step : Int, ended : Outcomes \cup {"none"},
   flushed : BOOLEAN, ret : Outcomes \cup {"none"}, code : -1 .. 3]

JobsTyped == job \in [Goroutines -> Job]

(***************************************************************************)
(* The outcome.  What RunFile returns is decided at the end of a chain of  *)
(* calls; Told says what is known of it at every point of the chain.       *)
(***************************************************************************)
Told(j) ==
  /\ j.at \in {"setup", "call", "script"} => j.ended = "none" /\ ~j.flushed
  /\ j.at = "flush" => j.ended # "none" /\ ~j.flushed
  /\ j.at = "returned" =>
       /\ j.ended \notin {"none", "ok"} => j.ret = j.ended
       /\ j.ret = "ok" => j.ended = "ok" /\ j.flushed

OutcomeInv == JobsTyped /\ \A g \in Goroutines : Told(job[g])

(* A step of g makes of its job one that fits. *)
NewJobFits(g) ==
  \E j \in Job : job' = [job EXCEPT ![g] = j] /\ Told(j)

(* Whatever g's new job is, the others' stay. *)
LEMMA FittingJob ==
  ASSUME OutcomeInv, NEW g \in Goroutines, NewJobFits(g)
  PROVE  OutcomeInv'
  BY DEF OutcomeInv, JobsTyped, NewJobFits, Told

LEMMA FirstJob ==
  ASSUME NEW point \in {"args", "library", "done"}
  PROVE  NewJob(point) \in Job /\ Told(NewJob(point))
  BY DirsAssumption DEF NewJob, Job, Told, Points

(* The beginning of a command, and the library. *)
LEMMA StartFits ==
  ASSUME OutcomeInv, NEW g \in Goroutines,
         \/ ParseArgs(g) \/ StatFile(g) \/ BeginExtract(g) \/ EndExtract(g)
         \/ HaveLibrary(g) \/ EndCopy(g) \/ BootFails(g) \/ Report(g)
         \/ Close(g)
  PROVE  NewJobFits(g)
<1> DEFINE j == job[g]
<1>1. j \in Job
  BY DEF OutcomeInv, JobsTyped
<1>2. ASSUME NEW point \in {"stat", "library", "extract", "populate", "boot",
                            "exit"},
             GoTo(g, point)
      PROVE  NewJobFits(g)
  <2>1. [j EXCEPT !.at = point] \in Job /\ Told([j EXCEPT !.at = point])
    BY <1>1, <1>2 DEF Job, Told, Points
  <2>2. job' = [job EXCEPT ![g] = [j EXCEPT !.at = point]]
    BY <1>2 DEF GoTo, OutcomeInv, JobsTyped
  <2>3. QED
    BY <2>1, <2>2 DEF NewJobFits
<1>3. ASSUME NEW point \in {"exit", "close"}, NEW code \in -1 .. 3,
             job' = [job EXCEPT ![g].at = point, ![g].code = code]
      PROVE  NewJobFits(g)
  <2> DEFINE new == [j EXCEPT !.at = point, !.code = code]
  <2>1. new \in Job /\ Told(new)
    BY <1>1, <1>3 DEF Job, Told, Points
  <2>2. job' = [job EXCEPT ![g] = new]
    BY <1>3 DEF OutcomeInv, JobsTyped
  <2>3. QED
    BY <2>1, <2>2 DEF NewJobFits
<1>4. CASE ParseArgs(g)
  <2>1. CASE job' = [job EXCEPT ![g].at = "library", ![g].mode = "command"]
    <3> DEFINE new == [j EXCEPT !.at = "library", !.mode = "command"]
    <3>1. new \in Job /\ Told(new)
      BY <1>1 DEF Job, Told, Points
    <3>2. job' = [job EXCEPT ![g] = new]
      BY <2>1 DEF OutcomeInv, JobsTyped
    <3>3. QED
      BY <3>1, <3>2 DEF NewJobFits
  <2>2. QED
    BY <1>2, <1>3, <1>4, <2>1 DEF ParseArgs, Exit
<1>5. CASE Report(g)
  <2>1. ExitCodeOf(j.ret) \in -1 .. 3
    BY DEF ExitCodeOf, ExitStatus
  <2>2. QED
    BY <1>3, <1>5, <2>1 DEF Report
<1>6. CASE StatFile(g) \/ BeginExtract(g) \/ EndExtract(g)
  BY <1>2, <1>3, <1>6 DEF StatFile, BeginExtract, EndExtract, Exit
<1>7. CASE HaveLibrary(g) \/ EndCopy(g) \/ BootFails(g) \/ Close(g)
  BY <1>2, <1>3, <1>7
  DEF HaveLibrary, AfterLibrary, EndCopy, BootFails, Close, Exit
<1>8. QED
  BY <1>4, <1>5, <1>6, <1>7

(* The update that begins a run. *)
LEMMA BegunJob ==
  ASSUME NEW j \in Job, NEW run \in Int, NEW dir \in Dirs
  PROVE  [j EXCEPT !.at = "setup", !.run = run, !.dir = dir, !.ctx = "live",
                   !.step = 1, !.ended = "none", !.flushed = FALSE,
                   !.ret = "none"] \in Job
<1>1. [j EXCEPT !.at = "setup", !.run = run, !.dir = dir, !.ctx = "live"]
        \in Job
  BY DEF Job, Points
<1>2. ASSUME NEW k \in Job
      PROVE  [k EXCEPT !.step = 1] \in Job
  BY DEF Job
<1>3. ASSUME NEW k \in Job
      PROVE  [k EXCEPT !.ended = "none", !.flushed = FALSE, !.ret = "none"]
               \in Job
  BY DEF Job
<1>4. QED
  BY <1>1, <1>2, <1>3, Zenon

(* The update that ends a call of the script. *)
LEMMA EndedJob ==
  ASSUME NEW j \in Job, NEW runErr \in Outcomes
  PROVE  [j EXCEPT !.at = "flush", !.step = 1, !.ended = runErr] \in Job
<1>1. [j EXCEPT !.at = "flush"] \in Job
  BY DEF Job, Points
<1>2. ASSUME NEW k \in Job
      PROVE  [k EXCEPT !.step = 1] \in Job
  BY DEF Job
<1>3. ASSUME NEW k \in Job
      PROVE  [k EXCEPT !.ended = runErr] \in Job
  BY DEF Job
<1>4. QED
  BY <1>1, <1>2, <1>3, Zenon

(* The update that ends a run. *)
LEMMA ReturnedJob ==
  ASSUME NEW j \in Job, NEW ret \in Outcomes, NEW flushed \in BOOLEAN
  PROVE  [j EXCEPT !.at = "returned", !.step = 0, !.flushed = flushed,
                   !.ret = ret] \in Job
<1>1. [j EXCEPT !.at = "returned"] \in Job
  BY DEF Job, Points
<1>2. ASSUME NEW k \in Job
      PROVE  [k EXCEPT !.step = 0] \in Job
  BY DEF Job
<1>3. ASSUME NEW k \in Job
      PROVE  [k EXCEPT !.flushed = flushed, !.ret = ret] \in Job
  BY DEF Job
<1>4. QED
  BY <1>1, <1>2, <1>3, Zenon

LEMMA ReturnFits ==
  ASSUME OutcomeInv, NEW g \in Goroutines, NEW ret \in Outcomes,
         NEW flushed \in BOOLEAN, Return(g, ret, flushed),
         job[g].ended \notin {"none", "ok"} => ret = job[g].ended,
         ret = "ok" => job[g].ended = "ok" /\ flushed
  PROVE  NewJobFits(g)
<1> DEFINE j == job[g]
           new == [j EXCEPT !.at = "returned", !.step = 0, !.flushed = flushed,
                            !.ret = ret]
<1>1. j \in Job
  BY DEF OutcomeInv, JobsTyped
<1>2. new \in Job
  BY <1>1, ReturnedJob, Zenon
<1>3. /\ new.at = "returned" /\ new.flushed = flushed /\ new.ret = ret
      /\ new.ended = j.ended
  BY <1>1 DEF Job
<1>4. Told(new)
  BY <1>3 DEF Told
<1>5. job' = [job EXCEPT ![g] = new]
  BY Zenon DEF Return
<1>6. QED
  BY <1>2, <1>4, <1>5 DEF NewJobFits

(* RunFile and runCommand, up to the call of the script. *)
LEMMA SetupFits ==
  ASSUME OutcomeInv, NEW g \in Goroutines,
         \/ Boot(g) \/ NextRun(g) \/ SetupStep(g) \/ SetupFails(g)
         \/ CallScript(g) \/ CancelContext(g)
  PROVE  NewJobFits(g)
<1> DEFINE j == job[g]
<1>1. j \in Job /\ Told(j)
  BY DEF OutcomeInv, JobsTyped
<1>2. ASSUME BeginRun(g)
      PROVE  NewJobFits(g)
  <2>1. PICK dir \in Dirs :
          job' = [job EXCEPT ![g] =
                   [j EXCEPT !.at = "setup", !.run = j.run + 1, !.dir = dir,
                             !.ctx = "live", !.step = 1, !.ended = "none",
                             !.flushed = FALSE, !.ret = "none"]]
    BY <1>1, <1>2 DEF BeginRun, Job
  <2> DEFINE new == [j EXCEPT !.at = "setup", !.run = j.run + 1, !.dir = dir,
                              !.ctx = "live", !.step = 1, !.ended = "none",
                              !.flushed = FALSE, !.ret = "none"]
  <2>2. new \in Job
    <3>1. j.run + 1 \in Int
      BY <1>1 DEF Job
    <3>2. j \in Job
      BY <1>1
    <3>3. QED
      BY <3>1, <3>2, BegunJob, Zenon
  <2>3. new.at = "setup" /\ new.ended = "none" /\ new.flushed = FALSE
    BY <1>1 DEF Job
  <2>4. Told(new)
    BY <2>3 DEF Told
  <2>5. job' = [job EXCEPT ![g] = new]
    BY <2>1, Zenon
  <2>6. QED
    BY <2>2, <2>4, <2>5 DEF NewJobFits
<1>3. CASE SetupStep(g)
  <2>1. CASE job' = [job EXCEPT ![g].step = @ + 1]
    <3> DEFINE new == [j EXCEPT !.step = @ + 1]
    <3>1. new \in Job /\ Told(new)
      BY <1>1 DEF Job, Told
    <3>2. job' = [job EXCEPT ![g] = new]
      BY <2>1 DEF OutcomeInv, JobsTyped
    <3>3. QED
      BY <3>1, <3>2 DEF NewJobFits
  <2>2. CASE GoTo(g, "call")
    <3> DEFINE new == [j EXCEPT !.at = "call"]
    <3>1. new \in Job /\ Told(new)
      BY <1>1, <1>3 DEF Job, Told, Points, SetupStep, At
    <3>2. job' = [job EXCEPT ![g] = new]
      BY <2>2 DEF GoTo, OutcomeInv, JobsTyped
    <3>3. QED
      BY <3>1, <3>2 DEF NewJobFits
  <2>3. QED
    BY <1>3, <2>1, <2>2 DEF SetupStep
<1>4. CASE SetupFails(g)
  <2>1. PICK e \in Errors(j.ctx) : Return(g, e, FALSE)
    BY <1>4 DEF SetupFails
  <2>2. e \in Outcomes \ {"ok"}
    BY DEF Errors, ExitStatus, Outcomes
  <2>3. j.ended = "none"
    BY <1>1, <1>4 DEF Told, SetupFails, At
  <2>4. QED
    BY <2>1, <2>2, <2>3, ReturnFits
<1>5. CASE CallScript(g)
  <2> DEFINE new == [j EXCEPT !.at = "script"]
  <2>1. new \in Job /\ Told(new)
    BY <1>1, <1>5 DEF Job, Told, Points, CallScript, At
  <2>2. job' = [job EXCEPT ![g] = new]
    BY <1>5 DEF CallScript, GoTo, OutcomeInv, JobsTyped
  <2>3. QED
    BY <2>1, <2>2 DEF NewJobFits
<1>6. CASE CancelContext(g)
  <2> DEFINE new == [j EXCEPT !.ctx = "done"]
  <2>1. new \in Job /\ Told(new)
    BY <1>1 DEF Job, Told
  <2>2. job' = [job EXCEPT ![g] = new]
    BY <1>6 DEF CancelContext, OutcomeInv, JobsTyped
  <2>3. QED
    BY <2>1, <2>2 DEF NewJobFits
<1>7. QED
  BY <1>2, <1>3, <1>4, <1>5, <1>6 DEF Boot, NextRun

(* The script ends, and its output is flushed. *)
LEMMA EndFits ==
  ASSUME OutcomeInv, NEW g \in Goroutines,
         CallFails(g) \/ ScriptEnds(g) \/ FlushStep(g) \/ FlushFails(g)
  PROVE  NewJobFits(g)
<1> DEFINE j == job[g]
<1>1. j \in Job /\ Told(j)
  BY DEF OutcomeInv, JobsTyped
<1>2. ASSUME NEW runErr \in Outcomes, CallReturns(g, runErr),
             j.at \in {"call", "script"}
      PROVE  NewJobFits(g)
  <2> DEFINE new == [j EXCEPT !.at = "flush", !.step = 1, !.ended = runErr]
  <2>1. new \in Job
    <3>1. j \in Job
      BY <1>1
    <3>2. QED
      BY <1>2, <3>1, EndedJob, Zenon
  <2>2. new.at = "flush" /\ new.ended = runErr /\ new.flushed = j.flushed
    BY <1>1 DEF Job
  <2>3. Told(new)
    BY <1>1, <1>2, <2>2 DEF Told, Outcomes
  <2>4. job' = [job EXCEPT ![g] = new]
    BY <1>2 DEF CallReturns, OutcomeInv, JobsTyped
  <2>5. QED
    BY <2>1, <2>3, <2>4 DEF NewJobFits
<1>3. CASE CallFails(g)
  BY <1>2, <1>3 DEF CallFails, At, Errors, ExitStatus, Outcomes
<1>4. CASE ScriptEnds(g)
  BY <1>2, <1>4 DEF ScriptEnds, At, Outcomes
<1>5. CASE FlushStep(g)
  <2>1. PastStream(g) \in Int /\ j.at = "flush"
    BY <1>1, <1>5 DEF PastStream, FlushStep, At, Job
  <2>2. CASE job' = [job EXCEPT ![g].step = PastStream(g)]
    <3> DEFINE new == [j EXCEPT !.step = PastStream(g)]
    <3>1. new \in Job /\ Told(new)
      BY <1>1, <2>1 DEF Job, Told
    <3>2. job' = [job EXCEPT ![g] = new]
      BY <2>2 DEF OutcomeInv, JobsTyped
    <3>3. QED
      BY <3>1, <3>2 DEF NewJobFits
  <2>3. CASE Return(g, j.ended, TRUE)
    <3>1. j.ended \in Outcomes
      BY <1>1, <2>1 DEF Told, Job
    <3>2. QED
      BY <2>3, <3>1, ReturnFits
  <2>4. QED
    BY <1>5, <2>2, <2>3 DEF FlushStep
<1>6. CASE FlushFails(g)
  <2>1. PICK e \in Errors(j.ctx) : Return(g, AfterFailedFlush(g, e), FALSE)
    BY <1>6 DEF FlushFails
  <2>2. e \in Outcomes \ {"ok"} /\ j.at = "flush"
    BY <1>6 DEF Errors, ExitStatus, Outcomes, FlushFails, At
  <2>3. j.ended \in Outcomes
    BY <1>1, <2>2 DEF Told, Job
  <2>4. QED
    BY <2>1, <2>2, <2>3, ReturnFits DEF AfterFailedFlush
<1>7. QED
  BY <1>3, <1>4, <1>5, <1>6

LEMMA OutcomeInit == Init => OutcomeInv
  BY FirstJob DEF Init, OutcomeInv, JobsTyped

LEMMA OutcomeNext == OutcomeInv /\ [Next]_vars => OutcomeInv'
<1> SUFFICES ASSUME OutcomeInv, [Next]_vars
             PROVE  OutcomeInv'
  OBVIOUS
<1>1. ASSUME NEW g \in Goroutines, Step(g) \/ CancelContext(g)
      PROVE  OutcomeInv'
  <2>1. CASE ExtractFile(g) \/ CopyFile(g)
    BY <2>1 DEF ExtractFile, CopyFile, OutcomeInv, JobsTyped, Told
  <2>2. CASE RunReturns(g)
    <3>1. NewJobFits(g)
      BY <2>2, FirstJob DEF RunReturns, NewJobFits
    <3>2. QED
      BY <3>1, FittingJob
  <2>3. QED
    BY <1>1, <2>1, <2>2, StartFits, SetupFits, EndFits, FittingJob DEF Step
<1>2. CASE UNCHANGED vars
  BY <1>2 DEF vars, OutcomeInv, JobsTyped, Told
<1>3. QED
  BY <1>1, <1>2 DEF Next

(* A caller is told how its script ended: an error of the script is never  *)
(* replaced by one of the flush that follows it, and nil means that the    *)
(* script and both flushes went well (src/python.go:136-149).              *)
THEOREM CallerIsTold == Spec => []OutcomeTold
<1>1. OutcomeInv => OutcomeTold
  BY DEF OutcomeInv, OutcomeTold, Told, At
<1>2. QED
  BY <1>1, OutcomeInit, OutcomeNext, PTL DEF Spec
-----------------------------------------------------------------------------
(***************************************************************************)
(* The libraries.  One goroutine writes each, inside its Once; whoever is  *)
(* past the Once found the result of a complete extraction, and whoever is *)
(* past populate has copied all of it.                                     *)
(***************************************************************************)
PastLibrary ==
  {"boot", "setup", "call", "script", "flush", "returned"}

LibraryTyped ==
  /\ library \in [Kinds -> [once : {"new", "busy", "ready", "failed"},
                            files : 0 .. Files]]
  /\ fs \in [Goroutines -> [kind : Kinds, files : 0 .. Files]]
  /\ interp \in [Goroutines -> {"none", "up", "abandoned", "closed"}]

OneExtracts ==
  \A g \in Goroutines :
    At(g, "extract") =>
      /\ Library(g).once = "busy"
      /\ \A h \in Goroutines :
           At(h, "extract") /\ fs[h].kind = fs[g].kind => h = g

Ready(g) ==
  IF fs[g].kind = "host" THEN library["host"].once = "ready"
                         ELSE fs[g].files = Files

ReadyWhenPast ==
  \A g \in Goroutines :
    /\ job[g].at \in PastLibrary \/ interp[g] = "up" => Ready(g)
    /\ At(g, "populate") => fs[g].kind = "memory" /\ Library(g).once = "ready"

ReadyComplete ==
  \A kind \in Kinds :
    library[kind].once = "ready" => library[kind].files = Files

LibraryInv == LibraryTyped /\ OneExtracts /\ ReadyWhenPast /\ ReadyComplete

LEMMA LibraryInit == Init => LibraryInv
  BY BoundsAssumption
  DEF Init, LibraryInv, LibraryTyped, OneExtracts, ReadyWhenPast,
      ReadyComplete, NewJob, At, PastLibrary

(* g goes to a point that it may be at; the others stay. *)
Moves(g, point) ==
  /\ point \notin {"extract", "populate"}
  /\ point \in PastLibrary => Ready(g)
  /\ \A h \in Goroutines : job'[h].at = IF h = g THEN point ELSE job[h].at

LEMMA NewPoint ==
  ASSUME JobsTyped, NEW g \in Goroutines, NEW j,
         job' = [job EXCEPT ![g] = j],
         j.at \notin {"extract", "populate"}, j.at \in PastLibrary => Ready(g)
  PROVE  Moves(g, j.at)
  BY DEF JobsTyped, Moves

LEMMA GoToPoint ==
  ASSUME JobsTyped, NEW g \in Goroutines, NEW point,
         \/ GoTo(g, point)
         \/ \E code : job' = [job EXCEPT ![g].at = point, ![g].code = code]
         \/ \E mode : job' = [job EXCEPT ![g].at = point, ![g].mode = mode],
         point \notin {"extract", "populate"}, point \in PastLibrary => Ready(g)
  PROVE  Moves(g, point)
<1>1. job[g] \in Job
  BY DEF JobsTyped
<1>2. CASE GoTo(g, point)
  BY <1>1, <1>2 DEF GoTo, JobsTyped, Job, Moves
<1>3. ASSUME NEW code, job' = [job EXCEPT ![g].at = point, ![g].code = code]
      PROVE  Moves(g, point)
  BY <1>1, <1>3 DEF JobsTyped, Job, Moves
<1>4. ASSUME NEW mode, job' = [job EXCEPT ![g].at = point, ![g].mode = mode]
      PROVE  Moves(g, point)
  BY <1>1, <1>4 DEF JobsTyped, Job, Moves
<1>5. QED
  BY <1>2, <1>3, <1>4

LEMMA ReturnedPoint ==
  ASSUME JobsTyped, NEW g \in Goroutines, NEW ret, NEW flushed,
         Return(g, ret, flushed)
  PROVE  job'[g].at = "returned"
<1> DEFINE new == [job[g] EXCEPT !.at = "returned", !.step = 0,
                                 !.flushed = flushed, !.ret = ret]
<1>1. new.at = "returned"
  BY DEF JobsTyped, Job
<1>2. job' = [job EXCEPT ![g] = new]
  BY Zenon DEF Return
<1> HIDE DEF new
<1>3. QED
  BY <1>1, <1>2 DEF JobsTyped

LEMMA BootMoves ==
  ASSUME JobsTyped, NEW g \in Goroutines, GoTo(g, "boot"), Ready(g)
  PROVE  Moves(g, "boot")
<1>1. "boot" \notin {"extract", "populate"}
  OBVIOUS
<1>2. QED
  BY <1>1, GoToPoint, Zenon

LEMMA ExitMoves ==
  ASSUME JobsTyped, NEW g \in Goroutines, NEW code, Exit(g, code)
  PROVE  Moves(g, "exit")
<1>1. "exit" \notin {"extract", "populate"} /\ "exit" \notin PastLibrary
  BY DEF PastLibrary
<1>2. job' = [job EXCEPT ![g].at = "exit", ![g].code = code]
  BY Zenon DEF Exit
<1>3. QED
  BY <1>1, <1>2, GoToPoint, Zenon

(* A step that leaves the library alone and starts no interpreter on one   *)
(* that is not ready keeps the invariant.                                  *)
LEMMA OutsideLibrary ==
  ASSUME LibraryInv, NEW g \in Goroutines, UNCHANGED <<library, fs>>,
         NEW point, Moves(g, point),
         interp' \in [Goroutines -> {"none", "up", "abandoned", "closed"}],
         \A h \in Goroutines :
           interp'[h] = "up" => interp[h] = "up" \/ Ready(h)
  PROVE  LibraryInv'
<1>1. \A h \in Goroutines : Ready(h)' <=> Ready(h)
  BY DEF Ready
<1>2. ReadyWhenPast'
  BY <1>1 DEF LibraryInv, ReadyWhenPast, At, Moves, Library
<1>3. OneExtracts'
  BY DEF LibraryInv, OneExtracts, At, Moves, Library
<1>4. QED
  BY <1>2, <1>3 DEF LibraryInv, LibraryTyped, ReadyComplete

LEMMA InterpretersStay ==
  ASSUME LibraryInv, NEW g \in Goroutines, UNCHANGED <<interp, library, fs>>,
         NEW point, Moves(g, point)
  PROVE  LibraryInv'
  BY OutsideLibrary DEF LibraryInv, LibraryTyped

LEMMA LibraryNext ==
  OutcomeInv /\ OutcomeInv' /\ LibraryInv /\ [Next]_vars => LibraryInv'
<1> SUFFICES ASSUME OutcomeInv, OutcomeInv', LibraryInv, [Next]_vars
             PROVE  LibraryInv'
  OBVIOUS
<1>1. JobsTyped /\ JobsTyped' /\ LibraryTyped
  BY DEF OutcomeInv, LibraryInv
<1>2. ASSUME NEW g \in Goroutines, Step(g) \/ CancelContext(g)
      PROVE  LibraryInv'
  <2>1. CASE BeginExtract(g)
    BY <1>1, <2>1
    DEF BeginExtract, GoTo, At, JobsTyped, Job, LibraryInv, LibraryTyped,
        OneExtracts, ReadyWhenPast, ReadyComplete, PastLibrary, Ready, Library
  <2>2. CASE ExtractFile(g)
    BY <1>1, <2>2, BoundsAssumption
    DEF ExtractFile, At, LibraryInv, LibraryTyped, OneExtracts, ReadyWhenPast,
        ReadyComplete, PastLibrary, Ready, Library
  <2>3. CASE EndExtract(g)
    <3> DEFINE kind == fs[g].kind
    <3>1. /\ kind \in Kinds /\ At(g, "extract")
          /\ library[kind].once = "busy" /\ library[kind].files \in 0 .. Files
      BY <1>1, <2>3
      DEF EndExtract, LibraryInv, LibraryTyped, OneExtracts, Library
    <3>2. UNCHANGED <<interp, fs>>
      BY <2>3 DEF EndExtract
    <3>3. \A h \in Goroutines :
            job'[h].at = IF h = g THEN "library" ELSE job[h].at
      BY <1>1, <2>3 DEF EndExtract, GoTo, JobsTyped, Job
    <3>4. PICK once \in {"ready", "failed"}, files \in 0 .. Files :
            /\ library' = [library EXCEPT ![kind] =
                            [once |-> once, files |-> files]]
            /\ once = "ready" => files = Files
      <4>1. CASE /\ Library(g).files = Files
                 /\ library' = [library EXCEPT ![kind].once = "ready"]
        <5> DEFINE new == [once |-> "ready", files |-> Files]
        <5>1. [library[kind] EXCEPT !.once = "ready"] = new
          BY <1>1, <3>1, <4>1 DEF LibraryTyped, Library
        <5>2. library' = [library EXCEPT ![kind] =
                            [library[kind] EXCEPT !.once = "ready"]]
          BY <4>1, Zenon
        <5>3. library' = [library EXCEPT ![kind] =
                            [once |-> "ready", files |-> Files]]
          BY <5>1, <5>2, Zenon
        <5>4. Files \in 0 .. Files
          BY BoundsAssumption
        <5>5. QED
          BY <5>3, <5>4, Zenon
      <4>2. ASSUME NEW files \in IF kind = "host" THEN {Library(g).files}
                                                  ELSE {0},
                   library' = [library EXCEPT ![kind] =
                                 [once |-> "failed", files |-> files]]
            PROVE  \E once \in {"ready", "failed"}, f \in 0 .. Files :
                     /\ library' = [library EXCEPT ![kind] =
                                     [once |-> once, files |-> f]]
                     /\ once = "ready" => f = Files
        <5>1. files \in 0 .. Files
          BY <3>1, <4>2, BoundsAssumption DEF Library
        <5>2. QED
          BY <4>2, <5>1
      <4>3. QED
        BY <2>3, <4>1, <4>2 DEF EndExtract
    <3>5. LibraryTyped' /\ ReadyComplete'
      BY <1>1, <3>1, <3>2, <3>4 DEF LibraryTyped, LibraryInv, ReadyComplete
    <3>6. OneExtracts'
      <4>1. SUFFICES ASSUME NEW h \in Goroutines, At(h, "extract")'
                     PROVE  /\ Library(h)'.once = "busy"
                            /\ \A i \in Goroutines :
                                 At(i, "extract")' /\ fs'[i].kind = fs'[h].kind
                                   => i = h
        BY DEF OneExtracts
      <4>2. h # g /\ At(h, "extract")
        BY <3>3, <4>1 DEF At
      <4>3. fs[h].kind # kind /\ fs[h].kind \in Kinds
        BY <1>1, <3>1, <4>2 DEF LibraryInv, OneExtracts, LibraryTyped
      <4>4. Library(h)' = Library(h)
        BY <1>1, <3>2, <3>4, <4>3 DEF LibraryTyped, Library
      <4>5. \A i \in Goroutines : At(i, "extract")' => At(i, "extract")
        BY <3>3 DEF At
      <4>6. QED
        BY <3>2, <4>2, <4>4, <4>5 DEF LibraryInv, OneExtracts
    <3>7. ReadyWhenPast'
      <4>1. \A h \in Goroutines : Ready(h) => Ready(h)'
        BY <1>1, <3>1, <3>2, <3>4 DEF LibraryTyped, Ready
      <4>2. ASSUME NEW h \in Goroutines, h # g
            PROVE  At(h, "populate")' =>
                     fs'[h].kind = "memory" /\ Library(h)'.once = "ready"
        BY <1>1, <3>1, <3>2, <3>3, <3>4, <4>2
        DEF LibraryTyped, LibraryInv, ReadyWhenPast, At, Library
      <4>3. QED
        BY <3>2, <3>3, <4>1, <4>2
        DEF LibraryInv, ReadyWhenPast, At, PastLibrary
    <3>8. QED
      BY <3>5, <3>6, <3>7 DEF LibraryInv
  <2>4. CASE CopyFile(g)
    BY <1>1, <2>4, BoundsAssumption
    DEF CopyFile, At, LibraryInv, LibraryTyped, OneExtracts, ReadyWhenPast,
        ReadyComplete, PastLibrary, Ready, Library
  <2>5. CASE EndCopy(g)
    <3>1. UNCHANGED <<interp, library, fs>>
      BY <2>5 DEF EndCopy
    <3>2. CASE fs[g].files = library["memory"].files /\ GoTo(g, "boot")
      <4>1. Ready(g)
        BY <2>5, <3>2
        DEF EndCopy, At, LibraryInv, ReadyWhenPast, ReadyComplete, Ready,
            Library, Kinds
      <4>2. Moves(g, "boot")
        BY <1>1, <3>2, <4>1, BootMoves
      <4>3. QED
        BY <3>1, <4>2, InterpretersStay
    <3>3. CASE Exit(g, 1)
      BY <1>1, <3>1, <3>3, ExitMoves, InterpretersStay
    <3>4. QED
      BY <2>5, <3>2, <3>3 DEF EndCopy
  <2>6. CASE RunReturns(g)
    BY <1>1, <2>6
    DEF RunReturns, NewJob, At, JobsTyped, Job, LibraryInv, LibraryTyped,
        OneExtracts, ReadyWhenPast, ReadyComplete, PastLibrary, Ready, Library
  <2>7. CASE ParseArgs(g) \/ StatFile(g)
    <3>1. UNCHANGED <<interp, library, fs>>
      BY <2>7 DEF ParseArgs, StatFile
    <3>2. \E point \in {"stat", "library", "exit"} : Moves(g, point)
      <4>1. \E point \in {"stat", "library", "exit"} :
              \/ GoTo(g, point)
              \/ \E code : job' = [job EXCEPT ![g].at = point,
                                             ![g].code = code]
              \/ \E mode : job' = [job EXCEPT ![g].at = point,
                                             ![g].mode = mode]
        BY <2>7 DEF ParseArgs, StatFile, Exit
      <4>2. QED
        BY <1>1, <4>1, GoToPoint DEF PastLibrary
    <3>3. QED
      BY <3>1, <3>2, InterpretersStay
  <2>8. CASE HaveLibrary(g)
    <3>1. UNCHANGED <<interp, library, fs>>
      BY <2>8 DEF HaveLibrary
    <3>2. CASE Exit(g, 1)
      BY <1>1, <3>1, <3>2, ExitMoves, InterpretersStay
    <3>3. CASE Library(g).once = "ready" /\ GoTo(g, AfterLibrary(g))
      <4>1. CASE fs[g].kind = "host"
        <5>1. Ready(g) /\ GoTo(g, "boot")
          BY <3>3, <4>1 DEF Ready, Library, AfterLibrary
        <5>2. Moves(g, "boot")
          BY <1>1, <5>1, BootMoves
        <5>3. QED
          BY <3>1, <5>2, InterpretersStay
      <4>2. CASE fs[g].kind = "memory"
        <5>1. GoTo(g, "populate")
          BY <3>3, <4>2 DEF AfterLibrary
        <5>2. QED
          BY <1>1, <3>1, <3>3, <4>2, <5>1
          DEF GoTo, At, JobsTyped, Job, LibraryInv, LibraryTyped, OneExtracts,
              ReadyWhenPast, ReadyComplete, PastLibrary, Ready, Library
      <4>3. QED
        BY <1>1, <4>1, <4>2 DEF LibraryTyped, Kinds
    <3>4. QED
      BY <2>8, <3>2, <3>3 DEF HaveLibrary
  <2>9. CASE Boot(g) \/ NextRun(g)
    <3>1. Ready(g) /\ BeginRun(g)
      BY <2>9 DEF Boot, NextRun, At, LibraryInv, ReadyWhenPast, PastLibrary
    <3>2. PICK dir \in Dirs :
            job' = [job EXCEPT ![g] =
                     [job[g] EXCEPT
                        !.at = "setup", !.run = job[g].run + 1, !.dir = dir,
                        !.ctx = "live", !.step = 1, !.ended = "none",
                        !.flushed = FALSE, !.ret = "none"]]
      BY <1>1, <3>1 DEF BeginRun, JobsTyped, Job
    <3> DEFINE j == [job[g] EXCEPT
                       !.at = "setup", !.run = job[g].run + 1, !.dir = dir,
                       !.ctx = "live", !.step = 1, !.ended = "none",
                       !.flushed = FALSE, !.ret = "none"]
    <3>3. j.at = "setup"
      BY <1>1 DEF JobsTyped, Job
    <3>4. job' = [job EXCEPT ![g] = j]
      BY <3>2, Zenon
    <3> HIDE DEF j
    <3>5. Moves(g, j.at)
      BY <1>1, <3>1, <3>3, <3>4, NewPoint
    <3>6. interp' = [interp EXCEPT ![g] = "up"] /\ UNCHANGED <<library, fs>>
      BY <3>1 DEF BeginRun
    <3>7. QED
      BY <1>1, <3>1, <3>5, <3>6, OutsideLibrary DEF LibraryTyped
  <2>10. CASE BootFails(g) \/ Close(g) \/ Report(g)
    <3>1. \E point \in {"exit", "close"} : Moves(g, point)
      <4>1. \E point \in {"exit", "close"} :
              \/ GoTo(g, point)
              \/ \E code : job' = [job EXCEPT ![g].at = point,
                                             ![g].code = code]
        BY <2>10 DEF BootFails, Close, Report, Exit
      <4>2. QED
        BY <1>1, <4>1, GoToPoint DEF PastLibrary
    <3>2. /\ UNCHANGED <<library, fs>>
          /\ \/ UNCHANGED interp
             \/ \E i \in {"none", "abandoned", "closed"} :
                  interp' = [interp EXCEPT ![g] = i]
      BY <2>10 DEF BootFails, Close, Report
    <3>3. QED
      BY <1>1, <3>1, <3>2, OutsideLibrary DEF LibraryTyped
  <2>11. CASE \/ SetupStep(g) \/ SetupFails(g) \/ CallScript(g) \/ CallFails(g)
             \/ ScriptEnds(g) \/ FlushStep(g) \/ FlushFails(g)
             \/ CancelContext(g)
    <3>1. job[g].at \in PastLibrary /\ UNCHANGED <<interp, library, fs>>
      BY <2>11
      DEF SetupStep, SetupFails, CallScript, CallFails, ScriptEnds, FlushStep,
          FlushFails, CancelContext, At, PastLibrary
    <3>2. Ready(g)
      BY <3>1 DEF LibraryInv, ReadyWhenPast
    <3>3. ASSUME NEW j \in Job, job' = [job EXCEPT ![g] = j],
                 j.at \in PastLibrary
          PROVE  LibraryInv'
      <4>1. Moves(g, j.at)
        BY <1>1, <3>2, <3>3, NewPoint DEF PastLibrary
      <4>2. QED
        BY <3>1, <4>1, InterpretersStay
    <3>4. CASE SetupStep(g) \/ SetupFails(g) \/ CallScript(g)
      <4>1. ASSUME SetupFails(g)
            PROVE  job'[g].at \in PastLibrary
        BY <1>1, <4>1, ReturnedPoint DEF SetupFails, PastLibrary
      <4>2. ASSUME SetupStep(g) \/ CallScript(g)
            PROVE  job'[g].at \in PastLibrary
        BY <1>1, <3>1, <4>2
        DEF SetupStep, CallScript, GoTo, JobsTyped, Job, PastLibrary
      <4>3. job'[g].at \in PastLibrary
        BY <3>4, <4>1, <4>2
      <4>4. QED
        BY <1>1, <3>3, <3>4, <4>3, SetupFits DEF NewJobFits, JobsTyped
    <3>5. CASE CancelContext(g)
      <4>1. job'[g].at \in PastLibrary
        BY <1>1, <3>1, <3>5 DEF CancelContext, JobsTyped, Job, PastLibrary
      <4>2. QED
        BY <1>1, <3>3, <3>5, <4>1, SetupFits DEF NewJobFits, JobsTyped
    <3>6. CASE CallFails(g) \/ ScriptEnds(g)
      <4>1. ASSUME NEW runErr, CallReturns(g, runErr)
            PROVE  job'[g].at = "flush"
        <5> DEFINE k == [job[g] EXCEPT !.at = "flush"]
                   n == [k EXCEPT !.step = 1, !.ended = runErr]
        <5>1. k.at = "flush" /\ k \in Job
          BY <1>1 DEF JobsTyped, Job, Points
        <5>2. job' = [job EXCEPT ![g] = n]
          BY <1>1, <4>1 DEF CallReturns, JobsTyped
        <5>3. n.at = k.at
          <6> HIDE DEF k
          <6>1. QED
            BY <5>1 DEF Job
        <5> HIDE DEF n, k
        <5>4. QED
          BY <1>1, <5>1, <5>2, <5>3 DEF JobsTyped
      <4>2. job'[g].at \in PastLibrary
        BY <3>6, <4>1 DEF CallFails, ScriptEnds, PastLibrary
      <4>3. QED
        BY <1>1, <3>3, <3>6, <4>2, EndFits DEF NewJobFits, JobsTyped
    <3>7. CASE FlushStep(g) \/ FlushFails(g)
      <4>1. job'[g].at \in PastLibrary
        <5>1. CASE FlushFails(g)
          BY <1>1, <5>1, ReturnedPoint DEF FlushFails, PastLibrary
        <5>2. ASSUME NEW step, job' = [job EXCEPT ![g].step = step]
              PROVE  job'[g].at \in PastLibrary
          BY <1>1, <3>1, <5>2 DEF JobsTyped, Job
        <5>3. CASE Return(g, job[g].ended, TRUE)
          BY <1>1, <5>3, ReturnedPoint DEF PastLibrary
        <5>4. QED
          BY <3>7, <5>1, <5>2, <5>3 DEF FlushStep
      <4>2. QED
        BY <1>1, <3>3, <3>7, <4>1, EndFits DEF NewJobFits, JobsTyped
    <3>8. QED
      BY <2>11, <3>4, <3>5, <3>6, <3>7
  <2>12. QED
    BY <1>2, <2>1, <2>2, <2>3, <2>4, <2>5, <2>6, <2>7, <2>8, <2>9, <2>10, <2>11
    DEF Step
<1>3. CASE UNCHANGED vars
  BY <1>3
  DEF vars, At, LibraryInv, LibraryTyped, OneExtracts, ReadyWhenPast,
      ReadyComplete, Ready, Library
<1>4. QED
  BY <1>2, <1>3 DEF Next

(* No interpreter starts, and none runs, on a part of the library, however *)
(* many goroutines ask for it at once and wherever an extraction stops     *)
(* (src/fs/stdlib.go:109-159).                                             *)
THEOREM LibraryIsComplete == Spec => []LibraryComplete
<1>1. LibraryInv => LibraryComplete
  BY DEF LibraryInv, ReadyWhenPast, ReadyComplete, LibraryComplete, At,
         PastLibrary, Ready, Kinds
<1>2. QED
  BY <1>1, OutcomeInit, OutcomeNext, LibraryInit, LibraryNext, PTL DEF Spec

-----------------------------------------------------------------------------
(***************************************************************************)
(* The runs.  What a goroutine's job says of its guest and of its screen:  *)
(* which of sys.path and sys.argv the setup has already written, which     *)
(* buffers the flush has already emptied, and what has been shown and with *)
(* which code the command ends.                                            *)
(***************************************************************************)
Shows == Streams \cup {"report"}

RunsTyped ==
  /\ guest \in [Goroutines -> GuestType]
  /\ screen \in [Commands -> Seq(Shows)]

(* Before the first run, and after the last. *)
Early ==
  {"args", "stat", "library", "extract", "populate", "boot", "done"}

Numbers(j) ==
  /\ j.run \in 0 .. MaxRuns /\ j.step \in 0 .. 7
  /\ j.at \in Early => j.run = 0 /\ j.ended = "none" /\ ~j.flushed
  /\ j.at = "setup" => j.step >= 1
  /\ j.at = "flush" => j.step \in 1 .. 5

Heads(gu, dir) == gu.path # <<>> /\ gu.path[1] = dir

(* The step of the setup that writes sys.argv. *)
ArgvStep(mode) == IF mode = "file" THEN 6 ELSE 3

Given(j, gu) ==
  /\ j.at = "setup" /\ j.mode = "file" /\ j.step = 3 => gu.path # NotAList
  /\ j.at = "setup" /\ j.mode = "file" /\ j.step > 3 => Heads(gu, j.dir)
  /\ j.at = "setup" /\ j.step > ArgvStep(j.mode) => gu.argv = j.run
  /\ j.at \in {"call", "script"} =>
       gu.argv = j.run /\ (j.mode = "file" => Heads(gu, j.dir))

Clean(gu, s) == gu.bound[s] = "stream" => s \notin gu.held

Seen(j, gu) ==
  /\ j.at = "flush" /\ j.step > 3 => Clean(gu, "stdout")
  /\ j.at \in {"returned", "close", "exit"} /\ j.flushed =>
       \A s \in Streams : Clean(gu, s)

Running(j, i) ==
  i = "up" =>
    j.at \in {"setup", "call", "script", "flush", "returned", "close"}

Unreported(seq) == \A i \in 1 .. Len(seq) : seq[i] # "report"

LastOnly(seq) == \A i \in 1 .. Len(seq) : seq[i] = "report" => i = Len(seq)

AllStreams(gu) == \A s \in Streams : gu.bound[s] = "stream"

Shown(j, gu, seq) ==
  /\ j.at \notin {"close", "exit"} => Unreported(seq)
  /\ j.at = "close" => LastOnly(seq)
  /\ j.at = "exit" /\ j.flushed /\ AllStreams(gu) => LastOnly(seq)

Returned(j) ==
  j.at = "returned" => j.ret # "none"

Coded(j) ==
  j.at \in {"close", "exit"} =>
    /\ j.ended = "exit0" => j.code = 0
    /\ j.ended = "exit3" => j.code = 3
    /\ j.ended \in {"raised", "host"} => j.code = 1
    /\ j.code = 0 => j.ret = "exit0" \/ (j.ended = "ok" /\ j.flushed)

Fine(g) ==
  /\ Numbers(job[g]) /\ Given(job[g], guest[g]) /\ Seen(job[g], guest[g])
  /\ Running(job[g], interp[g]) /\ Returned(job[g])
  /\ g \in Commands =>
       Shown(job[g], guest[g], screen[g]) /\ Coded(job[g])

RunsInv == RunsTyped /\ \A g \in Goroutines : Fine(g)

(* What is g's alone. *)
OnlyOf(g) ==
  \A h \in Goroutines :
    h # g => /\ job'[h] = job[h] /\ guest'[h] = guest[h]
             /\ interp'[h] = interp[h]
             /\ h \in Commands => screen'[h] = screen[h]

LEMMA RunsKept ==
  ASSUME RunsInv, NEW g \in Goroutines, OnlyOf(g), RunsTyped', Fine(g)'
  PROVE  RunsInv'
<1>1. ASSUME NEW h \in Goroutines, h # g
      PROVE  Fine(h)'
  <2>1. /\ job'[h] = job[h] /\ guest'[h] = guest[h] /\ interp'[h] = interp[h]
        /\ h \in Commands => screen'[h] = screen[h]
    BY <1>1 DEF OnlyOf
  <2>2. Fine(h)
    BY DEF RunsInv
  <2>3. QED
    BY <2>1, <2>2 DEF Fine
<1>2. QED
  BY <1>1 DEF RunsInv

(* SetToSeq of a set of streams is a sequence of them. *)
LEMMA StreamsInOrder ==
  ASSUME NEW ss \in SUBSET Streams
  PROVE  /\ SetToSeq(ss) \in Seq(Shows)
         /\ \A i \in 1 .. Len(SetToSeq(ss)) : SetToSeq(ss)[i] # "report"
         /\ ss = {} => SetToSeq(ss) = <<>>
<1> DEFINE n == Cardinality(ss)
           F == [1 .. n -> ss]
           f == SetToSeq(ss)
<1>1. IsFiniteSet({"stdout"} \cup {"stderr"})
  BY FS_Singleton, FS_AddElement
<1>2. Streams = {"stdout"} \cup {"stderr"}
  BY DEF Streams
<1>3. IsFiniteSet(ss)
  BY <1>1, <1>2, FS_Subset
<1>4. n \in Nat /\ ExistsBijection(1 .. n, ss)
  BY <1>3, FS_CardinalityType
<1>5. \E k \in F : IsInjective(k)
  BY <1>4 DEF ExistsBijection, Bijection, Injection
<1>6. f \in F
  BY <1>5 DEF SetToSeq
<1> HIDE DEF f
<1>7. f \in Seq(Shows) /\ Len(f) = n /\ \A i \in 1 .. n : f[i] \in ss
  <2>1. f \in [1 .. n -> Shows]
    BY <1>6 DEF Shows
  <2>2. f \in Seq(Shows)
    BY <1>4, <2>1, SeqDef
  <2>3. QED
    BY <1>4, <1>6, <2>2, LenProperties
<1>8. ASSUME ss = {}
      PROVE  f = <<>>
  <2>1. n = 0
    BY <1>8, FS_EmptySet
  <2>2. QED
    BY <1>7, <2>1, EmptySeq
<1>9. QED
  BY <1>7, <1>8 DEF Streams, f

(* Text from the streams changes nothing about where the report is. *)
LEMMA Delivered ==
  ASSUME NEW seq \in Seq(Shows), NEW ss \in SUBSET Streams
  PROVE  /\ seq \o SetToSeq(ss) \in Seq(Shows)
         /\ Unreported(seq) => Unreported(seq \o SetToSeq(ss))
         /\ ss = {} => seq \o SetToSeq(ss) = seq
<1> DEFINE f == SetToSeq(ss)
<1>1. /\ f \in Seq(Shows) /\ \A i \in 1 .. Len(f) : f[i] # "report"
      /\ ss = {} => f = <<>>
  BY StreamsInOrder
<1> HIDE DEF f
<1>2. /\ seq \o f \in Seq(Shows) /\ Len(seq \o f) = Len(seq) + Len(f)
      /\ \A i \in 1 .. Len(seq) + Len(f) :
           (seq \o f)[i] = IF i <= Len(seq) THEN seq[i] ELSE f[i - Len(seq)]
  BY <1>1, ConcatProperties
<1>3. Len(seq) \in Nat /\ Len(f) \in Nat
  BY <1>1, LenProperties
<1>4. ASSUME Unreported(seq), NEW i \in 1 .. Len(seq \o f)
      PROVE  (seq \o f)[i] # "report"
  <2>1. CASE i <= Len(seq)
    BY <1>2, <1>3, <1>4, <2>1 DEF Unreported
  <2>2. CASE i > Len(seq)
    <3>1. i - Len(seq) \in 1 .. Len(f)
      BY <1>2, <1>3, <1>4, <2>2
    <3>2. (seq \o f)[i] = f[i - Len(seq)]
      BY <1>2, <1>3, <1>4, <2>2
    <3>3. QED
      BY <1>1, <3>1, <3>2
  <2>3. QED
    BY <1>2, <1>3, <2>1, <2>2
<1>5. QED
  BY <1>1, <1>2, <1>4, ConcatEmptySeq DEF Unreported, f

(* What comes first in sys.path after an insert. *)
LEMMA Inserted ==
  ASSUME NEW gu, gu.path \in Seq(Dirs), NEW dir \in Dirs
  PROVE  /\ <<dir>> \o gu.path \in Seq(Dirs)
         /\ <<dir>> \o gu.path # <<>>
         /\ (<<dir>> \o gu.path)[1] = dir
<1> DEFINE D   == Dirs
           one == <<dir>>
<1>1. gu.path \in Seq(D)
  OBVIOUS
<1>2. one \in Seq(D) /\ Len(one) = 1 /\ one[1] = dir
  <2>1. dir \in D
    OBVIOUS
  <2> HIDE DEF D
  <2>2. one \in Seq(D)
    BY <2>1
  <2>3. Len(one) = 1
    OBVIOUS
  <2>4. one[1] = dir
    OBVIOUS
  <2>5. QED
    BY <2>2, <2>3, <2>4, Zenon
<1>3. Len(gu.path) \in Nat
  BY <1>1, LenProperties
<1> HIDE DEF D, one
<1>4. /\ one \o gu.path \in Seq(D)
      /\ Len(one \o gu.path) = 1 + Len(gu.path)
      /\ \A i \in 1 .. 1 + Len(gu.path) :
           (one \o gu.path)[i] = IF i <= 1 THEN one[i] ELSE gu.path[i - 1]
  <2>1. /\ one \o gu.path \in Seq(D)
        /\ Len(one \o gu.path) = Len(one) + Len(gu.path)
        /\ \A i \in 1 .. Len(one) + Len(gu.path) :
             (one \o gu.path)[i] =
               IF i <= Len(one) THEN one[i] ELSE gu.path[i - Len(one)]
    BY <1>1, <1>2, ConcatProperties, Zenon
  <2>2. QED
    BY <1>2, <2>1
<1>5. (one \o gu.path)[1] = dir
  BY <1>2, <1>3, <1>4
<1>6. one \o gu.path # <<>>
  <2>1. Len(one \o gu.path) # 0
    BY <1>3, <1>4
  <2>2. QED
    BY <2>1, EmptySeq, Zenon
<1>7. QED
  BY <1>4, <1>5, <1>6 DEF D, one

(* The calls of a setup. *)
LEMMA StepNames ==
  ASSUME NEW mode \in {"file", "command"}, NEW n \in 1 .. 7
  PROVE  /\ Len(Steps(mode)) = 7
         /\ Steps(mode)[n] = "path" <=> mode = "file" /\ n = 2
         /\ Steps(mode)[n] = "insert" <=> mode = "file" /\ n = 3
         /\ Steps(mode)[n] = "argv" <=> n = ArgvStep(mode)
<1>1. n = 1 \/ n = 2 \/ n = 3 \/ n = 4 \/ n = 5 \/ n = 6 \/ n = 7
  OBVIOUS
<1>2. CASE mode = "file"
  BY <1>1, <1>2 DEF Steps, FileSteps, ArgvStep
<1>3. CASE mode = "command"
  BY <1>1, <1>3 DEF Steps, CommandSteps, ArgvStep
<1>4. QED
  BY <1>2, <1>3

(* A job before its first run has neither a run nor an outcome, and no     *)
(* success yet; what it makes of that is a point, perhaps with a code.     *)
Goes(g, point) ==
  /\ \A h \in Goroutines : h # g => job'[h] = job[h]
  /\ job'[g].at = point /\ job'[g].run = job[g].run
  /\ job'[g].step = job[g].step /\ job'[g].ended = job[g].ended
  /\ job'[g].flushed = job[g].flushed /\ job'[g].ret = job[g].ret

LEMMA GoToGoes ==
  ASSUME JobsTyped, NEW g \in Goroutines, NEW point, GoTo(g, point)
  PROVE  Goes(g, point) /\ job'[g] = [job[g] EXCEPT !.at = point]
  BY DEF JobsTyped, Job, GoTo, Goes

LEMMA ExitGoes ==
  ASSUME JobsTyped, NEW g \in Goroutines, NEW code,
         NEW point,
         job' = [job EXCEPT ![g].at = point, ![g].code = code]
  PROVE  Goes(g, point) /\ job'[g].code = code
<1> DEFINE j == job[g]
           new == [j EXCEPT !.at = point, !.code = code]
<1>1. j \in Job
  BY DEF JobsTyped
<1>2. /\ new.at = point /\ new.run = j.run /\ new.step = j.step
      /\ new.ended = j.ended /\ new.flushed = j.flushed /\ new.ret = j.ret
      /\ new.code = code
  BY <1>1 DEF Job
<1>3. job' = [job EXCEPT ![g] = new]
  BY DEF JobsTyped
<1> HIDE DEF new
<1>4. QED
  BY <1>2, <1>3 DEF JobsTyped, Goes

LEMMA ModeGoes ==
  ASSUME JobsTyped, NEW g \in Goroutines, NEW mode, NEW point,
         job' = [job EXCEPT ![g].at = point, ![g].mode = mode]
  PROVE  Goes(g, point)
<1> DEFINE j == job[g]
           new == [j EXCEPT !.at = point, !.mode = mode]
<1>1. j \in Job
  BY DEF JobsTyped
<1>2. /\ new.at = point /\ new.run = j.run /\ new.step = j.step
      /\ new.ended = j.ended /\ new.flushed = j.flushed /\ new.ret = j.ret
  BY <1>1 DEF Job
<1>3. job' = [job EXCEPT ![g] = new]
  BY DEF JobsTyped
<1> HIDE DEF new
<1>4. QED
  BY <1>2, <1>3 DEF JobsTyped, Goes

(* What is before the first run stays so, or exits with a code of failure. *)
LEMMA EarlyKept ==
  ASSUME RunsInv, NEW g \in Goroutines, UNCHANGED <<guest, screen>>,
         job[g].at \in Early,
         \A h \in Goroutines : h # g => interp'[h] = interp[h],
         interp'[g] # "up",
         NEW point, Goes(g, point),
         \/ point \in Early
         \/ point = "exit" /\ job'[g].code \in {1, 2}
  PROVE  RunsInv'
<1>1. RunsTyped'
  BY DEF RunsInv, RunsTyped
<1>2. Fine(g)
  BY DEF RunsInv
<1>3. Numbers(job'[g]) /\ Given(job'[g], guest[g]) /\ Seen(job'[g], guest[g])
  BY <1>2 DEF Fine, Numbers, Given, Seen, Early, Goes
<1>4. Running(job'[g], interp'[g]) /\ Returned(job'[g])
  BY DEF Running, Returned, Early, Goes
<1>5. ASSUME g \in Commands
      PROVE  Shown(job'[g], guest[g], screen[g]) /\ Coded(job'[g])
  BY <1>2, <1>5 DEF Fine, Numbers, Shown, Coded, Early, Goes
<1>6. Fine(g)'
  BY <1>3, <1>4, <1>5 DEF Fine
<1>7. OnlyOf(g)
  BY DEF OnlyOf, Goes
<1>8. QED
  BY <1>1, <1>6, <1>7, RunsKept

LEMMA EarlyRuns ==
  ASSUME OutcomeInv, LibraryInv, RunsInv, NEW g \in Goroutines,
         \/ ParseArgs(g) \/ StatFile(g) \/ BeginExtract(g) \/ EndExtract(g)
         \/ HaveLibrary(g) \/ EndCopy(g) \/ BootFails(g)
  PROVE  RunsInv'
<1>1. JobsTyped
  BY DEF OutcomeInv
<1>2. job[g].at \in Early /\ UNCHANGED <<guest, screen>>
  BY DEF ParseArgs, StatFile, BeginExtract, EndExtract, HaveLibrary, EndCopy,
         BootFails, At, Early
<1>3. interp[g] # "up"
  BY <1>2 DEF RunsInv, Fine, Running, Early
<1>4. /\ \A h \in Goroutines : h # g => interp'[h] = interp[h]
      /\ interp'[g] # "up"
  <2>1. CASE BootFails(g)
    BY <2>1 DEF BootFails, LibraryInv, LibraryTyped
  <2>2. CASE UNCHANGED interp
    BY <1>3, <2>2
  <2>3. QED
    BY <2>1, <2>2
    DEF ParseArgs, StatFile, BeginExtract, EndExtract, HaveLibrary, EndCopy
<1>5. \/ \E point \in Early : GoTo(g, point)
      \/ \E code \in {1, 2} : Exit(g, code)
      \/ job' = [job EXCEPT ![g].at = "library", ![g].mode = "command"]
  BY DEF ParseArgs, StatFile, BeginExtract, EndExtract, HaveLibrary, EndCopy,
         BootFails, AfterLibrary, Early
<1>6. CASE \E point \in Early : GoTo(g, point)
  BY <1>1, <1>2, <1>4, <1>6, GoToGoes, EarlyKept
<1>7. ASSUME NEW code \in {1, 2}, Exit(g, code)
      PROVE  RunsInv'
  <2>1. Goes(g, "exit") /\ job'[g].code = code
    BY <1>1, <1>7, ExitGoes DEF Exit
  <2>2. QED
    BY <1>2, <1>4, <1>7, <2>1, EarlyKept
<1>8. CASE job' = [job EXCEPT ![g].at = "library", ![g].mode = "command"]
  <2>1. Goes(g, "library") /\ "library" \in Early
    BY <1>1, <1>8, ModeGoes DEF Early
  <2>2. QED
    BY <1>2, <1>4, <2>1, EarlyKept
<1>9. QED
  BY <1>5, <1>6, <1>7, <1>8

(* A new run: RunFile or runCommand begins. *)
LEMMA BeginFields ==
  ASSUME JobsTyped, NEW g \in Goroutines, BeginRun(g)
  PROVE  /\ \A h \in Goroutines : h # g => job'[h] = job[h]
         /\ job'[g].at = "setup" /\ job'[g].run = job[g].run + 1
         /\ job'[g].step = 1
<1> DEFINE j == job[g]
<1>1. j \in Job
  BY DEF JobsTyped
<1>2. PICK dir \in Dirs :
        job' = [job EXCEPT ![g] =
                 [j EXCEPT !.at = "setup", !.run = j.run + 1, !.dir = dir,
                           !.ctx = "live", !.step = 1, !.ended = "none",
                           !.flushed = FALSE, !.ret = "none"]]
  BY <1>1 DEF BeginRun, Job
<1> DEFINE r == [j EXCEPT !.at = "setup", !.run = j.run + 1, !.dir = dir,
                          !.ctx = "live"]
           q == [r EXCEPT !.step = 1, !.ended = "none"]
           new == [q EXCEPT !.flushed = FALSE, !.ret = "none"]
<1>3. r \in Job /\ r.at = "setup" /\ r.run = j.run + 1
  <2>1. r.at = "setup" /\ r.run = j.run + 1
    BY <1>1 DEF Job
  <2>2. j.run + 1 \in Int
    BY <1>1 DEF Job
  <2>3. r \in Job
    BY <1>1, <2>2 DEF Job, Points
  <2>4. QED
    BY <2>1, <2>3, Zenon
<1>4. job' = [job EXCEPT ![g] = new]
  BY <1>2, Zenon
<1> HIDE DEF r
<1>5. q \in Job /\ q.at = r.at /\ q.run = r.run /\ q.step = 1
  <2>1. q.at = r.at /\ q.run = r.run /\ q.step = 1
    BY <1>3 DEF Job
  <2> DEFINE t == [r EXCEPT !.step = 1]
  <2>2. t \in Job
    BY <1>3 DEF Job
  <2>3. q = [t EXCEPT !.ended = "none"]
    BY <1>3 DEF Job
  <2> HIDE DEF t, q
  <2>4. q \in Job
    BY <2>2, <2>3 DEF Job
  <2>5. QED
    BY <2>1, <2>4, Zenon
<1> HIDE DEF q
<1>6. new.at = q.at /\ new.run = q.run /\ new.step = q.step
  BY <1>5 DEF Job
<1> HIDE DEF new
<1>7. QED
  BY <1>3, <1>4, <1>5, <1>6 DEF JobsTyped

LEMMA BeginRuns ==
  ASSUME OutcomeInv, OutcomeInv', LibraryInv, RunsInv, NEW g \in Goroutines,
         Boot(g) \/ NextRun(g)
  PROVE  RunsInv'
<1>1. JobsTyped /\ JobsTyped' /\ BeginRun(g)
  BY DEF OutcomeInv, Boot, NextRun
<1>2. /\ \A h \in Goroutines : h # g => job'[h] = job[h]
      /\ job'[g].at = "setup" /\ job'[g].run = job[g].run + 1
      /\ job'[g].step = 1
  BY <1>1, BeginFields
<1>3. Fine(g)
  BY DEF RunsInv
<1>4. job'[g].run \in 0 .. MaxRuns
  BY <1>1, <1>2, <1>3, BoundsAssumption
  DEF Boot, NextRun, At, Fine, Numbers, Early, JobsTyped, Job
<1>5. Numbers(job'[g])
  BY <1>2, <1>4 DEF Numbers, Early
<1>6. /\ guest' = guest
      /\ \A h \in Goroutines : h # g => interp'[h] = interp[h]
  BY <1>1 DEF BeginRun, LibraryInv, LibraryTyped
<1>7. Given(job'[g], guest[g]) /\ Seen(job'[g], guest[g])
  BY <1>2 DEF Given, Seen, ArgvStep
<1>8. Running(job'[g], interp'[g]) /\ Returned(job'[g]) /\ Coded(job'[g])
  BY <1>2 DEF Running, Returned, Coded
<1>9. screen' \in [Commands -> Seq(Shows)]
  BY <1>1 DEF BeginRun, Cleared, RunsInv, RunsTyped
<1>10. /\ g \in Commands => screen'[g] = <<>>
       /\ \A h \in Commands : h # g => screen'[h] = screen[h]
  BY <1>1 DEF BeginRun, Cleared, RunsInv, RunsTyped
<1>11. g \in Commands => Shown(job'[g], guest[g], screen'[g])
  BY <1>2, <1>10 DEF Shown, Unreported
<1>12. Fine(g)'
  BY <1>5, <1>6, <1>7, <1>8, <1>11 DEF Fine
<1>13. RunsTyped' /\ OnlyOf(g)
  BY <1>2, <1>6, <1>9, <1>10 DEF RunsTyped, RunsInv, OnlyOf
<1>14. QED
  BY <1>12, <1>13, RunsKept

(* One call of the setup: it may write sys.path or sys.argv. *)
LEMMA SetupRuns ==
  ASSUME OutcomeInv, RunsInv, NEW g \in Goroutines, SetupStep(g)
  PROVE  RunsInv'
<1> DEFINE j  == job[g]
           k  == job'[g]
           gu == guest[g]
           nu == guest'[g]
           name == Steps(j.mode)[j.step]
<1>1. j \in Job /\ gu \in GuestType /\ Fine(g) /\ JobsTyped /\ RunsTyped
  BY DEF OutcomeInv, JobsTyped, RunsInv, RunsTyped
<1>2. /\ j.at = "setup" /\ j.step \in 1 .. 7
      /\ UNCHANGED <<interp, screen>>
  BY <1>1 DEF SetupStep, At, Fine, Numbers
<1>3. /\ Len(Steps(j.mode)) = 7
      /\ name = "path" <=> j.mode = "file" /\ j.step = 2
      /\ name = "insert" <=> j.mode = "file" /\ j.step = 3
      /\ name = "argv" <=> j.step = ArgvStep(j.mode)
  BY <1>1, <1>2, StepNames DEF Job
<1>4. /\ \A h \in Goroutines : h # g => job'[h] = job[h]
      /\ k.run = j.run /\ k.mode = j.mode /\ k.dir = j.dir
      /\ \/ j.step < 7 /\ k.at = "setup" /\ k.step = j.step + 1
         \/ j.step = 7 /\ k.at = "call" /\ k.step = j.step
  <2>1. CASE j.step < 7
    <3>1. job' = [job EXCEPT ![g].step = @ + 1]
      BY <1>3, <2>1 DEF SetupStep
    <3>2. QED
      BY <1>1, <1>2, <2>1, <3>1 DEF JobsTyped, Job
  <2>2. CASE j.step = 7
    <3>1. GoTo(g, "call")
      BY <1>3, <2>2 DEF SetupStep
    <3>2. QED
      BY <1>1, <2>2, <3>1 DEF GoTo, JobsTyped, Job
  <2>3. QED
    BY <1>2, <2>1, <2>2
<1>5. /\ \A h \in Goroutines : h # g => guest'[h] = guest[h]
      /\ guest' \in [Goroutines -> GuestType]
      /\ j.mode = "file" /\ j.step = 3 => Heads(nu, j.dir)
      /\ ~(j.mode = "file" /\ j.step = 3) => nu.path = gu.path
      /\ j.step = ArgvStep(j.mode) => nu.argv = j.run
      /\ j.step # ArgvStep(j.mode) => nu.argv = gu.argv
  <2>1. CASE name = "insert"
    <3> DEFINE path == InsertedPath(g)
               new  == [gu EXCEPT !.path = path]
    <3>1. /\ path \in Seq(Dirs)
          /\ path # <<>> /\ path[1] = j.dir
      <4>1. gu.path \in Seq(Dirs) /\ j.dir \in Dirs
        BY <1>1, <1>2, <1>3, <2>1 DEF Fine, Given, GuestType, Job
      <4>2. QED
        BY <4>1, Inserted DEF InsertedPath
    <3>2. guest' = [guest EXCEPT ![g].path = path]
      BY <2>1 DEF SetupStep
    <3> HIDE DEF path
    <3>3. new \in GuestType /\ new.path = path /\ new.argv = gu.argv
      BY <1>1, <3>1 DEF GuestType
    <3>4. guest' = [guest EXCEPT ![g] = new]
      BY <1>1, <3>2 DEF RunsTyped
    <3> HIDE DEF new
    <3>5. /\ guest' \in [Goroutines -> GuestType] /\ nu = new
          /\ \A h \in Goroutines : h # g => guest'[h] = guest[h]
      BY <1>1, <3>3, <3>4 DEF RunsTyped
    <3>6. QED
      BY <1>3, <2>1, <3>1, <3>3, <3>5 DEF Heads, ArgvStep
  <2>2. CASE name = "argv"
    <3> DEFINE new == [gu EXCEPT !.argv = j.run]
    <3>1. guest' = [guest EXCEPT ![g].argv = j.run]
      BY <2>2 DEF SetupStep
    <3>2. new \in GuestType /\ new.path = gu.path /\ new.argv = j.run
      BY <1>1 DEF GuestType, Fine, Numbers
    <3>3. guest' = [guest EXCEPT ![g] = new]
      BY <1>1, <3>1 DEF RunsTyped
    <3> HIDE DEF new
    <3>4. /\ guest' \in [Goroutines -> GuestType] /\ nu = new
          /\ \A h \in Goroutines : h # g => guest'[h] = guest[h]
      BY <1>1, <3>2, <3>3 DEF RunsTyped
    <3>5. QED
      BY <1>3, <2>2, <3>2, <3>4 DEF ArgvStep
  <2>3. CASE name \notin {"insert", "argv"}
    <3>1. guest' = guest
      BY <2>3 DEF SetupStep
    <3>2. QED
      BY <1>1, <1>3, <2>3, <3>1 DEF RunsTyped
  <2>4. QED
    BY <2>1, <2>2, <2>3
<1>6. j.mode = "file" /\ j.step = 2 => nu.path # NotAList
  BY <1>3, <1>5 DEF SetupStep
<1> HIDE DEF name
<1>7. Given(j, gu) /\ Numbers(j) /\ Running(j, interp[g])
  BY <1>1 DEF Fine
<1>8. Given(k, nu)
  <2>1. ASSUME k.at = "setup", k.mode = "file", k.step > 3
        PROVE  Heads(nu, k.dir)
    BY <1>2, <1>4, <1>5, <1>7, <2>1 DEF Given, Heads
  <2>2. ASSUME k.at = "setup", k.step > ArgvStep(k.mode)
        PROVE  nu.argv = k.run
    BY <1>2, <1>4, <1>5, <1>7, <2>2 DEF Given, ArgvStep
  <2>3. ASSUME k.at = "call"
        PROVE  nu.argv = k.run /\ (k.mode = "file" => Heads(nu, k.dir))
    BY <1>2, <1>4, <1>5, <1>7, <2>3 DEF Given, ArgvStep, Heads
  <2>4. ASSUME k.at = "setup", k.mode = "file", k.step = 3
        PROVE  nu.path # NotAList
    BY <1>2, <1>4, <1>6, <2>4
  <2>5. QED
    BY <1>4, <2>1, <2>2, <2>3, <2>4 DEF Given
<1>9. Numbers(k) /\ Seen(k, nu) /\ Running(k, interp'[g]) /\ Returned(k)
  BY <1>2, <1>4, <1>7 DEF Numbers, Seen, Running, Returned, Early
<1>10. g \in Commands => Shown(k, nu, screen'[g]) /\ Coded(k)
  BY <1>1, <1>2, <1>4 DEF Fine, Shown, Coded
<1>11. Fine(g)'
  BY <1>8, <1>9, <1>10 DEF Fine
<1>12. RunsTyped' /\ OnlyOf(g)
  BY <1>1, <1>2, <1>4, <1>5 DEF RunsTyped, OnlyOf
<1>13. QED
  BY <1>11, <1>12, RunsKept

(* The script is called, or the context of a run ends. *)
LEMMA CalledRuns ==
  ASSUME OutcomeInv, RunsInv, NEW g \in Goroutines,
         CallScript(g) \/ CancelContext(g)
  PROVE  RunsInv'
<1>1. Fine(g) /\ JobsTyped /\ UNCHANGED <<guest, interp, screen>>
  BY DEF OutcomeInv, RunsInv, CallScript, CancelContext
<1>2. CASE CallScript(g)
  <2>1. /\ Goes(g, "script") /\ job'[g].dir = job[g].dir
        /\ job'[g].mode = job[g].mode /\ job[g].at = "call"
    BY <1>1, <1>2 DEF CallScript, At, GoTo, Goes, JobsTyped, Job
  <2>2. Numbers(job'[g]) /\ Given(job'[g], guest[g]) /\ Seen(job'[g], guest[g])
    BY <1>1, <2>1 DEF Fine, Numbers, Given, Seen, Goes, Early
  <2>3. /\ Running(job'[g], interp[g]) /\ Returned(job'[g])
        /\ g \in Commands => Shown(job'[g], guest[g], screen[g])
                             /\ Coded(job'[g])
    BY <1>1, <2>1 DEF Fine, Running, Returned, Shown, Coded, Goes
  <2>4. Fine(g)'
    BY <1>1, <2>2, <2>3 DEF Fine
  <2>5. OnlyOf(g) /\ RunsTyped'
    BY <1>1, <2>1 DEF OnlyOf, Goes, RunsTyped, RunsInv
  <2>6. QED
    BY <2>4, <2>5, RunsKept
<1>3. CASE CancelContext(g)
  <2>1. /\ Goes(g, job[g].at) /\ job'[g].dir = job[g].dir
        /\ job'[g].mode = job[g].mode
        /\ job[g].at \in {"setup", "call", "script", "flush"}
    BY <1>1, <1>3 DEF CancelContext, At, Goes, JobsTyped, Job
  <2>2. Numbers(job'[g]) /\ Given(job'[g], guest[g]) /\ Seen(job'[g], guest[g])
    BY <1>1, <2>1 DEF Fine, Numbers, Given, Seen, Goes, Early
  <2>3. /\ Running(job'[g], interp[g]) /\ Returned(job'[g])
        /\ g \in Commands => Shown(job'[g], guest[g], screen[g])
                             /\ Coded(job'[g])
    BY <1>1, <2>1 DEF Fine, Running, Returned, Shown, Coded, Goes
  <2>4. Fine(g)'
    BY <1>1, <2>2, <2>3 DEF Fine
  <2>5. OnlyOf(g) /\ RunsTyped'
    BY <1>1, <2>1 DEF OnlyOf, Goes, RunsTyped, RunsInv
  <2>6. QED
    BY <2>4, <2>5, RunsKept
<1>4. QED
  BY <1>2, <1>3

LEMMA EndedFields ==
  ASSUME JobsTyped, NEW g \in Goroutines, NEW runErr \in Outcomes,
         CallReturns(g, runErr)
  PROVE  /\ \A h \in Goroutines : h # g => job'[h] = job[h]
         /\ job'[g].at = "flush" /\ job'[g].step = 1
         /\ job'[g].run = job[g].run
<1> DEFINE j == job[g]
           r == [j EXCEPT !.at = "flush"]
           q == [r EXCEPT !.step = 1]
           new == [q EXCEPT !.ended = runErr]
<1>1. j \in Job
  BY DEF JobsTyped
<1>2. job' = [job EXCEPT ![g] =
               [j EXCEPT !.at = "flush", !.step = 1, !.ended = runErr]]
  BY DEF CallReturns, JobsTyped
<1>3. job' = [job EXCEPT ![g] = new]
  BY <1>2, Zenon
<1>4. r \in Job /\ r.at = "flush" /\ r.run = j.run
  BY <1>1 DEF Job, Points
<1> HIDE DEF r
<1>5. q \in Job /\ q.at = r.at /\ q.run = r.run /\ q.step = 1
  BY <1>4 DEF Job
<1> HIDE DEF q
<1>6. new.at = q.at /\ new.run = q.run /\ new.step = q.step
  BY <1>5 DEF Job
<1> HIDE DEF new
<1>7. QED
  BY <1>3, <1>4, <1>5, <1>6 DEF JobsTyped

LEMMA ReturnedFields ==
  ASSUME JobsTyped, NEW g \in Goroutines, NEW ret, NEW flushed,
         Return(g, ret, flushed)
  PROVE  /\ \A h \in Goroutines : h # g => job'[h] = job[h]
         /\ job'[g].at = "returned" /\ job'[g].step = 0
         /\ job'[g].flushed = flushed /\ job'[g].ret = ret
         /\ job'[g].run = job[g].run /\ job'[g].ended = job[g].ended
<1> DEFINE j == job[g]
           r == [j EXCEPT !.at = "returned"]
           q == [r EXCEPT !.step = 0]
           new == [q EXCEPT !.flushed = flushed, !.ret = ret]
<1>1. j \in Job
  BY DEF JobsTyped
<1>2. job' = [job EXCEPT ![g] = new]
  BY Zenon DEF Return
<1>3. /\ r \in Job /\ r.at = "returned" /\ r.run = j.run
      /\ r.ended = j.ended
  BY <1>1 DEF Job, Points
<1> HIDE DEF r
<1>4. /\ q \in Job /\ q.at = r.at /\ q.run = r.run /\ q.ended = r.ended
      /\ q.step = 0
  BY <1>3 DEF Job
<1> HIDE DEF q
<1>5. /\ new.at = q.at /\ new.run = q.run /\ new.ended = q.ended
      /\ new.step = q.step /\ new.flushed = flushed /\ new.ret = ret
  BY <1>4 DEF Job
<1> HIDE DEF new
<1>6. QED
  BY <1>2, <1>3, <1>4, <1>5 DEF JobsTyped

(* A run returns, with what it has delivered. *)
LEMMA ReturnRuns ==
  ASSUME JobsTyped, RunsInv, NEW g \in Goroutines,
         NEW ret, NEW flushed \in BOOLEAN, Return(g, ret, flushed),
         ret # "none", UNCHANGED interp, RunsTyped',
         \A h \in Goroutines : h # g => guest'[h] = guest[h],
         \A h \in Commands : h # g => screen'[h] = screen[h],
         flushed => \A s \in Streams : Clean(guest'[g], s),
         g \in Commands => Unreported(screen'[g])
  PROVE  RunsInv'
<1>1. /\ \A h \in Goroutines : h # g => job'[h] = job[h]
      /\ job'[g].at = "returned" /\ job'[g].step = 0
      /\ job'[g].flushed = flushed /\ job'[g].ret = ret
      /\ job'[g].run = job[g].run /\ job'[g].ended = job[g].ended
  BY ReturnedFields
<1>2. Numbers(job[g])
  BY DEF RunsInv, Fine
<1>3. Numbers(job'[g]) /\ Given(job'[g], guest'[g]) /\ Seen(job'[g], guest'[g])
  BY <1>1, <1>2 DEF Numbers, Given, Seen, Early
<1>4. Running(job'[g], interp'[g]) /\ Returned(job'[g])
  BY <1>1 DEF Running, Returned
<1>5. g \in Commands => Shown(job'[g], guest'[g], screen'[g]) /\ Coded(job'[g])
  BY <1>1 DEF Shown, Coded
<1>6. Fine(g)'
  BY <1>3, <1>4, <1>5 DEF Fine
<1>7. OnlyOf(g)
  BY <1>1 DEF OnlyOf
<1>8. QED
  BY <1>6, <1>7, RunsKept

(* The setup or the flush fails: nothing is delivered. *)
LEMMA FailedRuns ==
  ASSUME OutcomeInv, RunsInv, NEW g \in Goroutines,
         SetupFails(g) \/ FlushFails(g)
  PROVE  RunsInv'
<1>1. /\ JobsTyped /\ Told(job[g]) /\ Fine(g) /\ job[g] \in Job
      /\ UNCHANGED <<guest, interp, screen>>
      /\ job[g].at \in {"setup", "flush"}
  BY DEF OutcomeInv, JobsTyped, RunsInv, SetupFails, FlushFails, At
<1>2. PICK ret \in Outcomes : Return(g, ret, FALSE)
  <2>1. CASE SetupFails(g)
    BY <2>1 DEF SetupFails, Errors, ExitStatus, Outcomes
  <2>2. CASE FlushFails(g)
    <3>1. PICK e \in Errors(job[g].ctx) :
            Return(g, AfterFailedFlush(g, e), FALSE)
      BY <2>2 DEF FlushFails
    <3>2. e \in Outcomes
      BY DEF Errors, ExitStatus, Outcomes
    <3>3. job[g].ended \in Outcomes
      BY <1>1, <2>2 DEF Told, Job, FlushFails, At
    <3>4. QED
      BY <3>1, <3>2, <3>3 DEF AfterFailedFlush
  <2>3. QED
    BY <2>1, <2>2
<1>3. RunsTyped'
  BY <1>1 DEF RunsInv, RunsTyped
<1>4. g \in Commands => Unreported(screen'[g])
  BY <1>1 DEF Fine, Shown
<1>5. ret # "none"
  BY DEF Outcomes
<1>6. QED
  BY <1>1, <1>2, <1>3, <1>4, <1>5, ReturnRuns

(* The call of the script is over, with or without the script. *)
LEMMA EndedRuns ==
  ASSUME OutcomeInv, RunsInv, NEW g \in Goroutines,
         CallFails(g) \/ ScriptEnds(g)
  PROVE  RunsInv'
<1>1. /\ JobsTyped /\ Fine(g) /\ UNCHANGED <<interp, screen>>
      /\ job[g].at \in {"call", "script"}
      /\ RunsTyped
  BY DEF OutcomeInv, RunsInv, CallFails, ScriptEnds, At
<1>2. PICK runErr \in Outcomes : CallReturns(g, runErr)
  BY DEF CallFails, ScriptEnds, Errors, ExitStatus, Outcomes
<1>3. /\ \A h \in Goroutines : h # g => job'[h] = job[h]
      /\ job'[g].at = "flush" /\ job'[g].step = 1
      /\ job'[g].run = job[g].run
  BY <1>1, <1>2, EndedFields
<1>4. /\ guest' \in [Goroutines -> GuestType]
      /\ \A h \in Goroutines : h # g => guest'[h] = guest[h]
  <2>1. CASE CallFails(g)
    BY <1>1, <2>1 DEF CallFails, RunsTyped
  <2>2. CASE ScriptEnds(g)
    <3> DEFINE gu == guest[g]
    <3>1. PICK printed \in SUBSET Streams, rebound \in Streams,
               to \in Bindings,
               path \in {gu.path, NotAList} :
            guest' = [guest EXCEPT ![g] = [gu EXCEPT
                        !.held = gu.held \cup
                          {s \in printed : gu.bound[s] = "stream"},
                        !.bound[rebound] = to,
                        !.path = path]]
      BY <2>2 DEF ScriptEnds
    <3> DEFINE held == gu.held \cup {s \in printed : gu.bound[s] = "stream"}
               r == [gu EXCEPT !.held = held]
               q == [r EXCEPT !.bound[rebound] = to]
               new == [q EXCEPT !.path = path]
    <3>2. gu \in GuestType
      BY <1>1 DEF RunsTyped
    <3>3. held \in SUBSET Streams
      BY <3>2 DEF GuestType
    <3>4. guest' = [guest EXCEPT ![g] = new]
      BY <3>1, Zenon
    <3> HIDE DEF held
    <3>5. r \in GuestType /\ r.path = gu.path
      BY <3>2, <3>3 DEF GuestType
    <3> HIDE DEF r
    <3>6. q \in GuestType
      BY <3>5 DEF GuestType
    <3> HIDE DEF q
    <3>7. path \in Seq(Dirs) \cup {NotAList}
      BY <3>2 DEF GuestType
    <3>8. new \in GuestType
      BY <3>6, <3>7 DEF GuestType
    <3> HIDE DEF new
    <3>9. QED
      BY <1>1, <3>4, <3>8 DEF RunsTyped
  <2>3. QED
    BY <2>1, <2>2
<1>5. Numbers(job'[g]) /\ Given(job'[g], guest'[g]) /\ Seen(job'[g], guest'[g])
  BY <1>1, <1>3 DEF Fine, Numbers, Given, Seen, Early
<1>6. Running(job'[g], interp'[g]) /\ Returned(job'[g])
  BY <1>3 DEF Running, Returned
<1>7. g \in Commands => Shown(job'[g], guest'[g], screen'[g]) /\ Coded(job'[g])
  BY <1>1, <1>3 DEF Fine, Shown, Coded
<1>8. Fine(g)'
  BY <1>5, <1>6, <1>7 DEF Fine
<1>9. RunsTyped' /\ OnlyOf(g)
  BY <1>1, <1>3, <1>4 DEF RunsTyped, OnlyOf
<1>10. QED
  BY <1>8, <1>9, RunsKept

(* What the buffers of ss hold reaches the screen, and leaves the buffers. *)
LEMMA DeliverRuns ==
  ASSUME RunsTyped, NEW g \in Goroutines, NEW ss \in SUBSET Streams,
         Deliver(g, ss)
  PROVE  /\ RunsTyped'
         /\ \A h \in Goroutines : h # g => guest'[h] = guest[h]
         /\ \A h \in Commands : h # g => screen'[h] = screen[h]
         /\ guest'[g].held = guest[g].held \ ss
         /\ guest'[g].bound = guest[g].bound
         /\ g \in Commands =>
              /\ Unreported(screen[g]) => Unreported(screen'[g])
              /\ ss \cap guest[g].held = {} => screen'[g] = screen[g]
<1> DEFINE gu  == guest[g]
           new == [gu EXCEPT !.held = @ \ ss]
           out == ss \cap gu.held
<1>1. gu \in GuestType /\ out \in SUBSET Streams
  BY DEF RunsTyped
<1>2. guest' = [guest EXCEPT ![g] = new]
  BY DEF Deliver, RunsTyped
<1>3. new \in GuestType /\ new.held = gu.held \ ss /\ new.bound = gu.bound
  BY <1>1 DEF GuestType
<1> HIDE DEF new
<1>4. /\ guest' \in [Goroutines -> GuestType] /\ guest'[g] = new
      /\ \A h \in Goroutines : h # g => guest'[h] = guest[h]
  BY <1>2, <1>3 DEF RunsTyped
<1>5. CASE g \in Commands
  <2> DEFINE seq == screen[g] \o SetToSeq(out)
  <2>1. screen' = [screen EXCEPT ![g] = seq]
    BY <1>5 DEF Deliver
  <2>2. screen[g] \in Seq(Shows)
    BY <1>5 DEF RunsTyped
  <2>3. PICK s \in Seq(Shows) : s = screen[g]
    BY <2>2
  <2>4. PICK o \in SUBSET Streams : o = out
    BY <1>1
  <2>5. /\ s \o SetToSeq(o) \in Seq(Shows)
        /\ Unreported(s) => Unreported(s \o SetToSeq(o))
        /\ o = {} => s \o SetToSeq(o) = s
    BY Delivered
  <2> HIDE DEF out
  <2>6. seq = s \o SetToSeq(o)
    BY <2>3, <2>4
  <2> HIDE DEF seq
  <2>7. /\ screen' \in [Commands -> Seq(Shows)] /\ screen'[g] = seq
        /\ \A h \in Commands : h # g => screen'[h] = screen[h]
    BY <1>5, <2>1, <2>5, <2>6 DEF RunsTyped
  <2>8. /\ Unreported(screen[g]) => Unreported(screen'[g])
        /\ out = {} => screen'[g] = screen[g]
    BY <2>3, <2>4, <2>5, <2>6, <2>7
  <2>9. QED
    BY <1>3, <1>4, <2>7, <2>8 DEF RunsTyped, out
<1>6. CASE g \notin Commands
  <2>1. screen' = screen
    BY <1>6 DEF Deliver
  <2>2. QED
    BY <1>3, <1>4, <1>6, <2>1 DEF RunsTyped
<1>7. QED
  BY <1>5, <1>6

(* A step of FlushStdio. *)
LEMMA FlushRuns ==
  ASSUME OutcomeInv, RunsInv, NEW g \in Goroutines, FlushStep(g)
  PROVE  RunsInv'
<1> DEFINE j == job[g]
           gu == guest[g]
           nu == guest'[g]
           next == PastStream(g)
<1>1. /\ JobsTyped /\ Told(j) /\ Fine(g) /\ j \in Job /\ RunsTyped
      /\ UNCHANGED interp /\ j.at = "flush" /\ j.step \in 1 .. 5
  BY DEF OutcomeInv, JobsTyped, RunsInv, FlushStep, At, Fine, Numbers
<1>2. /\ RunsTyped'
      /\ \A h \in Goroutines : h # g => guest'[h] = guest[h]
      /\ \A h \in Commands : h # g => screen'[h] = screen[h]
      /\ nu.bound = gu.bound
      /\ j.step \in {3, 5} /\ gu.bound[StreamOf(j.step)] = "stream" =>
           StreamOf(j.step) \notin nu.held
      /\ nu.held \subseteq gu.held
      /\ g \in Commands => Unreported(screen'[g])
  <2>1. g \in Commands => Unreported(screen[g])
    BY <1>1 DEF Fine, Shown
  <2>2. CASE j.step \in {3, 5} /\ gu.bound[StreamOf(j.step)] = "stream"
    <3>1. Deliver(g, {StreamOf(j.step)})
      BY <2>2 DEF FlushStep
    <3>2. PICK s \in Streams : s = StreamOf(j.step)
      BY DEF StreamOf, Streams
    <3>3. Deliver(g, {s})
      BY <3>1, <3>2
    <3>4. {s} \in SUBSET Streams
      BY <3>2
    <3>5. /\ RunsTyped'
          /\ \A h \in Goroutines : h # g => guest'[h] = guest[h]
          /\ \A h \in Commands : h # g => screen'[h] = screen[h]
          /\ nu.held = gu.held \ {s} /\ nu.bound = gu.bound
          /\ g \in Commands => (Unreported(screen[g]) => Unreported(screen'[g]))
      BY <1>1, <3>3, <3>4, DeliverRuns
    <3>6. QED
      BY <2>1, <3>2, <3>5
  <2>3. CASE ~(j.step \in {3, 5} /\ gu.bound[StreamOf(j.step)] = "stream")
    <3>1. UNCHANGED <<guest, screen>>
      BY <2>3 DEF FlushStep
    <3>2. QED
      BY <1>1, <2>1, <2>3, <3>1 DEF RunsTyped
  <2>4. QED
    BY <2>2, <2>3
<1>3. nu \in GuestType
  BY <1>2 DEF RunsTyped
(* Each buffer is empty, or its stream is not what sys names, once the     *)
(* flush is past it.                                                       *)
<1>4. next > 3 => Clean(nu, "stdout")
  <2>1. CASE j.step > 3
    <3>1. Clean(gu, "stdout")
      BY <1>1, <2>1 DEF Fine, Seen
    <3>2. QED
      BY <1>2, <3>1 DEF Clean
  <2>2. CASE j.step = 3
    BY <1>2, <2>2 DEF Clean, StreamOf
  <2>3. CASE j.step = 2
    BY <1>2, <2>3 DEF Clean, StreamOf, PastStream
  <2>4. CASE j.step = 1
    BY <2>4 DEF PastStream
  <2>5. QED
    BY <1>1, <2>1, <2>2, <2>3, <2>4
<1>5. next > 5 => \A s \in Streams : Clean(nu, s)
  <2>1. CASE j.step = 5
    <3>1. Clean(nu, "stdout")
      BY <1>4, <2>1 DEF PastStream
    <3>2. Clean(nu, "stderr")
      BY <1>2, <2>1 DEF Clean, StreamOf
    <3>3. QED
      BY <3>1, <3>2 DEF Streams
  <2>2. CASE j.step = 4
    <3>1. Clean(nu, "stdout")
      BY <1>4, <2>2 DEF PastStream
    <3>2. next > 5 => Clean(nu, "stderr")
      BY <1>2, <2>2 DEF Clean, StreamOf, PastStream
    <3>3. QED
      BY <3>1, <3>2 DEF Streams
  <2>3. CASE j.step \in {1, 2, 3}
    BY <2>3 DEF PastStream
  <2>4. QED
    BY <1>1, <2>1, <2>2, <2>3
<1>6. next \in 2 .. 6
  BY <1>1 DEF PastStream
<1>7. Len(FlushSteps) = 5
  BY DEF FlushSteps
<1>8. CASE next <= 5
  <2>1. job' = [job EXCEPT ![g].step = next]
    BY <1>7, <1>8 DEF FlushStep
  <2> HIDE DEF next
  <2>2. /\ \A h \in Goroutines : h # g => job'[h] = job[h]
        /\ job'[g].at = "flush" /\ job'[g].step = next
        /\ job'[g].run = j.run
    BY <1>1, <2>1 DEF JobsTyped, Job
  <2>3. /\ Numbers(job'[g]) /\ Given(job'[g], nu) /\ Seen(job'[g], nu)
    BY <1>1, <1>4, <1>6, <1>8, <2>2 DEF Fine, Numbers, Given, Seen, Early
  <2>4. /\ Running(job'[g], interp'[g]) /\ Returned(job'[g])
        /\ g \in Commands => Shown(job'[g], nu, screen'[g]) /\ Coded(job'[g])
    BY <1>2, <2>2 DEF Running, Returned, Shown, Coded
  <2>5. Fine(g)'
    BY <2>3, <2>4 DEF Fine
  <2>6. OnlyOf(g)
    BY <1>1, <1>2, <2>2 DEF OnlyOf
  <2>7. QED
    BY <1>2, <2>5, <2>6, RunsKept
<1>9. CASE next > 5
  <2>1. Return(g, j.ended, TRUE)
    <3>1. ~(next <= Len(FlushSteps))
      BY <1>6, <1>7, <1>9
    <3>2. QED
      BY <3>1, Zenon DEF FlushStep
  <2>2. PICK ret \in Outcomes : ret = j.ended
    BY <1>1 DEF Told, Job
  <2>3. Return(g, ret, TRUE) /\ ret # "none"
    BY <2>1, <2>2 DEF Outcomes
  <2>4. QED
    BY <1>1, <1>2, <1>5, <1>9, <2>2, <2>3, ReturnRuns
<1>10. QED
  BY <1>6, <1>8, <1>9

(* The command reports how the run went. *)
LEMMA ReportRuns ==
  ASSUME OutcomeInv, RunsInv, NEW g \in Goroutines, Report(g)
  PROVE  RunsInv'
<1> DEFINE j == job[g]
           code == ExitCodeOf(j.ret)
<1>1. /\ JobsTyped /\ Told(j) /\ Fine(g) /\ j \in Job /\ RunsTyped
      /\ UNCHANGED <<guest, interp>> /\ g \in Commands /\ j.at = "returned"
  BY DEF OutcomeInv, JobsTyped, RunsInv, Report, At
<1>2. /\ j.ended = "exit0" => code = 0
      /\ j.ended = "exit3" => code = 3
      /\ j.ended \in {"raised", "host"} => code = 1
      /\ code = 0 => j.ret = "exit0" \/ (j.ended = "ok" /\ j.flushed)
  <2>1. /\ code = 0 => j.ret \in {"ok", "exit0"}
        /\ j.ret = "exit0" => code = 0
        /\ j.ret = "exit3" => code = 3
        /\ j.ret \in {"raised", "host"} => code = 1
    BY DEF ExitCodeOf, ExitStatus
  <2>2. QED
    BY <1>1, <2>1 DEF Told, Fine, Returned
<1>3. Goes(g, "close") /\ job'[g].code = code
  <2>1. job' = [job EXCEPT ![g].at = "close", ![g].code = code]
    BY Zenon DEF Report
  <2>2. PICK c : c = code
    OBVIOUS
  <2>3. job' = [job EXCEPT ![g].at = "close", ![g].code = c]
    BY <2>1, <2>2
  <2>4. QED
    BY <1>1, <2>2, <2>3, ExitGoes
<1> HIDE DEF code
<1>4. /\ screen' \in [Commands -> Seq(Shows)]
      /\ \A h \in Commands : h # g => screen'[h] = screen[h]
      /\ LastOnly(screen'[g])
  <2>1. screen[g] \in Seq(Shows) /\ Unreported(screen[g])
    BY <1>1 DEF RunsTyped, Fine, Shown
  <2>2. CASE screen' = screen
    BY <1>1, <2>1, <2>2 DEF RunsTyped, Unreported, LastOnly
  <2>3. CASE screen' = [screen EXCEPT ![g] = Append(@, "report")]
    <3> DEFINE seq == Append(screen[g], "report")
    <3>1. PICK s \in Seq(Shows) : s = screen[g]
      BY <2>1
    <3>2. /\ Append(s, "report") \in Seq(Shows)
          /\ Len(Append(s, "report")) = Len(s) + 1
          /\ \A i \in 1 .. Len(s) : Append(s, "report")[i] = s[i]
      BY AppendProperties DEF Shows
    <3>3. Len(s) \in Nat
      BY LenProperties
    <3>4. LastOnly(Append(s, "report"))
      BY <2>1, <3>1, <3>2, <3>3 DEF Unreported, LastOnly
    <3>5. seq \in Seq(Shows) /\ LastOnly(seq)
      BY <3>1, <3>2, <3>4
    <3>6. screen' = [screen EXCEPT ![g] = seq]
      BY <2>3
    <3> HIDE DEF seq
    <3>7. QED
      BY <1>1, <3>5, <3>6 DEF RunsTyped
  <2>4. QED
    BY <2>2, <2>3 DEF Report
<1>5. Numbers(job'[g]) /\ Given(job'[g], guest'[g]) /\ Seen(job'[g], guest'[g])
  BY <1>1, <1>3 DEF Fine, Numbers, Given, Seen, Early, Goes
<1>6. Running(job'[g], interp'[g]) /\ Returned(job'[g])
  BY <1>3 DEF Running, Returned, Goes
<1>7. Shown(job'[g], guest'[g], screen'[g]) /\ Coded(job'[g])
  BY <1>2, <1>3, <1>4 DEF Shown, Coded, Goes
<1>8. Fine(g)'
  BY <1>5, <1>6, <1>7 DEF Fine
<1>9. RunsTyped' /\ OnlyOf(g)
  BY <1>1, <1>3, <1>4 DEF RunsTyped, OnlyOf, Goes
<1>10. QED
  BY <1>8, <1>9, RunsKept

(* Close: what is left in the buffers is delivered, after any report. *)
LEMMA CloseRuns ==
  ASSUME OutcomeInv, LibraryInv, RunsInv, NEW g \in Goroutines, Close(g)
  PROVE  RunsInv'
<1> DEFINE j  == job[g]
           gu == guest[g]
           nu == guest'[g]
<1>1. /\ JobsTyped /\ Fine(g) /\ j \in Job /\ RunsTyped /\ gu \in GuestType
      /\ j.at = IF g \in Commands THEN "close" ELSE "returned"
  BY DEF OutcomeInv, JobsTyped, RunsInv, RunsTyped, Close, At
<1>2. /\ Goes(g, "exit")
      /\ job'[g] = [j EXCEPT !.at = "exit"]
  BY <1>1, GoToGoes DEF Close
<1>3. job'[g].code = j.code
  BY <1>1, <1>2 DEF Job
<1>4. PICK ss \in SUBSET Streams :
        Deliver(g, ss \cup {s \in Streams : gu.bound[s] = "stream"})
  BY DEF Close
<1>5. PICK S \in SUBSET Streams : Deliver(g, S)
  BY <1>4
<1>6. /\ RunsTyped'
      /\ \A h \in Goroutines : h # g => guest'[h] = guest[h]
      /\ \A h \in Commands : h # g => screen'[h] = screen[h]
      /\ nu.held = gu.held \ S /\ nu.bound = gu.bound
      /\ g \in Commands => (S \cap gu.held = {} => screen'[g] = screen[g])
  BY <1>1, <1>5, DeliverRuns
<1>7. Seen(job'[g], nu)
  BY <1>1, <1>2, <1>6 DEF Fine, Seen, Clean, Goes
<1>8. g \in Commands => Shown(job'[g], nu, screen'[g])
  <2>1. ASSUME g \in Commands, j.flushed, AllStreams(nu)
        PROVE  LastOnly(screen'[g])
    <3>1. \A s \in Streams : gu.bound[s] = "stream" => s \notin gu.held
      BY <1>1, <2>1 DEF Fine, Seen, Clean
    <3>2. gu.held = {}
      BY <1>1, <1>6, <2>1, <3>1 DEF AllStreams, GuestType
    <3>3. screen'[g] = screen[g]
      BY <1>6, <2>1, <3>2
    <3>4. QED
      BY <1>1, <2>1, <3>3 DEF Fine, Shown
  <2>2. QED
    BY <1>2, <2>1 DEF Shown, Goes
<1>9. g \in Commands => Coded(job'[g])
  BY <1>1, <1>2, <1>3 DEF Fine, Coded, Goes
<1>10. Numbers(job'[g]) /\ Given(job'[g], nu) /\ Returned(job'[g])
  BY <1>1, <1>2 DEF Fine, Numbers, Given, Returned, Early, Goes
<1>11. /\ Running(job'[g], interp'[g])
       /\ \A h \in Goroutines : h # g => interp'[h] = interp[h]
  BY <1>2 DEF Close, LibraryInv, LibraryTyped, Running, Goes
<1>12. Fine(g)'
  BY <1>7, <1>8, <1>9, <1>10, <1>11 DEF Fine
<1>13. OnlyOf(g)
  BY <1>2, <1>6, <1>11 DEF OnlyOf, Goes
<1>14. QED
  BY <1>6, <1>12, <1>13, RunsKept

LEMMA NewGuestTyped == NewGuest \in GuestType
<1>1. <<>> \in Seq(Dirs) /\ 0 \in 0 .. MaxRuns
  BY EmptySeq, BoundsAssumption
<1>2. [s \in Streams |-> "stream"] \in [Streams -> Bindings]
  BY DEF Bindings
<1> DEFINE bound == [s \in Streams |-> "stream"]
<1> HIDE DEF bound
<1>3. QED
  BY <1>1, <1>2 DEF NewGuest, GuestType, bound

(* Run returns. *)
LEMMA DoneRuns ==
  ASSUME OutcomeInv, RunsInv, NEW g \in Goroutines, RunReturns(g)
  PROVE  RunsInv'
<1>1. /\ JobsTyped /\ Fine(g) /\ RunsTyped /\ UNCHANGED interp
      /\ job[g].at = "exit"
  BY DEF OutcomeInv, RunsInv, RunReturns, At
<1>2. /\ job'[g] = NewJob("done")
      /\ \A h \in Goroutines : h # g => job'[h] = job[h]
  BY <1>1 DEF RunReturns, JobsTyped
<1>3. /\ job'[g].at = "done" /\ job'[g].run = 0 /\ job'[g].step = 0
      /\ job'[g].ended = "none" /\ job'[g].flushed = FALSE
  BY <1>2 DEF NewJob
<1>4. /\ guest' \in [Goroutines -> GuestType]
      /\ \A h \in Goroutines : h # g => guest'[h] = guest[h]
  BY <1>1, NewGuestTyped DEF RunReturns, RunsTyped
<1>5. /\ screen' \in [Commands -> Seq(Shows)]
      /\ g \in Commands => screen'[g] = <<>>
      /\ \A h \in Commands : h # g => screen'[h] = screen[h]
  BY <1>1 DEF RunReturns, Cleared, RunsTyped
<1>6. /\ Numbers(job'[g]) /\ Given(job'[g], guest'[g])
      /\ Seen(job'[g], guest'[g])
  BY <1>3, BoundsAssumption DEF Numbers, Given, Seen
<1>7. Running(job'[g], interp'[g]) /\ Returned(job'[g])
  BY <1>1, <1>3 DEF Fine, Running, Returned
<1>8. g \in Commands => Shown(job'[g], guest'[g], screen'[g]) /\ Coded(job'[g])
  BY <1>3, <1>5 DEF Shown, Coded, Unreported
<1>9. Fine(g)'
  BY <1>6, <1>7, <1>8 DEF Fine
<1>10. RunsTyped' /\ OnlyOf(g)
  BY <1>1, <1>2, <1>4, <1>5 DEF RunsTyped, OnlyOf
<1>11. QED
  BY <1>9, <1>10, RunsKept

LEMMA RunsInit == Init => RunsInv
<1> SUFFICES ASSUME Init
             PROVE  RunsInv
  OBVIOUS
<1>1. RunsTyped
  BY NewGuestTyped DEF Init, RunsTyped
<1>2. ASSUME NEW g \in Goroutines
      PROVE  Fine(g)
  <2>1. /\ job[g].at \in {"args", "library"} /\ job[g].run = 0
        /\ job[g].step = 0 /\ job[g].ended = "none" /\ job[g].flushed = FALSE
        /\ interp[g] = "none"
        /\ g \in Commands => screen[g] = <<>>
    BY DEF Init, NewJob
  <2>2. Numbers(job[g]) /\ Given(job[g], guest[g]) /\ Seen(job[g], guest[g])
    BY <2>1, BoundsAssumption DEF Numbers, Given, Seen
  <2>3. /\ Running(job[g], interp[g]) /\ Returned(job[g])
        /\ g \in Commands => Shown(job[g], guest[g], screen[g])
                             /\ Coded(job[g])
    BY <2>1 DEF Running, Returned, Shown, Coded, Unreported
  <2>4. QED
    BY <2>2, <2>3 DEF Fine
<1>3. QED
  BY <1>1, <1>2 DEF RunsInv

LEMMA RunsNext ==
  OutcomeInv /\ OutcomeInv' /\ LibraryInv /\ RunsInv /\ [Next]_vars => RunsInv'
<1> SUFFICES ASSUME OutcomeInv, OutcomeInv', LibraryInv, RunsInv, [Next]_vars
             PROVE  RunsInv'
  OBVIOUS
<1>1. ASSUME UNCHANGED <<job, guest, interp, screen>>
      PROVE  RunsInv'
  BY <1>1 DEF RunsInv, RunsTyped, Fine
<1>2. ASSUME NEW g \in Goroutines, Step(g) \/ CancelContext(g)
      PROVE  RunsInv'
  <2>1. CASE ExtractFile(g) \/ CopyFile(g)
    BY <1>1, <2>1 DEF ExtractFile, CopyFile
  <2>2. QED
    BY <1>2, <2>1, EarlyRuns, BeginRuns, SetupRuns, CalledRuns, FailedRuns,
       EndedRuns, FlushRuns, ReportRuns, CloseRuns, DoneRuns, Zenon DEF Step
<1>3. CASE UNCHANGED vars
  BY <1>1, <1>3 DEF vars
<1>4. QED
  BY <1>2, <1>3 DEF Next

LEMMA RunsAlways == Spec => [](OutcomeInv /\ LibraryInv /\ RunsInv)
  BY OutcomeInit, OutcomeNext, LibraryInit, LibraryNext, RunsInit, RunsNext,
     PTL DEF Spec

(* Every variable has its type, the guests' and the jobs' fields included; *)
(* a setup is at one of its seven calls and a flush at one of its five,    *)
(* and an Embedder begins no run too many.                                 *)
THEOREM ScriptTypes == Spec => []ScriptTypeOK
<1>1. OutcomeInv /\ LibraryInv /\ RunsInv => ScriptTypeOK
  <2> SUFFICES ASSUME OutcomeInv, LibraryInv, RunsInv
               PROVE  ScriptTypeOK
    OBVIOUS
  <2>1. /\ Len(FileSteps) = 7 /\ DOMAIN FlushSteps = 1 .. 5
        /\ \A mode \in {"file", "command"} : DOMAIN Steps(mode) = 1 .. 7
    BY DEF FileSteps, CommandSteps, FlushSteps, Steps
  <2>2. job \in [Goroutines -> Job] /\ \A g \in Goroutines : Numbers(job[g])
    BY DEF OutcomeInv, JobsTyped, RunsInv, Fine
  <2>3. ASSUME NEW g \in Goroutines
        PROVE  /\ job[g] \in JobType
               /\ At(g, "setup") => job[g].step \in DOMAIN Steps(job[g].mode)
               /\ At(g, "flush") => job[g].step \in DOMAIN FlushSteps
    <3>1. job[g] \in Job /\ Numbers(job[g])
      BY <2>2
    <3>2. job[g] \in JobType
      BY <2>1, <3>1 DEF Job, JobType, Numbers
    <3>3. QED
      BY <2>1, <3>1, <3>2 DEF Job, Numbers, At
  <2>4. job \in [Goroutines -> JobType]
    BY <2>2, <2>3
  <2>5. /\ guest \in [Goroutines -> GuestType]
        /\ screen \in [Commands -> Seq(Streams \cup {"report"})]
    BY DEF RunsInv, RunsTyped, Shows
  <2>6. LibraryTyped
    BY DEF LibraryInv
  <2>7. QED
    BY <2>3, <2>4, <2>5, <2>6 DEF ScriptTypeOK, LibraryTyped
<1>2. QED
  BY <1>1, RunsAlways, PTL

(* A script sees its own arguments and its own directory first, whatever   *)
(* earlier runs left in sys.path and sys.argv, also those that ended half  *)
(* way through their setup (src/python.go:110-133).                        *)
THEOREM ScriptSees == Spec => []ScriptSeesItsOwn
<1>1. RunsInv => ScriptSeesItsOwn
  BY DEF RunsInv, Fine, Given, Heads, ScriptSeesItsOwn, At
<1>2. QED
  BY <1>1, RunsAlways, PTL

(* When FlushStdio has returned nil, a stream that sys still names (or     *)
(* names again) holds no text back, also if the other is None or is        *)
(* another object (src/python.go:152-175).  Of the text of a stream that   *)
(* the script has replaced nothing is said.                                *)
THEOREM FlushedSeen == Spec => []FlushedMeansSeen
<1>1. RunsInv => FlushedMeansSeen
  BY DEF RunsInv, Fine, Seen, Clean, FlushedMeansSeen, At
<1>2. QED
  BY <1>1, RunsAlways, PTL

(* When both flushes succeeded and sys still names both streams, nothing   *)
(* the program has printed comes after the command's report of an error    *)
(* (src/cli/cli.go:143-171).                                               *)
THEOREM ReportComesLast == Spec => []ReportLast
<1>1. RunsInv => ReportLast
  <2> SUFFICES ASSUME RunsInv, NEW g \in Commands, At(g, "exit"),
                      job[g].flushed,
                      \A s \in Streams : guest[g].bound[s] = "stream",
                      NEW i \in DOMAIN screen[g], screen[g][i] = "report"
               PROVE  i = Len(screen[g])
    BY DEF ReportLast
  <2>1. g \in Goroutines
    BY DEF Goroutines
  <2>2. LastOnly(screen[g])
    BY <2>1 DEF RunsInv, Fine, Shown, AllStreams, At
  <2>3. screen[g] \in Seq(Shows)
    BY DEF RunsInv, RunsTyped
  <2>4. DOMAIN screen[g] = 1 .. Len(screen[g])
    BY <2>3, LenProperties
  <2>5. QED
    BY <2>2, <2>4 DEF LastOnly
<1>2. QED
  BY <1>1, RunsAlways, PTL

(* The exit code is the status that the script asked for, whatever becomes *)
(* of the flush; it is 1 if the script failed; and it is 0 only if script  *)
(* and flushes went well or some call, perhaps the flush, raised           *)
(* SystemExit(0).  No command leaves an interpreter open                   *)
(* (src/cli/cli.go:46-49, 83-171).                                         *)
THEOREM CodeTells == Spec => []CodeTellsOutcome
<1>1. RunsInv => CodeTellsOutcome
  <2> SUFFICES ASSUME RunsInv, NEW g \in Commands, At(g, "exit")
               PROVE  /\ interp[g] # "up"
                      /\ job[g].ended \in DOMAIN ExitStatus =>
                           job[g].code = ExitStatus[job[g].ended]
                      /\ job[g].ended \in {"raised", "host"} =>
                           job[g].code = 1
                      /\ job[g].code = 0 =>
                           \/ job[g].ret = "exit0"
                           \/ job[g].ended = "ok" /\ job[g].flushed
    BY DEF CodeTellsOutcome
  <2>1. Running(job[g], interp[g]) /\ Coded(job[g])
    BY DEF RunsInv, Fine, Goroutines
  <2>2. QED
    BY <2>1 DEF Running, Coded, At, ExitStatus
<1>2. QED
  BY <1>1, RunsAlways, PTL
=============================================================================
