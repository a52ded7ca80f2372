---------------------------- MODULE PipelineRuns ----------------------------
(***************************************************************************)
(* The runs of the ideas pipeline (pipelines/ideas/pipeline.ts): their     *)
(* checkpointed steps (pipeline-runner.ts, pipelines/store.ts), the        *)
(* registry of active runs (active-runs.ts), and those who start a run     *)
(* again or give it up: the boot of the web process and the operator       *)
(* (resume.ts), the reaper (reaper.ts) and the scheduler in the cron       *)
(* process (cron/executor.ts, pipeline-run-guard.ts).                      *)
(*                                                                         *)
(* A step of the model is a query and the code that runs on its answer, up *)
(* to the next query.  What the steps of the pipeline compute is left out: *)
(* there are LastStep of them, the last one stores the ideas.  Time is     *)
(* counted in windows of 60 s, in which a heartbeat is fresh; Stale of     *)
(* them make a dead run.                                                   *)
(***************************************************************************)
EXTENDS Naturals, FiniteSets

CONSTANTS
    Runs,          \* run ids
    LastStep,      \* number of steps of the pipeline
    Stale,         \* windows without a heartbeat that make a run dead
    MaxAttempts,   \* MAX_RESUME_ATTEMPTS
    MaxExecs,      \* bound: executions, and rows of dead ones, at a time
    MaxCrashes,    \* bound: crashes
    MaxManual,     \* bound: resumes by the operator
    MaxErrors      \* bound: queries that fail

ASSUME PipelineAssumption ==
    /\ Runs # {} /\ LastStep \in Nat \ {0} /\ Stale \in Nat \ {0}
    /\ MaxAttempts \in Nat /\ MaxExecs \in Nat
    /\ MaxCrashes \in Nat /\ MaxManual \in Nat /\ MaxErrors \in Nat

Procs == {"web", "cron"}
Steps == 1..LastStep
Slots == 1..MaxExecs
Age   == 0..Stale

RunRow == [status : {"unborn", "running", "completed", "empty", "failed"},
           attempts : 0..MaxAttempts, age : Age]

\* An execution of a run, the step it is at and the row of that step.  Of a dead
\* execution only a row that is still marked running is left.
Exec == [at : {"call", "start", "stuck", "gap", "work", "insert", "finish",
               "failing", "closing", "dead"},
         run : Runs, proc : Procs, step : 1..LastStep + 1,
         row : {"none", "running", "cut"}, age : Age]
Free == [at |-> "free"]

\* A loop over runs: what is left to look at, and the run it is at.  The boot
\* has read the attempts of the runs, too.
Loop(todo) == [at : {"idle", "next", "mark", "cut", "fail"}, todo : SUBSET todo, run : Runs]
IdleLoop   == [at |-> "idle", todo |-> {}, run |-> CHOOSE r \in Runs : TRUE]

VARIABLES
    runs,     \* pipeline_runs
    done,     \* completed steps of every run, with their output
    ideas,    \* number of times the ideas of a run are stored
    execs,    \* executions
    up,       \* processes
    booted,   \* has the web process listed the runs to resume?
    boot,     \* resumeInterruptedRuns
    reaper,   \* reapStuckRuns
    manual,   \* resumeRunById
    cron,     \* executePipelineRunJob: has the guard let a run start?
    late,     \* stores that go on although their step has run into its deadline
    irregular, \* history: runs of which there was such a store, or a checkpoint unread
    doubled,  \* history: runs that were executed twice at a time
    crashes, resumes, errors   \* numbers of bounded events so far

loops      == <<booted, boot, reaper, manual, cron>>
runHistory == <<irregular, doubled>>
counts     == <<crashes, resumes, errors>>
runVars    == <<runs, done, ideas, execs, up, loops, late, runHistory, counts>>

RunsTypeOK ==
    /\ runs \in [Runs -> RunRow]
    /\ done \in [Runs -> SUBSET Steps] /\ ideas \in [Runs -> Nat]
    /\ execs \in [Slots -> Exec \cup {Free}]
    /\ up \in [Procs -> BOOLEAN]
    /\ booted \in BOOLEAN /\ boot \in Loop(Runs \X (0..MaxAttempts))
    /\ reaper \in Loop(Runs) /\ manual \in Loop(Runs) /\ cron \in BOOLEAN
    /\ late \in SUBSET (Runs \X Procs)
    /\ irregular \in SUBSET Runs /\ doubled \in SUBSET Runs
    /\ crashes \in 0..MaxCrashes /\ resumes \in 0..MaxManual /\ errors \in 0..MaxErrors

RunsInit ==
    /\ runs = [r \in Runs |-> [status |-> "unborn", attempts |-> 0, age |-> 0]]
    /\ done = [r \in Runs |-> {}] /\ ideas = [r \in Runs |-> 0]
    /\ execs = [k \in Slots |-> Free]
    /\ up = [p \in Procs |-> TRUE]
    /\ booted = FALSE /\ boot = IdleLoop /\ reaper = IdleLoop /\ manual = IdleLoop
    /\ cron = FALSE
    /\ late = {} /\ irregular = {} /\ doubled = {}
    /\ crashes = 0 /\ resumes = 0 /\ errors = 0

-----------------------------------------------------------------------------
(* Liveness of a run, as the code judges it *)

Executing(k) == execs[k].at \notin {"free", "call", "dead"}

\* beginRun .. endRun
Active(p) == {execs[k].run : k \in {l \in Slots : Executing(l) /\ execs[l].proc = p}}

RowOpen(k) == execs[k].at # "free" /\ execs[k].row = "running"

\* hasFreshHeartbeat
Fresh(r, windows) ==
    \E k \in Slots : RowOpen(k) /\ execs[k].run = r /\ execs[k].age < windows

\* findResumableRuns
Resumable == {r \in Runs : runs[r].status = "running"}

\* A run gets its last status; when it started does not matter any more.
Over(r, status) == [runs EXCEPT ![r].status = status, ![r].age = 0]

\* Mutant of CutRows: the rows a dead executor has left are not reconciled.
CutRowsNone(r) == execs

\* failIncompleteStepsForRun
CutRows(r) ==
    [k \in Slots |-> IF ~(RowOpen(k) /\ execs[k].run = r) THEN execs[k]
                     ELSE IF execs[k].at = "dead" THEN Free
                     ELSE [execs[k] EXCEPT !.row = "cut"]]

\* runIdeasPipeline is called for run r in process p.
Call(ex, r, p) ==
    \E k \in Slots :
        /\ ex[k] = Free /\ \A l \in 1..k-1 : ex[l] # Free
        /\ execs' = [ex EXCEPT ![k] = [at |-> "call", run |-> r, proc |-> p, step |-> 1,
                                       row |-> "none", age |-> 0]]

Alive(r, p) == \E k \in Slots : execs[k].at \notin {"free", "dead"}
                                 /\ execs[k].run = r /\ execs[k].proc = p

\* The web process clears what is left of run r and calls runIdeasPipeline.
Resume(r) ==
    /\ Call(CutRows(r), r, "web")
    /\ doubled' = IF Alive(r, "cron") THEN doubled \cup {r} ELSE doubled

\* acquirePipelineLock, which locks nothing
Insert(r, p) ==
    /\ runs[r].status = "unborn"
    /\ runs' = [runs EXCEPT ![r].status = "running"]
    /\ Call(execs, r, p)

-----------------------------------------------------------------------------
(* An execution *)

Move(k, at) == execs' = [execs EXCEPT ![k].at = at]

\* beginRun: a second execution of the run in the same process is suppressed.
Begin(k) ==
    LET r == execs[k].run IN
    /\ execs[k].at = "call"
    /\ IF r \in Active(execs[k].proc) THEN execs' = [execs EXCEPT ![k] = Free]
                                      ELSE Move(k, "start")
    /\ UNCHANGED <<runs, done, ideas, up, loops, late, runHistory, counts>>

Start(k) ==
    /\ execs[k].at = "start"
    /\ Move(k, "gap")
    /\ runs' = [runs EXCEPT ![execs[k].run].status = "running", ![execs[k].run].age = 0]
    /\ UNCHANGED <<done, ideas, up, loops, late, runHistory, counts>>

\* The query of Start fails: the run stays active in this process.
StartFails(k) ==
    /\ execs[k].at = "start" /\ errors < MaxErrors
    /\ errors' = errors + 1
    /\ Move(k, "stuck")
    /\ UNCHANGED <<runs, done, ideas, up, loops, late, runHistory, crashes, resumes>>

\* runStep: a completed step is replayed; else, and when the lookup fails, its
\* row is created.
NextStep(k) ==
    LET e == execs[k] IN
    /\ e.at = "gap" /\ e.step \in Steps
    /\ \/ /\ e.step \in done[e.run]
          /\ execs' = [execs EXCEPT ![k].step = @ + 1]
          /\ UNCHANGED <<errors, irregular>>
       \/ /\ IF e.step \in done[e.run]
             THEN /\ errors < MaxErrors /\ errors' = errors + 1
                  /\ irregular' = irregular \cup {e.run}
             ELSE UNCHANGED <<errors, irregular>>
          /\ execs' = [execs EXCEPT ![k] = [e EXCEPT !.at = "work", !.row = "running", !.age = 0]]
    /\ UNCHANGED <<runs, done, ideas, up, loops, late, doubled, crashes, resumes>>

\* Mutant of Delete: what an interrupted store has left is not cleared.
DeleteNothing(k) ==
    LET e == execs[k] IN
    /\ e.at = "work" /\ e.step = LastStep
    /\ Move(k, "insert")
    /\ UNCHANGED <<runs, done, ideas, up, loops, late, runHistory, counts>>

\* The work of the last step: DELETE FROM generated_ideas, then the inserts.
Delete(k) ==
    LET e == execs[k] IN
    /\ e.at = "work" /\ e.step = LastStep
    /\ Move(k, "insert") /\ ideas' = [ideas EXCEPT ![e.run] = 0]
    /\ UNCHANGED <<runs, done, up, loops, late, runHistory, counts>>

Store(k) ==
    /\ execs[k].at = "insert"
    /\ Move(k, "finish")
    /\ ideas' = [ideas EXCEPT ![execs[k].run] = @ + 1]
    /\ UNCHANGED <<runs, done, up, loops, late, runHistory, counts>>

\* The work is done: the row becomes completed, also when somebody has marked it interrupted.
FinishStep(k) ==
    LET e == execs[k] IN
    /\ e.at \in {"work", "finish"} /\ (e.at = "finish" <=> e.step = LastStep)
    /\ done' = [done EXCEPT ![e.run] = @ \cup {e.step}]
    /\ execs' = [execs EXCEPT ![k] = [e EXCEPT !.at = "gap", !.row = "none", !.step = @ + 1]]
    /\ UNCHANGED <<runs, ideas, up, loops, late, runHistory, counts>>

\* The work or the query that completes the row fails, or the work meets its
\* deadline: then it goes on, unheeded.
FailStep(k) ==
    LET e == execs[k] IN
    /\ e.at \in {"work", "insert", "finish"} /\ errors < MaxErrors
    /\ errors' = errors + 1
    /\ execs' = [execs EXCEPT ![k] = [e EXCEPT !.at = "failing", !.row = "none"]]
    /\ \/ UNCHANGED <<late, irregular>>
       \/ /\ e.at = "insert"
          /\ late' = late \cup {<<e.run, e.proc>>} /\ irregular' = irregular \cup {e.run}
    /\ UNCHANGED <<runs, done, ideas, up, loops, doubled, crashes, resumes>>

LateStore(x) ==
    /\ late' = late \ {x}
    /\ ideas' = [ideas EXCEPT ![x[1]] = @ + 1]
    /\ UNCHANGED <<runs, done, execs, up, loops, runHistory, counts>>

\* After the first step: nothing fresh to work on.  The run is empty -- but when
\* the collectors have a checkpoint it is failed, for a replay that was hollow.
\* Only a lookup that fails hides the checkpoint this execution has just written.
NothingFresh(k) ==
    LET e == execs[k] IN
    /\ e.at = "gap" /\ e.step = 2 /\ e.step \in Steps
    /\ \/ /\ 1 \in done[e.run]
          /\ Move(k, "failing") /\ runs' = Over(e.run, "failed") /\ UNCHANGED errors
       \/ /\ errors < MaxErrors /\ errors' = errors + 1
          /\ Move(k, "closing") /\ runs' = Over(e.run, "empty")
    /\ UNCHANGED <<done, ideas, up, loops, late, runHistory, crashes, resumes>>

\* The run gets its last status; it is empty when no idea was worth storing.  It
\* stays active until it has let go of what it holds.
EndRun(k) ==
    LET e == execs[k] IN
    /\ Move(k, "closing")
    /\ \E s \in {"failed", "empty", "completed"} :
          /\ IF s = "failed" THEN e.at = "failing" ELSE e.at = "gap" /\ e.step > LastStep
          /\ runs' = Over(e.run, s)
    /\ UNCHANGED <<done, ideas, up, loops, late, runHistory, counts>>

Close(k) ==
    /\ execs[k].at = "closing"
    /\ execs' = [execs EXCEPT ![k] = Free]
    /\ UNCHANGED <<runs, done, ideas, up, loops, late, runHistory, counts>>

-----------------------------------------------------------------------------
(* The web process *)

\* POST /pipelines/:id/run
RunByHand(r) ==
    /\ up["web"]
    /\ Insert(r, "web")
    /\ UNCHANGED <<done, ideas, up, loops, late, runHistory, counts>>

\* The loop goes on to its next run.
GoOn(todo) == IF todo = {} THEN IdleLoop ELSE [IdleLoop EXCEPT !.at = "next", !.todo = todo]

BootLists ==
    /\ up["web"] /\ ~booted
    /\ booted' = TRUE
    /\ boot' = GoOn({<<r, runs[r].attempts>> : r \in Resumable})
    /\ UNCHANGED <<runs, done, ideas, execs, up, reaper, manual, cron, late, runHistory, counts>>

\* The boot looks at the next run: it is active here, has spent its attempts, or
\* is resumed.  A heartbeat does not count.
BootTakes(x) ==
    LET r == x[1]  rest == boot.todo \ {x} IN
    /\ boot.at = "next" /\ x \in boot.todo
    /\ IF r \in Active("web") THEN boot' = GoOn(rest) /\ UNCHANGED runs
       ELSE IF x[2] >= MaxAttempts THEN boot' = GoOn(rest) /\ runs' = Over(r, "failed")
       ELSE /\ boot' = [at |-> "cut", todo |-> rest, run |-> r]
            /\ runs' = [runs EXCEPT ![r].attempts = @ + 1]
    /\ UNCHANGED <<done, ideas, execs, up, booted, reaper, manual, cron, late, runHistory, counts>>

BootResumes ==
    /\ boot.at = "cut"
    /\ boot' = GoOn(boot.todo)
    /\ Resume(boot.run)
    /\ UNCHANGED <<runs, done, ideas, up, booted, reaper, manual, cron, late, irregular, counts>>

\* POST /pipelines-runs/:runId/resume, up to its decision (isRunLive)
ManualChecks(r) ==
    /\ up["web"] /\ manual.at = "idle" /\ resumes < MaxManual
    /\ runs[r].status # "unborn" /\ r \notin Active("web") /\ ~Fresh(r, 1)
    /\ resumes' = resumes + 1
    /\ manual' = [manual EXCEPT !.at = "mark", !.run = r]
    /\ UNCHANGED <<runs, done, ideas, execs, up, booted, boot, reaper, cron, late, runHistory,
                   crashes, errors>>

\* markRunRunning
ManualMarks ==
    /\ manual.at = "mark"
    /\ manual' = [manual EXCEPT !.at = "cut"]
    /\ runs' = [runs EXCEPT ![manual.run] = [status |-> "running", attempts |-> 0, age |-> 0]]
    /\ UNCHANGED <<done, ideas, execs, up, booted, boot, reaper, cron, late, runHistory, counts>>

ManualResumes ==
    /\ manual.at = "cut"
    /\ manual' = IdleLoop
    /\ Resume(manual.run)
    /\ UNCHANGED <<runs, done, ideas, up, booted, boot, reaper, cron, late, irregular, counts>>

ReaperLists ==
    /\ up["web"] /\ reaper.at = "idle"
    /\ reaper' = GoOn(Resumable)
    /\ UNCHANGED <<runs, done, ideas, execs, up, booted, boot, manual, cron, late, runHistory, counts>>

\* Mutant of ReaperTakes: any row marked running counts, however old.
ReaperTakesMarked(r) ==
    LET rest == reaper.todo \ {r} IN
    /\ reaper.at = "next" /\ r \in reaper.todo
    /\ reaper' = IF r \in Active("web") \/ Fresh(r, Stale + 1) THEN GoOn(rest)
                 ELSE [at |-> "cut", todo |-> rest, run |-> r]
    /\ UNCHANGED <<runs, done, ideas, execs, up, booted, boot, manual, cron, late, runHistory, counts>>

\* Active runs and those with a heartbeat are left alone.
ReaperTakes(r) ==
    LET rest == reaper.todo \ {r} IN
    /\ reaper.at = "next" /\ r \in reaper.todo
    /\ reaper' = IF r \in Active("web") \/ Fresh(r, Stale) THEN GoOn(rest)
                 ELSE [at |-> "cut", todo |-> rest, run |-> r]
    /\ UNCHANGED <<runs, done, ideas, execs, up, booted, boot, manual, cron, late, runHistory, counts>>

ReaperCuts ==
    /\ reaper.at = "cut"
    /\ reaper' = [reaper EXCEPT !.at = "fail"]
    /\ execs' = CutRows(reaper.run)
    /\ UNCHANGED <<runs, done, ideas, up, booted, boot, manual, cron, late, runHistory, counts>>

\* markRunFailed
ReaperFails ==
    /\ reaper.at = "fail"
    /\ reaper' = GoOn(reaper.todo)
    /\ runs' = Over(reaper.run, "failed")
    /\ UNCHANGED <<done, ideas, execs, up, booted, boot, manual, cron, late, runHistory, counts>>

-----------------------------------------------------------------------------
(* The cron process, crashes and time *)

\* decidePipelineRunStart: no run of the pipeline has a heartbeat or is young.
CronChecks ==
    /\ up["cron"] /\ ~cron /\ \E r \in Runs : runs[r].status = "unborn"
    /\ \A r \in Resumable : ~Fresh(r, 1) /\ runs[r].age >= Stale
    /\ cron' = TRUE
    /\ UNCHANGED <<runs, done, ideas, execs, up, booted, boot, reaper, manual, late, runHistory, counts>>

CronStarts(r) ==
    /\ cron
    /\ cron' = FALSE
    /\ Insert(r, "cron")
    /\ UNCHANGED <<done, ideas, up, booted, boot, reaper, manual, late, runHistory, counts>>

ProcessCrash(p) ==
    /\ up[p] /\ crashes < MaxCrashes
    /\ crashes' = crashes + 1
    /\ up' = [up EXCEPT ![p] = FALSE]
    /\ execs' = [k \in Slots |-> IF execs[k].at \in {"free", "dead"} \/ execs[k].proc # p
                                 THEN execs[k]
                                 ELSE IF execs[k].row = "running"
                                 THEN [execs[k] EXCEPT !.at = "dead"] ELSE Free]
    /\ late' = {x \in late : x[2] # p}
    /\ IF p = "web" THEN /\ booted' = FALSE /\ boot' = IdleLoop /\ reaper' = IdleLoop
                         /\ manual' = IdleLoop /\ UNCHANGED cron
                    ELSE cron' = FALSE /\ UNCHANGED <<booted, boot, reaper, manual>>
    /\ UNCHANGED <<runs, done, ideas, runHistory, resumes, errors>>

Recover(p) ==
    /\ ~up[p]
    /\ up' = [up EXCEPT ![p] = TRUE]
    /\ UNCHANGED <<runs, done, ideas, execs, loops, late, runHistory, counts>>

Older(a) == IF a < Stale THEN a + 1 ELSE a

\* A window passes: an executor beats for the row it works on (touchPipelineStep).
Tick ==
    /\ runs' = [r \in Runs |-> IF r \in Resumable THEN [runs[r] EXCEPT !.age = Older(@)]
                               ELSE runs[r]]
    /\ execs' = [k \in Slots |-> IF execs[k].at = "dead" THEN [execs[k] EXCEPT !.age = Older(@)]
                                 ELSE execs[k]]
    /\ UNCHANGED <<done, ideas, up, loops, late, runHistory, counts>>

-----------------------------------------------------------------------------
ExecStep(k) ==
    \/ Begin(k) \/ Start(k) \/ NextStep(k) \/ Delete(k) \/ Store(k) \/ FinishStep(k)
    \/ NothingFresh(k) \/ EndRun(k) \/ Close(k)

Boot == BootLists \/ BootResumes \/ \E x \in boot.todo : BootTakes(x)

Reap == \/ ReaperLists \/ ReaperCuts \/ ReaperFails
        \/ \E r \in reaper.todo : ReaperTakes(r)

RunsNext ==
    \/ \E k \in Slots : ExecStep(k) \/ StartFails(k) \/ FailStep(k)
    \/ \E x \in late : LateStore(x)
    \/ \E r \in Runs : RunByHand(r) \/ ManualChecks(r) \/ CronStarts(r)
    \/ Boot \/ ManualMarks \/ ManualResumes \/ Reap
    \/ CronChecks \/ Tick
    \/ \E p \in Procs : ProcessCrash(p) \/ Recover(p)

\* Steps meet their deadlines, the core process restarts its children, and the
\* timer of the reaper fires.
RunsFairness ==
    /\ \A k \in Slots : WF_runVars(ExecStep(k))
    /\ WF_runVars(Boot) /\ WF_runVars(Reap) /\ WF_runVars(ManualMarks \/ ManualResumes)
    /\ WF_runVars(Tick) /\ \A p \in Procs : WF_runVars(Recover(p))

RunsSpec == RunsInit /\ [][RunsNext]_runVars
RunsFairSpec == RunsSpec /\ RunsFairness
-----------------------------------------------------------------------------
(* Properties *)

\* A completed run has stored its ideas once, however often it was interrupted,
\* resumed and reaped -- unless it was executed twice at a time, a store went on
\* after its deadline or was done again because its checkpoint could not be read.
IdeasOnce ==
    \A r \in Runs : runs[r].status = "completed" /\ r \notin irregular \cup doubled => ideas[r] = 1

\* A run that has come to its end has no step still marked running by an
\* executor that is dead: whoever resumes a run clears what was left of it.
NoGhosts ==
    \A k \in Slots : execs[k].at = "dead" /\ execs[k].run \notin doubled
        => runs[execs[k].run].status \notin {"completed", "empty"}

Stuck(r) == \E k \in Slots : execs[k].at = "stuck" /\ execs[k].run = r

\* A run marked running gets to an end, whichever process has died: it is
\* resumed, or the reaper fails it.
RunSettles ==
    \A r \in Runs : runs[r].status = "running" ~> runs[r].status # "running" \/ Stuck(r)

\* No run has two executors: resume.ts:108 "At boot every 'running' run was left
\* by the now-dead prior process".
NeverDoubled == doubled = {}

\* Only a run that was resumed can be failed for a hollow replay: pipeline.ts:616
\* "Resume replay produced empty collectors despite completed checkpoints".
HollowIsReplayed ==
    [][\A k \in Slots : execs[k].at = "gap" /\ execs'[k].at = "failing"
           => runs[execs[k].run].attempts > 0 \/ resumes > 0]_runVars

\* What holds of rows and checkpoints at every moment.
RunsSound == RunsTypeOK /\ NoGhosts
=============================================================================
