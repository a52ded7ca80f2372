--------------------------- MODULE SocialMonitor ---------------------------
(***************************************************************************)
(* The runs of the autonomous social monitor: the routes that start, stop  *)
(* and recover them (web/routes/social.ts), their rows                     *)
(* (store/social-monitor.ts) and the end of the background loop            *)
(* (pipelines/social/autonomous-monitor.ts).                               *)
(*                                                                         *)
(* One web process.  A step is a query and the code that runs on its       *)
(* answer, up to the next query; handlers interleave between steps.  A     *)
(* crash empties the process's memory (loops, controllers, handlers) and   *)
(* leaves the rows.                                                        *)
(***************************************************************************)
EXTENDS Naturals, Sequences, FiniteSets

CONSTANTS
    Starters,    \* clients of POST /social/monitor/start
    Once,        \* those that ask for a run that is not continuous
    MaxStarts,   \* bound: calls of start
    MaxStops,    \* bound: calls of POST /social/monitor/:runId/stop
    MaxCrashes,  \* bound: restarts of the web process
    MaxRuns      \* bound: rows of social_monitor_runs

ASSUME MonitorAssumption ==
    MaxStarts \in Nat /\ MaxStops \in Nat /\ MaxCrashes \in Nat /\ MaxRuns \in Nat \ {0}

RunIds == 1..MaxRuns
NoRun  == 0

\* social_monitor_runs, in the order of created_at.  error "orphan" is
\* ORPHANED_MONITOR_ERROR.
Run == [status : {"running", "stopping", "stopped", "failed", "completed"},
        cancel : BOOLEAN, error : {"none", "orphan", "other"}, continuous : BOOLEAN]

VARIABLES
    runs,         \* the rows
    task,         \* each run's background loop: "none", "loop", "ending"
    controllers,  \* keys of monitorControllers
    aborted,      \* runs whose controller has been aborted
    recovery,     \* the recovery in flight (recoveryPromise) and its locals
    start,        \* the start calls
    stop,         \* the stop call in flight
    userStopped,  \* history: runs for which the stop route was called
    raced,        \* history: a start passed its check between the check and the
                  \* insert of another, or while a recovery replaced a run
    starts, stops, crashes   \* calls and restarts so far

vars == <<runs, task, controllers, aborted, recovery, start, stop, userStopped,
          raced, starts, stops, crashes>>
counts == <<starts, stops, crashes>>

\* The locals of the recovery: the controllers when the cleaning was called, the
\* rows there were then, and the run it has inserted.
NoRecovery == [at |-> "none", keep |-> {}, old |-> {}, run |-> NoRun]
NoStart    == [at |-> "none", run |-> NoRun]
NoStop     == [at |-> "none", keep |-> {}]

TypeOK ==
    /\ runs \in Seq(Run) /\ Len(runs) <= MaxRuns
    /\ task \in [RunIds -> {"none", "loop", "ending"}]
    /\ controllers \subseteq DOMAIN runs /\ aborted \subseteq controllers
    /\ recovery \in [at : {"none", "active", "cleanAll", "cleanStale", "latest", "create",
                           "launch"},
                     keep : SUBSET RunIds, old : SUBSET RunIds, run : 0..MaxRuns]
    /\ start \in [Starters -> [at : {"none", "wait", "check", "insert", "launch"},
                               run : 0..MaxRuns]]
    /\ stop \in [at : {"none", "clean"}, keep : SUBSET RunIds]
    /\ userStopped \subseteq DOMAIN runs /\ raced \in BOOLEAN
    /\ starts \in 0..MaxStarts /\ stops \in 0..MaxStops /\ crashes \in 0..MaxCrashes

Init ==
    /\ runs = <<>>
    /\ task = [r \in RunIds |-> "none"]
    /\ controllers = {} /\ aborted = {}
    /\ recovery = NoRecovery
    /\ start = [x \in Starters |-> NoStart]
    /\ stop = NoStop
    /\ userStopped = {} /\ raced = FALSE
    /\ starts = 0 /\ stops = 0 /\ crashes = 0

-----------------------------------------------------------------------------
(* store/social-monitor.ts *)

Active == {r \in DOMAIN runs : runs[r].status \in {"running", "stopping"}}

\* getActiveSocialMonitorRun, getLatestSocialMonitorRun: the newest row.
Newest(S) == IF S = {} THEN NoRun ELSE CHOOSE r \in S : \A q \in S : q <= r

\* createSocialMonitorRun
CreateRun(continuous) ==
    /\ Len(runs) < MaxRuns
    /\ runs' = Append(runs, [status |-> "running", cancel |-> FALSE, error |-> "none",
                             continuous |-> continuous])

\* launchMonitorBackgroundTask, or the same in the start route: the controller
\* and the loop, when the INSERT has been answered.  The row is visible before.
Launch(r) ==
    /\ task' = [task EXCEPT ![r] = "loop"]
    /\ controllers' = controllers \cup {r}

\* Mutant of StopOrphans: rows that are stopping are forgotten.
StopOrphansRunning(keep, S) ==
    runs' = [r \in DOMAIN runs |->
                IF r \in (Active \cap S) \ keep /\ runs[r].status = "running"
                THEN [runs[r] EXCEPT !.status = "stopped", !.cancel = TRUE, !.error = "orphan"]
                ELSE runs[r]]

\* Mutant of StopOrphans: no cancellation is recorded.
StopOrphansSilently(keep, S) ==
    runs' = [r \in DOMAIN runs |->
                IF r \in (Active \cap S) \ keep
                THEN [runs[r] EXCEPT !.status = "stopped",
                                     !.error = IF @ = "none" THEN "orphan" ELSE @]
                ELSE runs[r]]

\* stopOrphanedSocialMonitorRuns: the active rows of S but those to keep.
StopOrphans(keep, S) ==
    runs' = [r \in DOMAIN runs |->
                IF r \in (Active \cap S) \ keep
                THEN [runs[r] EXCEPT !.status = "stopped", !.cancel = TRUE,
                                     !.error = IF @ = "none" THEN "orphan" ELSE @]
                ELSE runs[r]]

\* requestStopSocialMonitorRun
RequestStop(r) ==
    runs' = [runs EXCEPT ![r].cancel = TRUE,
                         ![r].status = IF @ = "running" THEN "stopping" ELSE @]

-----------------------------------------------------------------------------
(* The background loop *)

StopSeen(r) == r \in aborted \/ runs[r].cancel

\* The catch block, or completeRun, writes the last status of a run.
TaskWrites(r, status, error) ==
    /\ task[r] = "loop"
    /\ task' = [task EXCEPT ![r] = "ending"]
    /\ runs' = [runs EXCEPT ![r].status = status,
                            ![r].error = IF error = "none" THEN @ ELSE error]
    /\ UNCHANGED <<controllers, aborted, recovery, start, stop, userStopped, raced, counts>>

\* assertNotStopped throws, or the analysis is aborted.
TaskStops(r) == r \in DOMAIN runs /\ StopSeen(r) /\ TaskWrites(r, "stopped", "none")

\* An error that is not a stop.
TaskFails(r) == r \in DOMAIN runs /\ ~StopSeen(r) /\ TaskWrites(r, "failed", "other")

\* A run that is not continuous reaches its end, asked to stop or not.
TaskCompletes(r) ==
    r \in DOMAIN runs /\ ~runs[r].continuous /\ TaskWrites(r, "completed", "none")

\* The finally of the launch.
TaskGone(r) ==
    /\ task[r] = "ending"
    /\ task' = [task EXCEPT ![r] = "none"]
    /\ controllers' = controllers \ {r} /\ aborted' = aborted \ {r}
    /\ UNCHANGED <<runs, recovery, start, stop, userStopped, raced, counts>>

-----------------------------------------------------------------------------
(* ensureContinuousMonitorRecovery *)

\* A call that finds no recovery in flight begins one; others wait for it.
BeginRecovery ==
    recovery' = IF recovery.at = "none" THEN [NoRecovery EXCEPT !.at = "active"] ELSE recovery

\* The recovery ends and the calls that waited for it go on.
EndRecovery ==
    /\ recovery' = NoRecovery
    /\ start' = [x \in Starters |->
                    IF start[x].at = "wait" THEN [start[x] EXCEPT !.at = "check"] ELSE start[x]]

\* One of the pages reads the state of the monitor.
Poll ==
    /\ recovery.at = "none"
    /\ BeginRecovery
    /\ UNCHANGED <<runs, task, controllers, aborted, start, stop, userStopped, raced, counts>>

\* isStoredContinuousMonitor
Stored(r) == r # NoRun /\ runs[r].continuous /\ ~runs[r].cancel

\* Mutant of RecoveryReadsActive: the controllers are not looked at.
RecoveryReadsActiveBlind ==
    /\ recovery.at = "active"
    /\ recovery' = [at |-> IF Stored(Newest(Active)) THEN "cleanAll" ELSE "cleanStale",
                    keep |-> controllers, old |-> DOMAIN runs, run |-> NoRun]
    /\ UNCHANGED <<runs, task, controllers, aborted, start, stop, userStopped, raced, counts>>

\* The active run is looked up.  Nothing is to be done when it has its
\* controller.
RecoveryReadsActive ==
    LET r == Newest(Active) IN
    /\ recovery.at = "active"
    /\ IF r \in controllers
       THEN EndRecovery
       ELSE /\ recovery' = [at |-> IF Stored(r) THEN "cleanAll" ELSE "cleanStale",
                            keep |-> controllers, old |-> DOMAIN runs, run |-> NoRun]
            /\ UNCHANGED start
    /\ UNCHANGED <<runs, task, controllers, aborted, stop, userStopped, raced, counts>>

\* Before a replacement every run without a loop is stopped; otherwise those
\* that are stale.
RecoveryCleansAll ==
    /\ recovery.at = "cleanAll"
    /\ StopOrphans(recovery.keep, DOMAIN runs)
    /\ recovery' = [NoRecovery EXCEPT !.at = "create"]
    /\ UNCHANGED <<task, controllers, aborted, start, stop, userStopped, raced, counts>>

RecoveryCleansStale(stale) ==
    /\ recovery.at = "cleanStale"
    /\ StopOrphans(recovery.keep, stale)
    /\ recovery' = [NoRecovery EXCEPT !.at = "latest"]
    /\ UNCHANGED <<task, controllers, aborted, start, stop, userStopped, raced, counts>>

RecoveryCleans ==
    \/ RecoveryCleansAll
    \/ \E stale \in SUBSET (Active \cap recovery.old) : RecoveryCleansStale(stale)

\* Mutant of AutoStopped: a run whose cancellation is on record does not count,
\* although the cleaning itself records one.
AutoStoppedUncancelled(r) ==
    /\ r # NoRun /\ runs[r].status = "stopped" /\ ~runs[r].cancel
    /\ runs[r].continuous /\ runs[r].error = "orphan"

\* isAutoStoppedContinuousMonitor of the newest row.  It does not look at
\* cancel_requested.
AutoStopped(r) ==
    r # NoRun /\ runs[r].status = "stopped" /\ runs[r].continuous /\ runs[r].error = "orphan"

RecoveryReadsLatest ==
    /\ recovery.at = "latest"
    /\ IF AutoStopped(Len(runs))
       THEN recovery' = [recovery EXCEPT !.at = "create"] /\ UNCHANGED start
       ELSE EndRecovery
    /\ UNCHANGED <<runs, task, controllers, aborted, stop, userStopped, raced, counts>>

\* createReplacementContinuousMonitor
RecoveryCreates ==
    /\ recovery.at = "create"
    /\ CreateRun(TRUE)
    /\ recovery' = [recovery EXCEPT !.at = "launch", !.run = Len(runs) + 1]
    /\ UNCHANGED <<task, controllers, aborted, start, stop, userStopped, raced, counts>>

RecoveryLaunches ==
    /\ recovery.at = "launch"
    /\ Launch(recovery.run)
    /\ EndRecovery
    /\ UNCHANGED <<runs, aborted, stop, userStopped, raced, counts>>

-----------------------------------------------------------------------------
(* POST /social/monitor/start *)

StartCall(x) ==
    /\ start[x].at = "none" /\ starts < MaxStarts
    /\ starts' = starts + 1
    /\ start' = [start EXCEPT ![x] = [NoStart EXCEPT !.at = "wait"]]
    /\ BeginRecovery
    /\ UNCHANGED <<runs, task, controllers, aborted, stop, userStopped, raced, stops,
                   crashes>>

\* Between this start's check and its insert another may pass its own, and what
\* a recovery is about to replace is not in the rows.
Races(x) ==
    \/ \E y \in Starters \ {x} : start[y].at = "insert"
    \/ recovery.at \in {"cleanAll", "create"}

\* The active check: answer 409, or go on to the insert.
StartChecks(x) ==
    /\ start[x].at = "check"
    /\ IF Active # {}
       THEN start' = [start EXCEPT ![x] = NoStart] /\ UNCHANGED raced
       ELSE start' = [start EXCEPT ![x].at = "insert"] /\ raced' = (raced \/ Races(x))
    /\ UNCHANGED <<runs, task, controllers, aborted, recovery, stop, userStopped, counts>>

StartCreates(x) ==
    /\ start[x].at = "insert"
    /\ CreateRun(x \notin Once)
    /\ start' = [start EXCEPT ![x] = [at |-> "launch", run |-> Len(runs) + 1]]
    /\ UNCHANGED <<task, controllers, aborted, recovery, stop, userStopped, raced, counts>>

StartLaunches(x) ==
    /\ start[x].at = "launch"
    /\ Launch(start[x].run)
    /\ start' = [start EXCEPT ![x] = NoStart]
    /\ UNCHANGED <<runs, aborted, recovery, stop, userStopped, raced, counts>>

-----------------------------------------------------------------------------
(* POST /social/monitor/:runId/stop *)

\* The request is written; then the loop is aborted, or without a controller
\* the orphans are cleaned up.
StopCall(r) ==
    /\ stop.at = "none" /\ stops < MaxStops
    /\ r \in DOMAIN runs
    /\ stops' = stops + 1
    /\ RequestStop(r)
    /\ userStopped' = userStopped \cup {r}
    /\ IF r \in controllers
       THEN aborted' = aborted \cup {r} /\ UNCHANGED stop
       ELSE stop' = [at |-> "clean", keep |-> controllers] /\ UNCHANGED aborted
    /\ UNCHANGED <<task, controllers, recovery, start, raced, starts, crashes>>

StopCleans ==
    /\ stop.at = "clean"
    /\ StopOrphans(stop.keep, DOMAIN runs)
    /\ stop' = NoStop
    /\ UNCHANGED <<task, controllers, aborted, recovery, start, userStopped, raced, counts>>

\* The web process is restarted.
Crash ==
    /\ crashes < MaxCrashes
    /\ crashes' = crashes + 1
    /\ task' = [r \in RunIds |-> "none"]
    /\ controllers' = {} /\ aborted' = {}
    /\ recovery' = NoRecovery
    /\ start' = [x \in Starters |-> NoStart]
    /\ stop' = NoStop
    /\ UNCHANGED <<runs, userStopped, raced, starts, stops>>

-----------------------------------------------------------------------------
Recover ==
    \/ RecoveryReadsActive \/ RecoveryCleans \/ RecoveryReadsLatest
    \/ RecoveryCreates \/ RecoveryLaunches

Next ==
    \/ Poll \/ RecoveryReadsActive \/ RecoveryCleans \/ RecoveryReadsLatest
    \/ RecoveryCreates \/ RecoveryLaunches
    \/ \E x \in Starters : \/ StartCall(x)
                           \/ StartChecks(x) \/ StartCreates(x) \/ StartLaunches(x)
    \/ \E r \in RunIds : \/ StopCall(r)
                         \/ TaskStops(r) \/ TaskFails(r) \/ TaskCompletes(r) \/ TaskGone(r)
    \/ StopCleans
    \/ Crash

\* Queries are answered, the page that shows the monitor polls, a row that
\* nobody updates becomes stale, and a loop that is asked to stop notices.
Fairness ==
    /\ WF_vars(Poll) /\ WF_vars(Recover)
    /\ SF_vars(RecoveryCleansStale(recovery.old))
    /\ \A x \in Starters : WF_vars(StartChecks(x) \/ StartCreates(x) \/ StartLaunches(x))
    /\ WF_vars(StopCleans)
    /\ \A r \in RunIds : WF_vars(TaskStops(r)) /\ WF_vars(TaskGone(r))

Spec == Init /\ [][Next]_vars
FairSpec == Spec /\ Fairness
-----------------------------------------------------------------------------
(* Properties *)

\* The loops that work on a run nobody has cancelled.
Wanted == {r \in DOMAIN runs : task[r] = "loop" /\ ~runs[r].cancel}

\* Until a user stops a run, at most one monitor works at a time, however many
\* starts, recoveries and restarts there are: web/routes/social.ts:334 answers a
\* start with 409 when a monitor is running, and a recovery replaces only what it
\* has told to stop.  Nothing in the code keeps two starts from passing the check
\* together, or one from passing it while a recovery is replacing a run.
AtMostOneMonitor == userStopped = {} /\ ~raced => Cardinality(Wanted) <= 1

\* A loop that nobody has told to stop has its row open: one whose row a recovery
\* or a stop has closed as an orphan, because its controller was not there yet,
\* finds its cancellation on record.
ClosedRowEndsLoop == Wanted \subseteq Active

\* Stopped runs end: their loops go, and their rows are closed.  (When starts
\* have raced, a row that a restart left stopping stays so while a newer run has
\* its loop: the recovery looks at the newest active row only.)
Ended(r) == task[r] = "none" /\ (r \notin Active \/ raced)
UserStopEnds == userStopped # {} ~> \A r \in userStopped : Ended(r)

\* A continuous run that a restart has cut off is carried on by a new loop,
\* unless the user intervenes.  (When starts have raced, a run that is not
\* continuous may be the newest one, and then no recovery replaces the other.)
CutOff ==
    LET r == Newest(Active) IN Stored(r) /\ r \notin controllers
MonitorComesBack == CutOff ~> (Wanted # {} \/ userStopped # {} \/ raced)

\* What holds of rows and loops at every moment.
Inv == TypeOK /\ ClosedRowEndsLoop
=============================================================================
