--------------------------- MODULE CronScheduler ---------------------------
(***************************************************************************)
(* The cron process: the tick of cron/scheduler.ts, the runs it starts     *)
(* (cron/executor.ts) and the table of jobs (cron/store.ts,                *)
(* cron/schedule.ts), which the web interface, the agents' tools and the   *)
(* workflow triggers write from other processes.                           *)
(*                                                                         *)
(* A step is a query and the code that runs on its answer, up to the next  *)
(* query.  A restart of the process empties its memory (the tick, the      *)
(* cached due time, the runs) and leaves the table.  cron_runs, the log    *)
(* of the runs, is not modelled: nothing that schedules reads it.          *)
(***************************************************************************)
EXTENDS Naturals, FiniteSets

CONSTANTS
    Jobs,            \* job ids
    Schedules,       \* schedules the users choose from
    MaxConcurrency,  \* runs a tick keeps in flight
    MaxTime,         \* bound: the clock, and the horizon of the schedules
    MaxRuns,         \* bound: runs in flight
    MaxWrites,       \* bound: writes of other processes
    MaxCommands,     \* bound: cron:run_job commands
    MaxRestarts,     \* bound: restarts of the cron process
    MaxErrors        \* bound: queries that fail

\* "at" a time, or "every" n ticks of the clock; a cron expression is, like
\* "every", a rule that gives a later time.
ASSUME CronAssumption ==
    /\ Schedules \subseteq [kind : {"at", "every"}, n : Nat \ {0}] /\ Schedules # {}
    /\ MaxConcurrency \in Nat \ {0} /\ MaxTime \in Nat /\ MaxRuns \in Nat
    /\ MaxWrites \in Nat /\ MaxCommands \in Nat
    /\ MaxRestarts \in Nat /\ MaxErrors \in Nat

Never == 0   \* next_run_at, and the cached due time, when null

\* computeNextRunAt.  An occurrence beyond the horizon is left out.
NextRun(s, t) ==
    CASE s.kind = "at"    -> IF s.n > t /\ s.n <= MaxTime THEN s.n ELSE Never
      [] s.kind = "every" -> IF t + s.n <= MaxTime THEN t + s.n ELSE Never

\* cron_jobs.  An id is used once.
Row == [on : {"unborn", "enabled", "disabled", "removed"},
        sched : Schedules, once : BOOLEAN, next : 0..MaxTime]

Unborn == [on |-> "unborn", sched |-> CHOOSE s \in Schedules : TRUE,
           once |-> FALSE, next |-> Never]

\* A run in flight: the job as it was read, by whom it was started, and
\* whether it is at work or about to save the job's next time.
Run == [at : {"work", "save"}, job : Jobs, sched : Schedules, once : BOOLEAN,
        by : {"tick", "command"}]
Free  == [at |-> "free"]
Slots == 1..MaxRuns

VARIABLES
    now,
    jobs,      \* cron_jobs
    commands,  \* jobs with a pending cron:run_job command
    tick,      \* the tick: where it is, the due jobs to start, the commands to run
    cache,     \* nextDueAtMs
    runs,      \* the runs in flight
    owed,      \* history: jobs with an appointment that nobody else has written since
    worked,    \* history: jobs whose work has been done
    writes, sent, restarts, errors   \* numbers of bounded events so far

history == <<owed, worked>>
counts  == <<writes, sent, restarts, errors>>
vars    == <<now, jobs, commands, tick, cache, runs, history, counts>>

IdleTick == [at |-> "idle", list |-> {}, batch |-> {}]

TypeOK ==
    /\ now \in 0..MaxTime
    /\ jobs \in [Jobs -> Row]
    /\ commands \in SUBSET Jobs
    /\ tick \in [at : {"idle", "min", "launch", "commands", "handle"},
                 list : SUBSET [job : Jobs, sched : Schedules, once : BOOLEAN],
                 batch : SUBSET Jobs]
    /\ cache \in 0..MaxTime
    /\ runs \in [Slots -> Run \cup {Free}]
    /\ owed \in SUBSET Jobs /\ worked \in SUBSET Jobs
    /\ writes \in 0..MaxWrites /\ sent \in 0..MaxCommands
    /\ restarts \in 0..MaxRestarts /\ errors \in 0..MaxErrors

Init ==
    /\ now = 0
    /\ jobs \in [Jobs -> {Unborn} \cup {r \in Row : /\ r.on = "enabled"
                                                   /\ r.next = NextRun(r.sched, now)}]
    /\ commands = {} /\ tick = IdleTick /\ cache = Never
    /\ runs = [k \in Slots |-> Free]
    /\ owed = {j \in Jobs : jobs[j].next # Never} /\ worked = {}
    /\ writes = 0 /\ sent = 0 /\ restarts = 0 /\ errors = 0

-----------------------------------------------------------------------------
(* Other processes *)

Clock ==
    /\ now < MaxTime
    /\ now' = now + 1
    /\ UNCHANGED <<jobs, commands, tick, cache, runs, history, counts>>

Exists(j) == jobs[j].on \in {"enabled", "disabled"}

\* Another process writes job j.
Write(j, row) ==
    /\ writes < MaxWrites
    /\ writes' = writes + 1
    /\ jobs' = [jobs EXCEPT ![j] = row]
    /\ UNCHANGED <<now, commands, tick, cache, runs, worked, sent, restarts, errors>>

\* addJob.  A time that has passed gives a job without an appointment.
AddJob(j, s, once) ==
    LET next == NextRun(s, now) IN
    /\ jobs[j].on = "unborn"
    /\ Write(j, [on |-> "enabled", sched |-> s, once |-> once, next |-> next])
    /\ owed' = IF next = Never THEN owed ELSE owed \cup {j}

\* updateJob with a schedule
Reschedule(j, s) ==
    /\ Exists(j)
    /\ Write(j, [jobs[j] EXCEPT !.sched = s, !.next = NextRun(s, now)])
    /\ owed' = owed \ {j}

\* updateJob with enabled alone: next_run_at stays as it is.
Toggle(j) ==
    /\ Exists(j)
    /\ Write(j, [jobs[j] EXCEPT !.on = IF @ = "enabled" THEN "disabled" ELSE "enabled"])
    /\ owed' = owed \ {j}

RemoveJob(j) ==
    /\ Exists(j)
    /\ Write(j, [jobs[j] EXCEPT !.on = "removed", !.next = Never])
    /\ owed' = owed \ {j}

\* sendCommand("cron", "cron:run_job")
RunNow(j) ==
    /\ sent < MaxCommands
    /\ sent' = sent + 1
    /\ commands' = commands \cup {j}
    /\ UNCHANGED <<now, jobs, tick, cache, runs, history, writes, restarts, errors>>

-----------------------------------------------------------------------------
(* Runs *)

InFlight(by) == {k \in Slots : runs[k] # Free /\ runs[k].by = by}

\* executeCronJob begins, on the job as it was read.
Launch(d, by) ==
    \E k \in Slots :
        /\ runs[k] = Free /\ \A l \in 1..k-1 : runs[l] # Free
        /\ runs' = [runs EXCEPT ![k] = [at |-> "work", job |-> d.job, sched |-> d.sched,
                                        once |-> d.once, by |-> by]]

\* The work is over, with whatever outcome, and its result delivered.
RunWorks(k) ==
    /\ runs[k] # Free /\ runs[k].at = "work"
    /\ runs' = [runs EXCEPT ![k].at = "save"]
    /\ worked' = worked \cup {runs[k].job}
    /\ UNCHANGED <<now, jobs, commands, tick, cache, owed, counts>>

\* The job is removed, or gets the next time of the schedule the run has read.
RunSaves(k) ==
    LET r == runs[k] IN
    /\ r # Free /\ r.at = "save"
    /\ runs' = [runs EXCEPT ![k] = Free]
    /\ jobs' = IF ~Exists(r.job) THEN jobs
               ELSE IF r.once THEN [jobs EXCEPT ![r.job].on = "removed", ![r.job].next = Never]
               ELSE [jobs EXCEPT ![r.job].next = NextRun(r.sched, now)]
    /\ UNCHANGED <<now, commands, tick, cache, history, counts>>

\* A query of a run fails: the rest of executeCronJob is skipped.
RunFails(k) ==
    /\ runs[k] # Free /\ errors < MaxErrors
    /\ errors' = errors + 1
    /\ runs' = [runs EXCEPT ![k] = Free]
    /\ UNCHANGED <<now, jobs, commands, tick, cache, history, writes, sent, restarts>>

-----------------------------------------------------------------------------
(* The tick *)

Due == {j \in Jobs : jobs[j].on = "enabled" /\ jobs[j].next # Never /\ jobs[j].next <= now}

Snapshot(j) == [job |-> j, sched |-> jobs[j].sched, once |-> jobs[j].once]

\* The tick looks at the cache and, unless that says that nothing is due, at
\* the table (getDueJobs).
TickStart ==
    /\ tick.at = "idle"
    /\ IF cache # Never /\ now < cache
       THEN tick' = [tick EXCEPT !.at = "commands"] /\ UNCHANGED cache
       ELSE IF Due = {}
       THEN tick' = [tick EXCEPT !.at = "min"] /\ UNCHANGED cache
       ELSE /\ tick' = [tick EXCEPT !.at = "launch", !.list = {Snapshot(j) : j \in Due}]
            /\ cache' = Never
    /\ UNCHANGED <<now, jobs, commands, runs, history, counts>>

Appointments == {jobs[j].next : j \in {i \in Jobs : jobs[i].on = "enabled"}} \ {Never}

\* getNextDueAt
Earliest == IF Appointments = {} THEN Never
            ELSE CHOOSE t \in Appointments : \A u \in Appointments : t <= u

\* Nothing is due: the cache is filled.
TickMin ==
    /\ tick.at = "min"
    /\ cache' = Earliest
    /\ tick' = [tick EXCEPT !.at = "commands"]
    /\ UNCHANGED <<now, jobs, commands, runs, history, counts>>

\* Mutant of TickLaunch: the job is moved to its next time when it is started.
TickLaunchClaims(d) ==
    /\ tick.at = "launch" /\ d \in tick.list
    /\ Cardinality(InFlight("tick")) < MaxConcurrency
    /\ Launch(d, "tick")
    /\ tick' = [tick EXCEPT !.list = @ \ {d}]
    /\ jobs' = [jobs EXCEPT ![d.job].next = NextRun(d.sched, now)]
    /\ UNCHANGED <<now, commands, cache, history, counts>>

\* The next due job is started when fewer than MaxConcurrency are in flight.
TickLaunch(d) ==
    /\ tick.at = "launch" /\ d \in tick.list
    /\ Cardinality(InFlight("tick")) < MaxConcurrency
    /\ Launch(d, "tick")
    /\ tick' = [tick EXCEPT !.list = @ \ {d}]
    /\ UNCHANGED <<now, jobs, commands, cache, history, counts>>

\* Mutant of TickDrained: the runs are not waited for.
TickNotDrained ==
    /\ tick.at = "launch" /\ tick.list = {}
    /\ tick' = [tick EXCEPT !.at = "commands"]
    /\ UNCHANGED <<now, jobs, commands, cache, runs, history, counts>>

TickDrained ==
    /\ tick.at = "launch" /\ tick.list = {} /\ InFlight("tick") = {}
    /\ tick' = [tick EXCEPT !.at = "commands"]
    /\ UNCHANGED <<now, jobs, commands, cache, runs, history, counts>>

\* consumePendingCommands
TickCommands ==
    /\ tick.at = "commands"
    /\ tick' = [tick EXCEPT !.at = "handle", !.batch = commands]
    /\ commands' = {}
    /\ UNCHANGED <<now, jobs, cache, runs, history, counts>>

\* A command of the batch: the job is read and started, unless it is unknown.
TickHandle(j) ==
    /\ tick.at = "handle" /\ j \in tick.batch
    /\ tick' = [tick EXCEPT !.batch = @ \ {j}]
    /\ IF Exists(j) THEN Launch(Snapshot(j), "command") /\ cache' = Never
                    ELSE UNCHANGED <<runs, cache>>
    /\ UNCHANGED <<now, jobs, commands, history, counts>>

\* Mutant of TickEnd: ticking stays set.
TickHangs ==
    /\ tick.at = "handle" /\ tick.batch = {}
    /\ UNCHANGED vars

TickEnd ==
    /\ tick.at = "handle" /\ tick.batch = {}
    /\ tick' = IdleTick
    /\ UNCHANGED <<now, jobs, commands, cache, runs, history, counts>>

\* A query of the tick fails: the tick is over, and what is left of its batch
\* of commands is lost.
TickFails ==
    /\ tick.at \in {"min", "commands", "handle"} /\ errors < MaxErrors
    /\ errors' = errors + 1
    /\ tick' = IdleTick
    /\ UNCHANGED <<now, jobs, commands, cache, runs, history, writes, sent, restarts>>

\* The process is restarted.
Restart ==
    /\ restarts < MaxRestarts
    /\ restarts' = restarts + 1
    /\ tick' = IdleTick /\ cache' = Never
    /\ runs' = [k \in Slots |-> Free]
    /\ UNCHANGED <<now, jobs, commands, history, writes, sent, errors>>

-----------------------------------------------------------------------------
Tick == \/ TickStart \/ TickMin \/ TickDrained \/ TickCommands \/ TickEnd
        \/ \E d \in tick.list : TickLaunch(d)
        \/ \E j \in tick.batch : TickHandle(j)

RunStep(k) == RunWorks(k) \/ RunSaves(k)

Next ==
    \/ Clock
    \/ \E j \in Jobs :
          \/ \E s \in Schedules : \/ \E once \in BOOLEAN : AddJob(j, s, once)
                                  \/ Reschedule(j, s)
          \/ Toggle(j) \/ RemoveJob(j) \/ RunNow(j)
    \/ TickStart \/ TickMin \/ TickDrained \/ TickCommands \/ TickEnd \/ TickFails
    \/ \E d \in tick.list : TickLaunch(d)
    \/ \E j \in tick.batch : TickHandle(j)
    \/ \E k \in Slots : RunWorks(k) \/ RunSaves(k) \/ RunFails(k)
    \/ Restart

\* The interval fires, queries are answered, and a run's work comes to an end:
\* every call of a model has a deadline (agent/llm-timeout.ts).
Fairness ==
    /\ WF_vars(Clock) /\ WF_vars(Tick)
    /\ \A k \in Slots : WF_vars(RunStep(k))

Spec == Init /\ [][Next]_vars
FairSpec == Spec /\ Fairness
-----------------------------------------------------------------------------
(* Properties *)

\* No job is started by a tick while an earlier tick's run of it is going on:
\* ticking, and the next time set before the tick ends, keep scheduled runs of
\* one job apart.
ScheduledRunsApart ==
    \A k, l \in InFlight("tick") : runs[k].job = runs[l].job => k = l

\* A job keeps its appointment until its work has been done: neither a crash in
\* the middle of a run nor a failing query nor a run started by hand loses it.
AppointmentStands ==
    \A j \in owed \ worked : jobs[j].on = "enabled" /\ jobs[j].next # Never

\* The cached time is no later than any appointment, as long as no other
\* process writes the table.
CacheIsSound ==
    writes = 0 /\ cache # Never => \A t \in Appointments : cache <= t

\* A job with an appointment is run in the end, or somebody has changed it.
AppointmentKept == \A j \in Jobs : j \in owed ~> j \in worked \/ j \notin owed

\* What keeps a tick from missing a job or from starting it twice.
Inv ==
    /\ TypeOK
    /\ CacheIsSound
    /\ ScheduledRunsApart
=============================================================================
