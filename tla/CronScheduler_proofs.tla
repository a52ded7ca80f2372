------------------------ MODULE CronScheduler_proofs ------------------------
(***************************************************************************)
(* The safety of the two loops of the cron process.  First the scheduler,  *)
(* for any jobs, schedules and bounds: its scheduled runs stay apart,      *)
(* appointments stand, and the cached due time hides none of them.  Then,  *)
(* as the instance HA, the alerts of the health monitor.                   *)
(***************************************************************************)
EXTENDS CronScheduler, HealthAlerts, WellFoundedInduction, TLAPS

\* A tick that starts jobs has them in flight, and no other; what it has still
\* to start is not in flight, and a job is on its list once.
OneTickLaunches ==
    /\ tick.at # "launch" => tick.list = {} /\ InFlight("tick") = {}
    /\ \A d, e \in tick.list : d.job = e.job => d = e
    /\ \A d \in tick.list, k \in InFlight("tick") : runs[k].job # d.job

\* A run that saves the next time has done the work.
SavedWasWorked == \A k \in Slots : runs[k] # Free /\ runs[k].at = "save" => runs[k].job \in worked

\* As long as no other process writes, what a run or the tick has read of a
\* schedule is what the table says.
SchedulesRead ==
    writes = 0 =>
        /\ \A k \in Slots : runs[k] # Free => runs[k].sched = jobs[runs[k].job].sched
        /\ \A d \in tick.list : d.sched = jobs[d.job].sched

\* And a next time was computed from that schedule at some time that is past.
TimesComputed ==
    writes = 0 => \A j \in Jobs : jobs[j].on = "enabled" =>
        \E t \in 0..now : jobs[j].next = NextRun(jobs[j].sched, t)

\* No job is disabled unless another process has done it.
NoneDisabled == writes = 0 => \A j \in Jobs : jobs[j].on # "disabled"

CronInv ==
    /\ TypeOK
    /\ OneTickLaunches
    /\ ScheduledRunsApart
    /\ SavedWasWorked
    /\ AppointmentStands
    /\ SchedulesRead
    /\ TimesComputed
    /\ NoneDisabled
    /\ CacheIsSound

-----------------------------------------------------------------------------
(* Times *)

LEMMA NextRunType ==
    ASSUME NEW s \in Schedules, NEW t \in Nat
    PROVE  NextRun(s, t) \in 0..MaxTime /\ (NextRun(s, t) # Never => NextRun(s, t) > t)
<1>1. s.kind \in {"at", "every"} /\ s.n \in Nat \ {0} /\ MaxTime \in Nat
  BY CronAssumption
<1>2. CASE s.kind = "at"
  BY <1>1, <1>2 DEF NextRun, Never
<1>3. CASE s.kind = "every"
  BY <1>1, <1>3 DEF NextRun, Never
<1>4. QED
  BY <1>1, <1>2, <1>3

\* The next time that a run computes when it ends is no earlier than the one that
\* was computed of the same schedule before.
LEMMA NextRunLater ==
    ASSUME NEW s \in Schedules, NEW t \in Nat, NEW u \in Nat, t <= u, NextRun(s, u) # Never
    PROVE  NextRun(s, t) # Never /\ NextRun(s, t) <= NextRun(s, u)
<1>1. s.kind \in {"at", "every"} /\ s.n \in Nat \ {0} /\ MaxTime \in Nat
  BY CronAssumption
<1>2. CASE s.kind = "at"
  BY <1>1, <1>2 DEF NextRun, Never
<1>3. CASE s.kind = "every"
  BY <1>1, <1>3 DEF NextRun, Never
<1>4. QED
  BY <1>1, <1>2, <1>3

\* A set of numbers that is not empty has a least one.
LEMMA LeastNat ==
    ASSUME NEW T \in SUBSET Nat, T # {}
    PROVE  \E x \in T : \A y \in T : x <= y
<1> DEFINE R == OpToRel(<, Nat)
<1>1. IsWellFoundedOn(R, Nat)
  BY NatLessThanWellFounded
<1> HIDE DEF R
<1>2. PICK x \in T : \A y \in T : ~(<<y, x>> \in R)
  BY <1>1, WFMin
<1>3. \A y \in T : y < x => <<y, x>> \in R
  BY DEF R, OpToRel
<1>4. \A y \in T : ~(y < x)
  BY <1>2, <1>3, Zenon
<1>5. x \in Nat /\ \A y \in T : y \in Nat
  OBVIOUS
<1>6. QED
  BY <1>4, <1>5

LEMMA EarliestIsLeast ==
    ASSUME TypeOK
    PROVE  /\ Earliest \in 0..MaxTime
           /\ \A t \in Appointments : Earliest <= t
<1>1. Appointments \subseteq 0..MaxTime /\ MaxTime \in Nat
  BY CronAssumption DEF TypeOK, Row, Appointments
<1>2. CASE Appointments = {}
  BY <1>1, <1>2 DEF Earliest, Never
<1>3. CASE Appointments # {}
  <2>1. \E t \in Appointments : \A u \in Appointments : t <= u
    BY <1>1, <1>3, LeastNat
  <2>2. QED
    BY <1>1, <1>3, <2>1 DEF Earliest
<1>4. QED
  BY <1>2, <1>3

-----------------------------------------------------------------------------
(* The initial states *)

LEMMA CronInit == Init => CronInv
<1> SUFFICES ASSUME Init PROVE CronInv
  OBVIOUS
<1>1. MaxTime \in Nat /\ Schedules # {} /\ 0 \in Nat
  BY CronAssumption
<1>2. jobs \in [Jobs -> Row]
  <2>1. Unborn \in Row
    BY <1>1 DEF Row, Unborn, Never
  <2>2. QED
    BY <2>1 DEF Init
<1>3. TypeOK
  BY <1>1, <1>2, CronAssumption DEF Init, TypeOK, IdleTick, Never
<1>4. AppointmentStands
  BY DEF Init, AppointmentStands, Unborn
<1>5. TimesComputed
  BY <1>1 DEF Init, TimesComputed, Unborn, Row
<1>6. NoneDisabled
  BY DEF Init, NoneDisabled, Unborn
<1>7. CacheIsSound
  BY DEF Init, CacheIsSound
<1>8. QED
  BY <1>3, <1>4, <1>5, <1>6, <1>7
     DEF Init, CronInv, OneTickLaunches, ScheduledRunsApart, SavedWasWorked, SchedulesRead,
         IdleTick, InFlight

-----------------------------------------------------------------------------
(* The steps *)

\* A write of another process: what is said of the time without one says nothing
\* any more.
LEMMA WriteKeeps ==
    ASSUME CronInv, NEW j \in Jobs, NEW row \in Row, Write(j, row), owed' \in SUBSET Jobs,
           AppointmentStands'
    PROVE  CronInv'
<1> USE CronAssumption
<1>1. writes' # 0 /\ writes' \in 0..MaxWrites
  BY DEF Write, CronInv, TypeOK
<1>2. TypeOK'
  BY <1>1 DEF Write, CronInv, TypeOK
<1>3. OneTickLaunches' /\ ScheduledRunsApart' /\ SavedWasWorked'
  BY DEF Write, CronInv, OneTickLaunches, ScheduledRunsApart, SavedWasWorked, InFlight
<1>4. QED
  BY <1>1, <1>2, <1>3 DEF CronInv, SchedulesRead, TimesComputed, NoneDisabled, CacheIsSound

LEMMA WritesOfOthers ==
    ASSUME CronInv, NEW j \in Jobs,
           \/ \E s \in Schedules : \/ \E once \in BOOLEAN : AddJob(j, s, once)
                                   \/ Reschedule(j, s)
           \/ Toggle(j) \/ RemoveJob(j)
    PROVE  CronInv'
<1> USE CronAssumption
<1>1. jobs[j] \in Row /\ now \in Nat /\ owed \in SUBSET Jobs /\ MaxTime \in Nat
      /\ jobs \in [Jobs -> Row]
  BY DEF CronInv, TypeOK
<1>2. ASSUME NEW s \in Schedules, NEW once \in BOOLEAN, AddJob(j, s, once) PROVE CronInv'
  <2> DEFINE row == [on |-> "enabled", sched |-> s, once |-> once, next |-> NextRun(s, now)]
  <2>1. row \in Row /\ Write(j, row)
    BY <1>1, <1>2, NextRunType DEF AddJob, Row
  <2>2. owed' \in SUBSET Jobs
    BY <1>1, <1>2 DEF AddJob
  <2>3. AppointmentStands'
    BY <1>1, <1>2, <2>1 DEF AddJob, Write, CronInv, AppointmentStands
  <2>4. QED
    BY <2>1, <2>2, <2>3, WriteKeeps
<1>3. ASSUME NEW s \in Schedules, Reschedule(j, s) PROVE CronInv'
  <2> DEFINE row == [jobs[j] EXCEPT !.sched = s, !.next = NextRun(s, now)]
  <2>1. row \in Row /\ Write(j, row)
    BY <1>1, <1>3, NextRunType DEF Reschedule, Row
  <2>2. owed' \in SUBSET Jobs
    BY <1>1, <1>3 DEF Reschedule
  <2>3. AppointmentStands'
    BY <1>1, <1>3, <2>1 DEF Reschedule, Write, CronInv, AppointmentStands
  <2>4. QED
    BY <2>1, <2>2, <2>3, WriteKeeps
<1>4. CASE Toggle(j)
  <2> DEFINE row == [jobs[j] EXCEPT !.on = IF @ = "enabled" THEN "disabled" ELSE "enabled"]
  <2>1. row \in Row /\ Write(j, row)
    BY <1>1, <1>4 DEF Toggle, Row
  <2>2. owed' \in SUBSET Jobs
    BY <1>1, <1>4 DEF Toggle
  <2>3. AppointmentStands'
    BY <1>1, <1>4, <2>1 DEF Toggle, Write, CronInv, AppointmentStands
  <2>4. QED
    BY <2>1, <2>2, <2>3, WriteKeeps
<1>5. CASE RemoveJob(j)
  <2> DEFINE row == [jobs[j] EXCEPT !.on = "removed", !.next = Never]
  <2>1. row \in Row
    <3>1. Never \in 0..MaxTime
      BY <1>1 DEF Never
    <3>2. QED
      BY <1>1, <3>1 DEF Row
  <2>5. Write(j, row)
    BY <1>5 DEF RemoveJob
  <2>2. owed' \in SUBSET Jobs
    BY <1>1, <1>5 DEF RemoveJob
  <2>3. AppointmentStands'
    BY <1>1, <1>5 DEF RemoveJob, Write, CronInv, AppointmentStands
  <2>4. QED
    BY <2>1, <2>5, <2>2, <2>3, WriteKeeps
<1>6. QED
  BY <1>2, <1>3, <1>4, <1>5

\* A run that begins takes a slot that is free.
LEMMA LaunchTakes ==
    ASSUME TypeOK, NEW d \in [job : Jobs, sched : Schedules, once : BOOLEAN],
           NEW by \in {"tick", "command"}, Launch(d, by)
    PROVE  /\ runs' \in [Slots -> Run \cup {Free}]
           /\ \E k \in Slots :
                  /\ runs[k] = Free
                  /\ runs'[k] = [at |-> "work", job |-> d.job, sched |-> d.sched,
                                 once |-> d.once, by |-> by]
                  /\ runs'[k] # Free
                  /\ \A l \in Slots \ {k} : runs'[l] = runs[l]
<1> DEFINE r == [at |-> "work", job |-> d.job, sched |-> d.sched, once |-> d.once, by |-> by]
<1>1. r \in Run /\ r # Free
  BY DEF Run, Free
<1>2. PICK k \in Slots : runs[k] = Free /\ runs' = [runs EXCEPT ![k] = r]
  BY DEF Launch
<1>3. QED
  BY <1>1, <1>2 DEF TypeOK

\* What a step leaves alone when it touches neither jobs nor runs.
LEMMA JobsAndRunsKept ==
    ASSUME CronInv, UNCHANGED <<now, jobs, runs, owed, worked, writes>>
    PROVE  /\ ScheduledRunsApart' /\ SavedWasWorked' /\ AppointmentStands'
           /\ TimesComputed' /\ NoneDisabled'
           /\ (cache' \in {Never, cache} => CacheIsSound')
           /\ (tick'.list \subseteq tick.list => SchedulesRead')
  BY DEF CronInv, ScheduledRunsApart, SavedWasWorked, AppointmentStands, TimesComputed,
     NoneDisabled, CacheIsSound, SchedulesRead, InFlight, Appointments

LEMMA TickSteps ==
    ASSUME CronInv,
           TickStart \/ TickMin \/ TickDrained \/ TickCommands \/ TickEnd \/ TickFails
    PROVE  CronInv'
<1> USE CronAssumption
<1>1. UNCHANGED <<now, jobs, runs, owed, worked, writes>>
  BY DEF TickStart, TickMin, TickDrained, TickCommands, TickEnd, TickFails, history, counts
<1>2. CASE TickStart /\ tick'.at = "launch"
  <2>1. tick' = [tick EXCEPT !.at = "launch", !.list = {Snapshot(j) : j \in Due}]
        /\ tick.at = "idle" /\ cache' = Never
    BY <1>2 DEF TickStart, CronInv, TypeOK
  <2>2. \A j \in Due : Snapshot(j) \in [job : Jobs, sched : Schedules, once : BOOLEAN]
    BY DEF Due, Snapshot, CronInv, TypeOK, Row
  <2>3. TypeOK'
    <3>1. {Snapshot(j) : j \in Due} \in SUBSET [job : Jobs, sched : Schedules, once : BOOLEAN]
      BY <2>2
    <3>2. cache' \in 0..MaxTime
      BY <2>1 DEF Never
    <3>3. UNCHANGED <<commands, counts>>
      BY <1>2 DEF TickStart
    <3>4. QED
      BY <1>1, <2>1, <3>1, <3>2, <3>3 DEF CronInv, TypeOK, counts, history
  <2>4. OneTickLaunches'
    BY <1>1, <2>1 DEF CronInv, OneTickLaunches, InFlight, Snapshot, TypeOK
  <2>5. SchedulesRead'
    BY <1>1, <2>1 DEF CronInv, SchedulesRead, Snapshot, TypeOK
  <2>6. QED
    BY <1>1, <2>1, <2>3, <2>4, <2>5, JobsAndRunsKept DEF CronInv
<1>3. CASE TickMin
  <2>1. tick' = [tick EXCEPT !.at = "commands"] /\ tick.at = "min" /\ cache' = Earliest
    BY <1>3 DEF TickMin
  <2>2. Earliest \in 0..MaxTime /\ \A t \in Appointments : Earliest <= t
    BY EarliestIsLeast DEF CronInv
  <2>3. TypeOK'
    BY <1>1, <1>3, <2>1, <2>2 DEF TickMin, CronInv, TypeOK, counts, history
  <2>4. OneTickLaunches' /\ tick'.list = tick.list
    BY <1>1, <2>1 DEF CronInv, OneTickLaunches, InFlight, TypeOK
  <2>5. Appointments' = Appointments
    BY <1>1 DEF Appointments
  <2>6. CacheIsSound'
    BY <2>1, <2>2, <2>5 DEF CacheIsSound
  <2>7. QED
    BY <1>1, <2>3, <2>4, <2>6, JobsAndRunsKept DEF CronInv
<1>4. CASE ~(TickStart /\ tick'.at = "launch") /\ ~TickMin
  <2> USE DEF CronInv, TypeOK
  <2> DEFINE Good == /\ cache' = cache /\ tick'.list \subseteq tick.list
                     /\ commands' \in SUBSET Jobs
                     /\ tick' \in [at : {"idle", "min", "launch", "commands", "handle"},
                                  list : SUBSET [job : Jobs, sched : Schedules, once : BOOLEAN],
                                  batch : SUBSET Jobs]
                     /\ tick'.at # "launch"
                     /\ (tick.at = "launch" => InFlight("tick") = {} /\ tick.list = {})
                     /\ restarts' = restarts /\ sent' = sent /\ errors' \in 0..MaxErrors
  <2>1. Good
    <3>1. CASE TickStart
      <4>1. cache' = cache /\ tick' \in {[tick EXCEPT !.at = "commands"], [tick EXCEPT !.at = "min"]}
        BY <1>4, <3>1 DEF TickStart
      <4>2. QED
        BY <3>1, <4>1 DEF TickStart, counts
    <3>2. CASE TickDrained
      BY <3>2 DEF TickDrained, counts
    <3>3. CASE TickCommands
      BY <3>3 DEF TickCommands, counts
    <3>4. CASE TickEnd
      BY <3>4 DEF TickEnd, IdleTick, counts
    <3>5. CASE TickFails
      BY <3>5 DEF TickFails, IdleTick
    <3>6. QED
      BY <1>4, <3>1, <3>2, <3>3, <3>4, <3>5
  <2>2. TypeOK'
    BY <1>1, <2>1
  <2>3. OneTickLaunches'
    BY <1>1, <2>1 DEF CronInv, OneTickLaunches, InFlight
  <2>4. QED
    BY <1>1, <2>1, <2>2, <2>3, JobsAndRunsKept DEF CronInv
<1>5. QED
  BY <1>2, <1>3, <1>4

LEMMA TickLaunches ==
    ASSUME CronInv, NEW d \in tick.list, TickLaunch(d)
    PROVE  CronInv'
<1> USE CronAssumption
<1>1. /\ d \in [job : Jobs, sched : Schedules, once : BOOLEAN] /\ tick.at = "launch"
      /\ tick' = [tick EXCEPT !.list = @ \ {d}]
      /\ tick'.list = tick.list \ {d} /\ tick'.at = "launch"
      /\ UNCHANGED <<now, jobs, commands, cache, history, counts>>
  BY DEF TickLaunch, CronInv, TypeOK
<1>2. PICK k \in Slots :
          /\ runs[k] = Free
          /\ runs'[k] = [at |-> "work", job |-> d.job, sched |-> d.sched,
                         once |-> d.once, by |-> "tick"]
          /\ runs'[k] # Free
          /\ \A l \in Slots \ {k} : runs'[l] = runs[l]
  BY <1>1, LaunchTakes DEF TickLaunch, CronInv
<1>3. TypeOK'
  BY <1>1, LaunchTakes DEF TickLaunch, CronInv, TypeOK, history, counts
<1>4. OneTickLaunches'
  <2>1. \A l \in Slots : l \in InFlight("tick")' => l = k \/ l \in InFlight("tick")
    BY <1>2 DEF InFlight
  <2>2. \A e \in tick'.list : runs'[k].job # e.job
    BY <1>1, <1>2 DEF CronInv, OneTickLaunches
  <2>3. \A e \in tick'.list, l \in InFlight("tick")' : runs'[l].job # e.job
    <3>1. ASSUME NEW e \in tick'.list, NEW l \in InFlight("tick")' PROVE runs'[l].job # e.job
      <4>1. CASE l = k
        BY <2>2, <4>1
      <4>2. CASE l # k
        BY <1>1, <1>2, <2>1, <4>2 DEF CronInv, OneTickLaunches, InFlight
      <4>3. QED
        BY <4>1, <4>2
    <3>2. QED
      BY <3>1
  <2>4. QED
    BY <1>1, <2>3 DEF CronInv, OneTickLaunches
<1>5. ScheduledRunsApart'
  BY <1>1, <1>2 DEF CronInv, ScheduledRunsApart, OneTickLaunches, InFlight
<1>6. SavedWasWorked'
  BY <1>1, <1>2 DEF CronInv, SavedWasWorked, history
<1>7. SchedulesRead'
  BY <1>1, <1>2 DEF CronInv, SchedulesRead, counts
<1>8. AppointmentStands' /\ TimesComputed' /\ NoneDisabled' /\ CacheIsSound'
  BY <1>1 DEF CronInv, AppointmentStands, TimesComputed, NoneDisabled, CacheIsSound, Appointments,
     history, counts
<1>9. QED
  BY <1>3, <1>4, <1>5, <1>6, <1>7, <1>8 DEF CronInv

LEMMA TickHandles ==
    ASSUME CronInv, NEW j \in tick.batch, TickHandle(j)
    PROVE  CronInv'
<1> USE CronAssumption
<1>1. /\ j \in Jobs /\ tick.at = "handle"
      /\ tick' = [tick EXCEPT !.batch = @ \ {j}]
      /\ tick'.list = tick.list /\ tick'.at = tick.at
      /\ UNCHANGED <<now, jobs, commands, history, counts>>
  BY DEF TickHandle, CronInv, TypeOK
<1>2. CASE ~Exists(j)
  <2>1. UNCHANGED <<runs, cache>>
    BY <1>2 DEF TickHandle
  <2>2. TypeOK'
    BY <1>1, <2>1 DEF CronInv, TypeOK, history, counts
  <2>3. OneTickLaunches'
    BY <1>1, <2>1 DEF CronInv, OneTickLaunches, InFlight
  <2>4. QED
    BY <1>1, <2>1, <2>2, <2>3, JobsAndRunsKept DEF CronInv, history, counts
<1>3. CASE Exists(j)
  <2>1. Launch(Snapshot(j), "command") /\ cache' = Never
    BY <1>3 DEF TickHandle
  <2>2. Snapshot(j) \in [job : Jobs, sched : Schedules, once : BOOLEAN]
        /\ Snapshot(j).job = j /\ Snapshot(j).sched = jobs[j].sched
    BY <1>1 DEF Snapshot, CronInv, TypeOK, Row
  <2>3. PICK k \in Slots :
            /\ runs[k] = Free
            /\ runs'[k] = [at |-> "work", job |-> j, sched |-> jobs[j].sched,
                           once |-> Snapshot(j).once, by |-> "command"]
            /\ runs'[k] # Free
            /\ \A l \in Slots \ {k} : runs'[l] = runs[l]
    BY <2>1, <2>2, LaunchTakes DEF CronInv
  <2>4. TypeOK'
    <3>1. runs' \in [Slots -> Run \cup {Free}]
      BY <2>1, <2>2, LaunchTakes DEF CronInv
    <3>2. cache' \in 0..MaxTime
      BY <2>1 DEF Never
    <3>3. tick' \in [at : {"idle", "min", "launch", "commands", "handle"},
                    list : SUBSET [job : Jobs, sched : Schedules, once : BOOLEAN],
                    batch : SUBSET Jobs]
      BY <1>1 DEF CronInv, TypeOK
    <3>4. QED
      BY <1>1, <3>1, <3>2, <3>3 DEF CronInv, TypeOK, history, counts
  <2>5. InFlight("tick")' = InFlight("tick") /\ \A l \in InFlight("tick") : runs'[l] = runs[l]
    BY <2>3 DEF InFlight
  <2>6. OneTickLaunches' /\ ScheduledRunsApart'
    BY <1>1, <2>5 DEF CronInv, OneTickLaunches, ScheduledRunsApart
  <2>7. SavedWasWorked'
    BY <1>1, <2>3 DEF CronInv, SavedWasWorked, history
  <2>8. SchedulesRead'
    BY <1>1, <2>3 DEF CronInv, SchedulesRead, counts
  <2>9. AppointmentStands' /\ TimesComputed' /\ NoneDisabled' /\ CacheIsSound'
    BY <1>1, <2>1 DEF CronInv, AppointmentStands, TimesComputed, NoneDisabled, CacheIsSound,
       history, counts
  <2>10. QED
    BY <2>4, <2>6, <2>7, <2>8, <2>9 DEF CronInv
<1>4. QED
  BY <1>2, <1>3

\* A run that saves the next time moves no appointment to before the cached time.
LEMMA RunSavesKeeps ==
    ASSUME CronInv, NEW k \in Slots, RunSaves(k)
    PROVE  CronInv'
<1> USE CronAssumption
<1> DEFINE r == runs[k]
           next == NextRun(r.sched, now)
<1>1. /\ r \in Run /\ r # Free /\ r.job \in Jobs /\ r.sched \in Schedules /\ r.at = "save"
      /\ runs' = [runs EXCEPT ![k] = Free]
      /\ UNCHANGED <<now, commands, tick, cache, history, counts>>
  BY DEF RunSaves, CronInv, TypeOK, Run
<1>2. now \in Nat /\ next \in 0..MaxTime /\ jobs \in [Jobs -> Row]
  BY <1>1, NextRunType DEF CronInv, TypeOK
<1>3. /\ jobs' \in [Jobs -> Row]
      /\ \A j \in Jobs : jobs'[j].sched = jobs[j].sched
      /\ \A j \in Jobs \ {r.job} : jobs'[j] = jobs[j]
      /\ jobs'[r.job].on \in {jobs[r.job].on, "removed"}
      /\ jobs'[r.job].next \in {jobs[r.job].next, next} \/ jobs'[r.job].on = "removed"
      /\ jobs'[r.job].next = next \/ jobs'[r.job].on # "enabled"
  BY <1>1, <1>2 DEF RunSaves, Row, Exists, Never
<1>4. TypeOK'
  BY <1>1, <1>3 DEF CronInv, TypeOK, history, counts
<1>5. /\ \A l \in Slots : runs'[l] # Free => runs'[l] = runs[l] /\ runs[l] # Free
      /\ InFlight("tick")' \subseteq InFlight("tick")
  BY <1>1 DEF CronInv, TypeOK, InFlight
<1>6. OneTickLaunches' /\ ScheduledRunsApart'
  BY <1>1, <1>5 DEF CronInv, OneTickLaunches, ScheduledRunsApart, InFlight
<1>7. SavedWasWorked'
  BY <1>1, <1>5 DEF CronInv, SavedWasWorked, history
<1>8. AppointmentStands'
  BY <1>1, <1>3 DEF CronInv, AppointmentStands, SavedWasWorked, history, TypeOK
<1>9. SchedulesRead'
  <2>1. ASSUME writes' = 0, NEW l \in Slots, runs'[l] # Free
        PROVE  runs'[l].sched = jobs'[runs'[l].job].sched
    BY <1>1, <1>3, <1>5, <2>1 DEF CronInv, TypeOK, SchedulesRead, counts, Run
  <2>2. ASSUME writes' = 0, NEW d \in tick'.list PROVE d.sched = jobs'[d.job].sched
    BY <1>1, <1>3, <2>2 DEF CronInv, TypeOK, SchedulesRead, counts
  <2>3. QED
    BY <2>1, <2>2 DEF SchedulesRead
<1>10. ASSUME writes = 0 PROVE r.sched = jobs[r.job].sched
  BY <1>1, <1>10 DEF CronInv, SchedulesRead
<1>11. TimesComputed'
  <2>1. SUFFICES ASSUME writes = 0, NEW j \in Jobs, jobs'[j].on = "enabled"
                 PROVE  \E t \in 0..now : jobs'[j].next = NextRun(jobs'[j].sched, t)
    BY <1>1 DEF TimesComputed, counts
  <2>2. CASE j = r.job
    BY <1>2, <1>3, <1>10, <2>1, <2>2
  <2>3. CASE j # r.job
    BY <1>3, <2>1, <2>3 DEF CronInv, TimesComputed
  <2>4. QED
    BY <2>2, <2>3
<1>12. NoneDisabled'
  BY <1>1, <1>3 DEF CronInv, NoneDisabled, counts
<1>13. CacheIsSound'
  <2>1. SUFFICES ASSUME writes = 0, cache # Never, NEW j \in Jobs, jobs'[j].on = "enabled",
                        jobs'[j].next # Never
                 PROVE  cache <= jobs'[j].next
    BY <1>1 DEF CacheIsSound, Appointments, counts
  <2>2. \A i \in Jobs : jobs[i].on = "enabled" /\ jobs[i].next # Never => cache <= jobs[i].next
    BY <2>1 DEF CronInv, CacheIsSound, Appointments
  <2>3. CASE j # r.job
    BY <1>3, <2>1, <2>2, <2>3
  <2>4. CASE j = r.job
    <3>1. jobs[j].on = "enabled" /\ jobs'[j].next = next
      BY <1>3, <2>1, <2>4
    <3>2. PICK t \in 0..now : jobs[j].next = NextRun(r.sched, t)
      BY <1>10, <2>1, <2>4, <3>1 DEF CronInv, TimesComputed
    <3>3. jobs[j].next # Never /\ jobs[j].next <= next
      BY <1>1, <1>2, <2>1, <3>1, <3>2, NextRunLater
    <3>4. jobs[j].next \in Nat /\ cache \in Nat /\ next \in Nat
      BY <1>2 DEF CronInv, TypeOK, Row
    <3>5. QED
      BY <2>2, <3>1, <3>3, <3>4
  <2>5. QED
    BY <2>3, <2>4
<1>14. QED
  BY <1>4, <1>6, <1>7, <1>8, <1>9, <1>11, <1>12, <1>13 DEF CronInv

\* Runs that work, fail or are cut off by a restart.
LEMMA RunSteps ==
    ASSUME CronInv, (\E k \in Slots : RunWorks(k) \/ RunFails(k)) \/ Restart
    PROVE  CronInv'
<1> USE CronAssumption
<1>1. ASSUME NEW k \in Slots, RunWorks(k) PROVE CronInv'
  <2>1. runs[k] \in Run /\ runs[k] # Free
    BY <1>1 DEF RunWorks, CronInv, TypeOK
  <2>2. /\ runs'[k] = [runs[k] EXCEPT !.at = "save"] /\ runs'[k] \in Run /\ runs'[k] # Free
        /\ \A l \in Slots \ {k} : runs'[l] = runs[l]
        /\ runs' \in [Slots -> Run \cup {Free}]
        /\ worked' = worked \cup {runs[k].job} /\ worked' \in SUBSET Jobs
        /\ UNCHANGED <<now, jobs, commands, tick, cache, owed, counts>>
    BY <1>1, <2>1 DEF RunWorks, CronInv, TypeOK, Run, Free
  <2>3. TypeOK'
    BY <2>2 DEF CronInv, TypeOK, counts
  <2>4. /\ \A l \in Slots : /\ (runs'[l] # Free) = (runs[l] # Free)
                            /\ runs[l] # Free => /\ runs'[l].job = runs[l].job
                                                  /\ runs'[l].sched = runs[l].sched
                                                  /\ runs'[l].by = runs[l].by
        /\ InFlight("tick")' = InFlight("tick")
    BY <2>1, <2>2 DEF InFlight, Run
  <2>5. OneTickLaunches' /\ ScheduledRunsApart'
    BY <2>2, <2>4 DEF CronInv, OneTickLaunches, ScheduledRunsApart, InFlight
  <2>6. SavedWasWorked'
    BY <2>1, <2>2, <2>4 DEF CronInv, SavedWasWorked, Run
  <2>7. SchedulesRead'
    BY <2>2, <2>4 DEF CronInv, SchedulesRead, counts
  <2>8. AppointmentStands' /\ TimesComputed' /\ NoneDisabled' /\ CacheIsSound'
    BY <2>2 DEF CronInv, AppointmentStands, TimesComputed, NoneDisabled, CacheIsSound,
       Appointments, counts
  <2>9. QED
    BY <2>3, <2>5, <2>6, <2>7, <2>8 DEF CronInv
<1>2. ASSUME NEW k \in Slots, RunFails(k) PROVE CronInv'
  <2>1. /\ runs' = [runs EXCEPT ![k] = Free] /\ errors' \in 0..MaxErrors
        /\ UNCHANGED <<now, jobs, commands, tick, cache, history, writes, sent, restarts>>
    BY <1>2 DEF RunFails, CronInv, TypeOK
  <2>2. TypeOK'
    BY <2>1 DEF CronInv, TypeOK, history
  <2>3. /\ \A l \in Slots : runs'[l] # Free => runs'[l] = runs[l] /\ runs[l] # Free
        /\ InFlight("tick")' \subseteq InFlight("tick")
    BY <2>1 DEF CronInv, TypeOK, InFlight
  <2>4. OneTickLaunches' /\ ScheduledRunsApart' /\ SavedWasWorked' /\ SchedulesRead'
    BY <2>1, <2>3 DEF CronInv, OneTickLaunches, ScheduledRunsApart, SavedWasWorked,
       SchedulesRead, InFlight, history
  <2>5. AppointmentStands' /\ TimesComputed' /\ NoneDisabled' /\ CacheIsSound'
    BY <2>1 DEF CronInv, AppointmentStands, TimesComputed, NoneDisabled, CacheIsSound,
       Appointments, history
  <2>6. QED
    BY <2>2, <2>4, <2>5 DEF CronInv
<1>3. CASE Restart
  <2>1. /\ runs' = [l \in Slots |-> Free] /\ tick' = IdleTick /\ cache' = Never
        /\ restarts' \in 0..MaxRestarts
        /\ UNCHANGED <<now, jobs, commands, history, writes, sent, errors>>
    BY <1>3 DEF Restart, CronInv, TypeOK
  <2>2. TypeOK'
    BY <2>1 DEF CronInv, TypeOK, history, IdleTick, Never
  <2>3. OneTickLaunches' /\ ScheduledRunsApart' /\ SavedWasWorked' /\ SchedulesRead' /\ CacheIsSound'
    BY <2>1 DEF OneTickLaunches, ScheduledRunsApart, SavedWasWorked, SchedulesRead, InFlight,
       IdleTick, CacheIsSound
  <2>4. AppointmentStands' /\ TimesComputed' /\ NoneDisabled'
    BY <2>1 DEF CronInv, AppointmentStands, TimesComputed, NoneDisabled, history
  <2>5. QED
    BY <2>2, <2>3, <2>4 DEF CronInv
<1>4. QED
  BY <1>1, <1>2, <1>3

LEMMA CronStep == CronInv /\ [Next]_vars => CronInv'
<1> SUFFICES ASSUME CronInv, [Next]_vars PROVE CronInv'
  OBVIOUS
<1> USE CronAssumption
<1>1. CASE UNCHANGED vars
  BY <1>1 DEF vars, history, counts, CronInv, TypeOK, OneTickLaunches, ScheduledRunsApart,
     SavedWasWorked, AppointmentStands, SchedulesRead, TimesComputed, NoneDisabled,
     CacheIsSound, InFlight, Appointments
<1>2. CASE Clock
  <2>1. /\ now' = now + 1 /\ now' \in 0..MaxTime
        /\ UNCHANGED <<jobs, commands, tick, cache, runs, history, counts>>
    BY <1>2 DEF Clock, CronInv, TypeOK
  <2>2. TypeOK'
    BY <2>1 DEF CronInv, TypeOK, history, counts
  <2>3. TimesComputed'
    BY <2>1 DEF CronInv, TypeOK, TimesComputed, counts
  <2>4. QED
    BY <2>1, <2>2, <2>3 DEF CronInv, history, counts, OneTickLaunches, ScheduledRunsApart,
       SavedWasWorked, AppointmentStands, SchedulesRead, NoneDisabled, CacheIsSound, InFlight,
       Appointments
<1>3. ASSUME NEW j \in Jobs, RunNow(j) PROVE CronInv'
  <2>1. /\ commands' \in SUBSET Jobs /\ sent' \in 0..MaxCommands
        /\ UNCHANGED <<now, jobs, tick, cache, runs, history, writes, restarts, errors>>
    BY <1>3 DEF RunNow, CronInv, TypeOK
  <2>2. TypeOK'
    BY <2>1 DEF CronInv, TypeOK, history
  <2>3. OneTickLaunches'
    BY <2>1 DEF CronInv, OneTickLaunches, InFlight
  <2>4. QED
    BY <2>1, <2>2, <2>3, JobsAndRunsKept DEF CronInv, history
<1>4. QED
  BY <1>1, <1>2, <1>3, WritesOfOthers, TickSteps, TickLaunches, TickHandles, RunSavesKeeps,
     RunSteps DEF Next

-----------------------------------------------------------------------------
(* The theorems *)

LEMMA CronInvHolds == Spec => []CronInv
<1>1. Init => CronInv
  BY CronInit
<1>2. CronInv /\ [Next]_vars => CronInv'
  BY CronStep
<1>3. QED
  BY <1>1, <1>2, PTL DEF Spec

\* For any jobs, schedules, writes, commands, restarts and failing queries: ticks
\* keep the runs of a job apart, and the cached time hides no appointment as long
\* as no other process writes.
THEOREM TickIsSound == Spec => []Inv
<1>1. CronInv => Inv
  BY DEF CronInv, Inv
<1>2. QED
  BY <1>1, CronInvHolds, PTL

\* A job keeps its appointment until its work has been done, whatever crashes or
\* fails.
THEOREM AppointmentsStand == Spec => []AppointmentStands
<1>1. CronInv => AppointmentStands
  BY DEF CronInv
<1>2. QED
  BY <1>1, CronInvHolds, PTL

-----------------------------------------------------------------------------
(***************************************************************************)
(* The alerts of the health monitor, for any checks, readings, cycles and  *)
(* faults.  The monitor shares no state with the scheduler.  While it is   *)
(* calm, which ends with the first fault, there is one cycle at a time,    *)
(* and memory, table and messages are apart only by what that cycle has in *)
(* hand; once it is upset, the type is all that stands.                      *)
(***************************************************************************)
\* The variables that are functions, of which TypeOK gives the values.
Shapes ==
    /\ bad = [c \in Checks |-> bad[c]]
    /\ cycle = [y \in Cycles |-> cycle[y]]

\* What the operator was told last of a key, that it is there.
Announced == {k \in Keys : told[k] \in {"alert", "past"}}

Locals == [at : Stages, pending : SUBSET Checks, blind : BOOLEAN,
              results : SUBSET Keys, todo : SUBSET Keys, key : SUBSET Keys]

\* How far memory, table and messages are apart while a cycle is under way.
InStep(c) ==
    /\ c.at \notin {"close", "record"} => open = Active
    /\ c.at = "close" => open = Active \cup c.key
    /\ c.at = "record" => open \cup c.key = Active
    /\ c.at \in {"close", "tell"} => Announced = Active \cup c.key /\ c.key \cap Active = {}
    /\ c.at \in {"fire", "record"} => Announced = Active \cup c.todo
    /\ c.at \in {"checks", "resolve", "announce"} => Announced = Active

\* What a cycle has still to do about the active keys: each was seen, or is to be
\* resolved; one that is not fresh is to be fired, and no other.
AllInHand(c) ==
    /\ c.at \in {"resolve", "close", "tell"} =>
           Active \subseteq c.results \cup c.todo /\ c.todo \subseteq Active
    /\ c.at \in {"announce", "fire", "record"} => \A k \in Active : entry[k] = "fresh" \/ k \in c.todo
    /\ c.at = "announce" => \A k \in c.todo : entry[k] # "fresh"

\* A key with a recent alert is fresh in memory, or the cycle is about to make it so
\* or to take it back.
AlertsAreFresh ==
    \A k \in Keys : told[k] = "alert" =>
        \/ entry[k] = "fresh"
        \/ \E y \in Busy : \/ cycle[y].at \in {"fire", "record"} /\ k \in cycle[y].todo
                           \/ cycle[y].at \in {"close", "tell"} /\ k \in cycle[y].key

\* A key that is active or seen still measures so, or was left since.
Stands(k) == bad[k[1]] = k[2] \/ k \in left
SeenOrLeft ==
    /\ \A k \in Active : Stands(k)
    /\ \A y \in Busy : \A k \in cycle[y].results : Stands(k)
    /\ \A y \in Busy : cycle[y].at \in {"announce", "fire", "record"} =>
           \A k \in cycle[y].todo : Stands(k)

\* In a cycle that saw all, what is to be resolved was left.
OthersLeft(c) ==
    ~c.blind =>
        /\ c.at = "checks" => \A k \in Active : k[1] \in c.pending \/ k \in c.results \/ k \in left
        /\ c.at \in {"resolve", "close", "tell"} => c.todo \subseteq left

CalmInv ==
    /\ \A y, z \in Busy : y = z
    /\ Busy = {} => open = Active /\ Announced = Active
    /\ \A y \in Busy : InStep(cycle[y]) /\ AllInHand(cycle[y]) /\ OthersLeft(cycle[y])
    /\ AlertsAreFresh
    /\ SeenOrLeft

AlertsInv == AlertsTypeOK /\ Shapes /\ (calm => CalmInv)

-----------------------------------------------------------------------------
(* A cycle's locals *)

LEMMA KeyIsPair ==
    /\ \A k \in Keys : k[1] \in Checks /\ k[2] \in 1..Readings[k[1]] /\ k = <<k[1], k[2]>>
    /\ \A c \in Checks, r \in Nat : <<c, r>> \in Keys <=> r \in 1..Readings[c]
BY AlertsAssumption DEF Keys

LEMMA CycleSet ==
    ASSUME AlertsTypeOK, Shapes, NEW y \in Cycles, NEW d, d = Idle \/ d \in Locals,
           cycle' = [cycle EXCEPT ![y] = d]
    PROVE  /\ cycle' = [z \in Cycles |-> cycle'[z]]
           /\ \A z \in Cycles : cycle'[z] = Idle \/ cycle'[z] \in Locals
           /\ cycle'[y] = d /\ \A z \in Cycles \ {y} : cycle'[z] = cycle[z]
           /\ Busy' = IF d = Idle THEN Busy \ {y} ELSE Busy \cup {y}
<1>1. cycle' = [z \in Cycles |-> IF z = y THEN d ELSE cycle[z]]
  BY DEF Shapes
<1>2. \A z \in Cycles : cycle[z] = Idle \/ cycle[z] \in Locals
  BY DEF AlertsTypeOK, Locals
<1>3. \A z \in Cycles : cycle'[z] = IF z = y THEN d ELSE cycle[z]
  BY <1>1
<1>4. Busy' = IF d = Idle THEN Busy \ {y} ELSE Busy \cup {y}
  BY <1>3 DEF Busy
<1>5. QED
  BY <1>1, <1>2, <1>3, <1>4

LEMMA AtLocals ==
    ASSUME AlertsTypeOK, NEW y \in Cycles, NEW p \in Stages, At(y, p)
    PROVE  cycle[y] \in Locals /\ cycle[y].at = p /\ y \in Busy /\ cycle[y] # Idle
BY DEF AlertsTypeOK, Locals, At, Busy

LEMMA LocalsAreBusy ==
    ASSUME NEW d \in Locals
    PROVE  d # Idle
BY DEF Locals, Stages, Idle

\* In a calm monitor a cycle is the only one.
LEMMA Alone ==
    ASSUME AlertsInv, calm, NEW y \in Busy
    PROVE  Busy = {y} /\ InStep(cycle[y]) /\ AllInHand(cycle[y]) /\ OthersLeft(cycle[y])
BY DEF AlertsInv, CalmInv

\* What has to be shown of a step of a calm monitor that leaves one cycle, or none.
LEMMA StillAlone ==
    ASSUME NEW y \in Cycles, Busy' = {y},
           InStep(cycle[y])', AllInHand(cycle[y])', OthersLeft(cycle[y])',
           AlertsAreFresh', SeenOrLeft'
    PROVE  CalmInv'
BY DEF CalmInv

LEMMA NowIdle ==
    ASSUME Busy' = {}, open' = Active', Announced' = Active', AlertsAreFresh', SeenOrLeft'
    PROVE  CalmInv'
BY DEF CalmInv

-----------------------------------------------------------------------------
(* The steps *)

LEMMA MeasuredKeeps ==
    ASSUME AlertsInv, NEW c \in Checks, NEW r \in 0..Readings[c], Measured(c, r)
    PROVE  AlertsInv'
<1> USE DEF AlertsInv
<1>1. bad' = [d \in Checks |-> IF d = c THEN r ELSE bad[d]] /\ bad[c] # r
  BY DEF Measured, Shapes
<1>2. UNCHANGED <<entry, cycle, open, told, calm, faults>>
  BY DEF Measured
<1>3. left' = IF calm THEN left \cup ({<<c, bad[c]>>} \cap Keys) ELSE {}
  BY DEF Measured
<1>4. AlertsTypeOK' /\ Shapes'
  <2>1. \A d \in Checks : bad'[d] \in 0..Readings[d]
    BY <1>1 DEF AlertsTypeOK
  <2>2. left' \subseteq Keys
    BY <1>3 DEF AlertsTypeOK
  <2>3. QED
    BY <1>1, <1>2, <2>1, <2>2 DEF AlertsTypeOK, Shapes
<1>5. ASSUME calm
      PROVE  CalmInv'
  <2>1. left \subseteq left'
    BY <1>3, <1>5
  <2>2. \A k \in Keys : Stands(k) => Stands(k)'
    <3> SUFFICES ASSUME NEW k \in Keys, Stands(k)
                 PROVE  Stands(k)'
      OBVIOUS
    <3>1. k[1] \in Checks /\ k = <<k[1], k[2]>>
      BY KeyIsPair
    <3>2. CASE k[1] = c /\ bad[c] = k[2]
      <4>1. k \in left'
        BY <1>3, <1>5, <3>1, <3>2
      <4>2. QED
        BY <4>1 DEF Stands
    <3>3. CASE ~(k[1] = c /\ bad[c] = k[2])
      <4>1. bad[k[1]] = k[2] => bad'[k[1]] = k[2]
        BY <1>1, <3>1, <3>3
      <4>2. QED
        BY <4>1, <2>1 DEF Stands
    <3>4. QED
      BY <3>2, <3>3
  <2>3. Active' = Active /\ Busy' = Busy /\ Announced' = Announced
    BY <1>2 DEF Active, Busy, Announced
  <2>4. \A y \in Busy : cycle[y] \in Locals /\ cycle'[y] = cycle[y]
    BY <1>2 DEF AlertsTypeOK, Locals, Busy
  <2>5. Active \subseteq Keys
    BY DEF Active
  <2>6. SeenOrLeft'
    BY <1>5, <2>2, <2>3, <2>4, <2>5 DEF CalmInv, SeenOrLeft, Locals
  <2>7. \A y \in Busy : InStep(cycle[y])' /\ AllInHand(cycle[y])' /\ OthersLeft(cycle[y])'
    BY <1>2, <1>5, <2>1, <2>3, <2>4 DEF CalmInv, InStep, AllInHand, OthersLeft
  <2>8. AlertsAreFresh'
    BY <1>2, <1>5, <2>3 DEF CalmInv, AlertsAreFresh
  <2>9. QED
    BY <1>2, <1>5, <2>3, <2>6, <2>7, <2>8 DEF CalmInv
<1>6. QED
  BY <1>2, <1>4, <1>5

\* Whatever upsets the monitor has only types to keep.
LEMMA UpsetKeeps ==
    ASSUME AlertsInv, Upset, Fault, UNCHANGED bad,
           entry' \in [Keys -> {"none", "fresh", "cool", "old"}],
           told' \in [Keys -> {"nothing", "alert", "past", "resolved"}],
           open' \subseteq Keys,
           cycle' = [z \in Cycles |-> cycle'[z]],
           \A z \in Cycles : cycle'[z] = Idle \/ cycle'[z] \in Locals
    PROVE  AlertsInv'
<1>1. faults' \in 0..MaxFaults
  BY AlertsAssumption DEF AlertsInv, AlertsTypeOK, Fault
<1>2. QED
  BY <1>1 DEF AlertsInv, AlertsTypeOK, Shapes, Upset, Locals

LEMMA AgeKeeps ==
    ASSUME AlertsInv, NEW k \in Keys, Age(k)
    PROVE  AlertsInv'
<1> DEFINE older == [fresh |-> "cool", cool |-> "old", old |-> "old", none |-> "none"]
<1>1. entry' = [entry EXCEPT ![k] = older[@]]
      /\ told' = [told EXCEPT ![k] = IF @ = "alert" THEN "past" ELSE @]
      /\ SlowIfBusy /\ UNCHANGED <<bad, cycle, open>>
  BY DEF Age
<1>2. AlertsTypeOK /\ Shapes
  BY DEF AlertsInv
<1>3. entry \in [Keys -> {"none", "fresh", "cool", "old"}]
      /\ told \in [Keys -> {"nothing", "alert", "past", "resolved"}]
  BY <1>2 DEF AlertsTypeOK
<1>4. entry'[k] = older[entry[k]] /\ \A x \in Keys \ {k} : entry'[x] = entry[x]
  BY <1>1, <1>3
<1>5. told'[k] = (IF told[k] = "alert" THEN "past" ELSE told[k])
      /\ \A x \in Keys \ {k} : told'[x] = told[x]
  BY <1>1, <1>3
<1>6. entry' \in [Keys -> {"none", "fresh", "cool", "old"}]
  BY <1>1, <1>3
<1>7. told' \in [Keys -> {"nothing", "alert", "past", "resolved"}]
  BY <1>1, <1>3
<1>8. CASE Busy # {}
  BY <1>1, <1>2, <1>6, <1>7, <1>8, UpsetKeeps DEF SlowIfBusy, AlertsTypeOK, Shapes, Locals
<1>9. CASE Busy = {}
  <2>1. UNCHANGED <<bad, cycle, open, left, calm, faults>>
    BY <1>1, <1>9 DEF SlowIfBusy
  <2>2. AlertsTypeOK' /\ Shapes'
    BY <1>2, <1>6, <1>7, <2>1 DEF AlertsTypeOK, Shapes
  <2>3. ASSUME calm
        PROVE  CalmInv'
    <3>1. Active' = Active
      BY <1>3, <1>4 DEF Active
    <3>2. Announced' = Announced
      BY <1>3, <1>5 DEF Announced
    <3>3. Busy' = {}
      BY <1>9, <2>1 DEF Busy
    <3>4. \A x \in Keys : told[x] = "alert" => entry[x] = "fresh"
      BY <1>9, <2>3 DEF AlertsInv, CalmInv, AlertsAreFresh
    <3>5. AlertsAreFresh'
      BY <1>4, <1>5, <3>4 DEF AlertsAreFresh
    <3>6. SeenOrLeft'
      BY <2>1, <2>3, <3>1, <3>3 DEF AlertsInv, CalmInv, SeenOrLeft, Stands
    <3>7. QED
      BY <1>9, <2>1, <2>3, <3>1, <3>2, <3>3, <3>5, <3>6, NowIdle DEF AlertsInv, CalmInv
  <2>4. QED
    BY <2>1, <2>2, <2>3 DEF AlertsInv
<1>10. QED
  BY <1>8, <1>9

\* The types after a step of a cycle.
LEMMA StepType ==
    ASSUME AlertsInv, NEW y \in Cycles, NEW d, d = Idle \/ d \in Locals,
           cycle' = [cycle EXCEPT ![y] = d], UNCHANGED <<bad, calm, faults>>,
           entry' \in [Keys -> {"none", "fresh", "cool", "old"}],
           told' \in [Keys -> {"nothing", "alert", "past", "resolved"}],
           open' \subseteq Keys, left' \subseteq Keys
    PROVE  AlertsTypeOK' /\ Shapes'
<1>1. /\ cycle' = [z \in Cycles |-> cycle'[z]]
      /\ \A z \in Cycles : cycle'[z] = Idle \/ cycle'[z] \in Locals
  BY CycleSet DEF AlertsInv
<1>2. QED
  BY <1>1 DEF AlertsInv, AlertsTypeOK, Shapes, Locals

\* A step within a cycle.
LEMMA CycleMoves ==
    ASSUME AlertsTypeOK, Shapes, NEW y \in Cycles, y \in Busy, NEW d \in Locals,
           cycle' = [cycle EXCEPT ![y] = d]
    PROVE  /\ cycle' = [z \in Cycles |-> cycle'[z]]
           /\ \A z \in Cycles : cycle'[z] = Idle \/ cycle'[z] \in Locals
           /\ cycle'[y] = d /\ Busy' = Busy
<1>1. d # Idle
  BY LocalsAreBusy
<1>2. /\ cycle' = [z \in Cycles |-> cycle'[z]]
      /\ \A z \in Cycles : cycle'[z] = Idle \/ cycle'[z] \in Locals
      /\ cycle'[y] = d
      /\ Busy' = IF d = Idle THEN Busy \ {y} ELSE Busy \cup {y}
  BY CycleSet
<1>3. QED
  BY <1>1, <1>2

LEMMA TickKeeps ==
    ASSUME AlertsInv, NEW y \in Cycles, CheckTick(y)
    PROVE  AlertsInv'
<1> DEFINE d == [at |-> "checks", pending |-> Checks, blind |-> FALSE,
                 results |-> {}, todo |-> {}, key |-> {}]
<1>1. d \in Locals
  BY DEF Locals, Stages
<1>2. cycle' = [cycle EXCEPT ![y] = d] /\ UNCHANGED <<bad, entry, open, told>> /\ SlowIfBusy
      /\ cycle[y] = Idle
  BY DEF CheckTick
<1> HIDE DEF d
<1>3. AlertsTypeOK /\ Shapes
  BY DEF AlertsInv
<1>4. /\ cycle' = [z \in Cycles |-> cycle'[z]]
      /\ \A z \in Cycles : cycle'[z] = Idle \/ cycle'[z] \in Locals
      /\ cycle'[y] = d /\ Busy' = Busy \cup {y}
  BY <1>1, <1>2, <1>3, CycleSet, LocalsAreBusy
<1>5. CASE Busy # {}
  BY <1>2, <1>3, <1>4, <1>5, UpsetKeeps DEF SlowIfBusy, AlertsTypeOK
<1>6. CASE Busy = {}
  <2>1. UNCHANGED <<left, calm, faults>>
    BY <1>2, <1>6 DEF SlowIfBusy
  <2>2. AlertsTypeOK' /\ Shapes'
    BY <1>1, <1>2, <1>3, <2>1, StepType DEF AlertsTypeOK
  <2>3. ASSUME calm
        PROVE  CalmInv'
    <3>1. Busy' = {y} /\ open = Active /\ Announced = Active
      BY <1>4, <1>6, <2>3 DEF AlertsInv, CalmInv
    <3>2. UNCHANGED <<open, Active, Announced, entry, told, left, bad>>
      BY <1>2, <2>1 DEF Active, Announced
    <3>3. Active \subseteq Keys /\ \A k \in Active : k[1] \in Checks
      BY KeyIsPair DEF Active
    <3>4. InStep(cycle[y])' /\ AllInHand(cycle[y])' /\ OthersLeft(cycle[y])'
      BY <1>4, <3>1, <3>2, <3>3 DEF d, InStep, AllInHand, OthersLeft
    <3>5. AlertsAreFresh'
      BY <1>6, <2>3, <3>2 DEF AlertsInv, CalmInv, AlertsAreFresh
    <3>6. SeenOrLeft'
      BY <1>4, <2>3, <3>1, <3>2 DEF d, AlertsInv, CalmInv, SeenOrLeft, Stands
    <3>7. QED
      BY <3>1, <3>4, <3>5, <3>6, StillAlone
  <2>4. QED
    BY <2>1, <2>2, <2>3 DEF AlertsInv
<1>7. QED
  BY <1>5, <1>6

LEMMA CheckReturnsKeeps ==
    ASSUME AlertsInv, NEW y \in Cycles, NEW c \in Checks, CheckReturns(y, c)
    PROVE  AlertsInv'
<1> DEFINE seen == {<<c, bad[c]>>} \cap Keys
           d == [cycle[y] EXCEPT !.pending = @ \ {c}, !.results = @ \cup seen]
<1>1. AlertsTypeOK /\ Shapes /\ At(y, "checks") /\ c \in cycle[y].pending
  BY DEF AlertsInv, CheckReturns
<1>2. cycle[y] \in Locals /\ cycle[y].at = "checks" /\ y \in Busy
  BY <1>1, AtLocals DEF Stages
<1>3. /\ d \in Locals /\ d.at = "checks" /\ d.pending = cycle[y].pending \ {c}
      /\ d.results = cycle[y].results \cup seen /\ d.blind = cycle[y].blind
  BY <1>2 DEF Locals
<1>4. cycle' = [cycle EXCEPT ![y] = d] /\ left' = left \ seen
      /\ UNCHANGED <<bad, entry, open, told, calm, faults>>
  BY DEF CheckReturns
<1>5. seen \subseteq Keys
  OBVIOUS
<1> HIDE DEF d
<1>6. cycle'[y] = d /\ Busy' = Busy
  BY <1>1, <1>2, <1>3, <1>4, CycleMoves
<1>7. AlertsTypeOK' /\ Shapes'
  BY <1>1, <1>3, <1>4, StepType DEF AlertsTypeOK
<1>8. ASSUME calm
      PROVE  CalmInv'
  <2>1. Busy = {y} /\ InStep(cycle[y]) /\ AllInHand(cycle[y]) /\ OthersLeft(cycle[y])
        /\ AlertsAreFresh /\ SeenOrLeft
    BY <1>2, <1>8, Alone DEF AlertsInv, CalmInv
  <2>2. UNCHANGED <<Active, Announced>>
    BY <1>4 DEF Active, Announced
  <2>3. \A k \in Keys : Stands(k) => Stands(k)'
    BY <1>4 DEF Stands
  <2>4. \A k \in seen : Stands(k)'
    BY <1>4, <1>5 DEF Stands
  <2>5. Active \subseteq Keys /\ cycle[y].results \subseteq Keys
    BY <1>2 DEF Active, Locals
  <2>6. SeenOrLeft'
    BY <1>3, <1>6, <2>1, <2>2, <2>3, <2>4, <2>5 DEF SeenOrLeft
  <2>7. \A k \in Active : k[1] = c => k \in seen \/ k \in left'
    <3> SUFFICES ASSUME NEW k \in Active, k[1] = c, k \notin seen
                 PROVE  k \in left'
      OBVIOUS
    <3>1. k \in Keys /\ k = <<c, k[2]>>
      BY <2>5, KeyIsPair
    <3>2. bad[c] # k[2]
      BY <3>1
    <3>3. k \in left
      BY <2>1, <3>2 DEF SeenOrLeft, Stands
    <3>4. QED
      BY <1>4, <3>3
  <2>8. OthersLeft(cycle[y])'
    <3> SUFFICES ASSUME ~d.blind, NEW k \in Active
                 PROVE  k[1] \in d.pending \/ k \in d.results \/ k \in left'
      BY <1>3, <1>6, <2>2 DEF OthersLeft
    <3>1. CASE k[1] = c
      BY <1>3, <2>7, <3>1
    <3>2. CASE k[1] # c
      <4>1. k[1] \in cycle[y].pending \/ k \in cycle[y].results \/ k \in left
        BY <1>2, <1>3, <2>1 DEF OthersLeft
      <4>2. k \notin seen
        BY <3>2
      <4>3. QED
        BY <1>3, <1>4, <3>2, <4>1, <4>2
    <3>3. QED
      BY <3>1, <3>2
  <2>9. InStep(cycle[y])' /\ AllInHand(cycle[y])'
    BY <1>2, <1>3, <1>4, <1>6, <2>1, <2>2 DEF InStep, AllInHand
  <2>10. AlertsAreFresh'
    BY <1>2, <1>3, <1>4, <1>6, <2>1 DEF AlertsAreFresh
  <2>11. QED
    BY <1>6, <2>1, <2>6, <2>8, <2>9, <2>10, StillAlone
<1>9. QED
  BY <1>4, <1>7, <1>8 DEF AlertsInv

LEMMA CheckFailsKeeps ==
    ASSUME AlertsInv, NEW y \in Cycles, NEW c \in Checks, CheckFails(y, c)
    PROVE  AlertsInv'
<1> DEFINE d == [cycle[y] EXCEPT !.pending = @ \ {c}, !.blind = TRUE]
<1>1. AlertsTypeOK /\ Shapes /\ At(y, "checks")
  BY DEF AlertsInv, CheckFails
<1>2. cycle[y] \in Locals /\ cycle[y].at = "checks" /\ y \in Busy
  BY <1>1, AtLocals DEF Stages
<1>3. d \in Locals /\ d.at = "checks" /\ d.results = cycle[y].results /\ d.blind
  BY <1>2 DEF Locals
<1>4. cycle' = [cycle EXCEPT ![y] = d] /\ Fault
      /\ UNCHANGED <<bad, entry, open, told, left, calm>>
  BY DEF CheckFails
<1> HIDE DEF d
<1>5. /\ cycle' = [z \in Cycles |-> cycle'[z]]
      /\ \A z \in Cycles : cycle'[z] = Idle \/ cycle'[z] \in Locals
      /\ cycle'[y] = d /\ Busy' = Busy
  BY <1>1, <1>2, <1>3, <1>4, CycleMoves
<1>6. faults' \in 0..MaxFaults
  BY <1>1, <1>4, AlertsAssumption DEF Fault, AlertsTypeOK
<1>7. AlertsTypeOK' /\ Shapes'
  BY <1>1, <1>4, <1>5, <1>6 DEF AlertsTypeOK, Shapes, Locals
<1>8. ASSUME calm
      PROVE  CalmInv'
  <2>1. Busy = {y} /\ InStep(cycle[y]) /\ AllInHand(cycle[y]) /\ OthersLeft(cycle[y])
        /\ AlertsAreFresh /\ SeenOrLeft
    BY <1>2, <1>8, Alone DEF AlertsInv, CalmInv
  <2>2. UNCHANGED <<Active, Announced>>
    BY <1>4 DEF Active, Announced
  <2>3. SeenOrLeft' /\ AlertsAreFresh'
    BY <1>2, <1>3, <1>4, <1>5, <2>1, <2>2 DEF SeenOrLeft, Stands, AlertsAreFresh
  <2>4. InStep(cycle[y])' /\ AllInHand(cycle[y])' /\ OthersLeft(cycle[y])'
    BY <1>2, <1>3, <1>4, <1>5, <2>1, <2>2 DEF InStep, AllInHand, OthersLeft
  <2>5. QED
    BY <1>5, <2>1, <2>3, <2>4, StillAlone
<1>9. QED
  BY <1>4, <1>7, <1>8 DEF AlertsInv

LEMMA AllSettledKeeps ==
    ASSUME AlertsInv, NEW y \in Cycles, AllSettled(y)
    PROVE  AlertsInv'
<1> DEFINE d == [cycle[y] EXCEPT !.at = "resolve", !.todo = Active \ cycle[y].results]
<1>1. AlertsTypeOK /\ Shapes /\ At(y, "checks") /\ cycle[y].pending = {}
  BY DEF AlertsInv, AllSettled
<1>2. cycle[y] \in Locals /\ cycle[y].at = "checks" /\ y \in Busy
  BY <1>1, AtLocals DEF Stages
<1>3. Active \subseteq Keys
  BY DEF Active
<1>4. /\ d \in Locals /\ d.at = "resolve" /\ d.todo = Active \ cycle[y].results
      /\ d.results = cycle[y].results /\ d.blind = cycle[y].blind
  BY <1>2, <1>3 DEF Locals, Stages
<1>5. cycle' = [cycle EXCEPT ![y] = d] /\ UNCHANGED <<bad, entry, open, told, left, calm, faults>>
  BY DEF AllSettled
<1> HIDE DEF d
<1>6. cycle'[y] = d /\ Busy' = Busy
  BY <1>1, <1>2, <1>4, <1>5, CycleMoves
<1>7. AlertsTypeOK' /\ Shapes'
  BY <1>1, <1>4, <1>5, StepType DEF AlertsTypeOK
<1>8. ASSUME calm
      PROVE  CalmInv'
  <2>1. Busy = {y} /\ InStep(cycle[y]) /\ AllInHand(cycle[y]) /\ OthersLeft(cycle[y])
        /\ AlertsAreFresh /\ SeenOrLeft
    BY <1>2, <1>8, Alone DEF AlertsInv, CalmInv
  <2>2. UNCHANGED <<Active, Announced>>
    BY <1>5 DEF Active, Announced
  <2>3. SeenOrLeft' /\ AlertsAreFresh'
    BY <1>2, <1>4, <1>5, <1>6, <2>1, <2>2 DEF SeenOrLeft, Stands, AlertsAreFresh
  <2>4. InStep(cycle[y])' /\ AllInHand(cycle[y])' /\ OthersLeft(cycle[y])'
    BY <1>1, <1>2, <1>4, <1>5, <1>6, <2>1, <2>2 DEF InStep, AllInHand, OthersLeft
  <2>5. QED
    BY <1>6, <2>1, <2>3, <2>4, StillAlone
<1>9. QED
  BY <1>5, <1>7, <1>8 DEF AlertsInv

LEMMA MarkResolvedKeeps ==
    ASSUME AlertsInv, NEW y \in Cycles, MarkResolved(y)
    PROVE  AlertsInv' /\ (calm /\ ~cycle[y].blind => cycle'[y].key \subseteq left)
<1>1. AlertsTypeOK /\ Shapes /\ At(y, "resolve")
  BY DEF AlertsInv, MarkResolved
<1>2. cycle[y] \in Locals /\ cycle[y].at = "resolve" /\ y \in Busy
  BY <1>1, AtLocals DEF Stages
<1>3. PICK k \in cycle[y].todo :
          /\ entry' = [entry EXCEPT ![k] = "none"]
          /\ cycle' = [cycle EXCEPT ![y].at = "close", ![y].todo = @ \ {k}, ![y].key = {k}]
  BY DEF MarkResolved
<1> DEFINE d == [cycle[y] EXCEPT !.at = "close", !.todo = @ \ {k}, !.key = {k}]
<1>4. k \in Keys
  BY <1>2 DEF Locals
<1>5. /\ d \in Locals /\ d.at = "close" /\ d.todo = cycle[y].todo \ {k} /\ d.key = {k}
      /\ d.results = cycle[y].results /\ d.blind = cycle[y].blind
  BY <1>2, <1>4 DEF Locals, Stages
<1>6. cycle' = [cycle EXCEPT ![y] = d] /\ UNCHANGED <<bad, open, told, left, calm, faults>>
  BY <1>3 DEF MarkResolved
<1> HIDE DEF d
<1>7. cycle'[y] = d /\ Busy' = Busy
  BY <1>1, <1>2, <1>5, <1>6, CycleMoves
<1>8. entry' = [x \in Keys |-> IF x = k THEN "none" ELSE entry[x]]
  BY <1>1, <1>3, <1>4 DEF AlertsTypeOK
<1>9. entry' \in [Keys -> {"none", "fresh", "cool", "old"}]
  BY <1>1, <1>8 DEF AlertsTypeOK
<1>10. AlertsTypeOK' /\ Shapes'
  BY <1>1, <1>5, <1>6, <1>9, StepType DEF AlertsTypeOK
<1>11. ASSUME calm
       PROVE  CalmInv' /\ (~cycle[y].blind => cycle'[y].key \subseteq left)
  <2>1. Busy = {y} /\ InStep(cycle[y]) /\ AllInHand(cycle[y]) /\ OthersLeft(cycle[y])
        /\ AlertsAreFresh /\ SeenOrLeft
    BY <1>2, <1>11, Alone DEF AlertsInv, CalmInv
  <2>2. Active' = Active \ {k} /\ k \in Active /\ Announced' = Announced
    <3>1. Active' = Active \ {k}
      BY <1>8 DEF Active
    <3>2. k \in Active
      BY <1>2, <2>1 DEF AllInHand
    <3>3. QED
      BY <1>6, <3>1, <3>2 DEF Announced
  <2>3. SeenOrLeft'
    BY <1>2, <1>5, <1>6, <1>7, <2>1, <2>2 DEF SeenOrLeft, Stands
  <2>4. AlertsAreFresh'
    <3> SUFFICES ASSUME NEW x \in Keys, told[x] = "alert"
                 PROVE  entry'[x] = "fresh" \/ x = k
      BY <1>5, <1>6, <1>7, <2>1 DEF AlertsAreFresh
    <3>1. entry[x] = "fresh"
      BY <1>2, <2>1 DEF AlertsAreFresh
    <3>2. QED
      BY <1>8, <3>1
  <2>5. InStep(cycle[y])' /\ AllInHand(cycle[y])' /\ OthersLeft(cycle[y])'
    BY <1>2, <1>5, <1>6, <1>7, <2>1, <2>2 DEF InStep, AllInHand, OthersLeft
  <2>6. ~cycle[y].blind => cycle'[y].key \subseteq left
    BY <1>2, <1>5, <1>7, <2>1 DEF OthersLeft
  <2>7. QED
    BY <1>7, <2>1, <2>3, <2>4, <2>5, <2>6, StillAlone
<1>12. QED
  BY <1>6, <1>10, <1>11 DEF AlertsInv

LEMMA ResolveAlertKeeps ==
    ASSUME AlertsInv, NEW y \in Cycles, ResolveAlert(y)
    PROVE  AlertsInv'
<1> DEFINE d == [cycle[y] EXCEPT !.at = "tell"]
<1>1. AlertsTypeOK /\ Shapes /\ At(y, "close")
  BY DEF AlertsInv, ResolveAlert
<1>2. cycle[y] \in Locals /\ cycle[y].at = "close" /\ y \in Busy
  BY <1>1, AtLocals DEF Stages
<1>3. /\ d \in Locals /\ d.at = "tell" /\ d.todo = cycle[y].todo /\ d.key = cycle[y].key
      /\ d.results = cycle[y].results /\ d.blind = cycle[y].blind
  BY <1>2 DEF Locals, Stages
<1>4. cycle' = [cycle EXCEPT ![y] = d] /\ open' = open \ cycle[y].key
      /\ UNCHANGED <<bad, entry, told, left, calm, faults>>
  BY DEF ResolveAlert
<1> HIDE DEF d
<1>5. cycle'[y] = d /\ Busy' = Busy
  BY <1>1, <1>2, <1>3, <1>4, CycleMoves
<1>6. AlertsTypeOK' /\ Shapes'
  BY <1>1, <1>3, <1>4, StepType DEF AlertsTypeOK
<1>7. ASSUME calm
      PROVE  CalmInv'
  <2>1. Busy = {y} /\ InStep(cycle[y]) /\ AllInHand(cycle[y]) /\ OthersLeft(cycle[y])
        /\ AlertsAreFresh /\ SeenOrLeft
    BY <1>2, <1>7, Alone DEF AlertsInv, CalmInv
  <2>2. UNCHANGED <<Active, Announced>>
    BY <1>4 DEF Active, Announced
  <2>3. SeenOrLeft' /\ AlertsAreFresh'
    BY <1>2, <1>3, <1>4, <1>5, <2>1, <2>2 DEF SeenOrLeft, Stands, AlertsAreFresh
  <2>4. open' = Active
    BY <1>2, <1>4, <2>1 DEF InStep
  <2>5. InStep(cycle[y])' /\ AllInHand(cycle[y])' /\ OthersLeft(cycle[y])'
    BY <1>2, <1>3, <1>4, <1>5, <2>1, <2>2, <2>4 DEF InStep, AllInHand, OthersLeft
  <2>6. QED
    BY <1>5, <2>1, <2>3, <2>5, StillAlone
<1>8. QED
  BY <1>4, <1>6, <1>7 DEF AlertsInv

LEMMA EnqueueResolvedKeeps ==
    ASSUME AlertsInv, NEW y \in Cycles, EnqueueResolved(y)
    PROVE  AlertsInv'
<1> DEFINE d == [cycle[y] EXCEPT !.at = "resolve", !.key = {}]
<1>1. AlertsTypeOK /\ Shapes /\ At(y, "tell")
  BY DEF AlertsInv, EnqueueResolved
<1>2. cycle[y] \in Locals /\ cycle[y].at = "tell" /\ y \in Busy
  BY <1>1, AtLocals DEF Stages
<1>3. /\ d \in Locals /\ d.at = "resolve" /\ d.todo = cycle[y].todo
      /\ d.results = cycle[y].results /\ d.blind = cycle[y].blind
  BY <1>2 DEF Locals, Stages
<1>4. cycle' = [cycle EXCEPT ![y] = d]
      /\ told' = [k \in Keys |-> IF k \in cycle[y].key THEN "resolved" ELSE told[k]]
      /\ UNCHANGED <<bad, entry, open, left, calm, faults>>
  BY DEF EnqueueResolved
<1> HIDE DEF d
<1>5. cycle'[y] = d /\ Busy' = Busy
  BY <1>1, <1>2, <1>3, <1>4, CycleMoves
<1>6. told' \in [Keys -> {"nothing", "alert", "past", "resolved"}]
  BY <1>1, <1>4 DEF AlertsTypeOK
<1>7. AlertsTypeOK' /\ Shapes'
  BY <1>1, <1>3, <1>4, <1>6, StepType DEF AlertsTypeOK
<1>8. ASSUME calm
      PROVE  CalmInv'
  <2>1. Busy = {y} /\ InStep(cycle[y]) /\ AllInHand(cycle[y]) /\ OthersLeft(cycle[y])
        /\ AlertsAreFresh /\ SeenOrLeft
    BY <1>2, <1>8, Alone DEF AlertsInv, CalmInv
  <2>2. Active' = Active
    BY <1>4 DEF Active
  <2>3. Announced' = Announced \ cycle[y].key
    BY <1>4 DEF Announced
  <2>4. Announced' = Active
    BY <1>2, <2>1, <2>3 DEF InStep
  <2>5. SeenOrLeft'
    BY <1>2, <1>3, <1>4, <1>5, <2>1, <2>2 DEF SeenOrLeft, Stands
  <2>6. AlertsAreFresh'
    BY <1>2, <1>4, <1>5, <2>1 DEF AlertsAreFresh
  <2>7. InStep(cycle[y])' /\ AllInHand(cycle[y])' /\ OthersLeft(cycle[y])'
    BY <1>2, <1>3, <1>4, <1>5, <2>1, <2>2, <2>4 DEF InStep, AllInHand, OthersLeft
  <2>8. QED
    BY <1>5, <2>1, <2>5, <2>6, <2>7, StillAlone
<1>9. QED
  BY <1>4, <1>7, <1>8 DEF AlertsInv

\* A cycle that ends when every active key is fresh leaves the keys as they are.
LEMMA EndsKeep ==
    ASSUME AlertsInv, NEW y \in Busy, cycle' = [cycle EXCEPT ![y] = Idle], entry' = Cleaned,
           UNCHANGED <<bad, open, told, left, calm, faults>>,
           calm => /\ open = Active /\ Announced = Active
                   /\ \A k \in Active : entry[k] = "fresh"
                   /\ \A k \in Keys : told[k] = "alert" => entry[k] = "fresh"
    PROVE  AlertsInv'
<1>1. AlertsTypeOK /\ Shapes /\ y \in Cycles
  BY DEF AlertsInv, Busy
<1>2. entry' \in [Keys -> {"none", "fresh", "cool", "old"}]
  BY <1>1 DEF AlertsTypeOK, Cleaned
<1>3. AlertsTypeOK' /\ Shapes'
  BY <1>1, <1>2, StepType DEF AlertsTypeOK
<1>4. ASSUME calm
      PROVE  CalmInv'
  <2>1. Busy = {y} /\ SeenOrLeft
    BY <1>4, Alone DEF AlertsInv, CalmInv
  <2>2. Busy' = {}
    BY <1>1, <2>1, CycleSet
  <2>3. \A k \in Keys : /\ entry'[k] = "none" <=> entry[k] = "none"
                        /\ entry[k] = "fresh" => entry'[k] = "fresh"
    BY <1>4 DEF Cleaned, Active
  <2>4. Active' = Active
    BY <2>3 DEF Active
  <2>5. Announced' = Announced
    BY DEF Announced
  <2>6. AlertsAreFresh'
    BY <1>4, <2>3 DEF AlertsAreFresh
  <2>7. SeenOrLeft'
    BY <2>1, <2>2, <2>4 DEF SeenOrLeft, Stands
  <2>8. QED
    BY <1>4, <2>2, <2>4, <2>5, <2>6, <2>7, NowIdle
<1>5. QED
  BY <1>3, <1>4 DEF AlertsInv

LEMMA ChooseNewKeeps ==
    ASSUME AlertsInv, NEW y \in Cycles, ChooseNew(y)
    PROVE  AlertsInv'
<1> DEFINE new == {k \in cycle[y].results : ShouldFire(k)}
           d == [cycle[y] EXCEPT !.at = "announce", !.todo = new, !.results = {}, !.blind = FALSE]
<1>1. AlertsTypeOK /\ Shapes /\ At(y, "resolve") /\ cycle[y].todo = {}
      /\ UNCHANGED <<bad, open, told, left, calm, faults>>
  BY DEF AlertsInv, ChooseNew
<1>2. cycle[y] \in Locals /\ cycle[y].at = "resolve" /\ y \in Busy
  BY <1>1, AtLocals DEF Stages
<1>3. new \subseteq Keys /\ new \subseteq cycle[y].results
  BY <1>2 DEF Locals
<1>4. ASSUME calm
      PROVE  /\ Busy = {y} /\ open = Active /\ Announced = Active /\ SeenOrLeft
             /\ Active \subseteq cycle[y].results
             /\ \A k \in Active : entry[k] = "fresh" \/ k \in new
             /\ \A k \in Keys : told[k] = "alert" => entry[k] = "fresh"
  <2>1. Busy = {y} /\ InStep(cycle[y]) /\ AllInHand(cycle[y]) /\ AlertsAreFresh /\ SeenOrLeft
    BY <1>2, <1>4, Alone DEF AlertsInv, CalmInv
  <2>2. Active \subseteq cycle[y].results
    BY <1>1, <1>2, <2>1 DEF AllInHand
  <2>3. \A k \in Active : entry[k] = "fresh" \/ k \in new
    BY <2>2 DEF ShouldFire
  <2>4. \A k \in Keys : told[k] = "alert" => entry[k] = "fresh"
    BY <1>2, <2>1 DEF AlertsAreFresh
  <2>5. QED
    BY <1>2, <2>1, <2>2, <2>3, <2>4 DEF InStep
<1>5. CASE new = {}
  <2>1. cycle' = [cycle EXCEPT ![y] = Idle] /\ entry' = Cleaned
    BY <1>5 DEF ChooseNew
  <2>2. QED
    BY <1>1, <1>2, <1>4, <1>5, <2>1, EndsKeep
<1>6. CASE new # {}
  <2>1. cycle' = [cycle EXCEPT ![y] = d] /\ entry' = entry
    BY <1>6 DEF ChooseNew
  <2>2. d \in Locals /\ d.at = "announce" /\ d.todo = new /\ d.results = {} /\ d.blind = FALSE
    BY <1>2, <1>3 DEF Locals, Stages
  <2>3. \A k \in new : entry[k] # "fresh"
    BY DEF ShouldFire
  <2> HIDE DEF d, new
  <2>4. cycle'[y] = d /\ Busy' = Busy
    BY <1>1, <1>2, <2>1, <2>2, CycleMoves
  <2>5. AlertsTypeOK' /\ Shapes'
    BY <1>1, <2>1, <2>2, StepType DEF AlertsTypeOK
  <2>6. ASSUME calm
        PROVE  CalmInv'
    <3>1. UNCHANGED <<Active, Announced>>
      BY <1>1, <2>1 DEF Active, Announced
    <3>2. SeenOrLeft'
      BY <1>1, <1>2, <1>3, <1>4, <2>2, <2>4, <2>6, <3>1 DEF SeenOrLeft, Stands
    <3>3. AlertsAreFresh'
      BY <1>1, <1>4, <2>1, <2>6 DEF AlertsAreFresh
    <3>4. InStep(cycle[y])' /\ AllInHand(cycle[y])' /\ OthersLeft(cycle[y])'
      BY <1>1, <1>4, <2>1, <2>2, <2>3, <2>4, <2>6, <3>1 DEF InStep, AllInHand, OthersLeft
    <3>5. QED
      BY <1>4, <2>4, <2>6, <3>2, <3>3, <3>4, StillAlone
  <2>7. QED
    BY <1>1, <2>5, <2>6 DEF AlertsInv
<1>7. QED
  BY <1>5, <1>6

LEMMA EnqueueBatchKeeps ==
    ASSUME AlertsInv, NEW y \in Cycles, EnqueueBatch(y)
    PROVE  AlertsInv' /\ (calm => \A k \in cycle[y].todo : told[k] # "alert")
<1> DEFINE d == [cycle[y] EXCEPT !.at = "fire"]
<1>1. AlertsTypeOK /\ Shapes /\ At(y, "announce")
  BY DEF AlertsInv, EnqueueBatch
<1>2. cycle[y] \in Locals /\ cycle[y].at = "announce" /\ y \in Busy /\ cycle[y].todo \subseteq Keys
  BY <1>1, AtLocals DEF Stages, Locals
<1>3. /\ d \in Locals /\ d.at = "fire" /\ d.todo = cycle[y].todo
      /\ d.results = cycle[y].results /\ d.blind = cycle[y].blind
  BY <1>2 DEF Locals, Stages
<1>4. cycle' = [cycle EXCEPT ![y] = d]
      /\ told' = [k \in Keys |-> IF k \in cycle[y].todo THEN "alert" ELSE told[k]]
      /\ UNCHANGED <<bad, entry, open, left, calm, faults>>
  BY DEF EnqueueBatch
<1> HIDE DEF d
<1>5. cycle'[y] = d /\ Busy' = Busy
  BY <1>1, <1>2, <1>3, <1>4, CycleMoves
<1>6. told' \in [Keys -> {"nothing", "alert", "past", "resolved"}]
  BY <1>1, <1>4 DEF AlertsTypeOK
<1>7. AlertsTypeOK' /\ Shapes'
  BY <1>1, <1>3, <1>4, <1>6, StepType DEF AlertsTypeOK
<1>8. ASSUME calm
      PROVE  CalmInv' /\ \A k \in cycle[y].todo : told[k] # "alert"
  <2>1. Busy = {y} /\ InStep(cycle[y]) /\ AllInHand(cycle[y]) /\ OthersLeft(cycle[y])
        /\ AlertsAreFresh /\ SeenOrLeft
    BY <1>2, <1>8, Alone DEF AlertsInv, CalmInv
  <2>2. Active' = Active
    BY <1>4 DEF Active
  <2>3. Announced' = Active \cup cycle[y].todo
    <3>1. Announced' = Announced \cup cycle[y].todo
      BY <1>2, <1>4 DEF Announced
    <3>2. QED
      BY <1>2, <2>1, <3>1 DEF InStep
  <2>4. SeenOrLeft'
    BY <1>2, <1>3, <1>4, <1>5, <2>1, <2>2 DEF SeenOrLeft, Stands
  <2>5. \A k \in Keys : told[k] = "alert" => entry[k] = "fresh"
    BY <1>2, <2>1 DEF AlertsAreFresh
  <2>6. AlertsAreFresh'
    BY <1>3, <1>4, <1>5, <2>1, <2>5 DEF AlertsAreFresh
  <2>7. InStep(cycle[y])' /\ AllInHand(cycle[y])' /\ OthersLeft(cycle[y])'
    BY <1>2, <1>3, <1>4, <1>5, <2>1, <2>2, <2>3 DEF InStep, AllInHand, OthersLeft
  <2>8. \A k \in cycle[y].todo : told[k] # "alert"
    BY <1>2, <2>1, <2>5 DEF AllInHand
  <2>9. QED
    BY <1>5, <2>1, <2>4, <2>6, <2>7, <2>8, StillAlone
<1>9. QED
  BY <1>4, <1>7, <1>8 DEF AlertsInv

LEMMA MarkFiredKeeps ==
    ASSUME AlertsInv, NEW y \in Cycles, MarkFired(y)
    PROVE  AlertsInv'
<1>1. AlertsTypeOK /\ Shapes /\ At(y, "fire")
  BY DEF AlertsInv, MarkFired
<1>2. cycle[y] \in Locals /\ cycle[y].at = "fire" /\ y \in Busy
  BY <1>1, AtLocals DEF Stages
<1>3. PICK k \in cycle[y].todo :
          /\ entry' = [entry EXCEPT ![k] = "fresh"]
          /\ cycle' = [cycle EXCEPT ![y].at = "record", ![y].todo = @ \ {k}, ![y].key = {k}]
  BY DEF MarkFired
<1> DEFINE d == [cycle[y] EXCEPT !.at = "record", !.todo = @ \ {k}, !.key = {k}]
<1>4. k \in Keys
  BY <1>2 DEF Locals
<1>5. /\ d \in Locals /\ d.at = "record" /\ d.todo = cycle[y].todo \ {k} /\ d.key = {k}
      /\ d.results = cycle[y].results /\ d.blind = cycle[y].blind
  BY <1>2, <1>4 DEF Locals, Stages
<1>6. cycle' = [cycle EXCEPT ![y] = d] /\ UNCHANGED <<bad, open, told, left, calm, faults>>
  BY <1>3 DEF MarkFired
<1> HIDE DEF d
<1>7. cycle'[y] = d /\ Busy' = Busy
  BY <1>1, <1>2, <1>5, <1>6, CycleMoves
<1>8. entry' = [x \in Keys |-> IF x = k THEN "fresh" ELSE entry[x]]
  BY <1>1, <1>3, <1>4 DEF AlertsTypeOK
<1>9. entry' \in [Keys -> {"none", "fresh", "cool", "old"}]
  BY <1>1, <1>8 DEF AlertsTypeOK
<1>10. AlertsTypeOK' /\ Shapes'
  BY <1>1, <1>5, <1>6, <1>9, StepType DEF AlertsTypeOK
<1>11. ASSUME calm
       PROVE  CalmInv'
  <2>1. Busy = {y} /\ InStep(cycle[y]) /\ AllInHand(cycle[y]) /\ OthersLeft(cycle[y])
        /\ AlertsAreFresh /\ SeenOrLeft
    BY <1>2, <1>11, Alone DEF AlertsInv, CalmInv
  <2>2. Active' = Active \cup {k} /\ Announced' = Announced
    BY <1>4, <1>6, <1>8 DEF Active, Announced
  <2>3. SeenOrLeft'
    BY <1>2, <1>5, <1>6, <1>7, <2>1, <2>2 DEF SeenOrLeft, Stands
  <2>4. AlertsAreFresh'
    <3> SUFFICES ASSUME NEW x \in Keys, told[x] = "alert"
                 PROVE  entry'[x] = "fresh" \/ x \in cycle[y].todo \ {k}
      BY <1>5, <1>6, <1>7, <2>1 DEF AlertsAreFresh
    <3>1. entry[x] = "fresh" \/ x \in cycle[y].todo
      BY <1>2, <2>1 DEF AlertsAreFresh
    <3>2. QED
      BY <1>8, <3>1
  <2>5. open \cup {k} = Active' /\ Announced' = Active' \cup d.todo
    BY <1>2, <1>5, <2>1, <2>2 DEF InStep
  <2>6. \A x \in Active' : entry'[x] = "fresh" \/ x \in d.todo
    <3>1. \A x \in Active : entry[x] = "fresh" \/ x \in cycle[y].todo
      BY <1>2, <2>1 DEF AllInHand
    <3>2. Active \subseteq Keys
      BY DEF Active
    <3>3. QED
      BY <1>4, <1>5, <1>8, <2>2, <3>1, <3>2
  <2>7. InStep(cycle[y])' /\ AllInHand(cycle[y])' /\ OthersLeft(cycle[y])'
    BY <1>5, <1>6, <1>7, <2>5, <2>6 DEF InStep, AllInHand, OthersLeft
  <2>8. QED
    BY <1>7, <2>1, <2>3, <2>4, <2>7, StillAlone
<1>12. QED
  BY <1>6, <1>10, <1>11 DEF AlertsInv

LEMMA RecordAlertKeeps ==
    ASSUME AlertsInv, NEW y \in Cycles, RecordAlert(y)
    PROVE  AlertsInv'
<1> DEFINE d == [cycle[y] EXCEPT !.at = "fire", !.key = {}]
<1>1. AlertsTypeOK /\ Shapes /\ At(y, "record")
  BY DEF AlertsInv, RecordAlert
<1>2. cycle[y] \in Locals /\ cycle[y].at = "record" /\ y \in Busy /\ cycle[y].key \subseteq Keys
  BY <1>1, AtLocals DEF Stages, Locals
<1>3. /\ d \in Locals /\ d.at = "fire" /\ d.todo = cycle[y].todo
      /\ d.results = cycle[y].results /\ d.blind = cycle[y].blind
  BY <1>2 DEF Locals, Stages
<1>4. cycle' = [cycle EXCEPT ![y] = d] /\ open' = open \cup cycle[y].key
      /\ UNCHANGED <<bad, entry, told, left, calm, faults>>
  BY DEF RecordAlert
<1> HIDE DEF d
<1>5. cycle'[y] = d /\ Busy' = Busy
  BY <1>1, <1>2, <1>3, <1>4, CycleMoves
<1>6. AlertsTypeOK' /\ Shapes'
  BY <1>1, <1>2, <1>3, <1>4, StepType DEF AlertsTypeOK
<1>7. ASSUME calm
      PROVE  CalmInv'
  <2>1. Busy = {y} /\ InStep(cycle[y]) /\ AllInHand(cycle[y]) /\ OthersLeft(cycle[y])
        /\ AlertsAreFresh /\ SeenOrLeft
    BY <1>2, <1>7, Alone DEF AlertsInv, CalmInv
  <2>2. UNCHANGED <<Active, Announced>>
    BY <1>4 DEF Active, Announced
  <2>3. SeenOrLeft' /\ AlertsAreFresh'
    BY <1>2, <1>3, <1>4, <1>5, <2>1, <2>2 DEF SeenOrLeft, Stands, AlertsAreFresh
  <2>4. InStep(cycle[y])' /\ AllInHand(cycle[y])' /\ OthersLeft(cycle[y])'
    BY <1>2, <1>3, <1>4, <1>5, <2>1, <2>2 DEF InStep, AllInHand, OthersLeft
  <2>5. QED
    BY <1>5, <2>1, <2>3, <2>4, StillAlone
<1>8. QED
  BY <1>4, <1>6, <1>7 DEF AlertsInv

LEMMA CycleEndsKeeps ==
    ASSUME AlertsInv, NEW y \in Cycles, CycleEnds(y)
    PROVE  AlertsInv'
<1>1. AlertsTypeOK /\ At(y, "fire") /\ cycle[y].todo = {}
      /\ cycle' = [cycle EXCEPT ![y] = Idle] /\ entry' = Cleaned
      /\ UNCHANGED <<bad, open, told, left, calm, faults>>
  BY DEF AlertsInv, CycleEnds
<1>2. cycle[y] \in Locals /\ cycle[y].at = "fire" /\ y \in Busy
  BY <1>1, AtLocals DEF Stages
<1>3. ASSUME calm
      PROVE  /\ open = Active /\ Announced = Active
             /\ \A k \in Active : entry[k] = "fresh"
             /\ \A k \in Keys : told[k] = "alert" => entry[k] = "fresh"
  <2>1. Busy = {y} /\ InStep(cycle[y]) /\ AllInHand(cycle[y]) /\ AlertsAreFresh
    BY <1>2, <1>3, Alone DEF AlertsInv, CalmInv
  <2>2. QED
    BY <1>1, <1>2, <2>1 DEF InStep, AllInHand, AlertsAreFresh
<1>4. QED
  BY <1>1, <1>2, <1>3, EndsKeep

LEMMA QueryFailsKeeps ==
    ASSUME AlertsInv, NEW y \in Cycles, QueryFails(y)
    PROVE  AlertsInv'
<1>1. AlertsTypeOK /\ Shapes /\ Fault /\ Upset /\ cycle' = [cycle EXCEPT ![y] = Idle]
      /\ UNCHANGED <<bad, entry, open, told>>
  BY DEF AlertsInv, QueryFails
<1>2. QED
  BY <1>1, CycleSet, UpsetKeeps DEF AlertsTypeOK

LEMMA RestartKeeps ==
    ASSUME AlertsInv, RestartMonitor
    PROVE  AlertsInv'
BY UpsetKeeps DEF RestartMonitor, AlertsInv, AlertsTypeOK

-----------------------------------------------------------------------------
(* The theorems *)

LEMMA AlertsInitIsSound ==
    AlertsInit => AlertsInv
<1> SUFFICES ASSUME AlertsInit
             PROVE  AlertsInv
  OBVIOUS
<1>1. Busy = {} /\ Active = {} /\ Announced = {}
  BY DEF AlertsInit, Busy, Active, Announced
<1>2. CalmInv
  BY <1>1 DEF AlertsInit, CalmInv, AlertsAreFresh, SeenOrLeft
<1>3. AlertsTypeOK /\ Shapes
  BY AlertsAssumption DEF AlertsInit, AlertsTypeOK, Shapes
<1>4. QED
  BY <1>2, <1>3 DEF AlertsInv

LEMMA AlertsStepsKeep ==
    AlertsInv /\ [AlertsNext]_alertVars => AlertsInv'
<1> SUFFICES ASSUME AlertsInv, [AlertsNext]_alertVars
             PROVE  AlertsInv'
  OBVIOUS
<1>1. ASSUME NEW c \in Checks, NEW r \in 0..Readings[c], Measured(c, r)
      PROVE  AlertsInv'
  BY <1>1, MeasuredKeeps
<1>2. ASSUME NEW k \in Keys, Age(k)
      PROVE  AlertsInv'
  BY <1>2, AgeKeeps
<1>3. ASSUME NEW y \in Cycles,
             CheckTick(y) \/ \E c \in Checks : CheckReturns(y, c) \/ CheckFails(y, c)
      PROVE  AlertsInv'
  BY <1>3, TickKeeps, CheckReturnsKeeps, CheckFailsKeeps
<1>4. ASSUME NEW y \in Cycles,
             AllSettled(y) \/ MarkResolved(y) \/ ResolveAlert(y) \/ EnqueueResolved(y)
      PROVE  AlertsInv'
  BY <1>4, AllSettledKeeps, MarkResolvedKeeps, ResolveAlertKeeps, EnqueueResolvedKeeps
<1>5. ASSUME NEW y \in Cycles,
             \/ ChooseNew(y) \/ EnqueueBatch(y) \/ MarkFired(y) \/ RecordAlert(y)
             \/ CycleEnds(y) \/ QueryFails(y)
      PROVE  AlertsInv'
  BY <1>5, ChooseNewKeeps, EnqueueBatchKeeps, MarkFiredKeeps, RecordAlertKeeps,
     CycleEndsKeeps, QueryFailsKeeps
<1>6. CASE UNCHANGED alertVars
  BY <1>6 DEF alertVars, AlertsInv, AlertsTypeOK, Shapes, CalmInv, Busy, Active, Announced, InStep,
     AllInHand, OthersLeft, AlertsAreFresh, SeenOrLeft, Stands
<1>7. QED
  BY <1>1, <1>2, <1>3, <1>4, <1>5, <1>6, RestartKeeps DEF AlertsNext

LEMMA AlertsInvHolds ==
    AlertsSpec => []AlertsInv
<1>1. QED
  BY AlertsInitIsSound, AlertsStepsKeep, PTL DEF AlertsSpec

\* For any checks, readings, overlapping cycles and faults: between two cycles of
\* a monitor that was calm, what is active in memory has an open row and was
\* announced last, and nothing else has (monitor/runner.ts, dedup.ts).
THEOREM BooksAlwaysAgree ==
    AlertsSpec => []AlertsSound
<1>1. AlertsInv => AlertsSound
  BY DEF AlertsInv, CalmInv, AlertsSound, BooksAgree, Announced
<1>2. QED
  BY <1>1, AlertsInvHolds, PTL

\* The steps of cycle z.
StepOf(z) ==
    \/ CheckTick(z) \/ (\E c \in Checks : CheckReturns(z, c) \/ CheckFails(z, c))
    \/ AllSettled(z) \/ MarkResolved(z) \/ ResolveAlert(z) \/ EnqueueResolved(z)
    \/ ChooseNew(z) \/ EnqueueBatch(z) \/ MarkFired(z) \/ RecordAlert(z)
    \/ CycleEnds(z) \/ QueryFails(z)

\* It leaves the other cycles alone.
LEMMA OtherCycles ==
    ASSUME Shapes, NEW z \in Cycles, NEW y \in Cycles \ {z}, StepOf(z)
    PROVE  cycle'[y] = cycle[y]
<1>1. \E d : cycle' = [cycle EXCEPT ![z] = d]
  BY DEF StepOf, CheckTick, CheckReturns, CheckFails, AllSettled, MarkResolved, ResolveAlert,
     EnqueueResolved, ChooseNew, EnqueueBatch, MarkFired, RecordAlert, CycleEnds, QueryFails
<1>2. QED
  BY <1>1 DEF Shapes

\* Alerts are announced, and resolutions begun, by these two steps only.
LEMMA WhoTells ==
    ASSUME AlertsTypeOK, Shapes, AlertsNext, NEW y \in Cycles
    PROVE  /\ At(y, "announce") /\ At(y, "fire")' => EnqueueBatch(y)
           /\ At(y, "resolve") /\ At(y, "close")' => MarkResolved(y)
<1> DEFINE Tells == \/ At(y, "announce") /\ At(y, "fire")'
                    \/ At(y, "resolve") /\ At(y, "close")'
<1>1. ASSUME cycle'[y] = cycle[y] \/ cycle'[y] = Idle
      PROVE  ~Tells
  BY <1>1 DEF At, Idle
<1>2. ASSUME NEW c \in Checks, NEW r \in 0..Readings[c], Measured(c, r)
      PROVE  ~Tells
  BY <1>1, <1>2 DEF Measured
<1>3. ASSUME NEW k \in Keys, Age(k)
      PROVE  ~Tells
  BY <1>1, <1>3 DEF Age
<1>4. CASE RestartMonitor
  <2>1. cycle'[y] = Idle
    BY <1>4 DEF RestartMonitor
  <2>2. QED
    BY <1>1, <2>1
<1>5. ASSUME NEW z \in Cycles \ {y}, StepOf(z)
      PROVE  ~Tells
  BY <1>1, <1>5, OtherCycles
<1>6. ASSUME StepOf(y)
      PROVE  /\ At(y, "announce") /\ At(y, "fire")' => EnqueueBatch(y)
             /\ At(y, "resolve") /\ At(y, "close")' => MarkResolved(y)
  <2>1. CASE CheckTick(y) \/ (\E c \in Checks : CheckReturns(y, c) \/ CheckFails(y, c)) \/ AllSettled(y)
    BY <2>1 DEF CheckTick, CheckReturns, CheckFails, AllSettled, At
  <2>2. CASE ResolveAlert(y) \/ EnqueueResolved(y) \/ MarkFired(y) \/ RecordAlert(y) \/ CycleEnds(y)
    BY <2>2 DEF ResolveAlert, EnqueueResolved, MarkFired, RecordAlert, CycleEnds, At
  <2>3. CASE QueryFails(y)
    <3>1. cycle'[y] = Idle
      BY <2>3 DEF QueryFails, Shapes
    <3>2. QED
      BY <1>1, <3>1
  <2>4. CASE ChooseNew(y)
    <3>1. cycle[y] \in Locals
      BY <2>4, AtLocals DEF ChooseNew, Stages
    <3>2. cycle'[y] = Idle \/ cycle'[y].at = "announce"
      BY <2>4, <3>1 DEF ChooseNew, Shapes, Locals
    <3>3. ~At(y, "announce")
      BY <2>4 DEF ChooseNew, At
    <3>4. ~At(y, "close")'
      BY <3>2 DEF At, Idle
    <3>5. QED
      BY <3>3, <3>4
  <2>5. CASE EnqueueBatch(y) \/ MarkResolved(y)
    BY <2>5 DEF EnqueueBatch, MarkResolved, At
  <2>6. QED
    BY <1>6, <2>1, <2>2, <2>3, <2>4, <2>5 DEF StepOf
<1>7. QED
  BY <1>2, <1>3, <1>4, <1>5, <1>6 DEF AlertsNext, StepOf

\* For any checks, readings, overlapping cycles and faults: while the monitor is
\* calm, no alert is repeated within its cooldown, and what a cycle that saw all its
\* checks declares resolved was left since a check last saw it.
THEOREM NothingFalseIsTold ==
    AlertsSpec => ToldTruly
<1>1. ASSUME AlertsInv, AlertsNext, NEW y \in Cycles, calm
      PROVE  /\ At(y, "announce") /\ At(y, "fire")' =>
                    \A k \in cycle[y].todo : told[k] # "alert"
             /\ At(y, "resolve") /\ At(y, "close")' /\ ~cycle[y].blind =>
                    cycle'[y].key \subseteq left
  BY <1>1, WhoTells, EnqueueBatchKeeps, MarkResolvedKeeps DEF AlertsInv
<1>2. ASSUME NEW y \in Cycles, UNCHANGED alertVars
      PROVE  /\ ~(At(y, "announce") /\ At(y, "fire")')
             /\ ~(At(y, "resolve") /\ At(y, "close")')
  BY <1>2 DEF alertVars, At
<1> DEFINE Tells == \A y \in Cycles : calm =>
               /\ At(y, "announce") /\ At(y, "fire")' =>
                      \A k \in cycle[y].todo : told[k] # "alert"
               /\ At(y, "resolve") /\ At(y, "close")' /\ ~cycle[y].blind =>
                      cycle'[y].key \subseteq left
<1>3. AlertsInv /\ [AlertsNext]_alertVars => [Tells]_alertVars
  BY <1>1, <1>2
<1>4. QED
  BY <1>3, AlertsInvHolds, PTL DEF AlertsSpec, ToldTruly
=============================================================================
