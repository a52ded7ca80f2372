------------------------ MODULE SocialMonitor_proofs ------------------------
(***************************************************************************)
(* The safety of the runs of the social monitor, for any bounds and any    *)
(* number of callers: a loop that nobody has told to stop has its row open *)
(* and, until a user stops a run or starts race, at most one works.        *)
(***************************************************************************)
EXTENDS SocialMonitor, FiniteSetTheorems, WellFoundedInduction, TLAPS

\* A run that is yet to be launched: its row is open, or its cancellation is on
\* record.
Unlaunched(r) == r \in DOMAIN runs /\ task[r] = "none" /\ (r \in Active \/ runs[r].cancel)

LaunchesOpen ==
    /\ \A x \in Starters : start[x].at = "launch" => Unlaunched(start[x].run)
    /\ recovery.at = "launch" => Unlaunched(recovery.run)

\* No run is launched twice.
LaunchesApart ==
    \A x \in Starters : start[x].at = "launch" =>
        /\ recovery.at = "launch" => recovery.run # start[x].run
        /\ \A y \in Starters \ {x} : start[y].at = "launch" => start[y].run # start[x].run

\* Only rows have loops, and a continuous row marked as an orphan is stopped.
RowsMarked ==
    /\ \A r \in RunIds \ DOMAIN runs : task[r] = "none"
    /\ \A r \in DOMAIN runs :
           runs[r].continuous /\ runs[r].error = "orphan" => runs[r].status = "stopped"

MonitorInv ==
    /\ TypeOK
    /\ RowsMarked
    /\ LaunchesOpen
    /\ LaunchesApart
    /\ ClosedRowEndsLoop

\* The open row is the newest.
OnlyNewestActive == Active \subseteq {Len(runs)}

\* Until a user stops a run, none that is open is asked to stop.
Untouched == stop.at = "none" /\ \A r \in Active : ~runs[r].cancel

\* A recovery leaves no row open when it creates one, and marks no continuous run
\* as an orphan but one that it replaces.
RecoveryIsSafe ==
    /\ recovery.at = "cleanAll" => Active \cap recovery.keep = {}
    /\ recovery.at = "create" => Active = {}
    /\ recovery.at = "cleanStale" =>
           /\ recovery.old \subseteq DOMAIN runs
           /\ \A r \in recovery.old \cap Active : ~runs[r].continuous
    /\ recovery.at = "launch" => ~AutoStopped(Len(runs))

\* Starts go on when the newest row asks for no replacement but one on its way,
\* and one that inserts is alone.
StartsAreSafe ==
    \A x \in Starters :
        /\ start[x].at \in {"check", "insert"} /\ recovery.at # "create" => ~AutoStopped(Len(runs))
        /\ start[x].at = "insert" => /\ Active = {} /\ recovery.at \notin {"cleanAll", "create"}
                                     /\ \A y \in Starters \ {x} : start[y].at # "insert"

Single == OnlyNewestActive /\ Untouched /\ RecoveryIsSafe /\ StartsAreSafe

SingleInv ==
    /\ MonitorInv
    /\ userStopped = {} /\ ~raced => Single

-----------------------------------------------------------------------------
(* The rows *)

\* A set of numbers that is not empty has a least one.
LEMMA LeastNat ==
    ASSUME NEW T \in SUBSET Nat, T # {}
    PROVE  \E x \in T : \A y \in T : x <= y
<1> DEFINE R == OpToRel(<, Nat)
<1>1. IsWellFoundedOn(R, Nat)
  BY NatLessThanWellFounded
<1> HIDE DEF R
<1>2. PICK x \in T : \A y \in T : ~(<<y, x>> \in R)
  BY <1>1, WFMin
<1>3. \A y \in T : y < x => <<y, x>> \in R
  BY DEF R, OpToRel
<1>4. \A y \in T : ~(y < x)
  BY <1>2, <1>3, Zenon
<1>5. x \in Nat /\ \A y \in T : y \in Nat
  OBVIOUS
<1>6. QED
  BY <1>4, <1>5

LEMMA Rows ==
    ASSUME TypeOK
    PROVE  /\ Len(runs) \in Nat /\ DOMAIN runs = 1..Len(runs) /\ MaxRuns \in Nat
           /\ DOMAIN runs \subseteq RunIds /\ Active \subseteq DOMAIN runs
           /\ \A r \in DOMAIN runs : runs[r] \in Run
  BY MonitorAssumption DEF TypeOK, RunIds, Active

LEMMA NewestIsActive ==
    ASSUME TypeOK
    PROVE  /\ Active = {} => Newest(Active) = NoRun
           /\ Active # {} => Newest(Active) \in Active
           /\ Newest(Active) \in 0..MaxRuns
<1>1. CASE Active = {}
  BY <1>1, Rows DEF Newest, NoRun
<1>2. CASE Active # {}
  <2> DEFINE T == {MaxRuns - r : r \in Active}
  <2>1. MaxRuns \in Nat /\ \A r \in Active : r \in Nat /\ r <= MaxRuns
    BY Rows DEF RunIds
  <2>2. T \in SUBSET Nat /\ T # {}
    <3>1. \A r \in Active : MaxRuns - r \in Nat
      BY <2>1
    <3>2. QED
      BY <1>2, <3>1
  <2>3. PICK x \in T : \A y \in T : x <= y
    BY <2>2, LeastNat
  <2>4. PICK r \in Active : x = MaxRuns - r
    BY <2>3
  <2>5. \A q \in Active : q <= r
    <3>1. \A q \in Active : MaxRuns - r <= MaxRuns - q
      BY <2>3, <2>4
    <3>2. QED
      BY <2>1, <3>1
  <2>6. Newest(Active) \in Active
    BY <1>2, <2>4, <2>5 DEF Newest
  <2>7. QED
    BY <1>2, <2>1, <2>6
<1>3. QED
  BY <1>1, <1>2

\* A creation adds a row that is open.
LEMMA Inserted ==
    ASSUME TypeOK, NEW continuous \in BOOLEAN, CreateRun(continuous)
    PROVE  LET n == Len(runs) + 1 IN
           /\ n \in RunIds \ DOMAIN runs /\ DOMAIN runs' = DOMAIN runs \cup {n}
           /\ runs' \in Seq(Run) /\ Len(runs') = n /\ n <= MaxRuns
           /\ runs'[n] = [status |-> "running", cancel |-> FALSE, error |-> "none",
                          continuous |-> continuous]
           /\ \A r \in DOMAIN runs : runs'[r] = runs[r]
           /\ Active' = Active \cup {n}
<1> DEFINE n == Len(runs) + 1
           row == [status |-> "running", cancel |-> FALSE, error |-> "none",
                   continuous |-> continuous]
<1>1. row \in Run /\ row.status = "running"
  BY DEF Run
<1>2. runs' = Append(runs, row) /\ n <= MaxRuns /\ runs \in Seq(Run) /\ Len(runs) \in Nat
  BY Rows DEF CreateRun, TypeOK
<1> HIDE DEF row
<1>3. /\ runs' \in Seq(Run) /\ Len(runs') = n /\ runs'[n] = row
      /\ DOMAIN runs = 1..Len(runs) /\ DOMAIN runs' = 1..n
      /\ \A r \in 1..Len(runs) : runs'[r] = runs[r]
  BY <1>1, <1>2
<1>4. n \in RunIds \ DOMAIN runs /\ DOMAIN runs' = DOMAIN runs \cup {n}
  BY <1>2, <1>3, Rows DEF RunIds
<1>5. Active' = Active \cup {n}
  BY <1>1, <1>3, <1>4 DEF Active
<1>6. QED
  BY <1>2, <1>3, <1>4, <1>5 DEF row

\* A cleaning closes the open rows that it does not keep, and no other.
LEMMA Cleaned ==
    ASSUME TypeOK, NEW keep, NEW S, StopOrphans(keep, S)
    PROVE  /\ runs' \in Seq(Run) /\ Len(runs') = Len(runs) /\ DOMAIN runs' = DOMAIN runs
           /\ Active' = Active \ (S \ keep)
           /\ \A r \in DOMAIN runs : r \notin (Active \cap S) \ keep => runs'[r] = runs[r]
           /\ \A r \in DOMAIN runs :
                  /\ runs'[r].continuous = runs[r].continuous
                  /\ r \in (Active \cap S) \ keep => runs'[r].cancel /\ runs'[r].status = "stopped"
<1> DEFINE Hit == (Active \cap S) \ keep
           row(r) == [runs[r] EXCEPT !.status = "stopped", !.cancel = TRUE,
                                     !.error = IF @ = "none" THEN "orphan" ELSE @]
           new(r) == IF r \in Hit THEN row(r) ELSE runs[r]
<1>1. runs' = [r \in 1..Len(runs) |-> new(r)] /\ Len(runs) \in Nat /\ DOMAIN runs = 1..Len(runs)
  BY Rows DEF StopOrphans
<1>2. ASSUME NEW r \in 1..Len(runs)
      PROVE  /\ runs[r] \in Run /\ row(r) \in Run
             /\ row(r).status = "stopped" /\ row(r).continuous = runs[r].continuous
             /\ row(r).cancel
  BY <1>1, Rows DEF Run
<1> HIDE DEF row
<1>3. \A r \in 1..Len(runs) : new(r) \in Run
  BY <1>2
<1>4. runs' \in Seq(Run) /\ Len(runs') = Len(runs) /\ DOMAIN runs' = DOMAIN runs
  BY <1>1, <1>3
<1>5. \A r \in DOMAIN runs : runs'[r] = new(r)
  BY <1>1
<1>6. Active' = Active \ (S \ keep)
  BY <1>1, <1>2, <1>4, <1>5 DEF Active
<1>7. QED
  BY <1>1, <1>2, <1>4, <1>5, <1>6

\* A row is written.
LEMMA Written ==
    ASSUME TypeOK, NEW r \in DOMAIN runs, NEW row \in Run, runs' = [runs EXCEPT ![r] = row]
    PROVE  /\ runs' \in Seq(Run) /\ Len(runs') = Len(runs) /\ DOMAIN runs' = DOMAIN runs
           /\ runs'[r] = row /\ \A q \in DOMAIN runs \ {r} : runs'[q] = runs[q]
  BY Rows DEF TypeOK

\* What becomes of the row of a loop that ends
LEMMA TaskWrote ==
    ASSUME TypeOK, NEW r \in RunIds, TaskStops(r) \/ TaskFails(r) \/ TaskCompletes(r)
    PROVE  /\ r \in DOMAIN runs /\ task[r] = "loop" /\ task' = [task EXCEPT ![r] = "ending"]
           /\ runs' \in Seq(Run) /\ Len(runs') = Len(runs) /\ DOMAIN runs' = DOMAIN runs
           /\ Active' = Active \ {r}
           /\ \A q \in DOMAIN runs \ {r} : runs'[q] = runs[q]
           /\ runs'[r].error \in {runs[r].error, "other"}
           /\ runs'[r].continuous = runs[r].continuous /\ runs'[r].cancel = runs[r].cancel
           /\ runs[r].continuous => runs'[r].error = "other" \/ runs'[r].status = "stopped"
           /\ UNCHANGED <<controllers, aborted, recovery, start, stop, userStopped, raced, counts>>
<1>1. r \in DOMAIN runs
  BY DEF TaskStops, TaskFails, TaskCompletes
<1>2. PICK status \in {"stopped", "failed", "completed"}, error \in {"none", "other"} :
          /\ TaskWrites(r, status, error)
          /\ runs[r].continuous => error = "other" \/ status = "stopped"
  BY DEF TaskStops, TaskFails, TaskCompletes
<1> DEFINE row == [runs[r] EXCEPT !.status = status,
                                  !.error = IF error = "none" THEN @ ELSE error]
<1>3. /\ runs' = [runs EXCEPT ![r] = row]
      /\ task[r] = "loop" /\ task' = [task EXCEPT ![r] = "ending"]
      /\ UNCHANGED <<controllers, aborted, recovery, start, stop, userStopped, raced, counts>>
  BY <1>1, <1>2 DEF TaskWrites
<1>4. /\ row \in Run /\ row.status \notin {"running", "stopping"}
      /\ row.error \in {runs[r].error, "other"}
      /\ row.continuous = runs[r].continuous /\ row.cancel = runs[r].cancel
      /\ row.status = status /\ (error = "other" => row.error = "other")
  BY <1>1, Rows DEF Run
<1> HIDE DEF row
<1>5. /\ runs' \in Seq(Run) /\ Len(runs') = Len(runs) /\ DOMAIN runs' = DOMAIN runs
      /\ runs'[r] = row /\ \A q \in DOMAIN runs \ {r} : runs'[q] = runs[q]
  BY <1>1, <1>3, <1>4, Written
<1>6. Active' = Active \ {r}
  BY <1>1, <1>4, <1>5 DEF Active
<1>7. QED
  BY <1>1, <1>2, <1>3, <1>4, <1>5, <1>6

-----------------------------------------------------------------------------
(* The steps, whatever users do *)

RecoveryRec ==
    [at : {"none", "active", "cleanAll", "cleanStale", "latest", "create", "launch"},
     keep : SUBSET RunIds, old : SUBSET RunIds, run : 0..MaxRuns]

StartRec == [at : {"none", "wait", "check", "insert", "launch"}, run : 0..MaxRuns]

LEMMA MonitorInit == Init => MonitorInv
<1> SUFFICES ASSUME Init PROVE MonitorInv
  OBVIOUS
<1>1. Len(runs) = 0 /\ runs \in Seq(Run) /\ DOMAIN runs = {} /\ MaxRuns \in Nat
  BY MonitorAssumption DEF Init
<1>2. TypeOK
  <2>1. /\ NoRecovery \in RecoveryRec /\ NoStart \in StartRec
        /\ NoStop \in [at : {"none", "clean"}, keep : SUBSET RunIds]
    BY MonitorAssumption DEF NoRecovery, NoRun, NoStart, NoStop, RecoveryRec, StartRec
  <2>2. raced \in BOOLEAN
    BY Zenon DEF Init
  <2>3. QED
    BY <1>1, <2>1, <2>2, MonitorAssumption DEF Init, TypeOK, RecoveryRec, StartRec
<1>3. RowsMarked /\ LaunchesOpen /\ LaunchesApart /\ ClosedRowEndsLoop
  BY <1>1 DEF Init, RowsMarked, LaunchesOpen, LaunchesApart, ClosedRowEndsLoop, Wanted,
     NoRecovery, NoStart
<1>4. QED
  BY <1>2, <1>3 DEF MonitorInv

\* A step that changes rows, no loop and no launch, keeps what is said of these
\* when a row that it closes has its cancellation on record, and none loses it.
LEMMA RowsKeep ==
    ASSUME MonitorInv, UNCHANGED <<task, start, recovery>>,
           DOMAIN runs \subseteq DOMAIN runs',
           \A r \in DOMAIN runs : /\ r \in Active => r \in Active' \/ runs'[r].cancel
                                  /\ runs[r].cancel => runs'[r].cancel,
           \A r \in DOMAIN runs' \ DOMAIN runs : r \in RunIds
    PROVE  LaunchesOpen' /\ LaunchesApart' /\ ClosedRowEndsLoop'
<1>1. \A r : Unlaunched(r) => Unlaunched(r)'
  BY DEF Unlaunched
<1>2. ClosedRowEndsLoop'
  BY DEF ClosedRowEndsLoop, Wanted, MonitorInv, RowsMarked
<1>3. QED
  BY <1>1, <1>2 DEF LaunchesOpen, LaunchesApart, MonitorInv

\* A step that touches no row and no loop, and begins no launch.
LEMMA LocalsKeep ==
    ASSUME MonitorInv, UNCHANGED <<runs, task>>,
           recovery'.at = "launch" => recovery' = recovery,
           \A x \in Starters : start'[x].at = "launch" => start'[x] = start[x]
    PROVE  RowsMarked' /\ LaunchesOpen' /\ LaunchesApart' /\ ClosedRowEndsLoop'
<1>1. Active' = Active /\ \A r : Unlaunched(r) => Unlaunched(r)'
  BY DEF Unlaunched, Active
<1>2. QED
  BY <1>1 DEF LaunchesOpen, LaunchesApart, ClosedRowEndsLoop, Wanted, MonitorInv, RowsMarked

\* A loop ends, or is gone.
LEMMA TaskKeeps ==
    ASSUME MonitorInv, NEW r \in RunIds,
           TaskStops(r) \/ TaskFails(r) \/ TaskCompletes(r) \/ TaskGone(r)
    PROVE  MonitorInv'
<1> USE DEF MonitorInv
<1>1. CASE TaskStops(r) \/ TaskFails(r) \/ TaskCompletes(r)
  <2>1. /\ r \in DOMAIN runs /\ task[r] = "loop" /\ task' = [task EXCEPT ![r] = "ending"]
        /\ runs' \in Seq(Run) /\ Len(runs') = Len(runs) /\ DOMAIN runs' = DOMAIN runs
        /\ Active' = Active \ {r}
        /\ \A q \in DOMAIN runs \ {r} : runs'[q] = runs[q]
        /\ runs'[r].continuous = runs[r].continuous
        /\ runs[r].continuous => runs'[r].error = "other" \/ runs'[r].status = "stopped"
        /\ UNCHANGED <<controllers, aborted, recovery, start, stop, userStopped, raced, counts>>
    BY <1>1, TaskWrote
  <2>2. /\ task' \in [RunIds -> {"none", "loop", "ending"}]
        /\ task'[r] = "ending" /\ \A q \in RunIds \ {r} : task'[q] = task[q]
    BY <2>1 DEF TypeOK
  <2>3. TypeOK'
    BY <2>1, <2>2 DEF TypeOK, counts
  <2>4. RowsMarked'
    BY <2>1, <2>2 DEF RowsMarked
  <2>5. \A q : Unlaunched(q) => Unlaunched(q)'
    BY <2>1, <2>2, Rows DEF Unlaunched
  <2>6. LaunchesOpen' /\ LaunchesApart'
    BY <2>1, <2>5 DEF LaunchesOpen, LaunchesApart
  <2>7. ClosedRowEndsLoop'
    BY <2>1, <2>2, Rows DEF ClosedRowEndsLoop, Wanted
  <2>8. QED
    BY <2>3, <2>4, <2>6, <2>7
<1>2. CASE TaskGone(r)
  <2>1. /\ task[r] = "ending" /\ task' = [task EXCEPT ![r] = "none"]
        /\ controllers' = controllers \ {r} /\ aborted' = aborted \ {r}
        /\ UNCHANGED <<runs, recovery, start, stop, userStopped, raced, counts>>
    BY <1>2 DEF TaskGone
  <2>2. /\ task' \in [RunIds -> {"none", "loop", "ending"}]
        /\ task'[r] = "none" /\ \A q \in RunIds \ {r} : task'[q] = task[q]
    BY <2>1 DEF TypeOK
  <2>3. TypeOK'
    BY <2>1, <2>2 DEF TypeOK, counts
  <2>4. Active' = Active /\ \A q : Unlaunched(q) => Unlaunched(q)'
    BY <2>1, <2>2, Rows DEF Unlaunched, Active
  <2>5. RowsMarked' /\ LaunchesOpen' /\ LaunchesApart'
    BY <2>1, <2>2, <2>4 DEF RowsMarked, LaunchesOpen, LaunchesApart
  <2>6. ClosedRowEndsLoop'
    BY <2>1, <2>2, <2>4, Rows DEF ClosedRowEndsLoop, Wanted
  <2>7. QED
    BY <2>3, <2>5, <2>6
<1>3. QED
  BY <1>1, <1>2

\* The end of a recovery lets starts go on that wait.
LEMMA Released ==
    ASSUME TypeOK, EndRecovery
    PROVE  /\ recovery' \in RecoveryRec /\ recovery'.at = "none"
           /\ start' \in [Starters -> StartRec]
           /\ \A x \in Starters : start'[x] = start[x] \/ start'[x].at = "check"
           /\ \A x \in Starters : start[x].at = "launch" => start'[x] = start[x]
<1>1. recovery' = NoRecovery /\ NoRecovery \in RecoveryRec /\ NoRecovery.at = "none"
  BY MonitorAssumption DEF EndRecovery, NoRecovery, NoRun, RecoveryRec
<1>2. /\ start' = [x \in Starters |-> IF start[x].at = "wait"
                                      THEN [start[x] EXCEPT !.at = "check"] ELSE start[x]]
      /\ start \in [Starters -> StartRec]
  BY DEF EndRecovery, TypeOK, StartRec
<1>3. \A x \in Starters : /\ [start[x] EXCEPT !.at = "check"] \in StartRec
                          /\ [start[x] EXCEPT !.at = "check"].at = "check"
  BY <1>2 DEF StartRec
<1>4. QED
  BY <1>1, <1>2, <1>3

\* A recovery that moves on
LEMMA RecoveryAt ==
    ASSUME TypeOK
    PROVE  /\ \A at \in {"none", "active", "cleanAll", "cleanStale", "latest", "create"} :
                  /\ [NoRecovery EXCEPT !.at = at] \in RecoveryRec
                  /\ [NoRecovery EXCEPT !.at = at].at = at
           /\ recovery \in RecoveryRec /\ start \in [Starters -> StartRec]
  BY MonitorAssumption DEF TypeOK, NoRecovery, NoRun, RecoveryRec, StartRec

LEMMA PollKeeps ==
    ASSUME MonitorInv, Poll
    PROVE  /\ MonitorInv' /\ recovery'.at = "active"
           /\ UNCHANGED <<runs, task, controllers, aborted, start, stop, userStopped, raced, counts>>
<1> USE DEF MonitorInv
<1>1. recovery' = [NoRecovery EXCEPT !.at = "active"]
      /\ UNCHANGED <<runs, task, controllers, aborted, start, stop, userStopped, raced, counts>>
  BY DEF Poll, BeginRecovery
<1>2. recovery' \in RecoveryRec /\ recovery'.at = "active"
  BY <1>1, RecoveryAt
<1>3. TypeOK'
  BY <1>1, <1>2 DEF TypeOK, counts, RecoveryRec
<1>4. QED
  BY <1>1, <1>2, <1>3, LocalsKeep

LEMMA ReadsActiveKeeps == ASSUME MonitorInv, RecoveryReadsActive PROVE MonitorInv'
<1> USE DEF MonitorInv
<1> DEFINE r == Newest(Active)
<1>1. UNCHANGED <<runs, task, controllers, aborted, stop, userStopped, raced, counts>>
  BY DEF RecoveryReadsActive
<1>2. CASE r \in controllers
  <2>1. EndRecovery
    BY <1>2 DEF RecoveryReadsActive
  <2>2. TypeOK'
    BY <1>1, <2>1, Released DEF TypeOK, counts, RecoveryRec, StartRec
  <2>3. \A x \in Starters : start'[x].at = "launch" => start'[x] = start[x]
    BY <2>1, Released
  <2>4. QED
    BY <1>1, <2>1, <2>2, <2>3, Released, LocalsKeep
<1>3. CASE r \notin controllers
  <2>1. /\ recovery' = [at |-> IF Stored(r) THEN "cleanAll" ELSE "cleanStale",
                        keep |-> controllers, old |-> DOMAIN runs, run |-> NoRun]
        /\ UNCHANGED start
    BY <1>3 DEF RecoveryReadsActive
  <2>2. controllers \in SUBSET RunIds /\ DOMAIN runs \in SUBSET RunIds
    BY Rows DEF TypeOK
  <2>3. recovery' \in RecoveryRec /\ recovery'.at # "launch"
    BY <2>1, <2>2, MonitorAssumption DEF RecoveryRec, NoRun
  <2>4. TypeOK'
    BY <1>1, <2>1, <2>3 DEF TypeOK, counts, RecoveryRec
  <2>5. QED
    BY <1>1, <2>1, <2>3, <2>4, LocalsKeep
<1>4. QED
  BY <1>2, <1>3

\* What a cleaning keeps, that of a recovery or that of a stop.
LEMMA CleaningKeeps ==
    ASSUME MonitorInv, NEW keep, NEW S, StopOrphans(keep, S), UNCHANGED <<task, start>>,
           recovery'.at = "launch" => recovery' = recovery
    PROVE  RowsMarked' /\ LaunchesOpen' /\ LaunchesApart' /\ ClosedRowEndsLoop'
<1>1. /\ DOMAIN runs' = DOMAIN runs /\ Active' = Active \ (S \ keep)
      /\ \A r \in DOMAIN runs : r \notin (Active \cap S) \ keep => runs'[r] = runs[r]
      /\ \A r \in DOMAIN runs :
             r \in (Active \cap S) \ keep => runs'[r].cancel /\ runs'[r].status = "stopped"
  BY Cleaned DEF MonitorInv
<1>2. RowsMarked'
  BY <1>1 DEF RowsMarked, MonitorInv
<1>3. \A r : Unlaunched(r) => Unlaunched(r)'
  BY <1>1 DEF Unlaunched
<1>4. LaunchesOpen' /\ LaunchesApart'
  BY <1>3 DEF LaunchesOpen, LaunchesApart, MonitorInv
<1>5. ClosedRowEndsLoop'
  BY <1>1 DEF ClosedRowEndsLoop, Wanted, MonitorInv
<1>6. QED
  BY <1>2, <1>4, <1>5

LEMMA RecoveryCleansKeeps == ASSUME MonitorInv, RecoveryCleans PROVE MonitorInv'
<1> USE DEF MonitorInv
<1>1. ASSUME NEW keep, NEW S, NEW at \in {"create", "latest"},
             StopOrphans(keep, S), recovery' = [NoRecovery EXCEPT !.at = at],
             UNCHANGED <<task, controllers, aborted, start, stop, userStopped, raced, counts>>
      PROVE  MonitorInv'
  <2>1. recovery' \in RecoveryRec /\ recovery'.at = at
    BY <1>1, RecoveryAt
  <2>2. runs' \in Seq(Run) /\ Len(runs') = Len(runs) /\ DOMAIN runs' = DOMAIN runs
    BY <1>1, Cleaned
  <2>3. TypeOK'
    BY <1>1, <2>1, <2>2 DEF TypeOK, counts, RecoveryRec
  <2>4. QED
    BY <1>1, <2>1, <2>3, CleaningKeeps
<1>2. CASE RecoveryCleansAll
  BY <1>1, <1>2 DEF RecoveryCleansAll
<1>3. ASSUME NEW stale, RecoveryCleansStale(stale) PROVE MonitorInv'
  BY <1>1, <1>3 DEF RecoveryCleansStale
<1>4. QED
  BY <1>2, <1>3 DEF RecoveryCleans

LEMMA ReadsLatestKeeps == ASSUME MonitorInv, RecoveryReadsLatest PROVE MonitorInv'
<1> USE DEF MonitorInv
<1>1. UNCHANGED <<runs, task, controllers, aborted, stop, userStopped, raced, counts>>
      /\ recovery.at = "latest"
  BY DEF RecoveryReadsLatest
<1>2. CASE AutoStopped(Len(runs))
  <2>1. recovery' = [recovery EXCEPT !.at = "create"] /\ UNCHANGED start
    BY <1>2 DEF RecoveryReadsLatest
  <2>2. recovery' \in RecoveryRec /\ recovery'.at = "create"
    BY <2>1, RecoveryAt DEF RecoveryRec
  <2>3. TypeOK'
    BY <1>1, <2>1, <2>2 DEF TypeOK, counts, RecoveryRec
  <2>4. QED
    BY <1>1, <2>1, <2>2, <2>3, LocalsKeep
<1>3. CASE ~AutoStopped(Len(runs))
  <2>1. EndRecovery
    BY <1>3 DEF RecoveryReadsLatest
  <2>2. TypeOK'
    BY <1>1, <2>1, Released DEF TypeOK, counts, RecoveryRec, StartRec
  <2>3. \A x \in Starters : start'[x].at = "launch" => start'[x] = start[x]
    BY <2>1, Released
  <2>4. QED
    BY <1>1, <2>1, <2>2, <2>3, Released, LocalsKeep
<1>4. QED
  BY <1>2, <1>3

\* A creation, and the launch that is due for its row
LEMMA CreateKeeps ==
    ASSUME MonitorInv, NEW n, n = Len(runs) + 1,
           NEW continuous \in BOOLEAN, CreateRun(continuous), UNCHANGED task
    PROVE  /\ n \in RunIds /\ n \in 0..MaxRuns
           /\ runs' \in Seq(Run) /\ Len(runs') = n /\ DOMAIN runs \subseteq DOMAIN runs'
           /\ Unlaunched(n)' /\ RowsMarked' /\ ClosedRowEndsLoop'
           /\ \A r : Unlaunched(r) => Unlaunched(r)' /\ r # n
<1>1. /\ n \in RunIds \ DOMAIN runs /\ DOMAIN runs' = DOMAIN runs \cup {n}
      /\ runs' \in Seq(Run) /\ Len(runs') = n
      /\ runs'[n] = [status |-> "running", cancel |-> FALSE, error |-> "none",
                     continuous |-> continuous]
      /\ \A r \in DOMAIN runs : runs'[r] = runs[r]
      /\ Active' = Active \cup {n}
  BY Inserted DEF MonitorInv
<1>2. task[n] = "none" /\ runs'[n].error = "none" /\ n \in 0..MaxRuns
  BY <1>1, Rows DEF MonitorInv, RowsMarked, RunIds
<1>3. Unlaunched(n)' /\ \A r : Unlaunched(r) => Unlaunched(r)' /\ r # n
  BY <1>1, <1>2 DEF Unlaunched
<1>4. RowsMarked'
  BY <1>1, <1>2 DEF RowsMarked, MonitorInv
<1>5. ClosedRowEndsLoop'
  BY <1>1, <1>2 DEF ClosedRowEndsLoop, Wanted, MonitorInv
<1>6. QED
  BY <1>1, <1>2, <1>3, <1>4, <1>5

LEMMA RecoveryCreatesKeeps == ASSUME MonitorInv, RecoveryCreates PROVE MonitorInv'
<1> USE DEF MonitorInv
<1>1. PICK n : n = Len(runs) + 1
  OBVIOUS
<1>2. /\ CreateRun(TRUE) /\ recovery' = [recovery EXCEPT !.at = "launch", !.run = n]
      /\ UNCHANGED <<task, controllers, aborted, start, stop, userStopped, raced, counts>>
  BY <1>1 DEF RecoveryCreates
<1>3. /\ n \in 0..MaxRuns
      /\ runs' \in Seq(Run) /\ Len(runs') = n /\ DOMAIN runs \subseteq DOMAIN runs'
      /\ Unlaunched(n)' /\ RowsMarked' /\ ClosedRowEndsLoop'
      /\ \A r : Unlaunched(r) => Unlaunched(r)' /\ r # n
  BY <1>1, <1>2, CreateKeeps
<1>4. recovery' \in RecoveryRec /\ recovery'.at = "launch" /\ recovery'.run = n
  BY <1>2, <1>3, RecoveryAt DEF RecoveryRec
<1>5. TypeOK'
  BY <1>2, <1>3, <1>4 DEF TypeOK, counts, RecoveryRec
<1>6. LaunchesOpen' /\ LaunchesApart'
  BY <1>2, <1>3, <1>4 DEF LaunchesOpen, LaunchesApart
<1>7. QED
  BY <1>3, <1>5, <1>6

LEMMA StartCreatesKeeps ==
    ASSUME MonitorInv, NEW x \in Starters, StartCreates(x) PROVE MonitorInv'
<1> USE DEF MonitorInv
<1>1. PICK n : n = Len(runs) + 1
  OBVIOUS
<1>2. /\ CreateRun(x \notin Once)
      /\ start' = [start EXCEPT ![x] = [at |-> "launch", run |-> n]]
      /\ UNCHANGED <<task, controllers, aborted, recovery, stop, userStopped, raced, counts>>
  BY <1>1 DEF StartCreates
<1>3. /\ n \in 0..MaxRuns
      /\ runs' \in Seq(Run) /\ Len(runs') = n /\ DOMAIN runs \subseteq DOMAIN runs'
      /\ Unlaunched(n)' /\ RowsMarked' /\ ClosedRowEndsLoop'
      /\ \A r : Unlaunched(r) => Unlaunched(r)' /\ r # n
  BY <1>1, <1>2, CreateKeeps
<1>4. /\ start' \in [Starters -> StartRec] /\ start'[x].at = "launch" /\ start'[x].run = n
      /\ \A y \in Starters \ {x} : start'[y] = start[y]
  BY <1>2, <1>3, RecoveryAt DEF StartRec
<1>5. TypeOK'
  BY <1>2, <1>3, <1>4 DEF TypeOK, counts, StartRec
<1>6. LaunchesOpen' /\ LaunchesApart'
  BY <1>2, <1>3, <1>4 DEF LaunchesOpen, LaunchesApart
<1>7. QED
  BY <1>3, <1>5, <1>6

\* A launch leaves the other runs to be launched.
LEMMA LaunchKeeps ==
    ASSUME MonitorInv, NEW r, Unlaunched(r), Launch(r), UNCHANGED runs
    PROVE  /\ r \in RunIds /\ task' \in [RunIds -> {"none", "loop", "ending"}]
           /\ controllers' \subseteq DOMAIN runs' /\ RowsMarked' /\ ClosedRowEndsLoop'
           /\ \A q : Unlaunched(q) /\ q # r => Unlaunched(q)'
<1>1. /\ r \in RunIds /\ task' \in [RunIds -> {"none", "loop", "ending"}]
      /\ task'[r] = "loop" /\ \A q \in RunIds \ {r} : task'[q] = task[q]
      /\ controllers' = controllers \cup {r} /\ controllers' \subseteq DOMAIN runs'
  BY Rows DEF Launch, Unlaunched, MonitorInv, TypeOK
<1>2. Active' = Active /\ DOMAIN runs \subseteq RunIds
  BY Rows DEF Active, MonitorInv
<1>3. RowsMarked' /\ \A q : Unlaunched(q) /\ q # r => Unlaunched(q)'
  BY <1>1, <1>2 DEF RowsMarked, Unlaunched, MonitorInv
<1>4. ClosedRowEndsLoop'
  BY <1>1, <1>2 DEF ClosedRowEndsLoop, Wanted, Unlaunched, MonitorInv
<1>5. QED
  BY <1>1, <1>3, <1>4

LEMMA RecoveryLaunchesKeeps == ASSUME MonitorInv, RecoveryLaunches PROVE MonitorInv'
<1> USE DEF MonitorInv
<1> DEFINE r == recovery.run
<1>1. /\ recovery.at = "launch" /\ Launch(r) /\ EndRecovery
      /\ UNCHANGED <<runs, aborted, stop, userStopped, raced, counts>>
  BY DEF RecoveryLaunches
<1>2. Unlaunched(r)
  BY <1>1 DEF LaunchesOpen
<1>3. /\ task' \in [RunIds -> {"none", "loop", "ending"}]
      /\ controllers' \subseteq DOMAIN runs' /\ RowsMarked' /\ ClosedRowEndsLoop'
      /\ \A q : Unlaunched(q) /\ q # r => Unlaunched(q)'
  BY <1>1, <1>2, LaunchKeeps
<1>4. /\ recovery' \in RecoveryRec /\ recovery'.at = "none" /\ start' \in [Starters -> StartRec]
      /\ \A x \in Starters : start'[x].at = "launch" => start'[x] = start[x]
  BY <1>1, Released
<1>5. aborted' \subseteq controllers'
  BY <1>1 DEF Launch, TypeOK
<1>6. TypeOK'
  BY <1>1, <1>3, <1>4, <1>5 DEF TypeOK, counts, RecoveryRec, StartRec
<1>7. LaunchesOpen' /\ LaunchesApart'
  BY <1>1, <1>3, <1>4 DEF LaunchesOpen, LaunchesApart
<1>8. QED
  BY <1>3, <1>6, <1>7

LEMMA StartLaunchesKeeps ==
    ASSUME MonitorInv, NEW x \in Starters, StartLaunches(x) PROVE MonitorInv'
<1> USE DEF MonitorInv
<1> DEFINE r == start[x].run
<1>1. /\ start[x].at = "launch" /\ Launch(r) /\ start' = [start EXCEPT ![x] = NoStart]
      /\ UNCHANGED <<runs, aborted, recovery, stop, userStopped, raced, counts>>
  BY DEF StartLaunches
<1>2. Unlaunched(r)
  BY <1>1 DEF LaunchesOpen
<1>3. /\ task' \in [RunIds -> {"none", "loop", "ending"}]
      /\ controllers' \subseteq DOMAIN runs' /\ RowsMarked' /\ ClosedRowEndsLoop'
      /\ \A q : Unlaunched(q) /\ q # r => Unlaunched(q)'
  BY <1>1, <1>2, LaunchKeeps
<1>4. /\ start' \in [Starters -> StartRec] /\ start'[x].at = "none"
      /\ \A y \in Starters \ {x} : start'[y] = start[y]
  BY <1>1, RecoveryAt, MonitorAssumption DEF NoStart, NoRun, StartRec
<1>5. aborted' \subseteq controllers'
  BY <1>1 DEF Launch, TypeOK
<1>6. TypeOK'
  BY <1>1, <1>3, <1>4, <1>5 DEF TypeOK, counts, StartRec
<1>7. LaunchesOpen' /\ LaunchesApart'
  BY <1>1, <1>3, <1>4 DEF LaunchesOpen, LaunchesApart
<1>8. QED
  BY <1>3, <1>6, <1>7

LEMMA StartKeeps ==
    ASSUME MonitorInv, NEW x \in Starters, StartCall(x) \/ StartChecks(x)
    PROVE  MonitorInv'
<1> USE DEF MonitorInv
<1>1. UNCHANGED <<runs, task, controllers, aborted, stop, userStopped>>
  BY DEF StartCall, StartChecks
<1>2. CASE StartCall(x)
  <2>1. /\ starts < MaxStarts /\ starts' = starts + 1 /\ UNCHANGED <<raced, stops, crashes>>
        /\ start' = [start EXCEPT ![x] = [NoStart EXCEPT !.at = "wait"]] /\ BeginRecovery
    BY <1>2 DEF StartCall
  <2>2. [NoStart EXCEPT !.at = "wait"] = [at |-> "wait", run |-> 0]
    BY DEF NoStart, NoRun
  <2>3. /\ start' \in [Starters -> StartRec]
        /\ \A y \in Starters : start'[y].at = "launch" => start'[y] = start[y]
    BY <2>1, <2>2, RecoveryAt, MonitorAssumption DEF StartRec
  <2>4. /\ recovery' \in RecoveryRec /\ (recovery'.at = "launch" => recovery' = recovery)
    BY <2>1, RecoveryAt DEF BeginRecovery
  <2>5. TypeOK'
    BY <1>1, <2>1, <2>3, <2>4, MonitorAssumption DEF TypeOK, RecoveryRec, StartRec
  <2>6. QED
    BY <1>1, <2>3, <2>4, <2>5, LocalsKeep
<1>3. CASE StartChecks(x)
  <2>1. /\ UNCHANGED <<recovery, counts>> /\ start[x].at = "check"
        /\ \/ start' = [start EXCEPT ![x] = NoStart]
           \/ start' = [start EXCEPT ![x].at = "insert"]
    BY <1>3 DEF StartChecks
  <2>2. raced' \in BOOLEAN
    <3>1. raced' = raced \/ raced' = (raced \/ Races(x))
      BY <1>3 DEF StartChecks
    <3>2. Races(x) \in BOOLEAN /\ raced \in BOOLEAN
      BY DEF Races, TypeOK
    <3>3. QED
      BY <3>1, <3>2, Zenon
  <2>3. /\ start' \in [Starters -> StartRec]
        /\ \A y \in Starters : start'[y].at = "launch" => start'[y] = start[y]
    BY <2>1, RecoveryAt, MonitorAssumption DEF NoStart, NoRun, StartRec
  <2>4. TypeOK'
    BY <1>1, <2>1, <2>2, <2>3 DEF TypeOK, counts, StartRec
  <2>5. QED
    BY <1>1, <2>1, <2>3, <2>4, LocalsKeep
<1>4. QED
  BY <1>2, <1>3

LEMMA StopKeeps ==
    ASSUME MonitorInv, StopCleans \/ \E r \in RunIds : StopCall(r)
    PROVE  MonitorInv'
<1> USE DEF MonitorInv
<1>1. CASE StopCleans
  <2>1. /\ StopOrphans(stop.keep, DOMAIN runs) /\ stop' = NoStop
        /\ UNCHANGED <<task, controllers, aborted, recovery, start, userStopped, raced, counts>>
    BY <1>1 DEF StopCleans
  <2>2. runs' \in Seq(Run) /\ Len(runs') = Len(runs) /\ DOMAIN runs' = DOMAIN runs
    BY <2>1, Cleaned
  <2>3. TypeOK'
    BY <2>1, <2>2 DEF TypeOK, counts, NoStop
  <2>4. QED
    BY <2>1, <2>3, CleaningKeeps
<1>2. ASSUME NEW r \in RunIds, StopCall(r) PROVE MonitorInv'
  <2> DEFINE row == [runs[r] EXCEPT !.cancel = TRUE,
                                    !.status = IF @ = "running" THEN "stopping" ELSE @]
  <2>1. /\ r \in DOMAIN runs /\ runs' = [runs EXCEPT ![r] = row]
        /\ stops < MaxStops /\ stops' = stops + 1 /\ userStopped' = userStopped \cup {r}
        /\ IF r \in controllers
           THEN aborted' = aborted \cup {r} /\ UNCHANGED stop
           ELSE stop' = [at |-> "clean", keep |-> controllers] /\ UNCHANGED aborted
        /\ UNCHANGED <<task, controllers, recovery, start, raced, starts, crashes>>
    BY <1>2, Rows DEF StopCall, RequestStop, TypeOK
  <2>2. /\ row \in Run /\ row.cancel /\ row.continuous = runs[r].continuous
        /\ row.error = runs[r].error
        /\ (row.status \in {"running", "stopping"} <=> runs[r].status \in {"running", "stopping"})
        /\ (runs[r].status = "stopped" => row.status = "stopped")
    BY <2>1, Rows DEF Run
  <2> HIDE DEF row
  <2>3. /\ runs' \in Seq(Run) /\ Len(runs') = Len(runs) /\ DOMAIN runs' = DOMAIN runs
        /\ runs'[r] = row /\ \A q \in DOMAIN runs \ {r} : runs'[q] = runs[q]
    BY <2>1, <2>2, Written
  <2>4. Active' = Active
    BY <2>2, <2>3 DEF Active
  <2>5. controllers \in SUBSET RunIds
    BY Rows DEF TypeOK
  <2>6. stop' \in [at : {"none", "clean"}, keep : SUBSET RunIds] /\ aborted' \subseteq controllers
    BY <2>1, <2>5 DEF TypeOK
  <2>7. TypeOK'
    BY <2>1, <2>3, <2>6, MonitorAssumption DEF TypeOK
  <2>8. RowsMarked'
    BY <2>1, <2>2, <2>3 DEF RowsMarked
  <2>9. LaunchesOpen' /\ LaunchesApart' /\ ClosedRowEndsLoop'
    BY <2>1, <2>2, <2>3, <2>4, RowsKeep
  <2>10. QED
    BY <2>7, <2>8, <2>9
<1>3. QED
  BY <1>1, <1>2

LEMMA CrashKeeps ==
    ASSUME MonitorInv, Crash
    PROVE  MonitorInv' /\ UNCHANGED <<runs, userStopped, raced>> /\ recovery'.at = "none"
           /\ stop'.at = "none" /\ \A x \in Starters : start'[x].at = "none"
<1> USE DEF MonitorInv
<1>1. /\ crashes < MaxCrashes /\ crashes' = crashes + 1
      /\ task' = [r \in RunIds |-> "none"] /\ controllers' = {} /\ aborted' = {}
      /\ recovery' = NoRecovery /\ start' = [x \in Starters |-> NoStart] /\ stop' = NoStop
      /\ UNCHANGED <<runs, userStopped, raced, starts, stops>>
  BY DEF Crash
<1>2. /\ recovery'.at = "none" /\ stop'.at = "none" /\ \A x \in Starters : start'[x].at = "none"
  BY <1>1 DEF NoRecovery, NoStart, NoStop
<1>3. NoStart \in StartRec /\ NoRecovery \in RecoveryRec
      /\ NoStop \in [at : {"none", "clean"}, keep : SUBSET RunIds]
  BY MonitorAssumption DEF NoStart, NoRecovery, NoStop, NoRun, StartRec, RecoveryRec
<1>4. TypeOK'
  BY <1>1, <1>3, MonitorAssumption DEF TypeOK, StartRec, RecoveryRec
<1>5. RowsMarked' /\ LaunchesOpen' /\ LaunchesApart'
  BY <1>1, <1>2 DEF RowsMarked, LaunchesOpen, LaunchesApart
<1>6. ClosedRowEndsLoop'
  BY <1>1, Rows DEF ClosedRowEndsLoop, Wanted
<1>7. QED
  BY <1>1, <1>2, <1>4, <1>5, <1>6

LEMMA MonitorStutter == ASSUME MonitorInv, UNCHANGED vars PROVE MonitorInv'
<1>1. TypeOK'
  BY DEF TypeOK, MonitorInv, vars
<1>2. QED
  BY <1>1, LocalsKeep DEF MonitorInv, vars

LEMMA MonitorStep == MonitorInv /\ [Next]_vars => MonitorInv'
  BY MonitorStutter, TaskKeeps, PollKeeps, ReadsActiveKeeps, RecoveryCleansKeeps,
     ReadsLatestKeeps, RecoveryCreatesKeeps, RecoveryLaunchesKeeps, StartKeeps,
     StartCreatesKeeps, StartLaunchesKeeps, StopKeeps, CrashKeeps DEF Next

LEMMA MonitorInvHolds == Spec => []MonitorInv
<1>1. Init => MonitorInv
  BY MonitorInit
<1>2. MonitorInv /\ [Next]_vars => MonitorInv'
  BY MonitorStep
<1>3. QED
  BY <1>1, <1>2, PTL DEF Spec

\* For any callers, stops, restarts and rows, and however they interleave: a loop
\* that nobody has told to stop has its row open, although a recovery or a stop
\* can take its run for an orphan before it has its controller.
THEOREM ClosedRowsEndTheirLoops == Spec => []Inv
<1>1. MonitorInv => Inv
  BY DEF MonitorInv, Inv
<1>2. QED
  BY <1>1, MonitorInvHolds, PTL

-----------------------------------------------------------------------------
(* The steps until a user stops a run or starts race *)

LEMMA SingleInit == Init => SingleInv
<1> SUFFICES ASSUME Init PROVE SingleInv
  OBVIOUS
<1>1. Active = {}
  BY DEF Init, Active
<1>2. Single
  BY <1>1 DEF Init, Single, OnlyNewestActive, Untouched, RecoveryIsSafe, StartsAreSafe,
     NoRecovery, NoStart, NoStop
<1>3. QED
  BY <1>2, MonitorInit DEF SingleInv

\* What a step keeps that closes rows, and adds none, when it lets no start go on
\* and no recovery.
LEMMA SingleCloses ==
    ASSUME Single, UNCHANGED <<recovery, start, stop>>,
           Len(runs') = Len(runs), DOMAIN runs' = DOMAIN runs, Active' \subseteq Active,
           \A r \in DOMAIN runs : /\ runs'[r].continuous = runs[r].continuous
                                  /\ runs'[r].cancel = runs[r].cancel,
           Active \subseteq DOMAIN runs,
           AutoStopped(Len(runs))' => AutoStopped(Len(runs))
    PROVE  Single'
  BY DEF Single, OnlyNewestActive, Untouched, RecoveryIsSafe, StartsAreSafe

LEMMA SingleTask ==
    ASSUME MonitorInv, Single, NEW r \in RunIds,
           TaskStops(r) \/ TaskFails(r) \/ TaskCompletes(r) \/ TaskGone(r)
    PROVE  Single'
<1>1. CASE TaskStops(r) \/ TaskFails(r) \/ TaskCompletes(r)
  <2>1. /\ r \in DOMAIN runs
        /\ Len(runs') = Len(runs) /\ DOMAIN runs' = DOMAIN runs
        /\ Active' = Active \ {r}
        /\ \A q \in DOMAIN runs \ {r} : runs'[q] = runs[q]
        /\ runs'[r].error \in {runs[r].error, "other"}
        /\ runs'[r].continuous = runs[r].continuous /\ runs'[r].cancel = runs[r].cancel
        /\ UNCHANGED <<recovery, start, stop>>
    BY <1>1, TaskWrote DEF MonitorInv
  <2>2. AutoStopped(Len(runs))' => AutoStopped(Len(runs))
    <3>1. SUFFICES ASSUME AutoStopped(Len(runs))' PROVE AutoStopped(Len(runs))
      OBVIOUS
    <3>2. Len(runs) # NoRun /\ Len(runs) \in DOMAIN runs
      BY <2>1, <3>1, Rows DEF AutoStopped, NoRun, MonitorInv
    <3>3. runs[Len(runs)].continuous /\ runs[Len(runs)].error = "orphan"
      BY <2>1, <3>1, <3>2 DEF AutoStopped
    <3>4. QED
      BY <3>2, <3>3 DEF AutoStopped, MonitorInv, RowsMarked
  <2>3. Active \subseteq DOMAIN runs
    BY DEF Active
  <2>4. QED
    BY <2>1, <2>2, <2>3, SingleCloses
<1>2. CASE TaskGone(r)
  <2>1. UNCHANGED <<runs, recovery, start, stop>>
    BY <1>2 DEF TaskGone
  <2>2. Active' = Active /\ AutoStopped(Len(runs))' = AutoStopped(Len(runs))
    BY <2>1 DEF Active, AutoStopped
  <2>3. Active \subseteq DOMAIN runs
    BY DEF Active
  <2>4. QED
    BY <2>1, <2>2, <2>3, SingleCloses
<1>3. QED
  BY <1>1, <1>2

LEMMA RowsSame ==
    ASSUME UNCHANGED runs
    PROVE  Active' = Active /\ AutoStopped(Len(runs))' = AutoStopped(Len(runs))
  BY DEF Active, AutoStopped

\* A recovery that ends lets the waiting starts go on when the newest row asks for
\* no replacement.
LEMMA SingleRelease ==
    ASSUME MonitorInv, Single, EndRecovery, UNCHANGED <<runs, stop>>, ~AutoStopped(Len(runs))
    PROVE  Single'
<1>1. /\ recovery'.at = "none"
      /\ \A x \in Starters : start'[x] = start[x] \/ start'[x].at = "check"
  BY Released DEF MonitorInv
<1>2. OnlyNewestActive' /\ Untouched' /\ RecoveryIsSafe'
  BY <1>1, RowsSame DEF Single, OnlyNewestActive, Untouched, RecoveryIsSafe
<1>3. StartsAreSafe'
  BY <1>1, RowsSame DEF Single, StartsAreSafe
<1>4. QED
  BY <1>2, <1>3 DEF Single

LEMMA SinglePoll ==
    ASSUME Single, UNCHANGED <<runs, stop>>,
           \A x \in Starters : start'[x] = start[x] \/ start'[x].at \in {"wait", "none", "launch"},
           recovery' = recovery \/ (recovery.at = "none" /\ recovery'.at = "active")
    PROVE  Single'
<1>1. Active' = Active /\ AutoStopped(Len(runs))' = AutoStopped(Len(runs))
  BY RowsSame
<1>2. OnlyNewestActive' /\ Untouched' /\ RecoveryIsSafe'
  BY <1>1 DEF Single, OnlyNewestActive, Untouched, RecoveryIsSafe
<1>3. StartsAreSafe'
  BY <1>1 DEF Single, StartsAreSafe
<1>4. QED
  BY <1>2, <1>3 DEF Single

LEMMA SingleReadsActive ==
    ASSUME MonitorInv, Single, RecoveryReadsActive
    PROVE  Single'
<1> DEFINE r == Newest(Active)
<1>1. UNCHANGED <<runs, stop>> /\ recovery.at = "active"
  BY DEF RecoveryReadsActive
<1>2. /\ r # NoRun => r \in Active /\ Active = {r} /\ r = Len(runs)
      /\ r = NoRun => Active = {}
      /\ NoRun \notin DOMAIN runs /\ Active \subseteq DOMAIN runs
  BY NewestIsActive, Rows DEF MonitorInv, Single, OnlyNewestActive, NoRun
<1>3. CASE r \in controllers
  <2>1. EndRecovery /\ r # NoRun
    BY <1>2, <1>3 DEF RecoveryReadsActive, MonitorInv, TypeOK
  <2>2. ~AutoStopped(Len(runs))
    BY <1>2, <2>1 DEF AutoStopped, Active
  <2>3. QED
    BY <1>1, <2>1, <2>2, SingleRelease
<1>4. CASE r \notin controllers
  <2>1. /\ recovery' = [at |-> IF Stored(r) THEN "cleanAll" ELSE "cleanStale",
                        keep |-> controllers, old |-> DOMAIN runs, run |-> NoRun]
        /\ recovery'.keep = controllers /\ recovery'.old = DOMAIN runs
        /\ recovery'.at = IF Stored(r) THEN "cleanAll" ELSE "cleanStale"
        /\ UNCHANGED start
    BY <1>4 DEF RecoveryReadsActive
  <2>2. Stored(r) => Active = {r}
    BY <1>2 DEF Stored
  <2>3. ~Stored(r) => \A q \in Active : ~runs[q].continuous
    BY <1>2 DEF Stored, Single, Untouched
  <2>4. OnlyNewestActive' /\ Untouched'
    BY <1>1, RowsSame DEF Single, OnlyNewestActive, Untouched
  <2>5. RecoveryIsSafe'
    BY <1>1, <1>4, <2>1, <2>2, <2>3, RowsSame DEF RecoveryIsSafe
  <2>6. StartsAreSafe'
    BY <1>1, <2>1, <2>2, RowsSame DEF Single, StartsAreSafe
  <2>7. QED
    BY <2>4, <2>5, <2>6 DEF Single
<1>5. QED
  BY <1>3, <1>4

LEMMA SingleCleans ==
    ASSUME MonitorInv, Single, RecoveryCleans
    PROVE  Single'
<1>1. Active \subseteq DOMAIN runs
  BY DEF Active
<1>2. CASE RecoveryCleansAll
  <2>1. /\ recovery.at = "cleanAll" /\ recovery' = [NoRecovery EXCEPT !.at = "create"]
        /\ StopOrphans(recovery.keep, DOMAIN runs) /\ UNCHANGED <<start, stop>>
    BY <1>2 DEF RecoveryCleansAll
  <2>2. recovery'.at = "create"
    BY <2>1, RecoveryAt DEF MonitorInv
  <2>3. Active' = Active \ (DOMAIN runs \ recovery.keep)
    BY <2>1, Cleaned DEF MonitorInv
  <2>4. Active' = {}
    BY <1>1, <2>1, <2>3 DEF Single, RecoveryIsSafe
  <2>5. QED
    BY <2>1, <2>2, <2>4 DEF Single, OnlyNewestActive, Untouched, RecoveryIsSafe, StartsAreSafe
<1>3. ASSUME NEW stale \in SUBSET (Active \cap recovery.old), RecoveryCleansStale(stale)
      PROVE  Single'
  <2>1. /\ recovery.at = "cleanStale" /\ recovery' = [NoRecovery EXCEPT !.at = "latest"]
        /\ StopOrphans(recovery.keep, stale) /\ UNCHANGED <<start, stop>>
    BY <1>3 DEF RecoveryCleansStale
  <2>2. recovery'.at = "latest"
    BY <2>1, RecoveryAt DEF MonitorInv
  <2>3. /\ Len(runs') = Len(runs) /\ DOMAIN runs' = DOMAIN runs
        /\ Active' = Active \ (stale \ recovery.keep)
        /\ \A r \in DOMAIN runs : r \notin (Active \cap stale) \ recovery.keep => runs'[r] = runs[r]
        /\ \A r \in DOMAIN runs : runs'[r].continuous = runs[r].continuous
    BY <2>1, Cleaned DEF MonitorInv
  <2>4. \A r \in stale : ~runs[r].continuous
    BY <2>1 DEF Single, RecoveryIsSafe
  <2>5. AutoStopped(Len(runs))' => AutoStopped(Len(runs))
    <3>1. SUFFICES ASSUME AutoStopped(Len(runs))' PROVE AutoStopped(Len(runs))
      OBVIOUS
    <3>2. Len(runs) # NoRun /\ Len(runs) \in DOMAIN runs
      BY <2>3, <3>1, Rows DEF AutoStopped, NoRun, MonitorInv
    <3>3. Len(runs) \notin stale
      BY <2>3, <2>4, <3>1, <3>2 DEF AutoStopped
    <3>4. QED
      BY <2>3, <3>1, <3>2, <3>3 DEF AutoStopped
  <2>6. OnlyNewestActive' /\ Untouched'
    BY <1>1, <2>1, <2>3 DEF Single, OnlyNewestActive, Untouched
  <2>7. RecoveryIsSafe'
    BY <2>2 DEF RecoveryIsSafe
  <2>8. StartsAreSafe'
    BY <2>1, <2>2, <2>3, <2>5 DEF Single, StartsAreSafe
  <2>9. QED
    BY <2>6, <2>7, <2>8 DEF Single
<1>4. QED
  BY <1>2, <1>3 DEF RecoveryCleans

LEMMA SingleReadsLatest ==
    ASSUME MonitorInv, Single, RecoveryReadsLatest
    PROVE  Single'
<1>1. recovery.at = "latest" /\ UNCHANGED <<runs, stop>>
  BY DEF RecoveryReadsLatest
<1>2. CASE AutoStopped(Len(runs))
  <2>1. recovery' = [recovery EXCEPT !.at = "create"] /\ UNCHANGED start
    BY <1>2 DEF RecoveryReadsLatest
  <2>2. recovery'.at = "create"
    BY <2>1 DEF MonitorInv, TypeOK
  <2>3. Active = {}
    BY <1>2 DEF AutoStopped, Active, Single, OnlyNewestActive
  <2>4. \A x \in Starters : start[x].at \notin {"check", "insert"}
    BY <1>1, <1>2 DEF Single, StartsAreSafe
  <2>5. OnlyNewestActive' /\ Untouched'
    BY <1>1, RowsSame DEF Single, OnlyNewestActive, Untouched
  <2>6. RecoveryIsSafe' /\ StartsAreSafe'
    BY <1>1, <2>1, <2>2, <2>3, <2>4, RowsSame DEF RecoveryIsSafe, StartsAreSafe
  <2>7. QED
    BY <2>5, <2>6 DEF Single
<1>3. CASE ~AutoStopped(Len(runs))
  <2>1. EndRecovery
    BY <1>1, <1>3 DEF RecoveryReadsLatest
  <2>2. QED
    BY <1>1, <1>3, <2>1, SingleRelease
<1>4. QED
  BY <1>2, <1>3

\* A creation when no row is open
LEMMA CreateAlone ==
    ASSUME MonitorInv, Active = {}, NEW continuous \in BOOLEAN, CreateRun(continuous),
           UNCHANGED stop, stop.at = "none"
    PROVE  /\ OnlyNewestActive' /\ Untouched' /\ ~AutoStopped(Len(runs))'
           /\ DOMAIN runs \subseteq DOMAIN runs'
           /\ \A r \in DOMAIN runs : r \notin Active'
<1> DEFINE n == Len(runs) + 1
           row == [status |-> "running", cancel |-> FALSE, error |-> "none",
                   continuous |-> continuous]
<1>1. /\ Len(runs') = n /\ runs'[n] = row /\ Active' = Active \cup {n}
      /\ DOMAIN runs' = DOMAIN runs \cup {n} /\ n \notin DOMAIN runs
  BY Inserted DEF MonitorInv
<1>2. row.status = "running" /\ ~row.cancel
  OBVIOUS
<1> HIDE DEF n, row
<1>3. /\ Active' = {Len(runs')} /\ runs'[Len(runs')].status = "running"
      /\ ~runs'[Len(runs')].cancel
  BY <1>1, <1>2
<1>4. QED
  BY <1>1, <1>3 DEF OnlyNewestActive, Untouched, AutoStopped

LEMMA SingleCreates ==
    ASSUME MonitorInv, Single, RecoveryCreates \/ \E x \in Starters : StartCreates(x)
    PROVE  Single'
<1>1. CASE RecoveryCreates
  <2>1. /\ recovery.at = "create" /\ CreateRun(TRUE) /\ UNCHANGED <<start, stop>>
        /\ recovery' = [recovery EXCEPT !.at = "launch", !.run = Len(runs) + 1]
    BY <1>1 DEF RecoveryCreates
  <2>2. recovery'.at = "launch"
    BY <2>1 DEF MonitorInv, TypeOK
  <2>3. Active = {} /\ stop.at = "none" /\ \A x \in Starters : start[x].at # "insert"
    BY <2>1 DEF Single, Untouched, RecoveryIsSafe, StartsAreSafe
  <2>4. OnlyNewestActive' /\ Untouched' /\ ~AutoStopped(Len(runs))'
    BY <2>1, <2>3, CreateAlone
  <2>5. RecoveryIsSafe' /\ StartsAreSafe'
    BY <2>1, <2>2, <2>3, <2>4 DEF RecoveryIsSafe, StartsAreSafe
  <2>6. QED
    BY <2>4, <2>5 DEF Single
<1>2. ASSUME NEW x \in Starters, StartCreates(x) PROVE Single'
  <2>1. /\ start[x].at = "insert" /\ CreateRun(x \notin Once) /\ UNCHANGED <<recovery, stop>>
        /\ start' = [start EXCEPT ![x] = [at |-> "launch", run |-> Len(runs) + 1]]
    BY <1>2 DEF StartCreates
  <2>2. /\ Active = {} /\ recovery.at \notin {"cleanAll", "create"} /\ stop.at = "none"
        /\ \A y \in Starters \ {x} : start[y].at # "insert"
    BY <2>1 DEF Single, Untouched, StartsAreSafe
  <2>3. /\ OnlyNewestActive' /\ Untouched' /\ ~AutoStopped(Len(runs))'
        /\ DOMAIN runs \subseteq DOMAIN runs' /\ \A r \in DOMAIN runs : r \notin Active'
    BY <2>1, <2>2, CreateAlone
  <2>4. \A y \in Starters : start'[y].at # "insert"
    BY <2>1, <2>2 DEF MonitorInv, TypeOK
  <2>5. RecoveryIsSafe'
    BY <2>1, <2>2, <2>3 DEF Single, RecoveryIsSafe
  <2>6. StartsAreSafe'
    BY <2>3, <2>4 DEF StartsAreSafe
  <2>7. QED
    BY <2>3, <2>5, <2>6 DEF Single
<1>3. QED
  BY <1>1, <1>2

LEMMA SingleLaunches ==
    ASSUME MonitorInv, Single, RecoveryLaunches \/ \E x \in Starters : StartLaunches(x)
    PROVE  Single'
<1>1. CASE RecoveryLaunches
  <2>1. recovery.at = "launch" /\ EndRecovery /\ UNCHANGED <<runs, stop>>
    BY <1>1 DEF RecoveryLaunches
  <2>2. ~AutoStopped(Len(runs))
    BY <2>1 DEF Single, RecoveryIsSafe
  <2>3. QED
    BY <2>1, <2>2, SingleRelease
<1>2. ASSUME NEW x \in Starters, StartLaunches(x) PROVE Single'
  <2>1. UNCHANGED <<runs, recovery, stop>> /\ start' = [start EXCEPT ![x] = NoStart]
    BY <1>2 DEF StartLaunches
  <2>2. \A y \in Starters : start'[y] = start[y] \/ start'[y].at = "none"
    BY <2>1 DEF MonitorInv, TypeOK, NoStart
  <2>3. QED
    BY <2>1, <2>2, SinglePoll
<1>3. QED
  BY <1>1, <1>2

LEMMA SingleStart ==
    ASSUME MonitorInv, Single, NEW x \in Starters, StartCall(x) \/ StartChecks(x), ~raced'
    PROVE  Single'
<1>1. CASE StartCall(x)
  <2>1. /\ UNCHANGED <<runs, stop>> /\ BeginRecovery
        /\ start' = [start EXCEPT ![x] = [NoStart EXCEPT !.at = "wait"]]
    BY <1>1 DEF StartCall
  <2>2. recovery' = recovery \/ (recovery.at = "none" /\ recovery'.at = "active")
    BY <2>1, RecoveryAt DEF BeginRecovery, MonitorInv
  <2>3. \A y \in Starters : start'[y] = start[y] \/ start'[y].at = "wait"
    BY <2>1 DEF NoStart, MonitorInv, TypeOK
  <2>4. QED
    BY <2>1, <2>2, <2>3, SinglePoll
<1>2. CASE StartChecks(x)
  <2>1. UNCHANGED <<runs, recovery, stop>> /\ start[x].at = "check"
    BY <1>2 DEF StartChecks
  <2>2. CASE Active # {}
    <3>1. start' = [start EXCEPT ![x] = NoStart]
      BY <1>2, <2>2 DEF StartChecks
    <3>2. \A y \in Starters : start'[y] = start[y] \/ start'[y].at = "none"
      BY <3>1 DEF MonitorInv, TypeOK, NoStart
    <3>3. QED
      BY <2>1, <3>2, SinglePoll
  <2>3. CASE Active = {}
    <3>1. start' = [start EXCEPT ![x].at = "insert"] /\ ~Races(x)
      BY <1>2, <2>3 DEF StartChecks
    <3>2. /\ \A y \in Starters \ {x} : start'[y] = start[y] /\ start[y].at # "insert"
          /\ start'[x].at = "insert" /\ recovery.at \notin {"cleanAll", "create"}
      BY <3>1 DEF Races, MonitorInv, TypeOK
    <3>3. OnlyNewestActive' /\ Untouched' /\ RecoveryIsSafe'
      BY <2>1, RowsSame DEF Single, OnlyNewestActive, Untouched, RecoveryIsSafe
    <3>4. StartsAreSafe'
      BY <2>1, <2>3, <3>2, RowsSame DEF Single, StartsAreSafe
    <3>5. QED
      BY <3>3, <3>4 DEF Single
  <2>4. QED
    BY <2>2, <2>3
<1>3. QED
  BY <1>1, <1>2

LEMMA SingleCrash == ASSUME MonitorInv, Single, Crash PROVE Single'
<1>1. /\ UNCHANGED runs /\ recovery'.at = "none" /\ stop'.at = "none"
      /\ \A x \in Starters : start'[x].at = "none"
  BY CrashKeeps
<1>2. QED
  BY <1>1, RowsSame DEF Single, OnlyNewestActive, Untouched, RecoveryIsSafe, StartsAreSafe

\* What is stopped or raced stays so.
LEMMA HistoryKeeps ==
    ASSUME MonitorInv, [Next]_vars, userStopped' = {}, ~raced'
    PROVE  /\ userStopped = {} /\ ~raced
           /\ \A r \in RunIds : ~StopCall(r)
<1>1. ASSUME NEW r \in RunIds,
             TaskStops(r) \/ TaskFails(r) \/ TaskCompletes(r) \/ TaskGone(r)
      PROVE  UNCHANGED <<userStopped, raced>>
  BY <1>1, TaskWrote DEF TaskGone, MonitorInv
<1>2. ASSUME NEW x \in Starters,
             StartCall(x) \/ StartChecks(x) \/ StartCreates(x) \/ StartLaunches(x)
      PROVE  userStopped' = userStopped /\ (raced => raced')
  <2>1. CASE StartChecks(x)
    <3>1. userStopped' = userStopped /\ (raced' = raced \/ raced' = (raced \/ Races(x)))
      BY <2>1 DEF StartChecks
    <3>2. raced => raced'
      BY <3>1, Zenon
    <3>3. QED
      BY <3>1, <3>2
  <2>2. QED
    BY <1>2, <2>1 DEF StartCall, StartCreates, StartLaunches
<1>3. ASSUME NEW r \in RunIds, StopCall(r) PROVE FALSE
  BY <1>3 DEF StopCall
<1>4. ASSUME \/ Poll \/ RecoveryReadsActive \/ RecoveryCleans \/ RecoveryReadsLatest
             \/ RecoveryCreates \/ RecoveryLaunches \/ StopCleans \/ Crash \/ UNCHANGED vars
      PROVE  UNCHANGED <<userStopped, raced>>
  <2>1. CASE RecoveryCleans
    <3>1. ASSUME NEW stale, RecoveryCleansStale(stale) PROVE UNCHANGED <<userStopped, raced>>
      BY <3>1 DEF RecoveryCleansStale
    <3>2. QED
      BY <2>1, <3>1 DEF RecoveryCleans, RecoveryCleansAll
  <2>2. CASE UNCHANGED vars
    BY <2>2 DEF vars
  <2>3. QED
    BY <1>4, <2>1, <2>2 DEF Poll, RecoveryReadsActive, RecoveryReadsLatest, RecoveryCreates,
       RecoveryLaunches, StopCleans, Crash
<1>5. QED
  BY <1>1, <1>2, <1>3, <1>4 DEF Next

LEMMA SingleStep == SingleInv /\ [Next]_vars => SingleInv'
<1> SUFFICES ASSUME SingleInv, [Next]_vars PROVE SingleInv'
  OBVIOUS
<1>1. MonitorInv /\ MonitorInv'
  BY MonitorStep DEF SingleInv
<1>2. ASSUME userStopped' = {}, ~raced' PROVE Single'
  <2>1. Single /\ \A r \in RunIds : ~StopCall(r)
    BY <1>1, <1>2, HistoryKeeps DEF SingleInv
  <2>2. ~StopCleans
    BY <2>1 DEF StopCleans, Single, Untouched
  <2>3. CASE Poll \/ UNCHANGED vars
    <3>1. /\ UNCHANGED <<runs, stop, start>>
          /\ recovery' = recovery \/ (recovery.at = "none" /\ recovery'.at = "active")
      BY <1>1, <2>3, PollKeeps DEF vars, Poll
    <3>2. QED
      BY <2>1, <3>1, SinglePoll
  <2>4. QED
    BY <1>1, <1>2, <2>1, <2>2, <2>3, SingleTask, SingleReadsActive, SingleCleans,
       SingleReadsLatest, SingleCreates, SingleLaunches, SingleStart, SingleCrash DEF Next
<1>3. QED
  BY <1>1, <1>2 DEF SingleInv

\* For any number of callers, and any stops, restarts and rows: until a user stops
\* a run, at most one monitor works, unless a start has passed its check between
\* the check and the insert of another or while a recovery was replacing a run.
THEOREM OneMonitorWorks == Spec => []AtMostOneMonitor
<1>1. Init => SingleInv
  BY SingleInit
<1>2. SingleInv /\ [Next]_vars => SingleInv'
  BY SingleStep
<1>3. SingleInv => AtMostOneMonitor
  <2> SUFFICES ASSUME SingleInv, userStopped = {}, ~raced PROVE Cardinality(Wanted) <= 1
    BY DEF AtMostOneMonitor
  <2>1. Wanted \subseteq {Len(runs)}
    BY DEF SingleInv, MonitorInv, Single, ClosedRowEndsLoop, OnlyNewestActive
  <2>2. Cardinality({Len(runs)}) = 1 /\ IsFiniteSet({Len(runs)})
    BY FS_Singleton
  <2>3. Cardinality(Wanted) <= Cardinality({Len(runs)})
    BY <2>1, <2>2, FS_Subset
  <2>4. QED
    BY <2>2, <2>3
<1>4. QED
  BY <1>1, <1>2, <1>3, PTL DEF Spec
=============================================================================
