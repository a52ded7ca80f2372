--------------------------- MODULE HealthAlerts ---------------------------
(***************************************************************************)
(* The proactive monitor of the cron process: every cycle runs all checks, *)
(* tells the operator of conditions that are over and of new ones, and     *)
(* keeps what it has told in memory (monitor/runner.ts, dedup.ts,          *)
(* checks.ts) and in monitor_alerts (alert-store.ts).                      *)
(*                                                                         *)
(* An alert's key is its title, and the titles of most checks hold what    *)
(* was measured: a check has one title per reading.  Levels, details and   *)
(* the text of messages are left out.  A message is told once its row is   *)
(* in the delivery queue.                                                  *)
(***************************************************************************)
EXTENDS Naturals, FiniteSets

CONSTANTS
    Checks,     \* the checks, each of one condition
    Readings,   \* per check how many readings are beyond its threshold
    Cycles,     \* bound: cycles in flight at once, numbered
    MaxFaults   \* bound: failing checks and queries, restarts, and times that a cycle
                \* takes longer than the interval or the cooldown

ASSUME AlertsAssumption ==
    /\ Readings \in [Checks -> Nat \ {0}] /\ MaxFaults \in Nat
    /\ IsFiniteSet(Checks)

Keys == UNION {{c} \X (1..Readings[c]) : c \in Checks}

VARIABLES
    bad,     \* per check the reading beyond the threshold, 0 when there is none
    entry,   \* entries of the deduplicator: how long ago a key was fired; fresh
             \* within the cooldown, cool after it, old after two of them
    cycle,   \* runChecks: the cycles and their locals
    open,    \* keys with a row in monitor_alerts whose resolved_at is null
    told,    \* history: the operator's last message on a key, past once the
             \* cooldown is over
    left,    \* history: keys whose condition was left since a check last saw it,
             \* as long as the monitor is calm
    calm,    \* history: no query failed, no restart, no two cycles at a time and
             \* none longer than a cooldown
    faults

alertVars == <<bad, entry, cycle, open, told, left, calm, faults>>

Idle == [at |-> "idle"]
Stages == {"checks", "resolve", "close", "tell", "announce", "fire", "record"}

AlertsTypeOK ==
    /\ \A c \in Checks : bad[c] \in 0..Readings[c]
    /\ entry \in [Keys -> {"none", "fresh", "cool", "old"}]
    /\ \A y \in Cycles : cycle[y] = Idle \/
           cycle[y] \in [at : Stages, pending : SUBSET Checks, blind : BOOLEAN,
                         results : SUBSET Keys, todo : SUBSET Keys, key : SUBSET Keys]
    /\ open \subseteq Keys /\ left \subseteq Keys
    /\ told \in [Keys -> {"nothing", "alert", "past", "resolved"}]
    /\ calm \in BOOLEAN /\ faults \in 0..MaxFaults

AlertsInit ==
    /\ bad = [c \in Checks |-> 0]
    /\ entry = [k \in Keys |-> "none"]
    /\ cycle = [y \in Cycles |-> Idle]
    /\ open = {} /\ left = {}
    /\ told = [k \in Keys |-> "nothing"]
    /\ calm = TRUE /\ faults = 0

Fault == faults < MaxFaults /\ faults' = faults + 1

At(y, p) == cycle[y] # Idle /\ cycle[y].at = p
Busy     == {y \in Cycles : cycle[y] # Idle}
\* getActiveKeys
Active   == {k \in Keys : entry[k] # "none"}

\* What is measured changes.
Measured(c, reading) ==
    /\ bad[c] # reading
    /\ bad' = [bad EXCEPT ![c] = reading]
    /\ left' = IF calm THEN left \cup ({<<c, bad[c]>>} \cap Keys) ELSE {}
    /\ UNCHANGED <<entry, cycle, open, told, calm, faults>>

\* The monitor is no longer calm; what was left does not matter any more.
Upset == calm' = FALSE /\ left' = {}

\* A step that finds a cycle in flight only when that cycle is slow.
SlowIfBusy == IF Busy = {} THEN UNCHANGED <<left, calm, faults>> ELSE Fault /\ Upset

\* Time passes.
Age(k) ==
    LET older == [fresh |-> "cool", cool |-> "old", old |-> "old", none |-> "none"] IN
    /\ entry[k] \in {"fresh", "cool"} \/ told[k] = "alert"
    /\ entry' = [entry EXCEPT ![k] = older[@]]
    /\ told' = [told EXCEPT ![k] = IF @ = "alert" THEN "past" ELSE @]
    /\ SlowIfBusy
    /\ UNCHANGED <<bad, cycle, open>>

\* The interval, and start() which begins the first cycle at once.
CheckTick(y) ==
    /\ cycle[y] = Idle /\ \A z \in Cycles : z < y => cycle[z] # Idle
    /\ cycle' = [cycle EXCEPT ![y] = [at |-> "checks", pending |-> Checks, blind |-> FALSE,
                                      results |-> {}, todo |-> {}, key |-> {}]]
    /\ SlowIfBusy
    /\ UNCHANGED <<bad, entry, open, told>>

\* One of runAllChecks' checks, all of which run at the same time.
CheckReturns(y, c) ==
    /\ At(y, "checks") /\ c \in cycle[y].pending
    /\ LET seen == {<<c, bad[c]>>} \cap Keys IN
       /\ cycle' = [cycle EXCEPT ![y].pending = @ \ {c}, ![y].results = @ \cup seen]
       /\ left' = left \ seen
    /\ UNCHANGED <<bad, entry, open, told, calm, faults>>

\* A check rejects or finds no probe: it contributes nothing to the results.
CheckFails(y, c) ==
    /\ At(y, "checks") /\ c \in cycle[y].pending
    /\ Fault
    /\ cycle' = [cycle EXCEPT ![y].pending = @ \ {c}, ![y].blind = TRUE]
    /\ UNCHANGED <<bad, entry, open, told, left, calm>>

\* Mutant of AllSettled: the first check to return is enough.
FirstSettled(y) ==
    /\ At(y, "checks") /\ cycle[y].pending # Checks
    /\ cycle' = [cycle EXCEPT ![y].at = "resolve", ![y].todo = Active \ cycle[y].results]
    /\ UNCHANGED <<bad, entry, open, told, left, calm, faults>>

\* handleResolved takes the active keys.
AllSettled(y) ==
    /\ At(y, "checks") /\ cycle[y].pending = {}
    /\ cycle' = [cycle EXCEPT ![y].at = "resolve", ![y].todo = Active \ cycle[y].results]
    /\ UNCHANGED <<bad, entry, open, told, left, calm, faults>>

\* One that is over leaves the active keys before its row is closed.
MarkResolved(y) ==
    /\ At(y, "resolve")
    /\ \E k \in cycle[y].todo :
           /\ entry' = [entry EXCEPT ![k] = "none"]
           /\ cycle' = [cycle EXCEPT ![y].at = "close", ![y].todo = @ \ {k}, ![y].key = {k}]
    /\ UNCHANGED <<bad, open, told, left, calm, faults>>

\* Mutant of ResolveAlert: the row is left as it is.
ResolveAlertSkipped(y) ==
    /\ At(y, "close")
    /\ cycle' = [cycle EXCEPT ![y].at = "tell"]
    /\ UNCHANGED <<bad, entry, open, told, left, calm, faults>>

\* resolveAlert
ResolveAlert(y) ==
    /\ At(y, "close")
    /\ open' = open \ cycle[y].key
    /\ cycle' = [cycle EXCEPT ![y].at = "tell"]
    /\ UNCHANGED <<bad, entry, told, left, calm, faults>>

EnqueueResolved(y) ==
    /\ At(y, "tell")
    /\ told' = [k \in Keys |-> IF k \in cycle[y].key THEN "resolved" ELSE told[k]]
    /\ cycle' = [cycle EXCEPT ![y].at = "resolve", ![y].key = {}]
    /\ UNCHANGED <<bad, entry, open, left, calm, faults>>

\* Mutant of ShouldFire: a key that was fired is not fired again.
ShouldFireOnce(k) == entry[k] = "none"

\* shouldFire
ShouldFire(k) == entry[k] # "fresh"

\* The entries that cleanup leaves.
Cleaned == [k \in Keys |-> IF entry[k] = "old" THEN "none" ELSE entry[k]]

\* handleNewAlerts chooses what to fire; without anything the cycle ends.
ChooseNew(y) ==
    LET new == {k \in cycle[y].results : ShouldFire(k)} IN
    /\ At(y, "resolve") /\ cycle[y].todo = {}
    /\ IF new = {}
       THEN cycle' = [cycle EXCEPT ![y] = Idle] /\ entry' = Cleaned
       ELSE /\ cycle' = [cycle EXCEPT ![y].at = "announce", ![y].todo = new,
                                      ![y].results = {}, ![y].blind = FALSE]
            /\ UNCHANGED entry
    /\ UNCHANGED <<bad, open, told, left, calm, faults>>

\* One message for all of them ...
EnqueueBatch(y) ==
    /\ At(y, "announce")
    /\ told' = [k \in Keys |-> IF k \in cycle[y].todo THEN "alert" ELSE told[k]]
    /\ cycle' = [cycle EXCEPT ![y].at = "fire"]
    /\ UNCHANGED <<bad, entry, open, left, calm, faults>>

\* ... then each is marked and its row is inserted,
MarkFired(y) ==
    /\ At(y, "fire")
    /\ \E k \in cycle[y].todo :
           /\ entry' = [entry EXCEPT ![k] = "fresh"]
           /\ cycle' = [cycle EXCEPT ![y].at = "record", ![y].todo = @ \ {k}, ![y].key = {k}]
    /\ UNCHANGED <<bad, open, told, left, calm, faults>>

RecordAlert(y) ==
    /\ At(y, "record")
    /\ open' = open \cup cycle[y].key
    /\ cycle' = [cycle EXCEPT ![y].at = "fire", ![y].key = {}]
    /\ UNCHANGED <<bad, entry, told, left, calm, faults>>

\* and the cycle ends with cleanup.
CycleEnds(y) ==
    /\ At(y, "fire") /\ cycle[y].todo = {}
    /\ cycle' = [cycle EXCEPT ![y] = Idle]
    /\ entry' = Cleaned
    /\ UNCHANGED <<bad, open, told, left, calm, faults>>

\* The catch of runChecks: the cycle ends where it is.
QueryFails(y) ==
    /\ cycle[y] # Idle /\ cycle[y].at \in {"close", "tell", "announce", "record"}
    /\ Fault
    /\ cycle' = [cycle EXCEPT ![y] = Idle]
    /\ Upset
    /\ UNCHANGED <<bad, entry, open, told>>

\* The process restarts: the deduplicator is empty, no row is read back.
RestartMonitor ==
    /\ Fault
    /\ entry' = [k \in Keys |-> "none"]
    /\ cycle' = [y \in Cycles |-> Idle]
    /\ Upset
    /\ UNCHANGED <<bad, open, told>>

CycleStep(y) ==
    \/ CheckTick(y) \/ (\E c \in Checks : CheckReturns(y, c)) \/ AllSettled(y)
    \/ MarkResolved(y) \/ ResolveAlert(y) \/ EnqueueResolved(y) \/ ChooseNew(y)
    \/ EnqueueBatch(y) \/ MarkFired(y) \/ RecordAlert(y) \/ CycleEnds(y)

AlertsNext ==
    \/ \E c \in Checks : \E r \in 0..Readings[c] : Measured(c, r)
    \/ \E k \in Keys : Age(k)
    \/ \E y \in Cycles :
           \/ CheckTick(y) \/ (\E c \in Checks : CheckReturns(y, c) \/ CheckFails(y, c))
           \/ AllSettled(y) \/ MarkResolved(y) \/ ResolveAlert(y) \/ EnqueueResolved(y)
           \/ ChooseNew(y) \/ EnqueueBatch(y) \/ MarkFired(y) \/ RecordAlert(y)
           \/ CycleEnds(y) \/ QueryFails(y)
    \/ RestartMonitor

\* The interval fires, checks return and queries end.
AlertsFairness == \A y \in Cycles : WF_alertVars(CycleStep(y))

AlertsSpec == AlertsInit /\ [][AlertsNext]_alertVars
AlertsFairSpec == AlertsSpec /\ AlertsFairness
-----------------------------------------------------------------------------
(* Properties *)

\* Between two cycles memory, table and operator agree: what is active has a row
\* that is open and was announced last, and nothing else has.
BooksAgree ==
    calm /\ Busy = {} =>
        /\ open = Active
        /\ Active = {k \in Keys : told[k] \in {"alert", "past"}}

\* The operator is told nothing false: no alert is repeated within its cooldown,
\* and what is declared resolved was left since a check last saw it -- in a cycle
\* all of whose checks returned, while no other cycle is in flight.
ToldTruly ==
    [][\A y \in Cycles : calm =>
           /\ At(y, "announce") /\ At(y, "fire")' =>
                  \A k \in cycle[y].todo : told[k] # "alert"
           /\ At(y, "resolve") /\ At(y, "close")' /\ ~cycle[y].blind =>
                  cycle'[y].key \subseteq left]_alertVars

\* A condition that lasts with one reading is reported, and again after every
\* cooldown, whatever has failed before.
LastingIsReported ==
    \A k \in Keys : <>[](bad[k[1]] = k[2]) =>
        []<>(told[k] = "alert" \/ entry[k] = "fresh")

\* What holds of memory, table and messages at every moment.
AlertsSound == AlertsTypeOK /\ BooksAgree
=============================================================================
