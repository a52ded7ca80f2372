-------------------------- MODULE ProcessCommands --------------------------
(***************************************************************************)
(* The process_commands table and its consumers: process/commands.ts, the  *)
(* poll loop and the shutdown paths of process/supervisor.ts, and          *)
(* processCommands of cron/scheduler.ts.                                   *)
(*                                                                         *)
(* A sender inserts a row addressed to a process name.  Every live         *)
(* instance of that name polls the table and claims all pending rows at    *)
(* once.  The cron process polls it twice: its supervisor handles only     *)
(* "restart" and "stop", its scheduler only "cron:run_job".                *)
(***************************************************************************)
EXTENDS Naturals, Sequences, FiniteSets

CONSTANTS
    Commands,        \* ids of the rows that may be inserted
    CronInstances,   \* operating-system processes registered as "cron"
    AgentInstances,  \* those registered as one other child, here "agent"
    MaxDbErrors      \* bound: failing database calls in a behaviour

ASSUME CommandsAssumption ==
    /\ CronInstances \cap AgentInstances = {}
    /\ MaxDbErrors \in Nat

Names      == {"cron", "agent"}
Actions    == {"restart", "stop", "cron:run_job"}
Instances  == CronInstances \cup AgentInstances
NameOf(i)  == IF i \in CronInstances THEN "cron" ELSE "agent"

\* cron:run_job is only ever sent to the cron process.
Command == [target : Names, action : {"restart", "stop"}]
           \cup [target : {"cron"}, action : {"cron:run_job"}]

\* Who runs a poll: the supervisor's command timer, the scheduler's tick, or
\* (no poll at all) the SIGTERM/SIGINT handler, which drains the same hooks.
Handles(who) == CASE who = "supervisor" -> {"restart", "stop"}
                  [] who = "scheduler"  -> {"cron:run_job"}
                  [] who = "signal"     -> {}

\* One running handler: the claimed commands it has still to handle, and
\* where it is.  "tick" is a scheduler tick that has not claimed yet.
Handler == [inst : Instances, who : {"supervisor", "scheduler", "signal"},
            step : {"tick", "loop", "drain", "unregister"},
            todo : SUBSET Commands]

VARIABLES
    cmd,       \* the payload of each row: target and action
    table,     \* the row: "unsent", "pending", "claimed" or "deleted"
    up,        \* the live instances
    stopping,  \* instances whose supervisor has running = false
    ticking,   \* cron instances whose scheduler's interval is armed
    handlers,  \* handlers in flight, suspended at an await
    dbErrors,  \* number of database calls that failed
    handedOut, \* history: how often a row was returned by a claim
    ran,       \* history: instances in which a command took effect
    skipped    \* history: commands claimed by a poll that drops them

vars == <<cmd, table, up, stopping, ticking, handlers, dbErrors,
          handedOut, ran, skipped>>
instVars == <<up, stopping, ticking>>
history  == <<handedOut, ran, skipped>>

TypeOK ==
    /\ cmd \in [Commands -> Command]
    /\ table \in [Commands -> {"unsent", "pending", "claimed", "deleted"}]
    /\ up \subseteq Instances
    /\ stopping \subseteq up
    /\ ticking \subseteq up \cap CronInstances
    /\ handlers \subseteq Handler
    /\ dbErrors \in Nat
    /\ handedOut \in [Commands -> Nat]
    /\ ran \in [Commands -> SUBSET Instances]
    /\ skipped \subseteq Commands

Init ==
    /\ cmd \in [Commands -> Command]
    /\ table = [c \in Commands |-> "unsent"]
    /\ up = {} /\ stopping = {} /\ ticking = {}
    /\ handlers = {}
    /\ dbErrors = 0
    /\ handedOut = [c \in Commands |-> 0]
    /\ ran = [c \in Commands |-> {}]
    /\ skipped = {}

-----------------------------------------------------------------------------
(* The table *)

SendCommand(c) ==
    /\ table[c] = "unsent"
    /\ table' = [table EXCEPT ![c] = "pending"]
    /\ UNCHANGED <<cmd, instVars, handlers, dbErrors, history>>

\* Mutants of Claimable: the pending test, or the target test, is lost.
ClaimableTwice(name) ==
    {c \in Commands : table[c] \in {"pending", "claimed"} /\ cmd[c].target = name}
ClaimableAnyTarget(name) == {c \in Commands : table[c] = "pending"}

\* The rows one UPDATE ... WHERE target = .. AND acknowledged_at IS NULL
\* RETURNING hands to the caller.
Claimable(name) == {c \in Commands : table[c] = "pending" /\ cmd[c].target = name}

\* The claim of one poll.  The rows the caller's loop only `continue`s over
\* are dropped here: skipping awaits nothing.
Claim(i, who) ==
    LET rows == Claimable(NameOf(i)) IN
    /\ table' = [c \in Commands |-> IF c \in rows THEN "claimed" ELSE table[c]]
    /\ handedOut' = [c \in Commands |-> handedOut[c] + (IF c \in rows THEN 1 ELSE 0)]
    /\ skipped' = skipped \cup {c \in rows : cmd[c].action \notin Handles(who)}
    /\ UNCHANGED ran

\* Mutant of Mine: the loop handles what it should skip.
MineUnfiltered(i, who) == Claimable(NameOf(i))

\* The claimed rows the poll's own loop deals with.
Mine(i, who) == {c \in Claimable(NameOf(i)) : cmd[c].action \in Handles(who)}

\* The 5-minute sweep of any live supervisor.  It deletes by age alone, so an
\* unclaimed row goes too; which rows are older than 900 s is left open.
CleanupOldCommands(i, old) ==
    /\ i \in up
    /\ \A c \in old : table[c] # "unsent"
    /\ table' = [c \in Commands |-> IF c \in old THEN "deleted" ELSE table[c]]
    /\ UNCHANGED <<cmd, instVars, handlers, dbErrors, history>>

-----------------------------------------------------------------------------
(* The supervisor's poll *)

Advance(h, s, rest) == (handlers \ {h}) \cup {[h EXCEPT !.step = s, !.todo = rest]}

\* Mutant of SupervisorPoll: a guard shared with every handler in flight.
SupervisorPollIfIdle(i) ==
    /\ i \in up
    /\ \A h \in handlers : h.inst # i
    /\ Claimable(NameOf(i)) # {}
    /\ Claim(i, "supervisor")
    /\ LET mine == Mine(i, "supervisor") IN
       handlers' = handlers \cup
           (IF mine = {} THEN {}
            ELSE {[inst |-> i, who |-> "supervisor", step |-> "loop", todo |-> mine]})
    /\ UNCHANGED <<cmd, instVars, dbErrors>>

\* The interval has no re-entrancy guard: a second poll may start while an
\* earlier one is still draining.  It also goes on during a shutdown.
SupervisorPoll(i) ==
    /\ i \in up
    /\ Claimable(NameOf(i)) # {}
    /\ Claim(i, "supervisor")
    /\ LET mine == Mine(i, "supervisor") IN
       handlers' = handlers \cup
           (IF mine = {} THEN {}
            ELSE {[inst |-> i, who |-> "supervisor", step |-> "loop", todo |-> mine]})
    /\ UNCHANGED <<cmd, instVars, dbErrors>>

\* A claimed restart or stop: acknowledge it (already acknowledged: no
\* effect), then call the shutdown hooks, one of which stops the scheduler.
\* created_at has a resolution of a second, so any command may come first.
HandleProcessCommand(h, c) ==
    /\ h \in handlers /\ h.who = "supervisor" /\ h.step = "loop"
    /\ c \in h.todo
    /\ handlers' = Advance(h, "drain", h.todo \ {c})
    /\ ran' = [ran EXCEPT ![c] = @ \cup {h.inst}]
    /\ ticking' = ticking \ {h.inst}
    /\ UNCHANGED <<cmd, table, up, stopping, dbErrors, handedOut, skipped>>

\* Mutant of DrainHooks: no timeout, so a tick in flight holds the exit up.
DrainHooksUnbounded(h) ==
    /\ h \in handlers /\ h.step = "drain"
    /\ \A g \in handlers : g.inst = h.inst => g.who # "scheduler"
    /\ handlers' = Advance(h, "unregister", h.todo)
    /\ UNCHANGED <<cmd, table, instVars, dbErrors, history>>

\* The hooks settle, or the 10-second race times out.
DrainHooks(h) ==
    /\ h \in handlers /\ h.step = "drain"
    /\ handlers' = Advance(h, "unregister", h.todo)
    /\ UNCHANGED <<cmd, table, instVars, dbErrors, history>>

\* The end of a process: its timers and suspended handlers are gone.
Gone(i) ==
    /\ up' = up \ {i}
    /\ stopping' = stopping \ {i}
    /\ ticking' = ticking \ {i}
    /\ handlers' = {h \in handlers : h.inst # i}

\* unregisterProcess, then process.exit(0): whatever was still claimed and
\* unhandled in this process is gone with it.
ExitProcess(h) ==
    /\ h \in handlers /\ h.step = "unregister"
    /\ Gone(h.inst)
    /\ UNCHANGED <<cmd, table, dbErrors, history>>

\* SIGTERM or SIGINT; a second one is ignored.
Shutdown(i) ==
    /\ i \in up \ stopping
    /\ stopping' = stopping \cup {i}
    /\ ticking' = ticking \ {i}
    /\ handlers' = handlers \cup
           {[inst |-> i, who |-> "signal", step |-> "drain", todo |-> {}]}
    /\ UNCHANGED <<cmd, table, up, dbErrors, history>>

-----------------------------------------------------------------------------
(* The cron scheduler's tick *)

SchedulerBusy(i) == \E h \in handlers : h.inst = i /\ h.who = "scheduler"

\* tick() returns at once while an earlier tick is running.
TickStart(i) ==
    /\ i \in ticking
    /\ ~SchedulerBusy(i)
    /\ handlers' = handlers \cup
           {[inst |-> i, who |-> "scheduler", step |-> "tick", todo |-> {}]}
    /\ UNCHANGED <<cmd, table, instVars, dbErrors, history>>

\* processCommands, after the due jobs have run; stop() does not end a tick
\* in flight, so this happens during a shutdown too.
SchedulerPoll(h) ==
    /\ h \in handlers /\ h.step = "tick"
    /\ Claim(h.inst, "scheduler")
    /\ handlers' = Advance(h, "loop", Mine(h.inst, "scheduler"))
    /\ UNCHANGED <<cmd, instVars, dbErrors>>

\* One cron:run_job: acknowledge, look the job up and start it, or find that
\* the job has been removed.
RunJobCommand(h, c, known) ==
    /\ h \in handlers /\ h.who = "scheduler" /\ h.step = "loop"
    /\ c \in h.todo
    /\ handlers' = Advance(h, "loop", h.todo \ {c})
    /\ ran' = IF known THEN [ran EXCEPT ![c] = @ \cup {h.inst}] ELSE ran
    /\ UNCHANGED <<cmd, table, instVars, dbErrors, handedOut, skipped>>

TickEnd(h) ==
    /\ h \in handlers /\ h.who = "scheduler" /\ h.step = "loop" /\ h.todo = {}
    /\ handlers' = handlers \ {h}
    /\ UNCHANGED <<cmd, table, instVars, dbErrors, history>>

-----------------------------------------------------------------------------
(* Failures and restarts *)

\* A database call of the handler throws: the catch of pollCommands or tick
\* (or the unhandledRejection hook, for the signal handler) logs it and the
\* rest of the batch is forgotten.  Hooks wait for no database.
DbError(h) ==
    /\ h \in handlers /\ h.step # "drain"
    /\ dbErrors < MaxDbErrors
    /\ dbErrors' = dbErrors + 1
    /\ handlers' = handlers \ {h}
    /\ UNCHANGED <<cmd, table, instVars, history>>

Crash(i) ==
    /\ i \in up
    /\ Gone(i)
    /\ UNCHANGED <<cmd, table, dbErrors, history>>

\* A new instance starts; an old one of the same name may still be alive.
Boot(i) ==
    /\ i \in Instances \ up
    /\ up' = up \cup {i}
    /\ ticking' = IF i \in CronInstances THEN ticking \cup {i} ELSE ticking
    /\ UNCHANGED <<cmd, table, stopping, handlers, dbErrors, history>>

-----------------------------------------------------------------------------
HandlerStep(h) ==
    \/ \E c \in Commands : HandleProcessCommand(h, c)
    \/ DrainHooks(h)
    \/ ExitProcess(h)
    \/ SchedulerPoll(h)
    \/ \E c \in Commands, known \in BOOLEAN : RunJobCommand(h, c, known)
    \/ TickEnd(h)
    \/ DbError(h)

Next ==
    \/ \E c \in Commands : SendCommand(c)
    \/ \E i \in Instances, old \in SUBSET Commands : CleanupOldCommands(i, old)
    \/ \E i \in Instances : \/ SupervisorPoll(i)
                            \/ Shutdown(i) \/ TickStart(i)
                            \/ Crash(i) \/ Boot(i)
    \/ \E h \in handlers : HandlerStep(h)

\* Timers keep firing and awaited calls return while the process is alive;
\* nothing obliges senders, signals, crashes, restarts or errors to happen.
Fairness ==
    \A i \in Instances :
        /\ WF_vars(SupervisorPoll(i))
        /\ WF_vars(\E h \in handlers : h.inst = i /\ DrainHooks(h))
        /\ WF_vars(\E h \in handlers : h.inst = i /\ ExitProcess(h))
        /\ WF_vars(\E h \in handlers, c \in Commands :
                       h.inst = i /\ HandleProcessCommand(h, c))

Spec == Init /\ [][Next]_vars
FairSpec == Spec /\ Fairness

-----------------------------------------------------------------------------
(* Properties *)

\* No two polls are ever handed the same command, although an old and a new
\* instance of a process may poll side by side and a poll may overlap itself
\* (the claim described in commands.ts, consumePendingCommands).
HandedOutOnce == \A c \in Commands : handedOut[c] <= 1

\* A command in some handler's batch is that handler's alone, has been
\* acknowledged in the table, has not run yet, and is of a kind this handler
\* and this process deal with: nothing a claimed batch still holds can be run
\* by anybody else.
HeldByOneHandler ==
    \A h \in handlers : \A c \in h.todo :
        /\ \A g \in handlers : c \in g.todo => g = h
        /\ table[c] \in {"claimed", "deleted"} /\ ran[c] = {} /\ c \notin skipped
        /\ cmd[c].target = NameOf(h.inst) /\ cmd[c].action \in Handles(h.who)

\* A command takes effect in at most one instance, and only in an instance of
\* the process it is addressed to: a restart does not bring down the process's
\* successor as well.
RunsOnceWhereAddressed ==
    \A c \in Commands : \A i \in ran[c] :
        /\ ran[c] = {i}
        /\ NameOf(i) = cmd[c].target

\* The table with its pollers is an at-most-once channel.
PhaseOf(c) == CASE table[c] = "unsent"  -> "new"
                [] table[c] = "pending" -> "posted"
                [] OTHER -> IF ran[c] # {} THEN "done"
                            ELSE IF \E h \in handlers : c \in h.todo THEN "taken"
                            ELSE "lost"
Channel == INSTANCE AtMostOnceCommands WITH phase <- [c \in Commands |-> PhaseOf(c)]
AtMostOnceChannel == Channel!Spec

Draining(i) == \E h \in handlers : h.inst = i /\ h.step \in {"drain", "unregister"}

\* An instance that has begun to drain its hooks, for a command or a signal,
\* is gone in the end, however long its hooks take, as long as the database
\* answers (supervisor.ts drainHooks, shutdown).
DrainedInstanceExits == \A i \in Instances : Draining(i) ~> i \notin up \/ dbErrors > 0

\* A pending command does not stay pending while an instance of its process
\* stays up, whatever else that instance is doing.
PendingIsTaken ==
    \A c \in Commands, i \in Instances :
        table[c] = "pending" /\ NameOf(i) = cmd[c].target /\ i \in up
            ~> table[c] # "pending" \/ i \notin up

\* A poll that skips a command leaves it for the consumer it is meant for:
\* supervisor.ts:59 "Only handle process-level commands; skip app-specific ones".
SkippedStaysPending == \A c \in skipped : table[c] = "pending"
=============================================================================
