-------------------------- MODULE AgentInstances --------------------------
(***************************************************************************)
(* The instances of one agent process on a machine: how they find each     *)
(* other through their row of process_registry (process/supervisor.ts,     *)
(* registry.ts, instance-guard.ts, the orphan sweep of orchestrator.ts),   *)
(* and how their pollers hand the queued results of cron jobs and the      *)
(* monitor's messages to the channel (entries/agent.ts,                    *)
(* cron/delivery-poller.ts, delivery-store.ts), which an instance may lose *)
(* for a while or for good (channels/telegram/client.ts).                  *)
(*                                                                         *)
(* Pids are reused: a stranger is a process of the machine that is no      *)
(* instance.  The channel is outside the program: what it is asked to send *)
(* may have been posted although the call fails.                           *)
(***************************************************************************)
EXTENDS Naturals, FiniteSets, FiniteSetsExt

CONSTANTS
    Instances,  \* bound: the instances, numbered in the order in which they boot
    Polls,      \* bound: polls of one instance in flight at once, numbered
    Messages,   \* bound: the rows of cron_deliveries, numbered by created_at
    MaxFaults   \* bound: crashes, failing queries and sends, slow polls, missed
                \* heartbeats, reused pids, losses of the channel

ASSUME AgentsAssumption ==
    /\ Instances \subseteq Nat \ {0} /\ Polls \subseteq Nat /\ Messages \subseteq Nat
    /\ IsFiniteSet(Instances) /\ IsFiniteSet(Polls) /\ IsFiniteSet(Messages)
    /\ MaxFaults \in Nat

\* An instance gets a pid of its own, its number, or one that is free again.
Pids == Instances

VARIABLES
    inst,       \* the instances: where they are, their pid, whether they were started
                \* by hand on a host, or by the orchestrator or in a container, and
                \* their channel: connected, not connected, or given up
    victim,     \* the pid an instance's guard waits for
    term,       \* pids with a SIGTERM on its way
    strangers,  \* pids of other processes that are alive
    row,        \* the agent's row in process_registry
    poll,       \* poll: the ones in flight and their locals
    delivery,   \* the rows of cron_deliveries
    posts,      \* history: how often the channel has posted a message
    excused,    \* history: messages whose sending or marking was cut short, or
                \* that two polls held at a time
    struck,     \* history: a stranger was sent a signal
    faults

registry == <<inst, victim, term, strangers, row, struck>>
queue    == <<poll, delivery, posts, excused>>
vars     == <<registry, queue, faults>>

Modes  == {"host", "managed"}
Links  == {"up", "down", "over"}
Off    == [at |-> "off"]
Gone   == [at |-> "gone"]
NoRow  == [owner |-> 0]
NoPoll == [at |-> "none"]

Up      == {i \in Instances : inst[i].at \notin {"off", "gone"}}
\* isPidAlive
Alive   == {inst[i].pid : i \in Up} \cup strangers
Pending == {m \in Messages : delivery[m] = "pending"}

TypeOK ==
    /\ inst \in [Instances -> {Off, Gone} \cup
           [at : {"guard", "wait", "register", "live", "drain", "leave", "stuck"},
            pid : Pids, mode : Modes, link : Links]]
    /\ victim \in [Instances -> SUBSET Pids]
    /\ term \subseteq Pids /\ strangers \subseteq Pids
    /\ row = NoRow \/ row \in [owner : Instances, pid : Pids, stale : BOOLEAN]
    /\ \A i \in Instances, n \in Polls :
           poll[i][n] = NoPoll \/ poll[i][n] \in [at : {"send", "mark"}, todo : SUBSET Messages]
    /\ delivery \in [Messages -> {"new", "pending", "delivered"}]
    /\ posts \in [Messages -> 0..2] /\ excused \subseteq Messages
    /\ struck \in BOOLEAN /\ faults \in 0..MaxFaults

Init ==
    /\ inst = [i \in Instances |-> Off]
    /\ victim = [i \in Instances |-> {}]
    /\ term = {} /\ strangers = {} /\ struck = FALSE
    /\ row = NoRow
    /\ poll = [i \in Instances |-> [n \in Polls |-> NoPoll]]
    /\ delivery = [m \in Messages |-> "new"]
    /\ posts = [m \in Messages |-> 0] /\ excused = {}
    /\ faults = 0

Fault == faults < MaxFaults /\ faults' = faults + 1

At(i, p) == inst[i].at = p
To(i, p) == inst' = [inst EXCEPT ![i].at = p]

-----------------------------------------------------------------------------
(* The instances and their row *)

\* main of entries/agent.ts up to supervisor.start: the channel is connected and
\* the poller runs from here on.
\* The guard is skipped by what the orchestrator has spawned, and passes in a
\* container.
Boot(i, pid, mode) ==
    /\ At(i, "off") /\ \A j \in Instances : j < i => ~At(j, "off")
    /\ pid \notin Alive /\ pid <= i
    /\ inst' = [inst EXCEPT ![i] = [at |-> IF mode = "host" THEN "guard" ELSE "register",
                                    pid |-> pid, mode |-> mode, link |-> "up"]]
    /\ UNCHANGED <<victim, term, strangers, row, struck, queue, faults>>

\* The instances in S are gone and the others are as in states; what they have
\* posted and not marked stays pending.
Die(S, states) ==
    /\ inst' = [i \in Instances |-> IF i \in S THEN Gone ELSE states[i]]
    /\ victim' = [i \in Instances |-> IF states[i].at = "wait" /\ i \notin S THEN victim[i] ELSE {}]
    /\ poll' = [i \in Instances |-> IF i \in S THEN [n \in Polls |-> NoPoll] ELSE poll[i]]
    /\ excused' = excused \cup
           {Min(poll[p[1]][p[2]].todo) : p \in {q \in S \X Polls : poll[q[1]][q[2]].at = "mark"}}

\* decideStaleAction yields "kill": nothing here is an ancestor of an agent, and
\* a row carries the id of the instance that wrote it.
Kills(i) == row # NoRow /\ row.pid # inst[i].pid /\ row.pid \in Alive

\* ensureSingleInstance reads the row and sends SIGTERM,
GuardKills(i) ==
    /\ At(i, "guard") /\ Kills(i)
    /\ term' = term \cup {row.pid}
    /\ victim' = [victim EXCEPT ![i] = {row.pid}]
    /\ To(i, "wait")
    /\ UNCHANGED <<strangers, row, struck, queue, faults>>

\* or takes over without,
GuardPasses(i) ==
    /\ At(i, "guard") /\ ~Kills(i)
    /\ To(i, "register")
    /\ UNCHANGED <<victim, term, strangers, row, struck, queue, faults>>

\* waits until the process is gone,
VictimLeft(i) ==
    /\ At(i, "wait") /\ victim[i] \cap Alive = {}
    /\ victim' = [victim EXCEPT ![i] = {}]
    /\ To(i, "register")
    /\ UNCHANGED <<term, strangers, row, struck, queue, faults>>

\* and sends SIGKILL after three seconds.
VictimKilled(i, pid) ==
    /\ At(i, "wait") /\ pid \in victim[i] \cap Alive
    /\ term' = term \ {pid}
    /\ strangers' = strangers \ {pid} /\ struck' = (struck \/ pid \in strangers)
    /\ Die({j \in Up : inst[j].pid = pid}, [inst EXCEPT ![i].at = "register"])
    /\ UNCHANGED <<row, delivery, posts, faults>>

Mine(i) == [owner |-> i, pid |-> inst[i].pid, stale |-> FALSE]

\* registerProcess; the timers and the handlers of signals are set.
Register(i) ==
    /\ At(i, "register")
    /\ row' = Mine(i)
    /\ To(i, "live")
    /\ UNCHANGED <<victim, term, strangers, struck, queue, faults>>

Beats(i) == inst[i].at \in {"live", "drain", "leave", "stuck"}

\* Mutant of Heartbeat: a row that is missing stays missing.
HeartbeatUpdates(i) ==
    /\ Beats(i) /\ row \notin {NoRow, Mine(i)}
    /\ row' = Mine(i)
    /\ UNCHANGED <<inst, victim, term, strangers, struck, queue, faults>>

\* heartbeat, until the exit: a signal does not stop the timer.
Heartbeat(i) ==
    /\ Beats(i) /\ row # Mine(i)
    /\ row' = Mine(i)
    /\ UNCHANGED <<inst, victim, term, strangers, struck, queue, faults>>

\* No heartbeat for a minute.
RowAges ==
    /\ row # NoRow /\ ~row.stale
    /\ IF At(row.owner, "gone") THEN UNCHANGED faults ELSE Fault
    /\ row' = [row EXCEPT !.stale = TRUE]
    /\ UNCHANGED <<inst, victim, term, strangers, struck, queue>>

\* cleanupOrphans of an orchestrator that starts
Sweep ==
    /\ row # NoRow /\ row.stale /\ row.pid \in Alive \ term
    /\ term' = term \cup {row.pid}
    /\ UNCHANGED <<inst, victim, strangers, row, struck, queue, faults>>

\* A stop or restart by the user, the orchestrator or the service manager.
Stop(i) ==
    /\ At(i, "live") /\ inst[i].pid \notin term
    /\ term' = term \cup {inst[i].pid}
    /\ UNCHANGED <<inst, victim, strangers, row, struck, queue, faults>>

\* SIGTERM arrives.  An instance that is live drains: its poller's timer is
\* cleared.  One that has set no handlers yet dies, one that leaves goes on.
Terminated(i) ==
    /\ i \in Up /\ inst[i].pid \in term
    /\ term' = term \ {inst[i].pid}
    /\ CASE At(i, "live") -> To(i, "drain") /\ UNCHANGED <<victim, poll, excused>>
         [] inst[i].at \in {"guard", "wait", "register"} -> Die({i}, inst)
         [] OTHER -> UNCHANGED <<inst, victim, poll, excused>>
    /\ UNCHANGED <<strangers, row, struck, delivery, posts, faults>>

StrangerTerminated(pid) ==
    /\ pid \in strangers \cap term
    /\ term' = term \ {pid}
    /\ strangers' = strangers \ {pid} /\ struck' = TRUE
    /\ UNCHANGED <<inst, victim, row, queue, faults>>

\* The hooks are done or have taken too long: unregisterProcess deletes the row,
\* whosever it is.
Unregister(i) ==
    /\ At(i, "drain")
    /\ row' = NoRow
    /\ To(i, "leave")
    /\ UNCHANGED <<victim, term, strangers, struck, queue, faults>>

\* It fails: the rejection is logged, the process stays and beats.
UnregisterFails(i) ==
    /\ At(i, "drain") /\ Fault
    /\ To(i, "stuck")
    /\ UNCHANGED <<victim, term, strangers, row, struck, queue>>

Exit(i) ==
    /\ At(i, "leave")
    /\ Die({i}, inst)
    /\ term' = term \ {inst[i].pid}
    /\ UNCHANGED <<strangers, row, struck, delivery, posts, faults>>

\* An instance crashes, or a query of its start fails.
Crash(i) ==
    /\ i \in Up /\ Fault
    /\ Die({i}, inst)
    /\ term' = term \ {inst[i].pid}
    /\ UNCHANGED <<strangers, row, struck, delivery, posts>>

\* The pid of the row is handed out to another process.
PidReused ==
    /\ row # NoRow /\ row.pid \notin Alive /\ Fault
    /\ strangers' = strangers \cup {row.pid}
    /\ UNCHANGED <<inst, victim, term, row, struck, queue>>

-----------------------------------------------------------------------------
(* The channel of an instance: pollLoop of the Telegram client *)

Link(i, l) ==
    /\ inst' = [inst EXCEPT ![i].link = l]
    /\ UNCHANGED <<victim, term, strangers, row, struck, queue>>

\* getUpdates fails: not connected until it succeeds again.
LinkDrops(i) == i \in Up /\ inst[i].link = "up" /\ Fault /\ Link(i, "down")

Reconnects(i) == i \in Up /\ inst[i].link = "down" /\ Link(i, "up") /\ UNCHANGED faults

\* More than twenty conflicts in a row, as two instances that overlap for long
\* have them: the loop returns, and nothing starts another one.
LinkGivesUp(i) == i \in Up /\ inst[i].link # "over" /\ Fault /\ Link(i, "over")

-----------------------------------------------------------------------------
(* The queue and its pollers *)

\* A job's result or a message of the monitor is queued.
Enqueue(m) ==
    /\ delivery[m] = "new" /\ \A l \in Messages : l < m => delivery[l] # "new"
    /\ delivery' = [delivery EXCEPT ![m] = "pending"]
    /\ UNCHANGED <<registry, poll, posts, excused, faults>>

Polling(i) == inst[i].at \in {"guard", "wait", "register", "live"}
InFlight   == {q \in Instances \X Polls : poll[q[1]][q[2]] # NoPoll}

\* Mutants of Fetched: what was delivered comes too; what was posted never again.
FetchedUnposted == {m \in Pending : posts[m] = 0}
FetchedAll == {m \in Messages : delivery[m] # "new"}

\* getPending
Fetched == Pending

\* The interval fires and the channel is connected; a poll may be in flight
\* still when the channel is slow.
PollBegins(i, n) ==
    /\ Polling(i) /\ inst[i].link = "up" /\ poll[i][n] = NoPoll /\ Fetched # {}
    /\ \A k \in Polls : k < n => poll[i][k] # NoPoll
    /\ IF \E k \in Polls : poll[i][k] # NoPoll THEN Fault ELSE UNCHANGED faults
    /\ poll' = [poll EXCEPT ![i][n] = [at |-> "send", todo |-> Fetched]]
    /\ excused' = excused \cup UNION {Fetched \cap poll[p[1]][p[2]].todo : p \in InFlight}
    /\ UNCHANGED <<registry, delivery, posts>>

\* The poll is done with its first message.
Done(i, n) ==
    LET rest == poll[i][n].todo \ {Min(poll[i][n].todo)} IN
    poll' = [poll EXCEPT ![i][n] =
                 IF rest = {} THEN NoPoll ELSE [at |-> "send", todo |-> rest]]

\* sendMessage returns; it tries again as plain text when the first attempt
\* fails, though that one may have been posted.
Sent(i, n, k) ==
    LET m == Min(poll[i][n].todo) IN
    /\ poll[i][n].at = "send"
    /\ posts' = [posts EXCEPT ![m] = Min({2, @ + k})]
    /\ IF k = 1 THEN UNCHANGED <<excused, faults>>
       ELSE excused' = excused \cup {m} /\ Fault
    /\ poll' = [poll EXCEPT ![i][n].at = "mark"]
    /\ UNCHANGED <<registry, delivery>>

\* It throws: the row stays pending and the poll goes on.
SendFails(i, n, k) ==
    LET m == Min(poll[i][n].todo) IN
    /\ poll[i][n].at = "send" /\ Fault
    /\ posts' = [posts EXCEPT ![m] = Min({2, @ + k})]
    /\ excused' = excused \cup {m}
    /\ Done(i, n)
    /\ UNCHANGED <<registry, delivery>>

\* markDelivered
Marked(i, n) ==
    /\ poll[i][n].at = "mark"
    /\ delivery' = [delivery EXCEPT ![Min(poll[i][n].todo)] = "delivered"]
    /\ Done(i, n)
    /\ UNCHANGED <<registry, posts, excused, faults>>

MarkFails(i, n) ==
    /\ poll[i][n].at = "mark" /\ Fault
    /\ excused' = excused \cup {Min(poll[i][n].todo)}
    /\ Done(i, n)
    /\ UNCHANGED <<registry, delivery, posts>>

-----------------------------------------------------------------------------
InstStep(i) ==
    \/ GuardKills(i) \/ GuardPasses(i) \/ VictimLeft(i) \/ (\E p \in Pids : VictimKilled(i, p))
    \/ Register(i) \/ Terminated(i) \/ Unregister(i) \/ Exit(i) \/ Reconnects(i)

PollStep(i) == \E n \in Polls : PollBegins(i, n) \/ Sent(i, n, 1) \/ Marked(i, n)

Next ==
    \/ \E i \in Instances :
           \/ \E p \in Pids : (\E mode \in Modes : Boot(i, p, mode)) \/ VictimKilled(i, p)
           \/ GuardKills(i) \/ GuardPasses(i) \/ VictimLeft(i) \/ Register(i)
           \/ Heartbeat(i) \/ Stop(i) \/ Terminated(i) \/ Unregister(i)
           \/ UnregisterFails(i) \/ Exit(i) \/ Crash(i)
           \/ LinkDrops(i) \/ Reconnects(i) \/ LinkGivesUp(i)
           \/ \E n \in Polls :
                  \/ PollBegins(i, n) \/ Marked(i, n) \/ MarkFails(i, n)
                  \/ \E k \in 0..2 : SendFails(i, n, k) \/ (k # 0 /\ Sent(i, n, k))
    \/ \E p \in Pids : StrangerTerminated(p)
    \/ RowAges \/ Sweep \/ PidReused
    \/ \E m \in Messages : Enqueue(m)

\* Queries and sends end, the timers of a process that lives fire, and a channel
\* that was lost to a passing error is connected again; one that was given up is
\* not.
Fairness ==
    /\ WF_inst(\E i \in Instances : InstStep(i))
    /\ WF_row(\E i \in Instances : Heartbeat(i))
    /\ WF_poll(\E i \in Instances : PollStep(i))

Spec == Init /\ [][Next]_vars
FairSpec == Spec /\ Fairness
-----------------------------------------------------------------------------
(* Properties *)

\* A message is marked as delivered only after the channel has posted it.
DeliveredWasPosted == \A m \in Messages : delivery[m] = "delivered" => posts[m] > 0

\* A message is posted twice only after its sending or its marking was cut
\* short, or when two polls held it at a time.
TwiceIsExcused == \A m \in Messages : posts[m] > 1 => m \in excused

\* What is queued is delivered, if there always is an instance that is live and
\* has not given up its channel.  (One that has is live, beats, and delivers
\* nothing.)
PendingIsDelivered ==
    <>[](\E i \in Instances : At(i, "live") /\ inst[i].link # "over") =>
        \A m \in Messages : delivery[m] = "pending" ~> delivery[m] = "delivered"

Alone(i) == At(i, "live") /\ Up = {i}

\* An instance that is left alone ends up with the row, although the one before
\* it has deleted or overwritten it.
SoleOwnerHoldsRow ==
    <>[](\E i \in Instances : Alone(i)) =>
        <>[](\E i \in Instances : Alone(i) /\ row # NoRow /\ row.owner = i)

\* Neither the guard nor the sweep of orphans hits a process that is no instance.
StrangersSpared == ~struck

\* What holds of the outbox at every moment: marks are true and repetitions
\* excused.
Inv ==
    /\ TypeOK
    /\ DeliveredWasPosted
    /\ TwiceIsExcused
=============================================================================
