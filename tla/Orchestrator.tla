---------------------------- MODULE Orchestrator ----------------------------
(***************************************************************************)
(* The life of one supervised child: process/orchestrator.ts and           *)
(* process/child-lifecycle.ts.                                             *)
(*                                                                         *)
(* Children share nothing but the orchestrator's running flag and the ping *)
(* mutex, so the module follows one entry of the manifest: its state       *)
(* objects, the operating-system processes spawned for it, its timers, and *)
(* every call suspended in killChild.                                      *)
(*                                                                         *)
(* The program is single-threaded JavaScript.  A step is what runs between *)
(* two awaits; `micro` is the queue of continuations whose promise has     *)
(* settled, run in order before the next event (timer, exit, call).        *)
(***************************************************************************)
EXTENDS Naturals, Sequences, FiniteSets

CONSTANTS
    Procs,             \* bound: processes alive or not yet reaped (numbers)
    Objs,              \* bound: ChildState objects still referenced (numbers)
    MaxRestarts,       \* spec.maxRestarts
    HungStrikesMax,    \* consecutive missed pings that mean "hung"
    MaxCommands,       \* bound: calls of the API and changes of the manifest
    MaxWaiting,        \* bound: calls suspended in killChild at once
    Policies,          \* restart policies considered
    Calls              \* which of stop, start, restart the API receives

ASSUME OrchestratorAssumption ==
    /\ Procs \subseteq Nat \ {0} /\ Objs \subseteq Nat \ {0}
    /\ MaxRestarts \in Nat /\ HungStrikesMax \in Nat \ {0}
    /\ MaxCommands \in Nat /\ MaxWaiting \in Nat \ {0}
    /\ Policies \subseteq {"always", "on-failure", "never"}
    /\ Calls \subseteq {"stop", "start", "restart"}

None == 0

\* ChildState.  window counts restartsInWindow; raised says that backoffMs is
\* above its initial value; timer is an armed backoffTimer.
ChildState ==
    [status : {"running", "backoff", "crash-loop", "stopped"},
     proc : Procs \cup {None}, timer : BOOLEAN, stoppedByUser : BOOLEAN,
     window : Nat, raised : BOOLEAN, strikes : Nat]

\* A call suspended in killChild on object obj, which waits for process proc.
Waiter == [who : {"stop", "restart", "reconcile", "shutdown"},
           obj : Objs \cup {None}, proc : Procs \cup {None}]

NoPing == [obj |-> None, proc |-> None, ponged |-> FALSE]

VARIABLES
    policy,     \* spec.restartPolicy
    desired,    \* the manifest resolves to a set that has the child
    phase,      \* start(): "idle", "starting" (awaits the orphan sweep), "started"
    running,    \* the orchestrator's flag
    timersOn,   \* the reconcile and ping intervals are installed
    entry,      \* children.get(name): an object or None
    kids,       \* the state objects, in the map or not
    ps,         \* each process: "none", "alive", "exit0", "exit1" (not reaped)
    owner,      \* the object whose spawn created the process
    waiting,    \* calls suspended in killChild, in the order they began
    micro,      \* settled continuations to run before the next event
    ping,       \* the ping cycle in flight, or NoPing
    commands,   \* calls and changes of the manifest so far
    tangled     \* history: two calls have crossed (Crosses)

vars == <<policy, desired, phase, running, timersOn, entry, kids, ps,
          owner, waiting, micro, ping, commands, tangled>>
spec == <<policy, desired>>
mode == <<phase, running, timersOn>>
hist == <<commands, tangled>>

FreshChild == [status |-> "running", proc |-> None, timer |-> FALSE,
               stoppedByUser |-> FALSE, window |-> 0, raised |-> FALSE,
               strikes |-> 0]

TypeOK ==
    /\ policy \in Policies /\ desired \in BOOLEAN
    /\ phase \in {"idle", "starting", "started"}
    /\ running \in BOOLEAN /\ timersOn \in BOOLEAN
    /\ entry \in Objs \cup {None}
    /\ kids \in [Objs -> ChildState]
    /\ \A o \in Objs : kids[o].strikes < HungStrikesMax
    /\ ps \in [Procs -> {"none", "alive", "exit0", "exit1"}]
    /\ owner \in [Procs -> Objs \cup {None}]
    /\ waiting \in Seq(Waiter) /\ Len(waiting) <= MaxWaiting
    /\ micro \in Seq([step : {"killed", "resume"}, w : Waiter])
    /\ ping \in [obj : Objs \cup {None}, proc : Procs \cup {None}, ponged : BOOLEAN]
    /\ commands \in 0..MaxCommands /\ tangled \in BOOLEAN

Init ==
    /\ policy \in Policies
    /\ desired \in BOOLEAN
    /\ phase = "idle" /\ running = FALSE /\ timersOn = FALSE
    /\ entry = None
    /\ kids = [o \in Objs |-> FreshChild]
    /\ ps = [p \in Procs |-> "none"]
    /\ owner = [p \in Procs |-> None]
    /\ waiting = <<>> /\ micro = <<>>
    /\ ping = NoPing
    /\ commands = 0 /\ tangled = FALSE

-----------------------------------------------------------------------------
(* child-lifecycle.ts *)

Waits(s)      == {s[i] : i \in DOMAIN s}
Pending       == Waits(waiting) \cup {m.w : m \in Waits(micro)}
Referenced(p) == \/ ping.proc = p
                 \/ \E o \in Objs : kids[o].proc = p
                 \/ \E w \in Pending : w.proc = p
FreeProcs     == {p \in Procs : ps[p] = "none" /\ ~Referenced(p)}
FreeObjs      == {o \in Objs \ {entry} :
                    /\ kids[o].proc = None /\ ~kids[o].timer /\ ping.obj # o
                    /\ \A w \in Pending : w.obj # o
                    /\ \A p \in Procs : ps[p] # "none" => owner[p] # o}
Least(S)      == CHOOSE x \in S : \A y \in S : x <= y

\* killProcessGroup(proc, "SIGKILL") on process states s.  SIGTERM has no
\* effect of its own here: a process may exit at any time, or never.
SigKill(s, p) == [q \in Procs |-> IF q = p /\ s[q] = "alive" THEN "exit1" ELSE s[q]]

\* Mutant of Spawn: without the idempotency guard a live proc is overwritten.
SpawnOver(k, o) ==
    LET p == Least(FreeProcs) IN
    /\ FreeProcs # {}
    /\ ps' = [ps EXCEPT ![p] = "alive"]
    /\ owner' = [owner EXCEPT ![p] = o]
    /\ kids' = [kids EXCEPT ![o] = [k EXCEPT !.proc = p, !.status = "running",
                                             !.strikes = 0]]

\* spawnChild for object o, whose fields are k: a live proc is killed first.
Spawn(k, o) ==
    LET p == Least(FreeProcs) IN
    /\ FreeProcs # {}
    /\ ps' = [SigKill(ps, k.proc) EXCEPT ![p] = "alive"]
    /\ owner' = [owner EXCEPT ![p] = o]
    /\ kids' = [kids EXCEPT ![o] = [k EXCEPT !.proc = p, !.status = "running",
                                             !.strikes = 0]]

\* scheduleRestart: the possible results, one for each number of earlier
\* restarts that are still inside the window.
ScheduleRestart(k) ==
    IF k.timer THEN {k}
    ELSE {IF kept + 1 > MaxRestarts
          THEN [k EXCEPT !.status = "crash-loop", !.window = kept + 1]
          ELSE [k EXCEPT !.status = "backoff", !.window = kept + 1,
                         !.raised = TRUE, !.timer = TRUE] : kept \in 0..k.window}

\* resetBackoffIfStable, when the child has been up for five minutes.
ResetBackoff(k) ==
    IF k.status = "running" /\ k.raised THEN [k EXCEPT !.raised = FALSE, !.window = 0]
    ELSE k

\* killChild on object o with fields k, up to its first await.  Without a
\* process it returns at once and the caller goes on in a microtask.
KillChild(k, o, who) ==
    LET w == [who |-> who, obj |-> o, proc |-> k.proc] IN
    IF k.proc = None
    THEN /\ kids' = [kids EXCEPT ![o] = [k EXCEPT !.timer = FALSE]]
         /\ micro' = Append(micro, [step |-> "resume", w |-> w])
         /\ UNCHANGED waiting
    ELSE /\ kids' = [kids EXCEPT ![o] = [k EXCEPT !.timer = FALSE, !.stoppedByUser = TRUE]]
         /\ waiting' = Append(waiting, w)
         /\ UNCHANGED micro

\* What killChild does when its race has settled.  It forgets the process of
\* the object, whichever that is by then.
ForgetProc(o) == kids' = [kids EXCEPT ![o].proc = None]

\* The event loop takes a new event only when no continuation is left.
Idle == micro = <<>>

\* A process ends by itself, by SIGTERM (ours or the orphan sweep's), or by a crash.
ProcExit(p, code) ==
    /\ ps[p] = "alive"
    /\ ps' = [ps EXCEPT ![p] = code]
    /\ UNCHANGED <<spec, mode, entry, kids, owner, waiting, micro, ping, hist>>

\* The proc.exited handler installed by spawnChild, for process p.
ExitHandler(p) ==
    LET o == owner[p]
        k == [kids[o] EXCEPT !.proc = None]
        final == \/ k.stoppedByUser
                 \/ policy = "never"
                 \/ policy = "on-failure" /\ ps[p] = "exit0"
    IN
    IF ~running \/ kids[o].proc # p
    THEN UNCHANGED kids
    ELSE \E r \in (IF final THEN {[k EXCEPT !.status = "stopped"]} ELSE ScheduleRestart(k)) :
            kids' = [kids EXCEPT ![o] = r]

\* The elements of s that are in X, in their order.
Only(s, X) ==
    LET at == {i \in DOMAIN s : s[i] \in X}
        nth(j) == CHOOSE i \in at : Cardinality({h \in at : h <= i}) = j
    IN [j \in 1..Cardinality(at) |-> s[nth(j)]]

\* The exit is observed: the handler runs, then every killChild waiting for
\* this process goes on, in the order they began.
ObserveExit(p) ==
    LET freed == {w \in Pending : w.proc = p} IN
    /\ Idle
    /\ ps[p] \in {"exit0", "exit1"}
    /\ ExitHandler(p)
    /\ ps' = [ps EXCEPT ![p] = "none"]
    /\ waiting' = Only(waiting, Pending \ freed)
    /\ micro' = [i \in DOMAIN Only(waiting, freed) |->
                    [step |-> "killed", w |-> Only(waiting, freed)[i]]]
    /\ owner' = [owner EXCEPT ![p] = None]
    /\ UNCHANGED <<spec, mode, entry, ping, hist>>

\* Mutant of KillTimeout: killChild waits for the exit alone, without the race.
KillTimeoutDead(i) ==
    LET w == waiting[i] IN
    /\ Idle
    /\ ps[w.proc] # "alive"
    /\ ForgetProc(w.obj)
    /\ waiting' = SubSeq(waiting, 1, i - 1) \o SubSeq(waiting, i + 1, Len(waiting))
    /\ micro' = <<[step |-> "resume", w |-> w]>>
    /\ UNCHANGED <<spec, mode, entry, ps, owner, ping, hist>>

\* The 10-second timer of the i-th waiting killChild: SIGKILL, then go on.
KillTimeout(i) ==
    LET w == waiting[i] IN
    /\ Idle
    /\ ps' = SigKill(ps, w.proc)
    /\ ForgetProc(w.obj)
    /\ waiting' = SubSeq(waiting, 1, i - 1) \o SubSeq(waiting, i + 1, Len(waiting))
    /\ micro' = <<[step |-> "resume", w |-> w]>>
    /\ UNCHANGED <<spec, mode, entry, owner, ping, hist>>

\* A backoff timer fires.
TimerFire(o) ==
    LET k == [kids[o] EXCEPT !.timer = FALSE] IN
    /\ Idle
    /\ kids[o].timer
    /\ IF running /\ ~k.stoppedByUser
       THEN Spawn(k, o)
       ELSE kids' = [kids EXCEPT ![o] = k] /\ UNCHANGED <<ps, owner>>
    /\ UNCHANGED <<spec, mode, entry, waiting, micro, ping, hist>>

\* First half of pingChildren: the interval finds no cycle in flight.
PingStart ==
    /\ Idle
    /\ timersOn /\ ping = NoPing
    /\ entry # None /\ kids[entry].status = "running" /\ kids[entry].proc # None
    /\ ping' = [obj |-> entry, proc |-> kids[entry].proc, ponged |-> FALSE]
    /\ UNCHANGED <<spec, mode, entry, kids, ps, owner, waiting, micro, hist>>

\* A child answers, possibly later than the window of its ping.  The handler
\* belongs to the object, not to the process.
Pong(p) ==
    /\ Idle
    /\ ps[p] = "alive"
    /\ kids' = [kids EXCEPT ![owner[p]].strikes = 0]
    /\ ping' = IF ping.obj = owner[p] THEN [ping EXCEPT !.ponged = TRUE] ELSE ping
    /\ UNCHANGED <<spec, mode, entry, ps, owner, waiting, micro, hist>>

\* Mutant of PingEvaluate: a hung child is killed but its restart is forgotten.
PingEvaluateNoRestart ==
    LET k == kids[ping.obj] IN
    /\ Idle
    /\ ping # NoPing
    /\ ping' = NoPing
    /\ IF k.proc # ping.proc \/ k.status # "running" \/ ping.ponged
       THEN UNCHANGED <<kids, ps>>
       ELSE /\ ps' = SigKill(ps, ping.proc)
            /\ kids' = [kids EXCEPT ![ping.obj].proc = None]
    /\ UNCHANGED <<spec, mode, entry, owner, waiting, micro, hist>>

\* Second half of pingChildren, after the wait.
PingEvaluate ==
    LET k    == kids[ping.obj]
        dead == [k EXCEPT !.proc = None, !.strikes = 0]
    IN
    /\ Idle
    /\ ping # NoPing
    /\ ping' = NoPing
    /\ IF k.proc # ping.proc \/ k.status # "running" \/ ping.ponged
       THEN UNCHANGED <<kids, ps>>
       ELSE IF k.strikes + 1 < HungStrikesMax
       THEN kids' = [kids EXCEPT ![ping.obj].strikes = @ + 1] /\ UNCHANGED ps
       ELSE /\ ps' = SigKill(ps, ping.proc)
            /\ \E r \in (IF ~k.stoppedByUser /\ policy # "never" THEN ScheduleRestart(dead)
                         ELSE {[dead EXCEPT !.status = "stopped"]}) :
                  kids' = [kids EXCEPT ![ping.obj] = r]
    /\ UNCHANGED <<spec, mode, entry, owner, waiting, micro, hist>>

-----------------------------------------------------------------------------
(* orchestrator.ts *)

Room        == Len(waiting) < MaxWaiting
Awaits(who) == \E w \in Waits(waiting) : w.who = who

\* The history of a step that begins a call: whether it crosses one that is
\* awaited, in one of four ways.  The child is started or restarted during a kill;
\* it is stopped or removed during a restart; it is created again during its
\* removal; stop() arrives before start() has returned.
Crosses(how) == tangled' = (tangled \/ how)

\* reconcile(), up to its await: create and spawn a missing child, reset the
\* backoff of a stable one, or kill one that the manifest no longer has.
Reconcile ==
    \/ /\ desired /\ entry = None
       /\ FreeObjs # {}
       /\ entry' = Least(FreeObjs)
       /\ Spawn(FreshChild, entry')
       /\ Crosses(Awaits("reconcile"))
       /\ UNCHANGED <<waiting, micro>>
    \/ /\ desired /\ entry # None
       /\ \E k \in {kids[entry], ResetBackoff(kids[entry])} :
             kids' = [kids EXCEPT ![entry] = k]
       /\ UNCHANGED <<entry, ps, owner, waiting, micro, tangled>>
    \/ /\ ~desired /\ entry # None
       /\ KillChild(kids[entry], entry, "reconcile")
       /\ Crosses(Awaits("restart"))
       /\ UNCHANGED <<entry, ps, owner>>
    \/ /\ ~desired /\ entry = None
       /\ UNCHANGED <<entry, kids, ps, owner, waiting, micro, tangled>>

\* The reconcile interval: a pass may begin while an earlier one awaits a kill.
ReconcileTick ==
    /\ Idle
    /\ timersOn
    /\ Room
    /\ Reconcile
    /\ UNCHANGED <<spec, mode, ping, commands>>

\* A command: a call of the API, or a change of the manifest.
Command == commands < MaxCommands /\ commands' = commands + 1

UpdateConfig ==
    /\ Idle /\ Command
    /\ desired' = ~desired
    /\ UNCHANGED <<policy, mode, entry, kids, ps, owner, waiting, micro, ping, tangled>>

\* start(), up to the await of the orphan sweep.
Start ==
    /\ phase = "idle"
    /\ phase' = "starting" /\ running' = TRUE
    /\ UNCHANGED <<spec, timersOn, entry, kids, ps, owner, waiting, micro, ping, hist>>

\* The rest of start(): the first pass, then the intervals.  It does not look
\* at running again.
FinishStart ==
    /\ Idle
    /\ phase = "starting"
    /\ phase' = "started" /\ timersOn' = TRUE
    /\ Reconcile
    /\ UNCHANGED <<spec, running, ping, commands>>

\* gracefulShutdown(), up to the await of the kills.
Stop ==
    /\ Idle
    /\ running
    /\ Room
    /\ running' = FALSE /\ timersOn' = FALSE
    /\ IF entry = None
       THEN UNCHANGED <<kids, waiting, micro>>
       ELSE KillChild(kids[entry], entry, "shutdown")
    /\ Crosses(phase # "started")
    /\ UNCHANGED <<spec, phase, entry, ps, owner, ping, commands>>

\* A call of the internal API for a known child.  The server that receives it
\* is closed before stop() is called.
Called(call) == Idle /\ Command /\ running /\ call \in Calls /\ entry # None

\* Mutant of StopProcess: an armed backoff timer is not cleared.
StopProcessArmed ==
    LET k == [kids[entry] EXCEPT !.stoppedByUser = TRUE] IN
    /\ Called("stop") /\ Room
    /\ Crosses(Awaits("restart"))
    /\ IF k.proc = None
       THEN /\ kids' = [kids EXCEPT ![entry] = [k EXCEPT !.status = "stopped"]]
            /\ UNCHANGED <<waiting, micro>>
       ELSE KillChild(k, entry, "stop")
    /\ UNCHANGED <<spec, mode, entry, ps, owner, ping>>

\* stopProcess
StopProcess ==
    LET k == [kids[entry] EXCEPT !.stoppedByUser = TRUE, !.timer = FALSE] IN
    /\ Called("stop") /\ Room
    /\ Crosses(Awaits("restart"))
    /\ IF k.proc = None
       THEN /\ kids' = [kids EXCEPT ![entry] = [k EXCEPT !.status = "stopped"]]
            /\ UNCHANGED <<waiting, micro>>
       ELSE KillChild(k, entry, "stop")
    /\ UNCHANGED <<spec, mode, entry, ps, owner, ping>>

\* The fields startProcess and restartProcess reset.
Reset(k) == [k EXCEPT !.stoppedByUser = FALSE, !.window = 0, !.raised = FALSE]

\* startProcess: synchronous, and it leaves an armed backoff timer alone.
StartProcess ==
    LET k == Reset(kids[entry]) IN
    /\ Called("start")
    /\ Crosses(waiting # <<>>)
    /\ IF k.proc = None THEN Spawn(k, entry)
       ELSE kids' = [kids EXCEPT ![entry] = k] /\ UNCHANGED <<ps, owner>>
    /\ UNCHANGED <<spec, mode, entry, waiting, micro, ping>>

\* restartProcess, up to its await
RestartProcess ==
    LET k == Reset(kids[entry]) IN
    /\ Called("restart") /\ Room
    /\ Crosses(waiting # <<>>)
    /\ IF k.proc = None
       THEN Spawn(k, entry) /\ UNCHANGED <<waiting, micro>>
       ELSE KillChild(k, entry, "restart") /\ UNCHANGED <<ps, owner>>
    /\ UNCHANGED <<spec, mode, entry, ping>>

\* What the caller of killChild does afterwards.
AfterKill(w) ==
    CASE w.who = "stop" ->
            /\ kids' = [kids EXCEPT ![w.obj].status = "stopped"]
            /\ UNCHANGED <<entry, ps, owner>>
      [] w.who = "restart" ->
            LET k == [kids[w.obj] EXCEPT !.stoppedByUser = FALSE] IN
            /\ IF running THEN Spawn(k, w.obj)
               ELSE kids' = [kids EXCEPT ![w.obj] = k] /\ UNCHANGED <<ps, owner>>
            /\ UNCHANGED entry
      [] w.who \in {"reconcile", "shutdown"} ->
            /\ entry' = None
            /\ kids' = IF kids[w.obj].proc = None /\ ~kids[w.obj].timer
                       THEN [kids EXCEPT ![w.obj] = FreshChild] ELSE kids
            /\ UNCHANGED <<ps, owner>>

\* The continuation at the head of the microtask queue.
Continue ==
    /\ micro # <<>>
    /\ LET m == Head(micro) IN
       IF m.step = "killed"
       THEN /\ ForgetProc(m.w.obj)
            /\ micro' = Append(Tail(micro), [m EXCEPT !.step = "resume"])
            /\ UNCHANGED <<entry, ps, owner>>
       ELSE AfterKill(m.w) /\ micro' = Tail(micro)
    /\ UNCHANGED <<spec, mode, waiting, ping, hist>>

-----------------------------------------------------------------------------
Next ==
    \/ \E p \in Procs : \/ \E code \in {"exit0", "exit1"} : ProcExit(p, code)
                        \/ ObserveExit(p) \/ Pong(p)
    \/ \E i \in DOMAIN waiting : KillTimeout(i)
    \/ \E o \in Objs : TimerFire(o)
    \/ PingStart \/ PingEvaluate
    \/ UpdateConfig \/ Start \/ FinishStart \/ Stop \/ ReconcileTick
    \/ StopProcess \/ StartProcess \/ RestartProcess
    \/ Continue

\* Timers fire, exits are noticed and continuations run; nobody has to call,
\* change the configuration, answer a ping or exit.
Fairness ==
    /\ WF_vars(Continue)
    /\ WF_vars(Start) /\ WF_vars(FinishStart)
    /\ WF_vars(ReconcileTick) /\ WF_vars(PingEvaluate)
    /\ \A p \in Procs : WF_vars(ObserveExit(p))
    /\ WF_vars(\E i \in DOMAIN waiting : KillTimeout(i))
    /\ \A o \in Objs : WF_vars(TimerFire(o))

Spec == Init /\ [][Next]_vars
FairSpec == Spec /\ Fairness
-----------------------------------------------------------------------------
(* Properties *)

Live == {p \in Procs : ps[p] = "alive"}

\* child-lifecycle.ts:129 "This enforces the hard invariant: at most ONE live
\* process per child spec."
OneLive == Cardinality(Live) <= 1

\* It does until two calls cross, whatever else overlaps a kill: passes of the
\* reconcile timer, exits, respawns, verdicts of the ping cycle.
AtMostOneLive == ~tangled => OneLive

\* Every live process is known to the orchestrator: it is the process of the
\* map's entry, or a killChild in flight will kill it when its time is up.
AllTracked ==
    \A p \in Live : \/ entry # None /\ kids[entry].proc = p
                    \/ \E w \in Waits(waiting) : w.proc = p

LiveIsTracked == ~tangled => AllTracked

\* A child the user stopped has no respawn armed (stopProcess, killChild,
\* scheduleRestart and the exit handler all take part).
StoppedHasNoTimer == \A o \in Objs : kids[o].stoppedByUser => ~kids[o].timer

\* A child in crash-loop stays down until somebody starts it.
CrashLoopIsDown ==
    \A o \in Objs : kids[o].status = "crash-loop" => kids[o].proc = None /\ ~kids[o].timer

\* Once stop() has run to its end there is no child left.
ShutdownLeavesNoChild ==
    ~tangled /\ phase = "started" /\ ~running /\ waiting = <<>> /\ Idle => Live = {}

Wanted == /\ ~tangled /\ running /\ desired /\ policy = "always" /\ phase = "started"
          /\ entry # None => ~kids[entry].stoppedByUser /\ kids[entry].status # "crash-loop"

\* A child the manifest wants, that nobody stopped and that is not in
\* crash-loop, is up again in the end, or has been found to be hung or crashing.
WantedComesUp == Wanted ~> (Live # {} \/ ~Wanted)

\* Every call suspended in killChild returns, though the process ignore SIGTERM,
\* unless a continuation has to spawn and the bound leaves it no process.
KillsReturn ==
    \A p \in Procs :
        (\E w \in Waits(waiting) : w.proc = p)
            ~> ((\A w \in Waits(waiting) : w.proc # p) \/ (~Idle /\ FreeProcs = {}))

\* What holds of the child at every moment: a stopped one has no respawn pending and
\* one in crash-loop is down; until two calls cross, the orchestrator also knows its
\* process and a shutdown leaves none.
Inv ==
    /\ TypeOK
    /\ LiveIsTracked
    /\ StoppedHasNoTimer
    /\ CrashLoopIsDown
    /\ ShutdownLeavesNoChild
=============================================================================
