--------------------------- MODULE SigeSessions ---------------------------
(***************************************************************************)
(* SIGE sessions: the table sige_sessions (sige/store.ts), the process     *)
(* that claims and plays them one at a time (entries/sige.ts, sige/run.ts, *)
(* sige/cancel-watcher.ts), the scheduler that adds a session by itself    *)
(* (sige/auto/scheduler.ts) and the web routes that create and cancel      *)
(* (web/routes/sige.ts).                                                   *)
(*                                                                         *)
(* A step is a query, or a piece of work between two queries.  A status    *)
(* write is two queries, the guard's read and the write; the work of a     *)
(* stage is one step, of which only the lasting effects are kept: rows of  *)
(* idea scores, the cross-write into generated_ideas, the write-back to    *)
(* the memory service.  One SIGE process is alive at a time, as the code   *)
(* assumes of its deployment.                                              *)
(***************************************************************************)
EXTENDS Naturals, FiniteSets

CONSTANTS
    MaxSessions,   \* bound: sessions, numbered as they are created
    MaxFrontiers,  \* games a seedless session plays at most: maxDeepFrontiers, or
                   \* deepDevelopCount with shallow ideation
    MaxPending,    \* MAX_PENDING_SESSIONS
    MaxFaults      \* bound: cancel requests, restarts, timeouts and failing calls

ASSUME SigeAssumption ==
    /\ MaxSessions \in Nat /\ MaxFrontiers \in Nat \ {0}
    /\ MaxPending \in Nat /\ MaxFaults \in Nat

Sessions == 1..MaxSessions

\* The stages of runSeededSteps with the status each writes.  The first four
\* after stage 0 leave an artifact in the row.
Stages == 0..5
StageStatus == [k \in Stages |->
    CASE k = 0 -> "knowledge_construction" [] k = 1 -> "game_formulation"
      [] k = 2 -> "expert_game" [] k = 3 -> "social_simulation"
      [] k = 4 -> "scoring" [] k = 5 -> "report_generation"]
Artifacts == 1..4

Terminal == {"completed", "failed", "cancelled"}
Running  == {StageStatus[k] : k \in Stages}
Status   == {"none", "pending"} \cup Running \cup Terminal

\* kind: with a seed, without one, or put there by the scheduler (no seed
\* either); ctx: resume_context_json is set; arts: the artifact columns that are.
Row == [status : Status, kind : {"seeded", "seedless", "auto"},
        ctx : BOOLEAN, arts : SUBSET Artifacts]

NoRow == [status |-> "none", kind |-> "seeded", ctx |-> FALSE, arts |-> {}]

\* The run in progress: the artifacts it holds, whether it began without a
\* resume context, the games left, the verdict of the last guard read, whether
\* the watcher or the timeout has aborted it, and (history) whether they did so
\* while its expert game was still to look at the signal.
Run == [at : {"interrupted", "load", "discover", "check", "mark", "work", "last", "recheck",
              "save", "cross", "finish", "complete", "catch", "fail"},
        session : Sessions, stage : Stages, have : SUBSET Artifacts,
        fresh : BOOLEAN, left : 1..MaxFrontiers, ok : BOOLEAN,
        aborted : BOOLEAN, early : BOOLEAN]
NoRun == [at |-> "idle"]

VARIABLES
    row,         \* sige_sessions
    proc,        \* the process: down, in its first poll, up, or terminating
    run,         \* what pollAndProcess is doing
    ticking,     \* the scheduler has counted and is about to insert
    posting,     \* create requests that have passed the cap
    cancelling,  \* sessions a cancel request has found unfinished
    scored,      \* history: how often the ideas of a session have been scored
    crossed,     \* history: how often they have been cross-written
    remembered,  \* history: sessions written back to the memory service
    torn,        \* history: sessions cut off between scores and artifact
    cancelled,   \* history: sessions that have been cancelled
    raced,       \* history: sessions cancelled between a guard's read and its write
    miscounted,  \* history: the scheduler's count has failed
    faults

published == <<scored, crossed, remembered>>
history   == <<published, torn, cancelled, raced, miscounted>>
requests  == <<ticking, posting, cancelling>>
vars      == <<row, proc, run, requests, history, faults>>

TypeOK ==
    /\ row \in [Sessions -> Row]
    /\ proc \in {"down", "boot", "up", "leaving"}
    /\ run \in Run \cup {NoRun} \cup [at : {"interrupted"}]
    /\ ticking \in BOOLEAN
    /\ posting \in 0..MaxSessions /\ cancelling \in SUBSET Sessions
    /\ scored \in [Sessions -> Nat] /\ crossed \in [Sessions -> Nat]
    /\ remembered \in SUBSET Sessions /\ torn \in SUBSET Sessions
    /\ cancelled \in SUBSET Sessions /\ raced \in SUBSET Sessions
    /\ miscounted \in BOOLEAN
    /\ faults \in 0..MaxFaults

Init ==
    /\ row = [s \in Sessions |-> NoRow]
    /\ proc = "down" /\ run = NoRun
    /\ ticking = FALSE /\ posting = 0 /\ cancelling = {}
    /\ scored = [s \in Sessions |-> 0] /\ crossed = [s \in Sessions |-> 0]
    /\ remembered = {} /\ torn = {} /\ cancelled = {} /\ raced = {}
    /\ miscounted = FALSE
    /\ faults = 0

-----------------------------------------------------------------------------
(* The web routes and the scheduler *)

In(status)    == {s \in Sessions : row[s].status \in status}
SetStatus(s, status) == row' = [row EXCEPT ![s].status = status]

Fault == faults < MaxFaults /\ faults' = faults + 1

Created == Sessions \ In({"none"})

\* createSession, with the next id
Create(kind) ==
    LET s == Cardinality(Created) + 1 IN
    /\ s \in Sessions
    /\ row' = [row EXCEPT ![s] = [NoRow EXCEPT !.status = "pending", !.kind = kind]]

\* POST /sige/sessions: the pending sessions are counted, ...
CountPending ==
    /\ Cardinality(Created) + posting < MaxSessions
    /\ Cardinality(In({"pending"})) < MaxPending
    /\ posting' = posting + 1
    /\ UNCHANGED <<row, proc, run, ticking, cancelling, history, faults>>

\* ... and the new one is inserted.
PostSession(kind) ==
    /\ posting > 0
    /\ posting' = posting - 1
    /\ Create(kind)
    /\ UNCHANGED <<proc, run, ticking, cancelling, history, faults>>

\* DELETE /sige/sessions/:id reads the session, ...
ReadToCancel(s) ==
    /\ row[s].status \notin Terminal \cup {"none"}
    /\ s \notin cancelling /\ Fault
    /\ cancelling' = cancelling \cup {s}
    /\ UNCHANGED <<row, proc, run, ticking, posting, history>>

\* The run has read a status that lets it write, and has not written yet.
WriteInFlight(s) ==
    run # NoRun /\ run.at \in {"mark", "save", "complete", "fail"} /\ run.session = s /\ run.ok

\* ... and writes cancelled whatever the status is by then.
Cancel(s) ==
    /\ s \in cancelling
    /\ cancelling' = cancelling \ {s}
    /\ SetStatus(s, "cancelled")
    /\ cancelled' = cancelled \cup {s}
    /\ raced' = IF WriteInFlight(s) THEN raced \cup {s} ELSE raced
    /\ UNCHANGED <<proc, run, ticking, posting, published, torn, miscounted, faults>>

\* What countRunnableSessions counts.
Runnable == In({"pending"} \cup Running)

\* tickOnce: nothing is runnable, or the count has failed and returned zeros.
TickCounts ==
    /\ proc \in {"up", "leaving"} /\ ~ticking
    /\ \/ Runnable = {} /\ UNCHANGED <<miscounted, faults>>
       \/ Runnable # {} /\ Fault /\ miscounted' = TRUE
    /\ ticking' = TRUE
    /\ UNCHANGED <<row, proc, run, posting, cancelling, published, torn, cancelled, raced>>

TickInserts ==
    /\ ticking /\ ticking' = FALSE
    /\ Create("auto")
    /\ UNCHANGED <<proc, run, posting, cancelling, history, faults>>

-----------------------------------------------------------------------------
(* The process *)

Boot ==
    /\ proc = "down" /\ proc' = "boot"
    /\ UNCHANGED <<row, run, requests, history, faults>>

\* SIGTERM, once the supervisor is started: the hooks abort the process's signal.
Terminate ==
    /\ proc = "up" /\ proc' = "leaving" /\ Fault
    /\ UNCHANGED <<row, run, requests, history>>

\* The run in progress is cut off where it is.
CutOff ==
    /\ run' = NoRun /\ ticking' = FALSE
    /\ torn' = IF run # NoRun /\ run.at \in {"recheck", "save", "catch", "fail"}
                  /\ run.stage = 4
               THEN torn \cup {run.session} ELSE torn

Exit ==
    /\ proc = "leaving" /\ proc' = "down"
    /\ CutOff
    /\ UNCHANGED <<row, posting, cancelling, published, cancelled, raced, miscounted, faults>>

Crash ==
    /\ proc \in {"boot", "up"} /\ proc' = "down" /\ Fault
    /\ CutOff
    /\ UNCHANGED <<row, posting, cancelling, published, cancelled, raced, miscounted>>

-----------------------------------------------------------------------------
(* Claiming a session *)

\* The poll is over; after the first one the supervisor is started.
EndPoll == /\ run' = NoRun
           /\ proc' = IF proc = "boot" THEN "up" ELSE proc

Begin(s, have) ==
    run' = [at |-> "load", session |-> s, stage |-> 0, have |-> have, fresh |-> FALSE,
            left |-> 1, ok |-> FALSE, aborted |-> FALSE, early |-> FALSE]

\* ORDER BY created_at LIMIT 1
Oldest(X) == CHOOSE s \in X : \A r \in X : s <= r

\* pollAndProcess: claimNextPendingSession, unless the process is terminating.
ClaimPending ==
    /\ proc \in {"boot", "up"} /\ run = NoRun
    /\ IF In({"pending"}) = {}
       THEN run' = [at |-> "interrupted"] /\ UNCHANGED row
       ELSE LET s == Oldest(In({"pending"})) IN
            Begin(s, row[s].arts) /\ SetStatus(s, StageStatus[0])
    /\ UNCHANGED <<proc, requests, history, faults>>

\* Mutant of Interrupted: a status is missing in the list of the query.
InterruptedInGame == In(Running \ {"knowledge_construction"})

\* What claimInterruptedSession takes for interrupted.
Interrupted == In(Running)

ClaimInterrupted ==
    /\ run # NoRun /\ run.at = "interrupted"
    /\ IF Interrupted = {}
       THEN EndPoll
       ELSE LET s == Oldest(Interrupted) IN Begin(s, row[s].arts) /\ UNCHANGED proc
    /\ UNCHANGED <<row, requests, history, faults>>

-----------------------------------------------------------------------------
(* The run *)

At(p) == run # NoRun /\ run.at = p
S == run.session
Aborted == run.aborted \/ proc = "leaving"

\* Mutant of Skips: stages before the row's status are taken for done.
SkipsByStatus(r, k) ==
    \/ k \in 1..4 /\ \E l \in Stages : l >= k /\ row[r.session].status = StageStatus[l]
    \/ k = 0 /\ {1, 2} \subseteq r.have

\* A stage is skipped when its artifact is there, stage 0 when it is not needed.
Skips(r, k) == k \in r.have \/ (k = 0 /\ {1, 2} \subseteq r.have)

\* The run goes on with the first stage from k that is not skipped.
Enter(r, k) ==
    LET todo == {j \in k..5 : ~Skips(r, j)} IN
    [r EXCEPT !.at = "check", !.stage = CHOOSE j \in todo : \A i \in todo : j <= i]

\* loadResumeContext
LoadContext ==
    /\ At("load")
    /\ run' = IF row[S].ctx THEN Enter(run, 0)
              ELSE IF row[S].kind = "seeded" THEN Enter([run EXCEPT !.fresh = TRUE], 0)
              ELSE [run EXCEPT !.fresh = TRUE, !.at = "discover"]
    /\ UNCHANGED <<row, proc, requests, history, faults>>

\* discoverFrontiers: none, or some games to play; an aborted run leaves the
\* loop before the first one.
Discover ==
    /\ At("discover")
    /\ \/ run' = [run EXCEPT !.at = "finish"] /\ UNCHANGED proc
       \/ IF Aborted THEN EndPoll
          ELSE \E n \in 1..MaxFrontiers :
                   run' = Enter([run EXCEPT !.left = n], 0) /\ UNCHANGED proc
    /\ UNCHANGED <<row, requests, history, faults>>

\* Mutant of MayWrite: the guard protects a finished session from running
\* statuses only.
LegacyMayWrite(terminal, status) == terminal \/ status \notin Terminal

\* The guard of updateSessionStatus, for a terminal or for a running status.
MayWrite(terminal, status) ==
    IF terminal THEN status # "cancelled" ELSE status \notin Terminal

\* The guard reads the status.
Guard ==
    \E p \in {<<"check", "mark">>, <<"recheck", "save">>, <<"finish", "complete">>,
              <<"catch", "fail">>} :
        /\ At(p[1])
        /\ run' = [run EXCEPT !.at = p[2],
                   !.ok = MayWrite(p[1] \in {"finish", "catch"}, row[S].status)]
        /\ UNCHANGED <<row, proc, requests, history, faults>>

WriteIfOk(newRow) == row' = IF run.ok THEN [row EXCEPT ![S] = newRow] ELSE row

\* The status of the stage is written; a resumed run has nothing to do in stage 0.
Mark ==
    /\ At("mark")
    /\ WriteIfOk([row[S] EXCEPT !.status = StageStatus[run.stage]])
    /\ run' = IF run.stage = 0 /\ ~run.fresh THEN Enter(run, 1) ELSE [run EXCEPT !.at = "work"]
    /\ UNCHANGED <<proc, requests, history, faults>>

\* Signals are synthesized and the resume context is saved.
Synthesize ==
    /\ At("work") /\ run.stage = 0
    /\ row' = [row EXCEPT ![S].ctx = TRUE]
    /\ run' = Enter(run, 1)
    /\ UNCHANGED <<proc, requests, history, faults>>

\* Mutant of PlayGame: the expert game does not look at the signal.
PlayOn ==
    /\ At("work") /\ run.stage \in {1, 2, 3}
    /\ run' = [run EXCEPT !.at = IF run.stage = 2 THEN "last" ELSE "recheck"]
    /\ UNCHANGED <<row, proc, requests, history, faults>>

\* The game is formulated, played by the experts, simulated.  The experts' first
\* three rounds, which end with a look at the signal, throw when it is aborted; an
\* aborted simulation stops early and returns what it has.
PlayGame ==
    /\ At("work") /\ run.stage \in {1, 2, 3}
    /\ ~(run.stage = 2 /\ Aborted)
    /\ run' = [run EXCEPT !.at = IF run.stage = 2 THEN "last" ELSE "recheck"]
    /\ UNCHANGED <<row, proc, requests, history, faults>>

\* The fourth round: an agent that meets the aborted signal counts as one that has
\* failed, the others' answers are what there is, and nobody looks at it again.
LastRound ==
    /\ At("last")
    /\ run' = [run EXCEPT !.at = "recheck"]
    /\ UNCHANGED <<row, proc, requests, history, faults>>

\* The scores of the ideas are inserted.
Score ==
    /\ At("work") /\ run.stage = 4
    /\ scored' = [scored EXCEPT ![S] = @ + 1]
    /\ run' = [run EXCEPT !.at = "recheck"]
    /\ UNCHANGED <<row, proc, requests, crossed, remembered, torn, cancelled, raced,
                   miscounted, faults>>

\* The top ideas go to the memory service, unless nobody has reviewed them, and
\* the report is written.
Report ==
    /\ At("work") /\ run.stage = 5
    /\ remembered' = IF row[S].kind = "auto" THEN remembered ELSE remembered \cup {S}
    /\ run' = [run EXCEPT !.at = "finish"]
    /\ UNCHANGED <<row, proc, requests, scored, crossed, torn, cancelled, raced,
                   miscounted, faults>>

\* The artifact of the stage is written.
Save ==
    /\ At("save")
    /\ WriteIfOk([row[S] EXCEPT !.status = StageStatus[run.stage],
                                !.arts = @ \cup {run.stage}])
    /\ LET r == [run EXCEPT !.have = @ \cup {run.stage}] IN
       run' = IF run.stage = 4 THEN [r EXCEPT !.at = "cross"] ELSE Enter(r, run.stage + 1)
    /\ UNCHANGED <<proc, requests, history, faults>>

\* crossWriteSigeIdeas; when it fails the session goes on.
CrossWrite(done) ==
    /\ At("cross")
    /\ crossed' = IF done THEN [crossed EXCEPT ![S] = @ + 1] ELSE crossed
    /\ run' = Enter(run, 5)
    /\ UNCHANGED <<row, proc, requests, scored, remembered, torn, cancelled, raced,
                   miscounted, faults>>

\* completed is written, and the next game begins with nothing in hand.
Complete ==
    /\ At("complete")
    /\ WriteIfOk([row[S] EXCEPT !.status = "completed"])
    /\ IF run.left > 1 /\ ~Aborted
       THEN /\ run' = Enter([run EXCEPT !.left = @ - 1, !.have = {}], 0)
            /\ UNCHANGED proc
       ELSE EndPoll
    /\ UNCHANGED <<requests, history, faults>>

\* pollAndProcess catches what runSession has thrown.
Fail ==
    /\ At("fail")
    /\ WriteIfOk([row[S] EXCEPT !.status = "failed"])
    /\ EndPoll
    /\ UNCHANGED <<requests, history, faults>>

\* The expert game meets the aborted signal.
GameAborts ==
    /\ At("work") /\ run.stage = 2 /\ Aborted
    /\ run' = [run EXCEPT !.at = "catch"]
    /\ UNCHANGED <<row, proc, requests, history, faults>>

\* A model call or a query throws; in stage 4 some scores may be there already.
Throw ==
    /\ run # NoRun /\ Fault
    /\ \/ /\ run.at \in {"load", "check", "mark", "last", "recheck", "save", "finish", "complete"}
          /\ run' = [run EXCEPT !.at = "catch"]
          /\ UNCHANGED <<proc, scored>>
       \/ /\ run.at = "work" /\ run.stage # 3
          /\ run' = [run EXCEPT !.at = "catch"]
          /\ scored' \in {scored} \cup
                 (IF run.stage = 4 THEN {[scored EXCEPT ![S] = @ + 1]} ELSE {})
          /\ UNCHANGED proc
       \/ run.at \in {"interrupted", "catch", "fail"} /\ EndPoll /\ UNCHANGED scored
    /\ torn' = IF run.at \in {"catch", "fail"} /\ run.stage = 4
               THEN torn \cup {S} ELSE torn
    /\ UNCHANGED <<row, requests, crossed, remembered, cancelled, raced, miscounted>>

\* The run's own signal is aborted.
Abort == run' = [run EXCEPT !.aborted = TRUE,
                 !.early = /\ 2 \notin run.have
                           /\ ~(run.stage = 2 /\ run.at \in {"last", "recheck", "save"})]

\* The cancel watcher reads a terminal status.
Watch ==
    /\ run # NoRun /\ run.at \notin {"interrupted", "catch", "fail"}
    /\ ~run.aborted /\ row[S].status \in Terminal
    /\ Abort
    /\ UNCHANGED <<row, proc, requests, history, faults>>

\* The wall clock of a seedless run that was not resumed.
TimeOut ==
    /\ run # NoRun /\ run.at \notin {"interrupted", "load", "catch", "fail"}
    /\ run.fresh /\ row[S].kind # "seeded" /\ ~run.aborted
    /\ Fault
    /\ Abort
    /\ UNCHANGED <<row, proc, requests, history>>

-----------------------------------------------------------------------------
RunStep ==
    \/ ClaimPending \/ ClaimInterrupted \/ LoadContext \/ Discover
    \/ Guard \/ Mark \/ Synthesize \/ PlayGame \/ LastRound \/ Score \/ Report \/ Save
    \/ \E done \in BOOLEAN : CrossWrite(done)
    \/ Complete \/ Fail \/ GameAborts

Next ==
    \/ CountPending \/ \E kind \in {"seeded", "seedless"} : PostSession(kind)
    \/ \E s \in Sessions : ReadToCancel(s) \/ Cancel(s)
    \/ TickCounts \/ TickInserts \/ Boot \/ Terminate \/ Exit \/ Crash
    \/ ClaimPending \/ ClaimInterrupted \/ LoadContext \/ Discover
    \/ Guard \/ Mark \/ Synthesize \/ PlayGame \/ LastRound \/ Score \/ Report \/ Save
    \/ \E done \in BOOLEAN : CrossWrite(done)
    \/ Complete \/ Fail \/ GameAborts \/ Throw \/ Watch \/ TimeOut

\* The poll timer fires, model calls and queries end (every call has a
\* deadline), a terminating process exits and the orchestrator starts it again.
Fairness == WF_vars(RunStep) /\ WF_vars(Boot) /\ WF_vars(Exit)

Spec == Init /\ [][Next]_vars
FairSpec == Spec /\ Fairness
-----------------------------------------------------------------------------
(* Properties *)

\* A session with one game only: seeded, or in the default configuration.
PlaysOnce(s) == MaxFrontiers = 1 \/ row[s].kind = "seeded"

\* An outcome stands.  A completed session is only taken out of completed by a
\* cancel request that had found it unfinished, or by the failure of a further
\* game, and a cancelled one stays cancelled, except when it was cancelled between
\* the guard's read and the write it allows.
OutcomesAreFinal ==
    [][\A s \in Sessions : row[s].status # row'[s].status =>
           /\ row[s].status = "completed" =>
                  s \in cancelling \/ (~PlaysOnce(s) /\ row'[s].status = "failed")
           /\ row[s].status = "cancelled" => s \in raced]_vars

\* A session that was played to its end has every artifact, however often it was
\* cut off, cancelled in between or resumed.
CompletedIsWhole ==
    \A s \in Sessions :
        row[s].status = "completed" /\ scored[s] > 0 => row[s].arts = Artifacts

\* The ideas of a session with one game are scored once and cross-written once,
\* whatever is resumed; only a session cut off after its scores were inserted and
\* before the artifact that says so was saved is scored again.
ScoredOnce ==
    \A s \in Sessions :
        PlaysOnce(s) => crossed[s] <= 1 /\ (s \notin torn => scored[s] <= 1)

\* The scheduler never has two of its own sessions unfinished, as long as its
\* counts succeed and no cancelled session is brought back.
OneAutomaticSession ==
    ~miscounted /\ raced = {} =>
        Cardinality({s \in Created : /\ row[s].kind = "auto"
                                      /\ row[s].status \notin Terminal}) <= 1

\* A run that is aborted before its expert game has looked at the signal for the
\* last time, at the end of the third of its four rounds, publishes nothing of it in
\* any of the stages that follow.  One that is aborted later is saved, scored and
\* published like any other.
AbortStopsGame ==
    [][run # NoRun /\ run.at # "interrupted" /\ run.early => UNCHANGED published]_vars

\* The watcher aborts a run because its session was cancelled: the run itself
\* leaves no terminal status behind while it has work to do (cancel-watcher.ts:10).
WatcherHeedsCancels == [][Watch => S \in cancelled]_vars

\* Every session is played to a terminal status.
SessionsSettle ==
    \A s \in Sessions : row[s].status = "pending" ~> row[s].status \in Terminal

\* What holds of rows and results at every moment: a session is whole, is scored
\* once, and the scheduler has one of its own.
Inv ==
    /\ TypeOK
    /\ CompletedIsWhole
    /\ ScoredOnce
    /\ OneAutomaticSession
=============================================================================
