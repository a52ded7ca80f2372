----------------------------- MODULE Workflows -----------------------------
(***************************************************************************)
(* One workflow: its row, with the graph that was drawn last               *)
(* (web/routes/workflows.ts, store/workflows.ts), and one execution of it, *)
(* begun by hand in the web process (workflows/engine.ts, validation.ts),  *)
(* which keeps the graph it was begun with.  No job ever begins one: the   *)
(* app gives the routes no cronStore, so a trigger is never written to     *)
(* cron_jobs.                                                              *)
(*                                                                         *)
(* A step is a query or the work of a node.  A query may fail, the process *)
(* may die.  Templates, prompts and outputs are left out; of an output the *)
(* verdict of a condition is kept.                                         *)
(***************************************************************************)
EXTENDS Naturals, Sequences, FiniteSets, SequencesExt

CONSTANTS
    Graphs,      \* graphs by name: [type |-> [node -> type], edges |-> set of [from, handle, to]]
    Rows,        \* bound: the graphs a request may write
    MaxRequests, \* bound: requests that write the workflow
    MaxSteps,    \* MAX_STEPS
    MaxRetries,  \* MAX_RETRIES
    MaxFaults    \* bound: failing queries and crashes

Types   == {"trigger", "agent", "condition", "other"}
Handles == {"true", "false", "null"}

ASSUME WorkflowAssumption ==
    /\ \A s \in DOMAIN Graphs :
           /\ IsFiniteSet(DOMAIN Graphs[s].type)
           /\ \A n \in DOMAIN Graphs[s].type : Graphs[s].type[n] \in Types
           /\ \A e \in Graphs[s].edges : e.handle \in Handles
    /\ {"unused", "done", "deleted"} \cap DOMAIN Graphs = {}
    /\ Rows \subseteq DOMAIN Graphs
    /\ MaxRequests \in Nat /\ MaxSteps \in Nat /\ MaxRetries \in Nat /\ MaxFaults \in Nat

Requests == 1..MaxRequests
Shapes   == DOMAIN Graphs

VARIABLES
    wf,         \* the row in workflows: the name of its graph, or that it is deleted
    edits,      \* PUT requests: the graph that each has yet to write
    shape,      \* the graph of the execution
    exec,       \* runExecution: where it is and its locals
    execution,  \* status in workflow_executions
    step,       \* per node the status in workflow_execution_steps
    output,     \* and what a condition has yielded
    crashed,    \* history: the process has died during the execution
    failures,   \* history: failed queries of the execution
    faults

schedule == <<wf, edits>>
engine   == <<exec, execution, step, output, crashed, failures>>
flowVars == <<shape, schedule, engine, faults>>

graph      == Graphs[shape]
Nodes      == DOMAIN graph.type
OfType(ty) == {n \in Nodes : graph.type[n] = ty}
Trigger    == OfType("trigger")

NoExec == [at |-> "idle"]
Exec == [at : {"insert", "begin", "take", "skip", "skipped", "create", "start", "work", "save",
               "stepfail", "fail", "finish", "again"},
         queue : Seq(Nodes), seen : SUBSET Nodes, node : Nodes,
         pruned : SUBSET Nodes, count : 0..MaxSteps, attempt : 0..MaxRetries,
         verdict : {"none", "true", "false"}, aborted : BOOLEAN]

FlowTypeOK ==
    /\ wf \in Shapes \cup {"deleted"}
    /\ edits \in [Requests -> Shapes \cup {"unused", "done"}]
    /\ shape \in Shapes
    /\ exec = NoExec \/ exec \in Exec
    /\ execution \in {"none", "pending", "running", "completed", "failed"}
    /\ step \in [Nodes -> {"none", "pending", "running", "completed", "failed", "skipped"}]
    /\ output \in [Nodes -> {"none", "true", "false"}]
    /\ crashed \in BOOLEAN
    /\ failures \in 0..MaxFaults /\ faults \in 0..MaxFaults

\* createWorkflow has written the row.
FlowInit ==
    /\ wf \in Shapes /\ shape = wf
    /\ edits = [r \in Requests |-> "unused"]
    /\ exec = NoExec /\ execution = "none"
    /\ step = [n \in Nodes |-> "none"] /\ output = [n \in Nodes |-> "none"]
    /\ crashed = FALSE /\ failures = 0 /\ faults = 0

Fault == faults < MaxFaults /\ faults' = faults + 1

-----------------------------------------------------------------------------
(* The workflow *)

Present == wf \in Shapes
Open    == {r \in Requests : edits[r] \in Shapes}

\* updateWorkflow reads the row and merges the fields of the request into it: the
\* graph is new, or the one that was read ...
PutReads(r, row) ==
    /\ Present /\ edits[r] = "unused"
    /\ edits' = [edits EXCEPT ![r] = row]
    /\ UNCHANGED <<shape, wf, engine, faults>>

\* ... and writes all of it, if the row is still there.
PutWrites(r) ==
    /\ r \in Open
    /\ wf' = IF Present THEN edits[r] ELSE wf
    /\ edits' = [edits EXCEPT ![r] = "done"]
    /\ UNCHANGED <<shape, engine, faults>>

\* The write fails: an error for the user.
PutFails(r) ==
    /\ r \in Open /\ Fault
    /\ edits' = [edits EXCEPT ![r] = "done"]
    /\ UNCHANGED <<shape, wf, engine>>

\* deleteWorkflow: executions and steps go with the row.
Delete ==
    /\ Present
    /\ wf' = "deleted"
    /\ execution' = "none"
    /\ step' = [n \in Nodes |-> "none"] /\ output' = [n \in Nodes |-> "none"]
    /\ UNCHANGED <<shape, edits, exec, crashed, failures, faults>>

-----------------------------------------------------------------------------
(* The graph *)

Targets(edges, X) == {e.to : e \in {d \in edges : d.from \in X}}

\* What can be reached from X along the edges: the least set of nodes that has X
\* and the targets of its own.
Reach(edges, X) ==
    LET closed == {C \in SUBSET Nodes : X \cup Targets(edges, C) \subseteq C}
    IN {n \in Nodes : \A C \in closed : n \in C}

\* Nodes all of whose sources are in X.
Freed(X) == {n \in Nodes : \A e \in graph.edges : e.to = n => e.from \in X}

\* Kahn's algorithm: what is visited when nothing more is freed, which is the least
\* set that frees no node outside.
Sorted ==
    LET closed == {C \in SUBSET Nodes : Freed(C) \subseteq C}
    IN {n \in Nodes : \A C \in closed : n \in C}

\* Mutant of Valid: nodes that the trigger does not reach are accepted.
ValidUnreached ==
    /\ Cardinality(Trigger) = 1
    /\ \A e \in graph.edges : {e.from, e.to} \subseteq Nodes
    /\ Sorted = Nodes

\* validateWorkflowForExecution
Valid ==
    /\ Cardinality(Trigger) = 1
    /\ \A e \in graph.edges : {e.from, e.to} \subseteq Nodes
    /\ Reach(graph.edges, Trigger) = Nodes
    /\ Sorted = Nodes

\* Whether a condition that yields verdict follows an edge with this handle.
Follows(handle, verdict) == (handle \in {"true", "null"}) = (verdict = "true")

-----------------------------------------------------------------------------
(* The execution *)

At(p)    == exec # NoExec /\ exec.at = p
Recorded == execution # "none"

\* POST /workflows/:id/run reads the row, and startWorkflowExecution takes the
\* graph from it, if it is valid; enabled is not looked at.
Begin ==
    /\ exec = NoExec /\ execution = "none" /\ Present
    /\ shape' = wf /\ Valid'
    /\ \E t \in Trigger' :
           exec' = [at |-> "insert", queue |-> <<t>>, seen |-> {}, node |-> t, pruned |-> {},
                    count |-> 0, attempt |-> 0, verdict |-> "none", aborted |-> FALSE]
    /\ step' = [n \in Nodes' |-> "none"] /\ output' = [n \in Nodes' |-> "none"]
    /\ UNCHANGED <<schedule, execution, crashed, failures, faults>>

\* createExecution; the row refers to that of the workflow.
InsertExecution ==
    /\ At("insert")
    /\ IF Present THEN execution' = "pending" /\ exec' = [exec EXCEPT !.at = "begin"]
                  ELSE UNCHANGED execution /\ exec' = NoExec
    /\ UNCHANGED <<shape, schedule, step, output, crashed, failures, faults>>

\* A write to the execution's row, which may have been deleted.
SetExecution(status) == execution' = IF Recorded THEN status ELSE execution

\* A write to the row of the node's step.
SetStep(status) == step' = IF Recorded THEN [step EXCEPT ![exec.node] = status] ELSE step

MarkRunning ==
    /\ At("begin")
    /\ SetExecution("running")
    /\ exec' = [exec EXCEPT !.at = "take"]
    /\ UNCHANGED <<shape, schedule, step, output, crashed, failures, faults>>

\* The next node in the order of topologicalSort: the nodes it frees are queued,
\* in the order of its edges.
TakeNode ==
    /\ At("take")
    /\ IF exec.queue = <<>> THEN exec' = [exec EXCEPT !.at = "finish"]
       ELSE LET n == Head(exec.queue)
                seen == exec.seen \cup {n}
                freed == Targets(graph.edges, {n}) \cap Freed(seen) IN
            \E more \in SetToSeqs(freed) :
                LET e == [exec EXCEPT !.queue = Tail(@) \o more, !.seen = seen, !.node = n] IN
                exec' = IF n \in Trigger THEN e
                        ELSE IF n \in exec.pruned THEN [e EXCEPT !.at = "skip"]
                        ELSE IF exec.count >= MaxSteps \/ exec.aborted
                             THEN [e EXCEPT !.at = "fail"]
                        ELSE [e EXCEPT !.at = "create", !.count = @ + 1]
    /\ UNCHANGED <<shape, schedule, execution, step, output, crashed, failures, faults>>

\* createStep, for a node that is skipped or one that is run; it fails when the
\* execution has been deleted.
CreateStep ==
    /\ exec # NoExec /\ exec.at \in {"skip", "create"}
    /\ SetStep("pending")
    /\ exec' = [exec EXCEPT !.at = IF ~Recorded THEN "fail"
                                   ELSE IF exec.at = "skip" THEN "skipped" ELSE "start"]
    /\ UNCHANGED <<shape, schedule, execution, output, crashed, failures, faults>>

SkipStep ==
    /\ At("skipped")
    /\ SetStep("skipped")
    /\ exec' = [exec EXCEPT !.at = "take"]
    /\ UNCHANGED <<shape, schedule, execution, output, crashed, failures, faults>>

StartStep ==
    /\ At("start")
    /\ SetStep("running")
    /\ exec' = [exec EXCEPT !.at = "work"]
    /\ UNCHANGED <<shape, schedule, execution, output, crashed, failures, faults>>

\* executeNode returns; a condition with a verdict.
NodeReturns ==
    /\ At("work")
    /\ \E v \in IF graph.type[exec.node] = "condition" THEN {"true", "false"} ELSE {"none"} :
           exec' = [exec EXCEPT !.at = "save", !.verdict = v]
    /\ UNCHANGED <<shape, schedule, execution, step, output, crashed, failures, faults>>

\* executeNode throws.
NodeThrows ==
    /\ At("work")
    /\ exec' = [exec EXCEPT !.at = "stepfail"]
    /\ UNCHANGED <<shape, schedule, execution, step, output, crashed, failures, faults>>

\* Mutant of AgentRetries: the attempts are not counted.
AgentRetriesForever ==
    /\ At("work") /\ graph.type[exec.node] = "agent"
    /\ exec' = [exec EXCEPT !.attempt = 1 - @]
    /\ UNCHANGED <<shape, schedule, execution, step, output, crashed, failures, faults>>

\* The agent's process has exited, say: it is called again, unless the execution
\* has timed out meanwhile.
AgentRetries ==
    /\ At("work") /\ graph.type[exec.node] = "agent"
    /\ exec.attempt < MaxRetries
    /\ exec' = IF exec.aborted THEN [exec EXCEPT !.at = "stepfail"]
                               ELSE [exec EXCEPT !.attempt = @ + 1]
    /\ UNCHANGED <<shape, schedule, execution, step, output, crashed, failures, faults>>

\* Mutant of Pruned: the branch not taken is cut at its first node only.
PrunedFirst(n, verdict, pruned) ==
    pruned \cup {e.to : e \in {d \in graph.edges : d.from = n /\ ~Follows(d.handle, verdict)}}

\* markSubtreeUnreachable, for every edge that the condition does not follow: the
\* subtree up to nodes that are unreachable already.
Pruned(n, verdict, pruned) ==
    LET cut == {e.to : e \in {d \in graph.edges : d.from = n /\ ~Follows(d.handle, verdict)}}
    IN pruned \cup Reach({e \in graph.edges : e.from \notin pruned}, cut \ pruned)

\* The output is saved and a condition prunes what it does not follow.
SaveStep ==
    /\ At("save")
    /\ SetStep("completed")
    /\ output' = IF Recorded THEN [output EXCEPT ![exec.node] = exec.verdict] ELSE output
    /\ exec' = [exec EXCEPT !.at = "take", !.verdict = "none", !.attempt = 0,
                !.pruned = IF graph.type[exec.node] = "condition"
                           THEN Pruned(exec.node, exec.verdict, @) ELSE @]
    /\ UNCHANGED <<shape, schedule, execution, crashed, failures, faults>>

FailStep ==
    /\ At("stepfail")
    /\ SetStep("failed")
    /\ exec' = [exec EXCEPT !.at = "fail"]
    /\ UNCHANGED <<shape, schedule, execution, output, crashed, failures, faults>>

\* The execution's last write: completed, failed in the catch of runExecution,
\* or failed once more by startWorkflowExecution when that write has thrown.
FinishExecution ==
    /\ exec # NoExec /\ exec.at \in {"finish", "fail", "again"}
    /\ SetExecution(IF exec.at = "finish" THEN "completed" ELSE "failed")
    /\ exec' = NoExec
    /\ UNCHANGED <<shape, schedule, step, output, crashed, failures, faults>>

\* Where the execution goes when the query it is at fails.
AfterError ==
    [at \in {"insert", "begin", "skip", "skipped", "create", "start", "save", "stepfail",
             "finish", "fail", "again"} |->
        CASE at \in {"insert", "again"} -> "idle"
          [] at = "save" -> "stepfail"
          [] at \in {"begin", "fail"} -> "again"
          [] OTHER -> "fail"]

QueryFails ==
    /\ exec # NoExec /\ exec.at \in DOMAIN AfterError
    /\ Fault /\ failures' = failures + 1
    /\ exec' = IF AfterError[exec.at] = "idle" THEN NoExec
               ELSE [exec EXCEPT !.at = AfterError[exec.at]]
    /\ UNCHANGED <<shape, schedule, execution, step, output, crashed>>

\* The timer of runExecution.
TimeOut ==
    /\ exec # NoExec /\ exec.at \notin {"insert", "begin", "again"} /\ ~exec.aborted
    /\ exec' = [exec EXCEPT !.aborted = TRUE]
    /\ UNCHANGED <<shape, schedule, execution, step, output, crashed, failures, faults>>

\* The web process dies, with its requests and its execution.
Crash ==
    /\ Fault
    /\ Open # {} \/ exec # NoExec
    /\ edits' = [r \in Requests |-> IF r \in Open THEN "done" ELSE edits[r]]
    /\ exec' = NoExec /\ crashed' = (crashed \/ exec # NoExec)
    /\ UNCHANGED <<shape, wf, execution, step, output, failures>>

-----------------------------------------------------------------------------
EngineStep ==
    \/ InsertExecution \/ MarkRunning \/ TakeNode \/ CreateStep \/ SkipStep \/ StartStep
    \/ NodeReturns \/ NodeThrows \/ AgentRetries \/ SaveStep \/ FailStep \/ FinishExecution

FlowNext ==
    \/ \E r \in Requests : \/ \E row \in Rows \cup {wf} : PutReads(r, row)
                           \/ PutWrites(r) \/ PutFails(r)
    \/ Delete \/ Begin \/ Crash
    \/ InsertExecution \/ MarkRunning \/ TakeNode \/ CreateStep \/ SkipStep \/ StartStep
    \/ NodeReturns \/ NodeThrows \/ AgentRetries \/ SaveStep \/ FailStep \/ FinishExecution
    \/ QueryFails \/ TimeOut

\* Every query and every node's work ends.
FlowFairness == WF_exec(EngineStep)

FlowSpec == FlowInit /\ [][FlowNext]_flowVars
FlowFairSpec == FlowSpec /\ FlowFairness
-----------------------------------------------------------------------------
(* Properties *)

\* Whether the execution has followed an edge out of a node that is done.
Taken(e) == graph.type[e.from] = "condition" => Follows(e.handle, output[e.from])

\* A node is only run when every edge into it was followed from a completed node:
\* its inputs are there.
InputsReady ==
    \A n \in Nodes : step[n] \in {"running", "completed", "failed"} =>
        \A e \in graph.edges : e.to = n =>
            e.from \in Trigger \/ (step[e.from] = "completed" /\ Taken(e))

\* In a completed execution the nodes behind an edge that was not followed are
\* skipped, and all others have been run: none is left out.
ExactBranches ==
    execution = "completed" =>
        LET cut == {e.to : e \in {d \in graph.edges :
                                    step[d.from] = "completed" /\ ~Taken(d)}} IN
        \A n \in Nodes \ Trigger :
            step[n] = IF n \in Reach(graph.edges, cut) THEN "skipped" ELSE "completed"

\* An execution that has ended leaves no step open, and one failed step at most,
\* unless a query has failed.
StepsClosed ==
    execution \in {"completed", "failed"} /\ failures = 0 =>
        /\ \A n \in Nodes : step[n] \notin {"pending", "running"}
        /\ Cardinality({n \in Nodes : step[n] = "failed"}) <= 1

\* An execution without an executor is left unfinished by a crash only, or by
\* two failing queries.
NoGhost ==
    exec = NoExec /\ execution \in {"pending", "running"} => crashed \/ failures >= 2

\* Every execution ends, but for the same reasons.
ExecutionSettles ==
    execution \in {"pending", "running"}
        ~> (execution \in {"none", "completed", "failed"} \/ crashed \/ failures >= 2)

\* What holds of an execution and its steps at every moment, whatever becomes of
\* the workflow meanwhile: a step has its inputs, an execution that has ended
\* leaves no step open, and one without an executor is excused.
FlowsSound ==
    /\ FlowTypeOK
    /\ InputsReady
    /\ StepsClosed
    /\ NoGhost
=============================================================================
