---------------------------- MODULE KanDelivery ----------------------------
(***************************************************************************)
(* The push of fused social events to the Kan channels of one route:       *)
(* pipelines/social/autonomous-monitor.ts (the push of a candidate and     *)
(* retryPendingKanDeliveries), pipelines/social/kan-delivery.ts, the queue *)
(* in store/social-monitor.ts and dispatchKanMessage in                    *)
(* integrations/kan/client.ts.                                             *)
(*                                                                         *)
(* Two events are one story when compareSocialFusionDedupeFingerprints     *)
(* calls them duplicates; the comparison is taken to be an equivalence.    *)
(* A monitor posts to one channel at a time and writes the queue row only  *)
(* when it has tried them all; between two posts the process may die, the  *)
(* route may be edited, and another monitor may run.                       *)
(***************************************************************************)
EXTENDS Naturals, Sequences, FiniteSets

CONSTANTS
    Monitors,         \* monitor loops that run at the same time
    Stories,          \* classes of duplicate events
    Channels,         \* Kan channels
    BatchLimit,       \* rows a retry pass takes (20)
    DedupeLimit,      \* rows the duplicate search looks at (200)
    MaxRows,          \* bound: rows of the queue
    MaxRouteChanges,  \* bound: edits of the route
    MaxCrashes        \* bound: deaths of a monitor's process

ASSUME KanAssumption ==
    /\ Stories # {}
    /\ BatchLimit \in Nat \ {0} /\ DedupeLimit \in Nat \ {0}
    /\ MaxRows \in Nat /\ MaxRouteChanges \in Nat /\ MaxCrashes \in Nat

New == 0   \* the row of a candidate that has none yet

\* social_kan_queue, in the order of created_at; delivered is what
\* successfulKanChannelIdsFromPayload reads from the payload.
Row == [story : Stories, status : {"pending", "held", "sent", "skipped"},
        delivered : SUBSET Channels]

\* A row as a retry pass has read it.
Listed == [id : Nat, story : Stories, delivered : SUBSET Channels]

\* What a loop holds in its local variables.  list: what is left of a retry
\* pass; row, story, base: what is being pushed and where it has been delivered
\* before; todo, ok, failed: the dispatch.
Job == [at : {"wait", "retry", "search", "post"},
        list : SUBSET Listed,
        route : SUBSET Channels, row : Nat, story : Stories,
        base : SUBSET Channels, todo : SUBSET Channels, ok : SUBSET Channels,
        failed : BOOLEAN]

NoJob == [at |-> "wait", list |-> {}, route |-> {}, row |-> New,
          story |-> CHOOSE s \in Stories : TRUE,
          base |-> {}, todo |-> {}, ok |-> {}, failed |-> FALSE]

VARIABLES
    route,         \* channelIds of the configured route; {} when there is none
    routeChanges,  \* number of edits so far
    queue,         \* social_kan_queue
    posted,        \* what Kan has: pairs of a story and a channel
    job,           \* the loops
    crashes        \* number of deaths so far

vars == <<route, routeChanges, queue, posted, job, crashes>>

TypeOK ==
    /\ route \in SUBSET Channels
    /\ routeChanges \in 0..MaxRouteChanges
    /\ queue \in Seq(Row)
    /\ posted \in SUBSET (Stories \X Channels)
    /\ job \in [Monitors -> Job]
    /\ crashes \in 0..MaxCrashes

Init ==
    /\ route \in SUBSET Channels
    /\ routeChanges = 0
    /\ queue = <<>>
    /\ posted = {}
    /\ job = [x \in Monitors |-> NoJob]
    /\ crashes = 0

-----------------------------------------------------------------------------
(* store/social-monitor.ts *)

Pending == {i \in DOMAIN queue : queue[i].status = "pending"}

\* Mutant of Batch: the oldest rows are cut to the limit before the pending
\* ones are selected.
BatchCut == {i \in Pending : i <= BatchLimit}

\* listPendingSocialKanQueue: the oldest pending rows.
Batch == {i \in Pending : Cardinality({k \in Pending : k < i}) < BatchLimit}

\* The rows findRecentSocialKanDuplicate looks at: the latest that were pushed.
Recent == {i \in DOMAIN queue :
              /\ queue[i].status \in {"sent", "pending"}
              /\ Cardinality({k \in DOMAIN queue :
                    k > i /\ queue[k].status \in {"sent", "pending"}}) < DedupeLimit}

\* Mutant of Duplicates: rows that are still pending are not looked at.
DuplicatesSent(s) == {i \in Recent : queue[i].story = s /\ queue[i].status = "sent"}

Duplicates(s) == {i \in Recent : queue[i].story = s}

\* deliveredChannelIds of the match
Delivered(s) == UNION {queue[i].delivered : i \in Duplicates(s)}

\* upsertSocialKanQueue: a new row, or a new status and payload.
Upsert(id, s, status, delivered) ==
    LET row == [story |-> s, status |-> status, delivered |-> delivered]
    IN  queue' = IF id = New THEN Append(queue, row) ELSE [queue EXCEPT ![id] = row]

-----------------------------------------------------------------------------
(* The loop of the monitor *)

\* The start of retryPendingKanDeliveries; it does nothing without a route.
BeginCycle(x) ==
    /\ job[x].at = "wait"
    /\ job' = [job EXCEPT ![x] =
                 IF route = {} THEN [@ EXCEPT !.at = "search"]
                 ELSE [@ EXCEPT !.at = "retry", !.route = route,
                           !.list = {[id |-> i, story |-> queue[i].story,
                                      delivered |-> queue[i].delivered] : i \in Batch}]]
    /\ UNCHANGED <<route, routeChanges, queue, posted, crashes>>

\* The next row r of the pass, the oldest: closed when its channels are all
\* served, else sent to the missing ones.
RetryNext(x, r) ==
    LET j       == job[x]
        missing == j.route \ r.delivered
    IN
    /\ j.at = "retry"
    /\ \A q \in j.list : r.id <= q.id
    /\ IF missing = {}
       THEN /\ Upsert(r.id, r.story, "sent", r.delivered)
            /\ job' = [job EXCEPT ![x].list = @ \ {r}]
       ELSE /\ job' = [job EXCEPT ![x] =
                         [j EXCEPT !.at = "post", !.list = @ \ {r}, !.row = r.id,
                                   !.story = r.story, !.base = r.delivered,
                                   !.todo = missing, !.ok = {}, !.failed = FALSE]]
            /\ UNCHANGED queue
    /\ UNCHANGED <<route, routeChanges, posted, crashes>>

RetryEnds(x) ==
    /\ job[x].at = "retry" /\ job[x].list = {}
    /\ job' = [job EXCEPT ![x].at = "search"]
    /\ UNCHANGED <<route, routeChanges, queue, posted, crashes>>

\* A fused candidate of story s.  push is buildKanDecision's verdict.  With no
\* channel to send to, dispatchKanMessage throws and the push has failed.
Candidate(x, s, push) ==
    LET dup    == Duplicates(s) # {}
        toSend == IF dup THEN route \ Delivered(s) ELSE route
    IN
    /\ job[x].at = "search"
    /\ Len(queue) < MaxRows
    /\ CASE ~push ->
              Upsert(New, s, "held", {}) /\ UNCHANGED job
         [] push /\ dup /\ route # {} /\ toSend = {} ->
              Upsert(New, s, "skipped", Delivered(s)) /\ UNCHANGED job
         [] OTHER ->
              /\ job' = [job EXCEPT ![x] =
                           [@ EXCEPT !.at = "post", !.route = route, !.row = New,
                                     !.story = s, !.base = Delivered(s), !.todo = toSend,
                                     !.ok = {}, !.failed = (toSend = {})]]
              /\ UNCHANGED queue
    /\ UNCHANGED <<route, routeChanges, posted, crashes>>

\* The cycle is over and the loop waits for the next.
EndCycle(x) ==
    /\ job[x].at = "search"
    /\ job' = [job EXCEPT ![x] = NoJob]
    /\ UNCHANGED <<route, routeChanges, queue, posted, crashes>>

\* postKanMessage to channel c: it answers, it fails, or the message is posted
\* and the answer is lost, which the client reports as a failure.
PostOk(x, c) ==
    /\ job[x].at = "post" /\ c \in job[x].todo
    /\ posted' = posted \cup {<<job[x].story, c>>}
    /\ job' = [job EXCEPT ![x].todo = @ \ {c}, ![x].ok = @ \cup {c}]
    /\ UNCHANGED <<route, routeChanges, queue, crashes>>

\* Mutant of PostFail: a delivery with an error counts as successful.
PostFailCounted(x, c, arrives) ==
    /\ job[x].at = "post" /\ c \in job[x].todo
    /\ posted' = IF arrives THEN posted \cup {<<job[x].story, c>>} ELSE posted
    /\ job' = [job EXCEPT ![x].todo = @ \ {c}, ![x].ok = @ \cup {c}]
    /\ UNCHANGED <<route, routeChanges, queue, crashes>>

PostFail(x, c, arrives) ==
    /\ job[x].at = "post" /\ c \in job[x].todo
    /\ posted' = IF arrives THEN posted \cup {<<job[x].story, c>>} ELSE posted
    /\ job' = [job EXCEPT ![x].todo = @ \ {c}, ![x].failed = TRUE]
    /\ UNCHANGED <<route, routeChanges, queue, crashes>>

\* Mutant of Outcome: one success is enough.
OutcomeAny(j) == IF j.ok # {} THEN "sent" ELSE "pending"

\* The status of the row after a dispatch: a candidate asks whether every post
\* succeeded, a retry whether the channels of the route are all served.
Outcome(j) ==
    IF IF j.row = New THEN ~j.failed ELSE j.route \subseteq j.base \cup j.ok
    THEN "sent" ELSE "pending"

\* Mutant of Merged: the channels served before are forgotten.
MergedNew(j) == j.ok

\* mergeSuccessfulKanChannelIds
Merged(j) == j.base \cup j.ok

\* The row is written when every channel has been tried.
FinishPost(x) ==
    LET j == job[x] IN
    /\ j.at = "post" /\ j.todo = {}
    /\ Upsert(j.row, j.story, Outcome(j), Merged(j))
    /\ job' = [job EXCEPT ![x].at = IF j.row = New THEN "search" ELSE "retry"]
    /\ UNCHANGED <<route, routeChanges, posted, crashes>>

\* The process dies, or a query of the loop throws and ends the run.
Crash(x) ==
    /\ job[x] # NoJob
    /\ crashes < MaxCrashes
    /\ crashes' = crashes + 1
    /\ job' = [job EXCEPT ![x] = NoJob]
    /\ UNCHANGED <<route, routeChanges, queue, posted>>

\* The route is edited in the settings.
EditRoute ==
    /\ routeChanges < MaxRouteChanges
    /\ routeChanges' = routeChanges + 1
    /\ route' \in SUBSET Channels \ {route}
    /\ UNCHANGED <<queue, posted, job, crashes>>

-----------------------------------------------------------------------------
Loop(x) == BeginCycle(x) \/ (\E r \in job[x].list : RetryNext(x, r)) \/ RetryEnds(x) \/ FinishPost(x) \/ EndCycle(x)

Next ==
    \/ \E x \in Monitors :
          \/ BeginCycle(x) \/ RetryEnds(x) \/ FinishPost(x) \/ EndCycle(x)
          \/ \E r \in job[x].list : RetryNext(x, r)
          \/ \E s \in Stories, push \in BOOLEAN : Candidate(x, s, push)
          \/ \E c \in Channels : \/ PostOk(x, c)
                                 \/ \E arrives \in BOOLEAN : PostFail(x, c, arrives)
          \/ Crash(x)
    \/ EditRoute

\* A continuous monitor goes on cycling, and a channel that is asked again and
\* again answers at last.
Fairness ==
    \A x \in Monitors :
        /\ WF_vars(Loop(x))
        /\ \A c \in Channels : SF_vars(PostOk(x, c))

Spec == Init /\ [][Next]_vars
FairSpec == Spec /\ Fairness
-----------------------------------------------------------------------------
(* Properties *)

\* A channel is recorded as served only if Kan has the message there: nothing
\* is ever dropped because the queue believes a push that did not happen.
DeliveredWasPosted ==
    \A i \in DOMAIN queue : \A c \in queue[i].delivered : <<queue[i].story, c>> \in posted

\* A row becomes "sent" only when every channel of the route, as the loop that
\* writes the row read it, has the story, whether by this push or by one of a
\* duplicate.
SentReachedAll ==
    [][\A i \in DOMAIN queue' :
          queue'[i].status = "sent" /\ (i \in DOMAIN queue => queue[i].status # "sent") =>
             \E x \in Monitors :
                /\ job'[x] # job[x]
                /\ \A c \in job[x].route : <<queue'[i].story, c>> \in posted]_vars

\* The channels that the rows within reach record as served with story s.
Known(s) == {c \in Channels : \E i \in Recent : queue[i].story = s /\ c \in queue[i].delivered}

\* The candidate path never posts to a channel that a row of the same story
\* records as served (channelsToSend and fullyDeliveredDuplicate).
CandidateSkipsDelivered ==
    \A x \in Monitors : job[x].at = "post" /\ job[x].row = New =>
        job[x].todo \cap Known(job[x].story) = {}

\* The record of a row only grows and a sent row stays sent: a retry keeps what
\* earlier attempts have achieved.
LedgerGrows ==
    [][\A i \in DOMAIN queue :
          /\ queue[i].delivered \subseteq queue'[i].delivered
          /\ queue[i].status = "sent" => queue'[i].status = "sent"]_vars

\* A pending row is sent in the end, unless the route has lost its channels.
Has(i, status) == i \in DOMAIN queue /\ queue[i].status = status
PendingIsSent == \A i \in 1..MaxRows : Has(i, "pending") ~> Has(i, "sent") \/ route = {}
=============================================================================
