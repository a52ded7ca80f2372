------------------------ MODULE KanDelivery_proofs ------------------------
(***************************************************************************)
(* Safety of the Kan push, for any number of stories, channels and rows.   *)
(* The type invariant, DeliveredWasPosted and SentReachedAll hold for any  *)
(* number of monitors; CandidateSkipsDelivered and LedgerGrows are proved  *)
(* for monitors that take turns, which the start path of SocialMonitor     *)
(* aims at.                                                                *)
(***************************************************************************)
EXTENDS KanDelivery, SequenceTheorems, TLAPS

\* Every record of a delivery that a loop holds in its local variables, read
\* from a row or made by a post of its own, is of a message that Kan has.
HeldWasPosted ==
    \A x \in Monitors :
        /\ \A r \in job[x].list : \A c \in r.delivered : <<r.story, c>> \in posted
        /\ job[x].at = "post" =>
              \A c \in job[x].base \cup job[x].ok : <<job[x].story, c>> \in posted

\* Until a post fails, every channel of the route is served or still to do.
RouteIsCovered ==
    \A x \in Monitors :
        job[x].at = "post" /\ job[x].row = New /\ ~job[x].failed =>
            job[x].route \subseteq job[x].base \cup job[x].todo \cup job[x].ok

IInv == TypeOK /\ DeliveredWasPosted /\ HeldWasPosted /\ RouteIsCovered

-----------------------------------------------------------------------------
(* The helpers *)

LEMMA NoJobType == NoJob \in Job
<1>1. (CHOOSE s \in Stories : TRUE) \in Stories
  BY KanAssumption
<1>2. QED
  BY <1>1 DEF NoJob, Job, New, Listed

\* A write gives one row, new or old, the story, status and record it is
\* called with and leaves the others alone.
LEMMA UpsertRow ==
    ASSUME queue \in Seq(Row), NEW id \in Nat, NEW s \in Stories,
           NEW st \in {"pending", "held", "sent", "skipped"},
           NEW d \in SUBSET Channels, Upsert(id, s, st, d)
    PROVE  /\ queue' \in Seq(Row)
           /\ DOMAIN queue \subseteq DOMAIN queue'
           /\ \A i \in DOMAIN queue' :
                 \/ /\ i \in DOMAIN queue /\ queue'[i] = queue[i]
                    /\ id # New => i # id
                 \/ /\ queue'[i] = [story |-> s, status |-> st, delivered |-> d]
                    /\ IF id = New THEN i \notin DOMAIN queue
                                   ELSE i = id /\ i \in DOMAIN queue
<1> DEFINE row == [story |-> s, status |-> st, delivered |-> d]
<1>0. row \in Row
  BY DEF Row
<1>1. CASE id = New
  <2>1. queue' = Append(queue, row)
    BY <1>1 DEF Upsert
  <2>2. QED
    BY <1>0, <1>1, <2>1
<1>2. CASE id # New
  <2>1. queue' = [queue EXCEPT ![id] = row]
    BY <1>2 DEF Upsert
  <2>2. CASE id \in DOMAIN queue
    <3>1. queue' \in Seq(Row)
      BY <1>0, <2>1, <2>2, ExceptSeq
    <3>2. QED
      BY <1>2, <2>1, <2>2, <3>1
  <2>3. CASE id \notin DOMAIN queue
    <3>1. queue' = queue
      BY <2>1, <2>3
    <3>2. QED
      BY <1>2, <2>3, <3>1
  <2>4. QED
    BY <2>2, <2>3
<1>3. QED
  BY <1>1, <1>2

\* What the duplicate search and a retry pass read from the queue was posted.
LEMMA ReadWasPosted ==
    ASSUME TypeOK, DeliveredWasPosted
    PROVE  /\ \A s \in Stories : Delivered(s) \in SUBSET Channels
           /\ \A s \in Stories : \A c \in Delivered(s) : <<s, c>> \in posted
           /\ \A i \in Batch : /\ i \in DOMAIN queue /\ i \in Nat
                               /\ queue[i] \in Row
                               /\ \A c \in queue[i].delivered : <<queue[i].story, c>> \in posted
<1>1. \A i \in DOMAIN queue : i \in Nat /\ queue[i] \in Row
  BY DEF TypeOK
<1>2. QED
  BY <1>1 DEF DeliveredWasPosted, Delivered, Duplicates, Recent, Batch, Pending, Row

\* The rows of a pass have the type of a pass.
LEMMA PassType ==
    ASSUME TypeOK, DeliveredWasPosted
    PROVE  {[id |-> i, story |-> queue[i].story,
             delivered |-> queue[i].delivered] : i \in Batch} \in SUBSET Listed
  BY ReadWasPosted DEF Listed, Row

\* A change of one loop's variables keeps the type of job if the new value has
\* the type of a job.
LEMMA JobUpdate ==
    ASSUME job \in [Monitors -> Job], NEW x \in Monitors, NEW v \in Job,
           job' = [job EXCEPT ![x] = v]
    PROVE  /\ job' \in [Monitors -> Job] /\ job'[x] = v
           /\ \A y \in Monitors : y # x => job'[y] = job[y]
  OBVIOUS
\* The parts of the invariant about the loops hold after a step that gives one
\* loop the variables v if they hold of v; nothing is ever taken from Kan.
LEMMA LoopStep ==
    ASSUME TypeOK, HeldWasPosted, RouteIsCovered,
           NEW x \in Monitors, NEW v \in Job, job' = [job EXCEPT ![x] = v],
           posted \subseteq posted',
           \A r \in v.list : \A c \in r.delivered : <<r.story, c>> \in posted',
           v.at = "post" => \A c \in v.base \cup v.ok : <<v.story, c>> \in posted',
           v.at = "post" /\ v.row = New /\ ~v.failed =>
               v.route \subseteq v.base \cup v.todo \cup v.ok
    PROVE  job' \in [Monitors -> Job] /\ HeldWasPosted' /\ RouteIsCovered'
<1>1. /\ job' \in [Monitors -> Job] /\ job'[x] = v
      /\ \A y \in Monitors : y # x => job'[y] = job[y]
  BY JobUpdate DEF TypeOK
<1>2. HeldWasPosted'
  BY <1>1 DEF HeldWasPosted
<1>3. RouteIsCovered'
  BY <1>1 DEF RouteIsCovered
<1>4. QED
  BY <1>1, <1>2, <1>3

\* A write of channels that Kan has keeps DeliveredWasPosted.
LEMMA QueueStep ==
    ASSUME TypeOK, DeliveredWasPosted, posted' = posted,
           NEW id \in Nat, NEW s \in Stories,
           NEW st \in {"pending", "held", "sent", "skipped"},
           NEW d \in SUBSET Channels, Upsert(id, s, st, d),
           \A c \in d : <<s, c>> \in posted
    PROVE  queue' \in Seq(Row) /\ DeliveredWasPosted'
<1>1. /\ queue' \in Seq(Row)
      /\ \A i \in DOMAIN queue' :
            \/ i \in DOMAIN queue /\ queue'[i] = queue[i]
            \/ queue'[i] = [story |-> s, status |-> st, delivered |-> d]
  BY UpsertRow DEF TypeOK
<1>2. QED
  BY <1>1 DEF DeliveredWasPosted

-----------------------------------------------------------------------------
(* The invariant, one step per action *)

LEMMA Initially == Init => IInv
<1> SUFFICES ASSUME Init PROVE IInv
  OBVIOUS
<1>1. NoJob.at = "wait" /\ NoJob.list = {}
  BY DEF NoJob
<1>2. TypeOK
  BY NoJobType, KanAssumption DEF Init, TypeOK
<1>3. \A x \in Monitors : job[x] = NoJob
  BY DEF Init
<1>4. HeldWasPosted /\ RouteIsCovered
  BY <1>1, <1>3 DEF HeldWasPosted, RouteIsCovered
<1>5. DeliveredWasPosted
  BY DEF Init, DeliveredWasPosted
<1>6. QED
  BY <1>2, <1>4, <1>5 DEF IInv

LEMMA BeginCycleStep ==
    ASSUME IInv, NEW x \in Monitors, BeginCycle(x) PROVE IInv'
<1> DEFINE rows == {[id |-> i, story |-> queue[i].story,
                     delivered |-> queue[i].delivered] : i \in Batch}
           v == IF route = {} THEN [job[x] EXCEPT !.at = "search"]
                ELSE [job[x] EXCEPT !.at = "retry", !.route = route, !.list = rows]
<1>0. job[x] \in Job /\ route \in SUBSET Channels
  BY DEF IInv, TypeOK
<1>1. rows \in SUBSET Listed
  BY PassType DEF IInv
<1>2. \A r \in rows : \A c \in r.delivered : <<r.story, c>> \in posted
  BY ReadWasPosted DEF IInv
<1>3. job' = [job EXCEPT ![x] = v]
  BY DEF BeginCycle
<1> HIDE DEF rows
<1>4. v \in Job
  BY <1>0, <1>1 DEF Job
<1>5. /\ v.at # "post"
      /\ \A r \in v.list : \A c \in r.delivered : <<r.story, c>> \in posted
  BY <1>0, <1>2 DEF Job, IInv, HeldWasPosted
<1> HIDE DEF v
<1>6. job' \in [Monitors -> Job] /\ HeldWasPosted' /\ RouteIsCovered'
  BY <1>3, <1>4, <1>5, LoopStep DEF BeginCycle, IInv
<1>7. QED
  BY <1>6 DEF BeginCycle, IInv, TypeOK, DeliveredWasPosted

LEMMA RetryNextStep ==
    ASSUME IInv, NEW x \in Monitors, NEW r \in job[x].list, RetryNext(x, r) PROVE IInv'
<1> DEFINE missing == job[x].route \ r.delivered
           v == [job[x] EXCEPT !.at = "post", !.list = @ \ {r}, !.row = r.id,
                               !.story = r.story, !.base = r.delivered,
                               !.todo = missing, !.ok = {}, !.failed = FALSE]
           w == [job[x] EXCEPT !.list = @ \ {r}]
<1>0. job[x] \in Job /\ job[x].list \in SUBSET Listed /\ r \in Listed
  BY DEF IInv, TypeOK, Job
<1>1. /\ r.id \in Nat /\ r.story \in Stories /\ r.delivered \in SUBSET Channels
      /\ \A c \in r.delivered : <<r.story, c>> \in posted
  BY <1>0 DEF Listed, IInv, HeldWasPosted
<1>2. v \in Job /\ w \in Job
  BY <1>0, <1>1 DEF Job
<1>3. CASE missing = {}
  <2>1. job' = [job EXCEPT ![x] = w] /\ Upsert(r.id, r.story, "sent", r.delivered)
    BY <1>3 DEF RetryNext
  <2>2. queue' \in Seq(Row) /\ DeliveredWasPosted'
    BY <1>1, <2>1, QueueStep DEF RetryNext, IInv
  <2>3. job' \in [Monitors -> Job] /\ HeldWasPosted' /\ RouteIsCovered'
    <3>1. /\ w.at # "post"
          /\ \A q \in w.list : \A c \in q.delivered : <<q.story, c>> \in posted
      BY <1>0 DEF Job, RetryNext, IInv, HeldWasPosted
    <3> HIDE DEF w
    <3>2. QED
      BY <1>2, <2>1, <3>1, LoopStep DEF RetryNext, IInv
  <2>4. QED
    BY <2>2, <2>3 DEF RetryNext, IInv, TypeOK
<1>4. CASE missing # {}
  <2>1. job' = [job EXCEPT ![x] = v] /\ queue' = queue
    BY <1>4 DEF RetryNext
  <2>2. job' \in [Monitors -> Job] /\ HeldWasPosted' /\ RouteIsCovered'
    <3>1. /\ \A q \in v.list : \A c \in q.delivered : <<q.story, c>> \in posted
          /\ \A c \in v.base \cup v.ok : <<v.story, c>> \in posted
          /\ v.route \subseteq v.base \cup v.todo \cup v.ok
      BY <1>0, <1>1 DEF Job, IInv, HeldWasPosted
    <3> HIDE DEF v
    <3>2. QED
      BY <1>2, <2>1, <3>1, LoopStep DEF RetryNext, IInv
  <2>3. QED
    BY <2>1, <2>2 DEF RetryNext, IInv, TypeOK, DeliveredWasPosted
<1>5. QED
  BY <1>3, <1>4
LEMMA CandidateStep ==
    ASSUME IInv, NEW x \in Monitors, NEW s \in Stories, NEW push \in BOOLEAN,
           Candidate(x, s, push)
    PROVE  IInv'
<1> DEFINE toSend == IF Duplicates(s) # {} THEN route \ Delivered(s) ELSE route
           v == [job[x] EXCEPT !.at = "post", !.route = route, !.row = New,
                               !.story = s, !.base = Delivered(s), !.todo = toSend,
                               !.ok = {}, !.failed = (toSend = {})]
<1>0. job[x] \in Job /\ route \in SUBSET Channels /\ New \in Nat
  BY DEF IInv, TypeOK, New
<1>1. /\ Delivered(s) \in SUBSET Channels
      /\ \A c \in Delivered(s) : <<s, c>> \in posted
  BY ReadWasPosted DEF IInv
<1>2. /\ UNCHANGED <<route, routeChanges, posted, crashes>>
      /\ \/ Upsert(New, s, "held", {}) /\ UNCHANGED job
         \/ Upsert(New, s, "skipped", Delivered(s)) /\ UNCHANGED job
         \/ job' = [job EXCEPT ![x] = v] /\ UNCHANGED queue
  BY DEF Candidate
<1>3. CASE job' = [job EXCEPT ![x] = v] /\ UNCHANGED queue
  <2>1. v \in Job
    BY <1>0, <1>1 DEF Job
  <2>2. /\ \A r \in v.list : \A c \in r.delivered : <<r.story, c>> \in posted
        /\ \A c \in v.base \cup v.ok : <<v.story, c>> \in posted
        /\ v.route \subseteq v.base \cup v.todo \cup v.ok
    BY <1>0, <1>1 DEF Job, IInv, HeldWasPosted
  <2> HIDE DEF v
  <2>3. job' \in [Monitors -> Job] /\ HeldWasPosted' /\ RouteIsCovered'
    BY <1>2, <1>3, <2>1, <2>2, LoopStep DEF IInv
  <2>4. QED
    BY <1>2, <1>3, <2>3 DEF IInv, TypeOK, DeliveredWasPosted
<1>4. ASSUME UNCHANGED job, queue' \in Seq(Row), DeliveredWasPosted' PROVE IInv'
  BY <1>2, <1>4 DEF IInv, TypeOK, HeldWasPosted, RouteIsCovered
<1>5. CASE Upsert(New, s, "held", {}) /\ UNCHANGED job
  <2>1. queue' \in Seq(Row) /\ DeliveredWasPosted'
    BY <1>0, <1>2, <1>5, QueueStep DEF IInv
  <2>2. QED
    BY <1>4, <1>5, <2>1
<1>6. CASE Upsert(New, s, "skipped", Delivered(s)) /\ UNCHANGED job
  <2>1. queue' \in Seq(Row) /\ DeliveredWasPosted'
    BY <1>0, <1>1, <1>2, <1>6, QueueStep DEF IInv
  <2>2. QED
    BY <1>4, <1>6, <2>1
<1>7. QED
  BY <1>2, <1>3, <1>5, <1>6

\* A post of channel c: whether it counts as a success or not, what is recorded
\* as successful has arrived.
LEMMA PostStep ==
    ASSUME IInv, NEW x \in Monitors, NEW c \in Channels,
           PostOk(x, c) \/ \E arrives \in BOOLEAN : PostFail(x, c, arrives)
    PROVE  IInv'
<1> DEFINE v == [job[x] EXCEPT !.todo = @ \ {c}, !.ok = @ \cup {c}]
           w == [job[x] EXCEPT !.todo = @ \ {c}, !.failed = TRUE]
<1>0. job[x] \in Job /\ job[x].at = "post" /\ c \in job[x].todo
  BY DEF IInv, TypeOK, PostOk, PostFail
<1>1. /\ UNCHANGED <<route, routeChanges, queue, crashes>>
      /\ posted' \in SUBSET (Stories \X Channels) /\ posted \subseteq posted'
  BY <1>0 DEF IInv, TypeOK, PostOk, PostFail, Job
<1>2. v \in Job /\ w \in Job
  BY <1>0 DEF Job
<1>3. \/ job' = [job EXCEPT ![x] = v] /\ <<job[x].story, c>> \in posted'
      \/ job' = [job EXCEPT ![x] = w]
  BY DEF PostOk, PostFail
<1>4. /\ \A r \in job[x].list : \A d \in r.delivered : <<r.story, d>> \in posted'
      /\ \A d \in job[x].base \cup job[x].ok : <<job[x].story, d>> \in posted'
      /\ job[x].row = New /\ ~job[x].failed =>
            job[x].route \subseteq job[x].base \cup job[x].todo \cup job[x].ok
  BY <1>0, <1>1 DEF IInv, HeldWasPosted, RouteIsCovered
<1>5. CASE job' = [job EXCEPT ![x] = v] /\ <<job[x].story, c>> \in posted'
  <2>1. /\ \A r \in v.list : \A d \in r.delivered : <<r.story, d>> \in posted'
        /\ \A d \in v.base \cup v.ok : <<v.story, d>> \in posted'
        /\ v.row = New /\ ~v.failed => v.route \subseteq v.base \cup v.todo \cup v.ok
    BY <1>0, <1>4, <1>5 DEF Job
  <2> HIDE DEF v
  <2>2. job' \in [Monitors -> Job] /\ HeldWasPosted' /\ RouteIsCovered'
    BY <1>1, <1>2, <1>5, <2>1, LoopStep DEF IInv
  <2>3. QED
    BY <1>1, <2>2 DEF IInv, TypeOK, DeliveredWasPosted
<1>6. CASE job' = [job EXCEPT ![x] = w]
  <2>1. /\ \A r \in w.list : \A d \in r.delivered : <<r.story, d>> \in posted'
        /\ \A d \in w.base \cup w.ok : <<w.story, d>> \in posted'
        /\ w.failed
    BY <1>0, <1>4 DEF Job
  <2> HIDE DEF w
  <2>2. job' \in [Monitors -> Job] /\ HeldWasPosted' /\ RouteIsCovered'
    BY <1>1, <1>2, <1>6, <2>1, LoopStep DEF IInv
  <2>3. QED
    BY <1>1, <2>2 DEF IInv, TypeOK, DeliveredWasPosted
<1>7. QED
  BY <1>3, <1>5, <1>6

\* The record written after a dispatch joins what the loop knew before with its
\* own successes.
LEMMA FinishPostStep ==
    ASSUME IInv, NEW x \in Monitors, FinishPost(x) PROVE IInv'
<1> DEFINE v == [job[x] EXCEPT !.at = IF job[x].row = New THEN "search" ELSE "retry"]
<1>0. job[x] \in Job
  BY DEF IInv, TypeOK
<1>1. /\ job[x].row \in Nat /\ job[x].story \in Stories
      /\ Merged(job[x]) \in SUBSET Channels
      /\ Outcome(job[x]) \in {"pending", "held", "sent", "skipped"}
  BY <1>0 DEF Job, Merged, Outcome
<1>2. \A c \in Merged(job[x]) : <<job[x].story, c>> \in posted
  BY DEF FinishPost, IInv, HeldWasPosted, Merged
<1>3. queue' \in Seq(Row) /\ DeliveredWasPosted'
  BY <1>1, <1>2, QueueStep DEF FinishPost, IInv
<1>4. job' = [job EXCEPT ![x] = v]
  BY DEF FinishPost
<1>5. v \in Job /\ v.at # "post"
  BY <1>0 DEF Job
<1>6. \A r \in v.list : \A c \in r.delivered : <<r.story, c>> \in posted
  BY <1>0 DEF IInv, HeldWasPosted, Job
<1> HIDE DEF v
<1>7. job' \in [Monitors -> Job] /\ HeldWasPosted' /\ RouteIsCovered'
  BY <1>4, <1>5, <1>6, LoopStep DEF FinishPost, IInv
<1>8. QED
  BY <1>3, <1>7 DEF FinishPost, IInv, TypeOK

\* The end of a pass, of a cycle and of a process leave the queue and Kan alone.
LEMMA EndStep ==
    ASSUME IInv, NEW x \in Monitors, RetryEnds(x) \/ EndCycle(x) \/ Crash(x)
    PROVE  IInv'
<1> DEFINE v == [job[x] EXCEPT !.at = "search"]
<1>0. job[x] \in Job /\ NoJob \in Job /\ NoJob.at = "wait" /\ NoJob.list = {}
  BY NoJobType DEF IInv, TypeOK, NoJob
<1>1. /\ UNCHANGED <<route, routeChanges, queue, posted>>
      /\ crashes' \in 0..MaxCrashes
  BY KanAssumption DEF RetryEnds, EndCycle, Crash, IInv, TypeOK
<1>2. v \in Job /\ v.at # "post" /\ v.list = job[x].list
  BY <1>0 DEF Job
<1>3. job' = [job EXCEPT ![x] = v] \/ job' = [job EXCEPT ![x] = NoJob]
  BY DEF RetryEnds, EndCycle, Crash
<1> HIDE DEF v
<1>4. job' \in [Monitors -> Job] /\ HeldWasPosted' /\ RouteIsCovered'
  <2>1. CASE job' = [job EXCEPT ![x] = v]
    <3>1. \A r \in v.list : \A c \in r.delivered : <<r.story, c>> \in posted
      BY <1>2 DEF IInv, HeldWasPosted
    <3>2. QED
      BY <1>1, <1>2, <2>1, <3>1, LoopStep DEF IInv
  <2>2. CASE job' = [job EXCEPT ![x] = NoJob]
    <3> DEFINE w == NoJob
    <3>1. w \in Job /\ w.at = "wait" /\ w.list = {} /\ job' = [job EXCEPT ![x] = w]
      BY <1>0, <2>2
    <3> HIDE DEF w
    <3>2. QED
      BY <1>1, <3>1, LoopStep DEF IInv
  <2>3. QED
    BY <1>3, <2>1, <2>2
<1>5. QED
  BY <1>1, <1>4 DEF IInv, TypeOK, DeliveredWasPosted

LEMMA InvStep == IInv /\ [Next]_vars => IInv'
<1> SUFFICES ASSUME IInv, [Next]_vars PROVE IInv'
  OBVIOUS
<1>1. ASSUME NEW x \in Monitors, BeginCycle(x) PROVE IInv'
  BY <1>1, BeginCycleStep
<1>2. ASSUME NEW x \in Monitors, RetryEnds(x) \/ EndCycle(x) \/ Crash(x) PROVE IInv'
  BY <1>2, EndStep
<1>3. ASSUME NEW x \in Monitors, FinishPost(x) PROVE IInv'
  BY <1>3, FinishPostStep
<1>4. ASSUME NEW x \in Monitors, NEW r \in job[x].list, RetryNext(x, r) PROVE IInv'
  BY <1>4, RetryNextStep
<1>5. ASSUME NEW x \in Monitors, NEW s \in Stories, NEW push \in BOOLEAN,
             Candidate(x, s, push)
      PROVE  IInv'
  BY <1>5, CandidateStep
<1>6. ASSUME NEW x \in Monitors, NEW c \in Channels,
             PostOk(x, c) \/ \E arrives \in BOOLEAN : PostFail(x, c, arrives)
      PROVE  IInv'
  BY <1>6, PostStep
<1>7. CASE EditRoute
  BY <1>7, KanAssumption DEF EditRoute, IInv, TypeOK, DeliveredWasPosted, HeldWasPosted, RouteIsCovered
<1>8. CASE UNCHANGED vars
  BY <1>8 DEF vars, IInv, TypeOK, DeliveredWasPosted, HeldWasPosted, RouteIsCovered
<1>9. QED
  BY <1>1, <1>2, <1>3, <1>4, <1>5, <1>6, <1>7, <1>8 DEF Next

LEMMA Invariant == Spec => []IInv
  BY Initially, InvStep, PTL DEF Spec

\* Every variable keeps its type (all of KanDelivery).
THEOREM TypeCorrect == Spec => []TypeOK
  BY Invariant, PTL DEF IInv

\* The queue never records a channel as served that has not received the story
\* (mergeSuccessfulKanChannelIds and successfulKanChannelIdsFromPayload), for
\* any number of monitors that push, crash and retry at the same time.
THEOREM NothingIsLost == Spec => []DeliveredWasPosted
  BY Invariant, PTL DEF IInv
-----------------------------------------------------------------------------
(* What a step may do to a row, for any number of monitors *)

\* The body of SentReachedAll.
SentStep ==
    \A i \in DOMAIN queue' :
        queue'[i].status = "sent" /\ (i \in DOMAIN queue => queue[i].status # "sent") =>
            \E x \in Monitors :
               /\ job'[x] # job[x]
               /\ \A c \in job[x].route : <<queue'[i].story, c>> \in posted

\* A write that says "sent" only of a story that every channel of the writer's
\* route has is a step that SentReachedAll allows.
LEMMA SentWrite ==
    ASSUME TypeOK, NEW x \in Monitors, NEW id \in Nat, NEW s \in Stories,
           NEW st \in {"pending", "held", "sent", "skipped"},
           NEW d \in SUBSET Channels, Upsert(id, s, st, d),
           st = "sent" => /\ job'[x] # job[x]
                          /\ \A c \in job[x].route : <<s, c>> \in posted
    PROVE  SentStep
<1>1. \A i \in DOMAIN queue' :
         \/ i \in DOMAIN queue /\ queue'[i] = queue[i]
         \/ queue'[i] = [story |-> s, status |-> st, delivered |-> d]
  BY UpsertRow DEF TypeOK
<1>2. QED
  BY <1>1 DEF SentStep

LEMMA SentNext == IInv /\ [Next]_vars => SentStep
<1> SUFFICES ASSUME IInv, [Next]_vars PROVE SentStep
  OBVIOUS
<1>0. \A x \in Monitors : job[x] \in Job
  BY DEF IInv, TypeOK
<1>1. ASSUME UNCHANGED queue PROVE SentStep
  BY <1>1 DEF SentStep
<1>2. ASSUME NEW x \in Monitors, FinishPost(x) PROVE SentStep
  <2>1. /\ job[x].row \in Nat /\ job[x].story \in Stories
        /\ Merged(job[x]) \in SUBSET Channels
        /\ Outcome(job[x]) \in {"pending", "held", "sent", "skipped"}
    BY <1>0 DEF Job, Merged, Outcome
  <2>2. Outcome(job[x]) = "sent" => job[x].route \subseteq job[x].base \cup job[x].ok
    BY <1>2 DEF FinishPost, Outcome, IInv, RouteIsCovered
  <2>3. Outcome(job[x]) = "sent" =>
            \A c \in job[x].route : <<job[x].story, c>> \in posted
    BY <1>2, <2>2 DEF FinishPost, IInv, HeldWasPosted
  <2>4. job'[x] # job[x]
    BY <1>0, <1>2 DEF FinishPost, IInv, TypeOK, Job
  <2>5. QED
    BY <1>2, <2>1, <2>3, <2>4, SentWrite DEF FinishPost, IInv
<1>3. ASSUME NEW x \in Monitors, NEW r \in job[x].list, RetryNext(x, r) PROVE SentStep
  <2>1. /\ r.id \in Nat /\ r.story \in Stories /\ r.delivered \in SUBSET Channels
        /\ \A c \in r.delivered : <<r.story, c>> \in posted
    BY <1>0 DEF Job, Listed, IInv, HeldWasPosted
  <2>2. CASE job[x].route \ r.delivered = {}
    <3>1. \A c \in job[x].route : <<r.story, c>> \in posted
      BY <2>1, <2>2
    <3>2. job' = [job EXCEPT ![x].list = @ \ {r}]
      BY <1>3, <2>2 DEF RetryNext
    <3>3. job'[x].list # job[x].list
      BY <1>0, <3>2 DEF IInv, TypeOK, Job
    <3>4. QED
      BY <1>3, <2>1, <2>2, <3>1, <3>3, SentWrite DEF RetryNext, IInv
  <2>3. CASE job[x].route \ r.delivered # {}
    BY <1>1, <1>3, <2>3 DEF RetryNext
  <2>4. QED
    BY <2>2, <2>3
<1>4. ASSUME NEW x \in Monitors, NEW s \in Stories, NEW push \in BOOLEAN,
             Candidate(x, s, push)
      PROVE  SentStep
  <2>1. Delivered(s) \in SUBSET Channels /\ New \in Nat
    BY ReadWasPosted DEF IInv, New
  <2>2. \/ Upsert(New, s, "held", {})
        \/ Upsert(New, s, "skipped", Delivered(s))
        \/ UNCHANGED queue
    BY <1>4 DEF Candidate
  <2>3. CASE Upsert(New, s, "held", {})
    BY <2>1, <2>3, SentWrite DEF IInv
  <2>4. CASE Upsert(New, s, "skipped", Delivered(s))
    BY <2>1, <2>4, SentWrite DEF IInv
  <2>5. QED
    BY <1>1, <2>2, <2>3, <2>4
<1>5. ASSUME NEW x \in Monitors,
             \/ BeginCycle(x) \/ RetryEnds(x) \/ EndCycle(x) \/ Crash(x)
             \/ \E c \in Channels : PostOk(x, c) \/ \E arrives \in BOOLEAN : PostFail(x, c, arrives)
      PROVE  SentStep
  BY <1>1, <1>5 DEF BeginCycle, RetryEnds, EndCycle, Crash, PostOk, PostFail
<1>6. CASE EditRoute
  BY <1>1, <1>6 DEF EditRoute
<1>7. CASE UNCHANGED vars
  BY <1>1, <1>7 DEF vars
<1>8. QED
  BY <1>2, <1>3, <1>4, <1>5, <1>6, <1>7 DEF Next

\* A row becomes "sent" only when every channel of the route its monitor read
\* has the story: dispatchKanMessage's success test for a candidate, the count
\* of successfulChannelIds for a retry.
THEOREM SentIsComplete == Spec => SentReachedAll
<1>1. IInv /\ [Next]_vars => [SentStep]_vars
  BY SentNext
<1>2. QED
  BY <1>1, Invariant, PTL DEF Spec, SentReachedAll, SentStep

-----------------------------------------------------------------------------
(* One monitor *)

\* The rows that loop j has read and will write are as it read them, each is
\* written at most once, and outside a pass there are none.
Fresh(j) ==
    /\ j.at \in {"wait", "search"} => j.list = {}
    /\ j.at = "post" /\ j.row = New => j.list = {}
    /\ \A r \in j.list :
          /\ r.id \in DOMAIN queue /\ r.id # New
          /\ queue[r.id].status = "pending" /\ queue[r.id].delivered = r.delivered
          /\ \A q \in j.list : q.id = r.id => q = r
    /\ j.at = "post" /\ j.row # New =>
          /\ j.row \in DOMAIN queue
          /\ queue[j.row].status = "pending" /\ queue[j.row].delivered = j.base
          /\ \A r \in j.list : r.id # j.row

PassIsFresh == \A x \in Monitors : Fresh(job[x])

\* Monitors take turns: one is in its cycle and the others wait for their next.  It
\* holds where there is one monitor, and OneMonitorWorks of SocialMonitor says when
\* that is so.
OneAtWork ==
    \A x, y \in Monitors : job[x].at # "wait" /\ job[y].at # "wait" => x = y

SoloInv == IInv /\ PassIsFresh /\ CandidateSkipsDelivered

\* The body of LedgerGrows.
GrowsStep ==
    \A i \in DOMAIN queue :
        /\ queue[i].delivered \subseteq queue'[i].delivered
        /\ queue[i].status = "sent" => queue'[i].status = "sent"

\* The duplicate search finds every channel a row within reach records.
LEMMA KnownIsDelivered ==
    \A s \in Stories : Known(s) \subseteq Delivered(s)
  BY DEF Known, Delivered, Duplicates
\* A row that a write does not name keeps its contents.
LEMMA OthersKept ==
    ASSUME queue \in Seq(Row), NEW id \in Nat, NEW s \in Stories,
           NEW st \in {"pending", "held", "sent", "skipped"},
           NEW d \in SUBSET Channels, Upsert(id, s, st, d)
    PROVE  \A i \in DOMAIN queue :
              /\ i \in DOMAIN queue'
              /\ i # id => queue'[i] = queue[i]
              /\ i = id /\ id # New =>
                    queue'[i] = [story |-> s, status |-> st, delivered |-> d]
  BY UpsertRow

\* While m is at work the other loops wait and hold nothing, whatever it writes.
LEMMA OthersWait ==
    ASSUME NEW m \in Monitors, OneAtWork, SoloInv, job[m].at # "wait",
           NEW v, job' = [job EXCEPT ![m] = v]
    PROVE  \A x \in Monitors : x # m =>
               job'[x] = job[x] /\ job[x].at = "wait" /\ Fresh(job[x])'
<1> SUFFICES ASSUME NEW x \in Monitors, x # m
             PROVE  job'[x] = job[x] /\ job[x].at = "wait" /\ Fresh(job[x])'
  OBVIOUS
<1>1. job'[x] = job[x] /\ job[x].at = "wait"
  BY DEF OneAtWork, SoloInv, IInv, TypeOK
<1>2. job[x].list = {}
  BY <1>1 DEF SoloInv, PassIsFresh, Fresh
<1>3. job'[x].list = {} /\ job'[x].at = "wait"
  BY <1>1, <1>2
<1>4. QED
  BY <1>1, <1>3 DEF Fresh

\* What is left to show of a step of loop m when the queue is as it was.
LEMMA QuietStep ==
    ASSUME NEW m \in Monitors, OneAtWork, SoloInv, UNCHANGED queue, NEW v \in Job,
           job' = [job EXCEPT ![m] = v], Fresh(v),
           v.at = "post" /\ v.row = New => v.todo \cap Known(v.story) = {}
    PROVE  PassIsFresh' /\ CandidateSkipsDelivered' /\ GrowsStep
<1>1. job'[m] = v
  BY DEF SoloInv, IInv, TypeOK
<1>2. GrowsStep
  BY DEF GrowsStep
<1>0. \A x \in Monitors : x # m => job'[x] = job[x]
  BY DEF SoloInv, IInv, TypeOK
<1>3. PassIsFresh'
  BY <1>0, <1>1 DEF SoloInv, PassIsFresh, Fresh
<1>4. \A s \in Stories : Known(s)' = Known(s)
  BY DEF Known, Recent
<1>5. v.story \in Stories /\ \A x \in Monitors : job[x].story \in Stories
  BY DEF Job, SoloInv, IInv, TypeOK
<1>6. CandidateSkipsDelivered'
  BY <1>0, <1>1, <1>4, <1>5 DEF SoloInv, CandidateSkipsDelivered
<1>7. QED
  BY <1>2, <1>3, <1>6

LEMMA SoloBeginCycle ==
    ASSUME NEW m \in Monitors, OneAtWork, SoloInv, BeginCycle(m)
    PROVE  PassIsFresh' /\ CandidateSkipsDelivered' /\ GrowsStep
<1> DEFINE rows == {[id |-> i, story |-> queue[i].story,
                     delivered |-> queue[i].delivered] : i \in Batch}
           v == IF route = {} THEN [job[m] EXCEPT !.at = "search"]
                ELSE [job[m] EXCEPT !.at = "retry", !.route = route, !.list = rows]
<1>0. job[m] \in Job /\ route \in SUBSET Channels /\ queue \in Seq(Row)
  BY DEF SoloInv, IInv, TypeOK
<1>1. rows \in SUBSET Listed
  BY PassType DEF SoloInv, IInv
<1>2. \A r \in rows :
         /\ r.id \in DOMAIN queue /\ r.id # New
         /\ queue[r.id].status = "pending" /\ queue[r.id].delivered = r.delivered
         /\ \A q \in rows : q.id = r.id => q = r
  <2>1. \A i \in Batch : i \in DOMAIN queue /\ i # New /\ queue[i].status = "pending"
    BY <1>0 DEF Batch, Pending, New
  <2>2. QED
    BY <2>1
<1>3. job' = [job EXCEPT ![m] = v] /\ queue' = queue /\ job[m].list = {}
  BY DEF BeginCycle, SoloInv, PassIsFresh, Fresh
<1> HIDE DEF rows
<1>4. v \in Job
  BY <1>0, <1>1 DEF Job
<1>5. Fresh(v) /\ v.at # "post"
  BY <1>0, <1>2, <1>3 DEF Fresh, Job
<1> HIDE DEF v
<1>6. QED
  BY <1>3, <1>4, <1>5, QuietStep

LEMMA SoloRetryNext ==
    ASSUME NEW m \in Monitors, OneAtWork, SoloInv, NEW r \in job[m].list, RetryNext(m, r)
    PROVE  PassIsFresh' /\ CandidateSkipsDelivered' /\ GrowsStep
<1> DEFINE missing == job[m].route \ r.delivered
           v == [job[m] EXCEPT !.at = "post", !.list = @ \ {r}, !.row = r.id,
                               !.story = r.story, !.base = r.delivered,
                               !.todo = missing, !.ok = {}, !.failed = FALSE]
           w == [job[m] EXCEPT !.list = @ \ {r}]
<1>0. /\ job[m] \in Job /\ queue \in Seq(Row) /\ job[m].at = "retry"
      /\ r.id \in Nat /\ r.story \in Stories /\ r.delivered \in SUBSET Channels
  BY DEF SoloInv, IInv, TypeOK, Job, Listed, RetryNext
<1>1. /\ \A q \in job[m].list :
            /\ q.id \in DOMAIN queue /\ q.id # New
            /\ queue[q.id].status = "pending" /\ queue[q.id].delivered = q.delivered
            /\ \A p \in job[m].list : p.id = q.id => p = q
  BY DEF SoloInv, PassIsFresh, Fresh
<1>2. CASE missing = {}
  <2>1. job' = [job EXCEPT ![m] = w] /\ Upsert(r.id, r.story, "sent", r.delivered)
    BY <1>2 DEF RetryNext
  <2>2. job'[m] = w /\ w.at = "retry" /\ w.list = job[m].list \ {r}
    BY <1>0, <2>1 DEF SoloInv, IInv, TypeOK, Job
  <2>3. \A i \in DOMAIN queue :
           /\ i \in DOMAIN queue'
           /\ i # r.id => queue'[i] = queue[i]
           /\ i = r.id /\ r.id # New =>
                 queue'[i] = [story |-> r.story, status |-> "sent", delivered |-> r.delivered]
    BY <1>0, <2>1, OthersKept
  <2> HIDE DEF w
  <2>8. \A x \in Monitors : x # m =>
           job'[x] = job[x] /\ job[x].at = "wait" /\ Fresh(job[x])'
    BY <1>0, <2>1, OthersWait
  <2>9. Fresh(job[m])'
    BY <1>1, <2>2, <2>3 DEF Fresh
  <2>4. PassIsFresh'
    BY <2>8, <2>9 DEF PassIsFresh
  <2>5. CandidateSkipsDelivered'
    BY <2>2, <2>8 DEF CandidateSkipsDelivered
  <2>6. GrowsStep
    BY <1>1, <2>3 DEF GrowsStep
  <2>7. QED
    BY <2>4, <2>5, <2>6
<1>3. CASE missing # {}
  <2>1. job' = [job EXCEPT ![m] = v] /\ queue' = queue
    BY <1>3 DEF RetryNext
  <2>2. v \in Job
    BY <1>0 DEF Job
  <2>3. v.row # New /\ Fresh(v)
    BY <1>0, <1>1 DEF Fresh, Job
  <2> HIDE DEF v
  <2>4. QED
    BY <2>1, <2>2, <2>3, QuietStep
<1>4. QED
  BY <1>2, <1>3

LEMMA SoloCandidate ==
    ASSUME NEW m \in Monitors, OneAtWork, SoloInv, NEW s \in Stories, NEW push \in BOOLEAN,
           Candidate(m, s, push)
    PROVE  PassIsFresh' /\ CandidateSkipsDelivered' /\ GrowsStep
<1> DEFINE toSend == IF Duplicates(s) # {} THEN route \ Delivered(s) ELSE route
           v == [job[m] EXCEPT !.at = "post", !.route = route, !.row = New,
                               !.story = s, !.base = Delivered(s), !.todo = toSend,
                               !.ok = {}, !.failed = (toSend = {})]
<1>0. /\ job[m] \in Job /\ route \in SUBSET Channels /\ queue \in Seq(Row)
      /\ New \in Nat /\ Delivered(s) \in SUBSET Channels
  BY ReadWasPosted DEF SoloInv, IInv, TypeOK, New
<1>1. job[m].at = "search" /\ job[m].list = {}
  BY DEF Candidate, SoloInv, PassIsFresh, Fresh
<1>2. toSend \cap Known(s) = {}
  BY KnownIsDelivered DEF Delivered
<1>3. \/ Upsert(New, s, "held", {}) /\ UNCHANGED job
      \/ Upsert(New, s, "skipped", Delivered(s)) /\ UNCHANGED job
      \/ job' = [job EXCEPT ![m] = v] /\ UNCHANGED queue
  BY DEF Candidate
<1>4. CASE job' = [job EXCEPT ![m] = v] /\ UNCHANGED queue
  <2>1. v \in Job
    BY <1>0 DEF Job
  <2>2. Fresh(v) /\ v.todo \cap Known(v.story) = {}
    BY <1>0, <1>1, <1>2 DEF Fresh, Job
  <2> HIDE DEF v
  <2>3. QED
    BY <1>4, <2>1, <2>2, QuietStep
<1>5. ASSUME UNCHANGED job,
             \A i \in DOMAIN queue : i \in DOMAIN queue' /\ queue'[i] = queue[i]
      PROVE  PassIsFresh' /\ CandidateSkipsDelivered' /\ GrowsStep
  <2>1. \A x \in Monitors : job[x].at \in {"wait", "search"} /\ job[x].list = {}
    BY <1>1 DEF OneAtWork, SoloInv, PassIsFresh, Fresh
  <2>2. PassIsFresh' /\ CandidateSkipsDelivered'
    BY <1>5, <2>1 DEF PassIsFresh, Fresh, CandidateSkipsDelivered
  <2>3. QED
    BY <1>5, <2>2 DEF GrowsStep
<1>6. ASSUME NEW st, NEW d, Upsert(New, s, st, d)
      PROVE  \A i \in DOMAIN queue : i \in DOMAIN queue' /\ queue'[i] = queue[i]
  <2>1. queue' = Append(queue, [story |-> s, status |-> st, delivered |-> d])
    BY <1>6 DEF Upsert
  <2>2. QED
    BY <1>0, <2>1
<1>7. CASE Upsert(New, s, "held", {}) /\ UNCHANGED job
  <2>1. \A i \in DOMAIN queue : i \in DOMAIN queue' /\ queue'[i] = queue[i]
    BY <1>6, <1>7
  <2>2. QED
    BY <1>5, <1>7, <2>1
<1>8. CASE Upsert(New, s, "skipped", Delivered(s)) /\ UNCHANGED job
  <2>1. \A i \in DOMAIN queue : i \in DOMAIN queue' /\ queue'[i] = queue[i]
    BY <1>0, <1>6, <1>8
  <2>2. QED
    BY <1>5, <1>8, <2>1
<1>9. QED
  BY <1>3, <1>4, <1>7, <1>8

LEMMA SoloPost ==
    ASSUME NEW m \in Monitors, OneAtWork, SoloInv, NEW c \in Channels,
           PostOk(m, c) \/ \E arrives \in BOOLEAN : PostFail(m, c, arrives)
    PROVE  PassIsFresh' /\ CandidateSkipsDelivered' /\ GrowsStep
<1> DEFINE v == [job[m] EXCEPT !.todo = @ \ {c}, !.ok = @ \cup {c}]
           w == [job[m] EXCEPT !.todo = @ \ {c}, !.failed = TRUE]
<1>0. job[m] \in Job /\ job[m].at = "post" /\ Fresh(job[m])
  BY DEF SoloInv, IInv, TypeOK, PostOk, PostFail, PassIsFresh
<1>1. job[m].row = New => job[m].todo \cap Known(job[m].story) = {}
  BY <1>0 DEF SoloInv, CandidateSkipsDelivered
<1>2. UNCHANGED queue /\ (job' = [job EXCEPT ![m] = v] \/ job' = [job EXCEPT ![m] = w])
  BY DEF PostOk, PostFail
<1>3. v \in Job /\ w \in Job
  BY <1>0 DEF Job
<1>4. /\ Fresh(v) /\ v.row = job[m].row /\ v.story = job[m].story /\ v.todo \subseteq job[m].todo
      /\ Fresh(w) /\ w.row = job[m].row /\ w.story = job[m].story /\ w.todo \subseteq job[m].todo
  BY <1>0 DEF Fresh, Job
<1> HIDE DEF v, w
<1>5. CASE job' = [job EXCEPT ![m] = v]
  BY <1>1, <1>2, <1>3, <1>4, <1>5, QuietStep
<1>6. CASE job' = [job EXCEPT ![m] = w]
  BY <1>1, <1>2, <1>3, <1>4, <1>6, QuietStep
<1>7. QED
  BY <1>2, <1>5, <1>6

LEMMA SoloFinishPost ==
    ASSUME NEW m \in Monitors, OneAtWork, SoloInv, FinishPost(m)
    PROVE  PassIsFresh' /\ CandidateSkipsDelivered' /\ GrowsStep
<1> DEFINE j == job[m]
           v == [j EXCEPT !.at = IF j.row = New THEN "search" ELSE "retry"]
<1>0. /\ j \in Job /\ queue \in Seq(Row) /\ j.at = "post" /\ Fresh(j)
      /\ job' = [job EXCEPT ![m] = v] /\ Upsert(j.row, j.story, Outcome(j), Merged(j))
  BY DEF SoloInv, IInv, TypeOK, FinishPost, PassIsFresh
<1>1. /\ job'[m] = v /\ v.list = j.list /\ v.row = j.row
      /\ v.at = IF j.row = New THEN "search" ELSE "retry"
  BY <1>0 DEF SoloInv, IInv, TypeOK, Job
<1>2. /\ j.row \in Nat /\ j.story \in Stories
      /\ Merged(j) \in SUBSET Channels /\ j.base \subseteq Merged(j)
      /\ Outcome(j) \in {"pending", "held", "sent", "skipped"}
  BY <1>0 DEF Job, Merged, Outcome
<1>3. \A i \in DOMAIN queue :
         /\ i \in DOMAIN queue' /\ i # New
         /\ i # j.row => queue'[i] = queue[i]
         /\ i = j.row => queue'[i] = [story |-> j.story, status |-> Outcome(j), delivered |-> Merged(j)]
  BY <1>0, <1>2, OthersKept DEF New
<1>8. \A x \in Monitors : x # m =>
         job'[x] = job[x] /\ job[x].at = "wait" /\ Fresh(job[x])'
  BY <1>0, OthersWait
<1> HIDE DEF j, v
<1>9. Fresh(job[m])'
  BY <1>0, <1>1, <1>3 DEF Fresh
<1>4. PassIsFresh'
  BY <1>8, <1>9 DEF PassIsFresh
<1>5. CandidateSkipsDelivered'
  BY <1>1, <1>8 DEF CandidateSkipsDelivered
<1>6. GrowsStep
  BY <1>0, <1>2, <1>3 DEF GrowsStep, Fresh
<1>7. QED
  BY <1>4, <1>5, <1>6

LEMMA SoloEnd ==
    ASSUME NEW m \in Monitors, OneAtWork, SoloInv, RetryEnds(m) \/ EndCycle(m) \/ Crash(m)
    PROVE  PassIsFresh' /\ CandidateSkipsDelivered' /\ GrowsStep
<1> DEFINE v == [job[m] EXCEPT !.at = "search"]
           w == NoJob
<1>0. job[m] \in Job /\ w \in Job /\ w.at = "wait" /\ w.list = {}
  BY NoJobType DEF SoloInv, IInv, TypeOK, NoJob
<1>1. /\ UNCHANGED queue
      /\ \/ job' = [job EXCEPT ![m] = v] /\ job[m].list = {}
         \/ job' = [job EXCEPT ![m] = w]
  BY DEF RetryEnds, EndCycle, Crash
<1>2. v \in Job /\ v.at = "search" /\ v.list = job[m].list
  BY <1>0 DEF Job
<1> HIDE DEF v, w
<1>3. CASE job' = [job EXCEPT ![m] = v] /\ job[m].list = {}
  <2>1. Fresh(v)
    BY <1>2, <1>3 DEF Fresh
  <2>2. QED
    BY <1>1, <1>2, <1>3, <2>1, QuietStep
<1>4. CASE job' = [job EXCEPT ![m] = w]
  <2>1. Fresh(w)
    BY <1>0 DEF Fresh
  <2>2. QED
    BY <1>0, <1>1, <1>4, <2>1, QuietStep
<1>5. QED
  BY <1>1, <1>3, <1>4
LEMMA SoloStep == SoloInv /\ OneAtWork /\ [Next]_vars => SoloInv' /\ GrowsStep
<1> SUFFICES ASSUME SoloInv, OneAtWork, [Next]_vars PROVE SoloInv' /\ GrowsStep
  OBVIOUS
<1>1. IInv'
  BY InvStep DEF SoloInv
<1>2. PassIsFresh' /\ CandidateSkipsDelivered' /\ GrowsStep
  <2>1. ASSUME NEW m \in Monitors, BeginCycle(m)
        PROVE  PassIsFresh' /\ CandidateSkipsDelivered' /\ GrowsStep
    BY <2>1, SoloBeginCycle
  <2>2. ASSUME NEW m \in Monitors, NEW r \in job[m].list, RetryNext(m, r)
        PROVE  PassIsFresh' /\ CandidateSkipsDelivered' /\ GrowsStep
    BY <2>2, SoloRetryNext
  <2>3. ASSUME NEW m \in Monitors, NEW s \in Stories, NEW push \in BOOLEAN,
               Candidate(m, s, push)
        PROVE  PassIsFresh' /\ CandidateSkipsDelivered' /\ GrowsStep
    BY <2>3, SoloCandidate
  <2>4. ASSUME NEW m \in Monitors, NEW c \in Channels,
               PostOk(m, c) \/ \E arrives \in BOOLEAN : PostFail(m, c, arrives)
        PROVE  PassIsFresh' /\ CandidateSkipsDelivered' /\ GrowsStep
    BY <2>4, SoloPost
  <2>5. ASSUME NEW m \in Monitors, FinishPost(m)
        PROVE  PassIsFresh' /\ CandidateSkipsDelivered' /\ GrowsStep
    BY <2>5, SoloFinishPost
  <2>6. ASSUME NEW m \in Monitors, RetryEnds(m) \/ EndCycle(m) \/ Crash(m)
        PROVE  PassIsFresh' /\ CandidateSkipsDelivered' /\ GrowsStep
    BY <2>6, SoloEnd
  <2>7. CASE EditRoute \/ UNCHANGED vars
    <3>1. UNCHANGED <<queue, job>>
      BY <2>7 DEF EditRoute, vars
    <3>2. \A s : Known(s)' = Known(s)
      BY <3>1 DEF Known, Recent
    <3>3. QED
      BY <3>1, <3>2
         DEF SoloInv, PassIsFresh, Fresh, CandidateSkipsDelivered, GrowsStep
  <2>8. QED
    BY <2>1, <2>2, <2>3, <2>4, <2>5, <2>6, <2>7 DEF Next
<1>3. QED
  BY <1>1, <1>2 DEF SoloInv

LEMMA SoloInvariant == Spec /\ []OneAtWork => []SoloInv
<1>1. Init => SoloInv
  <2> SUFFICES ASSUME Init PROVE SoloInv
    OBVIOUS
  <2>1. \A x \in Monitors : job[x] = NoJob
    BY DEF Init
  <2>2. NoJob.at = "wait" /\ NoJob.list = {}
    BY DEF NoJob
  <2>3. QED
    BY <2>1, <2>2, Initially DEF SoloInv, PassIsFresh, Fresh, CandidateSkipsDelivered
<1>2. SoloInv /\ OneAtWork /\ [Next]_vars => SoloInv'
  BY SoloStep
<1>3. QED
  BY <1>1, <1>2, PTL DEF Spec

\* With one monitor, or several in turn, the candidate path never posts to a channel
\* that a row of the same story within the search's reach records as served
\* (channelsToSend and fullyDeliveredDuplicate in the push of autonomous-monitor.ts).
THEOREM CandidateNeverRepeats == Spec /\ []OneAtWork => []CandidateSkipsDelivered
  BY SoloInvariant, PTL DEF SoloInv

\* With one monitor, or several in turn, the record of a row only grows and a sent row
\* stays sent, although a pass writes rows that it read long before
\* (retryPendingKanDeliveries and the upsert of the queue).
THEOREM RecordsOnlyGrow == Spec /\ []OneAtWork => LedgerGrows
<1>1. SoloInv /\ OneAtWork /\ [Next]_vars => [GrowsStep]_vars
  BY SoloStep
<1>2. QED
  BY <1>1, SoloInvariant, PTL DEF Spec, LedgerGrows, GrowsStep

\* One monitor is always in turn.
COROLLARY SoleMonitor ==
    ASSUME NEW CONSTANT m, Monitors = {m}
    PROVE  Spec => []CandidateSkipsDelivered /\ LedgerGrows
<1>1. OneAtWork
  BY DEF OneAtWork
<1>2. QED
  BY <1>1, CandidateNeverRepeats, RecordsOnlyGrow, PTL
=============================================================================
