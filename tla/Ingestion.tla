----------------------------- MODULE Ingestion -----------------------------
(***************************************************************************)
(* The ingestion of scraped rows into the memory store (ingestion/cycle.ts, *)
(* cursor.ts, dedup.ts, sources.ts, entries/ingestion.ts): one process, one *)
(* cycle at a time, which goes through the sources in their order, reads a  *)
(* batch of rows above the source's cursor, newest first, and stores what   *)
(* passes the quality gate, is no duplicate and is within the daily cap.    *)
(*                                                                         *)
(* A row is its place in the order (indexed_at, id) of its source; what it  *)
(* says is one of Contents, or Junk, which the gate rejects.  A step is a   *)
(* query, or a call of the memory store, and the code that runs on its      *)
(* answer.                                                                 *)
(***************************************************************************)
EXTENDS Integers, FiniteSets

CONSTANTS
    Sources,     \* number of sources
    MaxRows,     \* bound: rows of all sources
    Contents,    \* contents worth storing
    Junk,        \* content the quality gate rejects
    BatchSize,   \* rows of a batch
    Cap,         \* maxRecordsPerDay
    MaxFaults    \* bound: crashes, queries that fail and answers that are lost

ASSUME IngestionAssumption ==
    /\ Sources \in Nat \ {0} /\ MaxRows \in Nat
    /\ Junk \notin Contents
    /\ BatchSize \in Nat \ {0} /\ Cap \in Nat \ {0}
    /\ MaxFaults \in Nat

Source   == 1..Sources
Rows     == 1..MaxRows
NoCursor == -1   \* no cursor is stored yet

Attempts == 3    \* requests of one call of the memory store

Cycle == [at : {"idle", "source", "fetch", "row", "add", "record"},
          src : 1..Sources + 1,
          from : 0..MaxRows,      \* the cursor the batch was read with
          high : 0..MaxRows,      \* latestConsumedCursor
          todo : SUBSET Rows,     \* rows of the batch not looked at yet
          held : SUBSET Rows,     \* rows of the batch the cap has held back
          count : 0..Cap,         \* budget.count
          start : 0..Cap,         \* countAtStart
          tries : 0..Attempts - 1, \* requests that have been made in vain
          today : BOOLEAN]        \* is budget.date today?

VARIABLES
    arrived,    \* rows in the table of each source
    content,    \* what they say; Junk before they arrive
    cursor,     \* stored cursors
    daily,      \* stored count of today
    hashes,     \* sige_ingest_dedup
    memories,   \* times a content is in the memory store
    cycle,
    ingested,   \* history: memories stored on today's budget
    miscounted, \* history: may today's count have missed one?
    slips,      \* history: faults that may each cost a second copy of a content
    faults      \* number of crashes, failed queries and lost answers so far

table   == <<arrived, content>>
history == <<ingested, miscounted, slips>>
vars    == <<table, cursor, daily, hashes, memories, cycle, history, faults>>

TypeOK ==
    /\ arrived \in [Source -> 0..MaxRows]
    /\ content \in [Source -> [Rows -> Contents \cup {Junk}]]
    /\ cursor \in [Source -> {NoCursor} \cup 0..MaxRows]
    /\ daily \in 0..Cap
    /\ hashes \in SUBSET Contents /\ memories \in [Contents -> Nat]
    /\ cycle \in Cycle
    /\ ingested \in Nat /\ miscounted \in BOOLEAN /\ slips \in [Contents -> Nat]
    /\ faults \in 0..MaxFaults

Idle == [at |-> "idle", src |-> 1, from |-> 0, high |-> 0, todo |-> {}, held |-> {},
         count |-> 0, start |-> 0, tries |-> 0, today |-> TRUE]

Init ==
    /\ arrived = [s \in Source |-> 0]
    /\ content = [s \in Source |-> [r \in Rows |-> Junk]]
    /\ cursor = [s \in Source |-> NoCursor]
    /\ daily = 0
    /\ hashes = {} /\ memories = [c \in Contents |-> 0]
    /\ cycle = Idle
    /\ ingested = 0 /\ miscounted = FALSE /\ slips = [c \in Contents |-> 0]
    /\ faults = 0

-----------------------------------------------------------------------------
QueryFails == faults < MaxFaults /\ faults' = faults + 1

Row       == CHOOSE r \in cycle.todo : \A q \in cycle.todo : q <= r
Text      == content[cycle.src][Row]
SkipTo(c) == [c EXCEPT !.at = "source", !.src = @ + 1, !.todo = {}, !.held = {}]

\* The row at hand is consumed.
Consume(c) == [c EXCEPT !.at = "row", !.high = Row, !.todo = @ \ {Row}, !.tries = 0]

Slip == slips' = [slips EXCEPT ![Text] = @ + 1]

StartCycle ==
    /\ cycle.at = "idle"
    /\ cycle' = [Idle EXCEPT !.at = "source", !.count = daily, !.start = daily]
    /\ UNCHANGED <<table, cursor, daily, hashes, memories, history, faults>>

\* resolveOrInitCursor: on a first run the rows there are are skipped, up to
\* those of the newest second.
NextSource ==
    LET s == cycle.src IN
    /\ cycle.at = "source" /\ s \in Source /\ cycle.count < Cap
    /\ IF cursor[s] # NoCursor
       THEN cycle' = [cycle EXCEPT !.at = "fetch", !.from = cursor[s], !.high = cursor[s]]
            /\ UNCHANGED <<cursor, faults>>
       ELSE \E top \in 0..arrived[s] :
            /\ arrived[s] > 0 => top < arrived[s]
            /\ cycle' = [cycle EXCEPT !.at = "fetch", !.from = top, !.high = top]
            /\ \/ cursor' = [cursor EXCEPT ![s] = top] /\ UNCHANGED faults
               \/ UNCHANGED cursor /\ QueryFails
    /\ UNCHANGED <<table, daily, hashes, memories, history>>

\* A cursor that cannot be read ends the cycle, and its count is not stored.
CycleFails ==
    /\ cycle.at = "source" /\ cycle.src \in Source /\ cycle.count < Cap
    /\ QueryFails
    /\ cycle' = Idle
    /\ miscounted' = (miscounted \/ cycle.count # cycle.start)
    /\ UNCHANGED <<table, cursor, daily, hashes, memories, ingested, slips>>

\* The newest rows above the cursor
Batch(s, from) ==
    {r \in from + 1 .. arrived[s] : r > arrived[s] - BatchSize}

FetchBatch ==
    LET rows == Batch(cycle.src, cycle.from) IN
    /\ cycle.at = "fetch"
    /\ \/ /\ cycle' = IF rows = {} THEN SkipTo(cycle)
                      ELSE [cycle EXCEPT !.at = "row", !.todo = rows]
          /\ UNCHANGED faults
       \/ cycle' = SkipTo(cycle) /\ QueryFails
    /\ UNCHANGED <<table, cursor, daily, hashes, memories, history>>

\* Mutant of LookAtRow: the cap is only looked at between sources.
LookAtRowUncapped ==
    /\ cycle.at = "row" /\ cycle.todo # {}
    /\ cycle' = IF Text = Junk \/ Text \in hashes THEN Consume(cycle)
                ELSE [cycle EXCEPT !.at = "add"]
    /\ UNCHANGED <<table, cursor, daily, hashes, memories, history, faults>>

\* The gate, the search for a duplicate and the cap, in this order.  When the
\* search fails the row counts as new.
LookAtRow ==
    /\ cycle.at = "row" /\ cycle.todo # {}
    /\ \E searched \in BOOLEAN :
          /\ IF searched THEN UNCHANGED faults ELSE Text # Junk /\ QueryFails
          /\ \/ /\ Text = Junk \/ (searched /\ Text \in hashes)
                /\ cycle' = Consume(cycle) /\ UNCHANGED slips
             \/ /\ Text # Junk /\ ~(searched /\ Text \in hashes)
                /\ IF cycle.count >= Cap \/ cycle.held # {}
                   THEN /\ cycle' = [cycle EXCEPT !.todo = @ \ {Row}, !.held = @ \cup {Row}]
                        /\ UNCHANGED slips
                   ELSE /\ cycle' = [cycle EXCEPT !.at = "add"]
                        /\ IF searched THEN UNCHANGED slips ELSE Slip
    /\ UNCHANGED <<table, cursor, daily, hashes, memories, ingested, miscounted>>

\* One request has stored the row.
Stores ==
    /\ memories' = [memories EXCEPT ![Text] = @ + 1]
    /\ ingested' = IF cycle.today THEN ingested + 1 ELSE ingested

\* Mutant of AddMemory: a row that cannot be stored is not consumed.
AddMemoryRetries ==
    /\ cycle.at = "add"
    /\ \/ cycle' = [cycle EXCEPT !.at = "record"] /\ Stores
       \/ /\ cycle' = [cycle EXCEPT !.at = "row", !.todo = @ \ {Row}]
          /\ UNCHANGED <<memories, ingested>>
    /\ UNCHANGED <<table, cursor, daily, hashes, miscounted, slips, faults>>

\* One request of addMemory: the memory store takes the row or not, and answers
\* so, or with a 429 or 5xx, upon which the request is made again ("again"), or
\* the call fails ("no"): the row is consumed, but neither counted nor its hash
\* recorded.  The answer to a row it took may be lost.
AddMemory ==
    /\ cycle.at = "add"
    /\ \E stored \in BOOLEAN, answer \in {"ok", "again", "no"} :
          /\ answer = "ok" => stored
          /\ answer = "again" => cycle.tries < Attempts - 1
          /\ cycle' = CASE answer = "ok" -> [cycle EXCEPT !.at = "record"]
                         [] answer = "again" -> [cycle EXCEPT !.tries = @ + 1]
                         [] answer = "no" -> Consume(cycle)
          /\ IF stored THEN Stores ELSE UNCHANGED <<memories, ingested>>
          /\ IF stored /\ answer # "ok" THEN QueryFails /\ Slip /\ miscounted' = TRUE
             ELSE UNCHANGED <<miscounted, slips, faults>>
    /\ UNCHANGED <<table, cursor, daily, hashes>>

\* Mutant of RecordHash: the hash is forgotten.
RecordHashNot ==
    /\ cycle.at = "record"
    /\ cycle' = [Consume(cycle) EXCEPT !.count = @ + 1]
    /\ UNCHANGED <<table, cursor, daily, hashes, memories, history, faults>>

\* recordHash; then the row is counted.  When the query fails it is not.
RecordHash ==
    /\ cycle.at = "record"
    /\ \/ /\ cycle' = [Consume(cycle) EXCEPT !.count = @ + 1]
          /\ hashes' = hashes \cup {Text}
          /\ UNCHANGED <<miscounted, slips, faults>>
       \/ /\ cycle' = Consume(cycle) /\ QueryFails
          /\ miscounted' = TRUE /\ Slip
          /\ UNCHANGED hashes
    /\ UNCHANGED <<table, cursor, daily, memories, ingested>>

\* The end of a batch: the cursor is stored when it has moved forward.
SaveCursor ==
    /\ cycle.at = "row" /\ cycle.todo = {}
    /\ cycle' = SkipTo(cycle)
    /\ \/ /\ cursor' = IF cycle.high > cycle.from THEN [cursor EXCEPT ![cycle.src] = cycle.high]
                       ELSE cursor
          /\ UNCHANGED faults
       \/ cycle.high > cycle.from /\ UNCHANGED cursor /\ QueryFails
    /\ UNCHANGED <<table, daily, hashes, memories, history>>

\* No source is left, or nothing of the cap: the count is stored under the date
\* the cycle began with.
EndCycle ==
    /\ cycle.at = "source" /\ (cycle.src \notin Source \/ cycle.count >= Cap)
    /\ cycle' = Idle
    /\ \/ /\ daily' = IF cycle.count # cycle.start /\ cycle.today THEN cycle.count ELSE daily
          /\ UNCHANGED <<miscounted, faults>>
       \/ /\ cycle.count # cycle.start /\ QueryFails
          /\ miscounted' = TRUE /\ UNCHANGED daily
    /\ UNCHANGED <<table, cursor, hashes, memories, ingested, slips>>

\* A scraper adds a row.
Arrive(s, c) ==
    /\ Cardinality({x \in Source \X Rows : x[2] <= arrived[x[1]]}) < MaxRows
    /\ arrived' = [arrived EXCEPT ![s] = @ + 1]
    /\ content' = [content EXCEPT ![s][arrived'[s]] = c]
    /\ UNCHANGED <<cursor, daily, hashes, memories, cycle, history, faults>>

NextDay ==
    /\ daily' = 0 /\ ingested' = 0 /\ miscounted' = FALSE
    /\ cycle' = IF cycle.at = "idle" THEN cycle ELSE [cycle EXCEPT !.today = FALSE]
    /\ UNCHANGED <<table, cursor, hashes, memories, slips, faults>>

\* The process dies and is started again.
Crash ==
    /\ cycle.at # "idle" /\ faults < MaxFaults
    /\ faults' = faults + 1
    /\ cycle' = Idle
    /\ miscounted' = TRUE
    /\ IF cycle.at = "record" THEN Slip ELSE UNCHANGED slips
    /\ UNCHANGED <<table, cursor, daily, hashes, memories, ingested>>

-----------------------------------------------------------------------------
Step == \/ StartCycle \/ NextSource \/ CycleFails \/ FetchBatch \/ LookAtRow
        \/ AddMemory \/ RecordHash \/ SaveCursor \/ EndCycle

Next == Step \/ Crash \/ NextDay \/ \E s \in Source, c \in Contents \cup {Junk} : Arrive(s, c)

\* A cycle follows the other, whatever becomes of it, and so do the days.
Fairness == WF_vars(Step) /\ WF_vars(NextDay)

Spec == Init /\ [][Next]_vars
FairSpec == Spec /\ Fairness

-----------------------------------------------------------------------------
(* Properties *)

\* A content is in the memory store once, and a second copy of it costs a fault of
\* its own: a search or a record of its hash that fails, a crash before its record,
\* or the lost answer to a request that was carried out -- although a batch reads
\* newest rows first and leaves the cursor at the oldest, so that the next cycle
\* reads most of its rows again, and a request may be made three times.
StoredOnce == \A c \in Contents : memories[c] <= 1 + slips[c]

\* The memories stored on the budget of a day keep to the cap, in one cycle or
\* many, unless a crash or a failing query has lost count of them.
CapIsKept == ~miscounted => ingested <= Cap

\* When no more rows arrive the cursor of a source reaches the newest row: a row
\* the memory store refuses, a duplicate or a day's cap does not hold it up.
CatchesUp == \A s \in Source : <>[](cursor[s] = arrived[s])

\* Rows held back by the cap are read again: cycle.ts:169 "Capped rows do NOT
\* advance latestConsumedCursor so they stay in the backlog and resume once the
\* budget resets".
HeldRowsResume ==
    [][cycle.at = "row" /\ cycle.todo = {}
           => \A r \in cycle.held : cursor'[cycle.src] < r]_vars

\* What holds of the counts at every moment.
Inv == TypeOK /\ CapIsKept
=============================================================================
