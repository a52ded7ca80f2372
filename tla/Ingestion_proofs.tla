--------------------------- MODULE Ingestion_proofs ---------------------------
(***************************************************************************)
(* The safety of the way from scraped rows to ideas.  First the ingestion  *)
(* of the rows, for any sources, rows, contents, caps and faults: the      *)
(* daily cap is kept, and every copy of a content beyond the first has     *)
(* cost a fault of its own.  Then, as the instance PR, the pipeline's runs.  *)
(***************************************************************************)
EXTENDS Ingestion, PipelineRuns, FiniteSetTheorems, WellFoundedInduction, TLAPS

\* Between the reading of a batch and the storing of its cursor the cycle is at a
\* source that exists, and the rows still to be looked at have arrived there.
RowsHaveArrived ==
    /\ cycle.at \in {"fetch", "row", "add", "record"} => cycle.src \in Source
    /\ cycle.at \notin {"row", "add", "record"} => cycle.todo = {}
    /\ cycle.at \in {"row", "add", "record"} => cycle.todo \subseteq 1..arrived[cycle.src]
    /\ cycle.at \in {"add", "record"} => cycle.todo # {} /\ Text # Junk

\* What the budget of today has been spent on: the stored count, or that of the
\* cycle under way when it began today, which falls behind by the memory that it
\* has still to record.
BudgetIsSpent ==
    /\ cycle.at \in {"add", "record"} => cycle.count < Cap
    /\ cycle.at # "idle" /\ cycle.today => cycle.start = daily
    /\ ~miscounted =>
           IF cycle.at # "idle" /\ cycle.today
           THEN ingested = cycle.count + (IF cycle.at = "record" THEN 1 ELSE 0)
           ELSE ingested = daily

\* The copies of a content in the memory store have each cost a slip, but for one,
\* whose hash is recorded, or is about to be; and none is about to be stored for
\* which no slip has been paid.
StoredIsHashed ==
    /\ \A c \in Contents :
           \/ memories[c] <= slips[c]
           \/ /\ memories[c] <= 1 + slips[c]
              /\ c \in hashes \/ (cycle.at = "record" /\ Text = c)
    /\ cycle.at = "add" => memories[Text] <= slips[Text]

IngestionInv ==
    /\ TypeOK
    /\ RowsHaveArrived
    /\ BudgetIsSpent
    /\ StoredIsHashed
    /\ StoredOnce

-----------------------------------------------------------------------------
(* Rows *)

\* A set of numbers that is not empty has a least one.
LEMMA LeastNat ==
    ASSUME NEW T \in SUBSET Nat, T # {}
    PROVE  \E x \in T : \A y \in T : x <= y
<1> DEFINE R == OpToRel(<, Nat)
<1>1. IsWellFoundedOn(R, Nat)
  BY NatLessThanWellFounded
<1> HIDE DEF R
<1>2. PICK x \in T : \A y \in T : ~(<<y, x>> \in R)
  BY <1>1, WFMin
<1>3. \A y \in T : y < x => <<y, x>> \in R
  BY DEF R, OpToRel
<1>4. \A y \in T : ~(y < x)
  BY <1>2, <1>3, Zenon
<1>5. x \in Nat /\ \A y \in T : y \in Nat
  OBVIOUS
<1>6. QED
  BY <1>4, <1>5

\* The row at hand is one of those to look at.
LEMMA RowIsToDo ==
    ASSUME TypeOK, cycle.todo # {}
    PROVE  Row \in cycle.todo /\ Row \in Rows
<1> DEFINE T == {MaxRows - r : r \in cycle.todo}
<1>1. MaxRows \in Nat /\ cycle.todo \subseteq Rows
  BY IngestionAssumption DEF TypeOK, Cycle
<1>2. T \in SUBSET Nat /\ T # {}
  BY <1>1 DEF Rows
<1>3. PICK x \in T : \A y \in T : x <= y
  BY <1>2, LeastNat
<1>4. PICK r \in cycle.todo : x = MaxRows - r
  BY <1>3
<1>5. \A q \in cycle.todo : q <= r
  BY <1>1, <1>3, <1>4 DEF Rows
<1>6. QED
  BY <1>1, <1>4, <1>5 DEF Row

\* What the row at hand says is a content that the store may take.
LEMMA TextIsContent ==
    ASSUME IngestionInv, cycle.at \in {"row", "add", "record"}, cycle.todo # {}, Text # Junk
    PROVE  Text \in Contents
<1>1. Row \in Rows /\ cycle.src \in Source
  BY RowIsToDo DEF IngestionInv, RowsHaveArrived
<1>2. QED
  BY <1>1 DEF Text, IngestionInv, TypeOK

\* As long as fewer rows than the bound have arrived, no source is full.
LEMMA RoomForRow ==
    ASSUME TypeOK, NEW s \in Source,
           Cardinality({x \in Source \X Rows : x[2] <= arrived[x[1]]}) < MaxRows
    PROVE  arrived[s] < MaxRows
<1> DEFINE All == {x \in Source \X Rows : x[2] <= arrived[x[1]]}
           Own == {s} \X Rows
<1>1. MaxRows \in Nat /\ Sources \in Nat /\ arrived[s] \in 0..MaxRows
  BY IngestionAssumption DEF TypeOK
<1>2. IsFiniteSet(Rows) /\ Cardinality(Rows) = MaxRows /\ IsFiniteSet(Source)
  <2>1. IsFiniteSet(1..MaxRows)
        /\ Cardinality(1..MaxRows) = IF 1 > MaxRows THEN 0 ELSE MaxRows - 1 + 1
    BY <1>1, FS_Interval
  <2>2. IsFiniteSet(1..Sources)
    BY <1>1, FS_Interval
  <2>3. QED
    BY <1>1, <2>1, <2>2 DEF Rows, Source
<1>3. IsFiniteSet(Source \X Rows) /\ IsFiniteSet({s}) /\ Cardinality({s}) = 1
  BY <1>2, FS_Product, FS_Singleton
<1>4. IsFiniteSet(All)
  BY <1>3, FS_Subset
<1>5. Cardinality(Own) = MaxRows
  <2>1. Cardinality(Own) = Cardinality({s}) * Cardinality(Rows)
    BY <1>2, <1>3, FS_Product
  <2>2. QED
    BY <1>1, <1>2, <1>3, <2>1
<1>6. ASSUME arrived[s] >= MaxRows PROVE FALSE
  <2>1. Own \subseteq All
    BY <1>1, <1>6 DEF Rows
  <2>2. Cardinality(Own) <= Cardinality(All)
    BY <1>4, <2>1, FS_Subset
  <2>3. Cardinality(All) \in Nat
    BY <1>4, FS_CardinalityType
  <2>4. QED
    BY <1>1, <1>5, <2>2, <2>3
<1>7. QED
  BY <1>1, <1>6
-----------------------------------------------------------------------------
(* The record of the cycle *)

LEMMA IdleIsCycle == Idle \in Cycle
<1>1. Sources \in Nat /\ MaxRows \in Nat /\ Cap \in Nat
  BY IngestionAssumption
<1>2. 1 \in 1..Sources + 1 /\ 0 \in 0..MaxRows /\ 0 \in 0..Cap /\ 0 \in 0..Attempts - 1
  BY <1>1 DEF Attempts
<1>3. QED
  BY <1>2 DEF Idle, Cycle

LEMMA SkipToNext ==
    ASSUME cycle \in Cycle, cycle.src \in Source
    PROVE  /\ SkipTo(cycle) \in Cycle
           /\ SkipTo(cycle) = [cycle EXCEPT !.at = "source", !.src = cycle.src + 1,
                                            !.todo = {}, !.held = {}]
<1>1. Sources \in Nat /\ cycle.src + 1 \in 1..Sources + 1
  BY IngestionAssumption DEF Source
<1>2. SkipTo(cycle) = [cycle EXCEPT !.at = "source", !.src = cycle.src + 1,
                                    !.todo = {}, !.held = {}]
  BY DEF SkipTo, Cycle
<1>3. QED
  BY <1>1, <1>2 DEF Cycle

LEMMA ConsumeRow ==
    ASSUME TypeOK, cycle.todo # {}
    PROVE  /\ Consume(cycle) \in Cycle
           /\ Consume(cycle) = [cycle EXCEPT !.at = "row", !.high = Row,
                                             !.todo = cycle.todo \ {Row}, !.tries = 0]
<1>1. cycle \in Cycle /\ Row \in 0..MaxRows /\ 0 \in 0..Attempts - 1
  BY RowIsToDo DEF TypeOK, Rows, Attempts
<1>2. Consume(cycle) = [cycle EXCEPT !.at = "row", !.high = Row, !.todo = cycle.todo \ {Row},
                                     !.tries = 0]
  BY <1>1 DEF Consume, Cycle
<1>3. QED
  BY <1>1, <1>2 DEF Cycle

-----------------------------------------------------------------------------
(* The initial states *)

LEMMA IngestionInit == Init => IngestionInv
<1> SUFFICES ASSUME Init PROVE IngestionInv
  OBVIOUS
<1> USE IngestionAssumption
<1>1. TypeOK
  <2>1. MaxRows \in Nat /\ MaxFaults \in Nat /\ Cap \in Nat
    BY IngestionAssumption
  <2>2. arrived \in [Source -> 0..MaxRows] /\ content \in [Source -> [Rows -> Contents \cup {Junk}]]
    BY <2>1 DEF Init
  <2>3. cursor \in [Source -> {NoCursor} \cup 0..MaxRows]
    BY DEF Init
  <2>4. memories \in [Contents -> Nat] /\ slips \in [Contents -> Nat]
    BY DEF Init
  <2>5. daily \in 0..Cap /\ faults \in 0..MaxFaults /\ ingested \in Nat
    BY <2>1 DEF Init
  <2>6. QED
    BY <2>2, <2>3, <2>4, <2>5, IdleIsCycle DEF Init, TypeOK
<1>2. QED
  BY <1>1 DEF Init, IngestionInv, RowsHaveArrived, BudgetIsSpent, StoredIsHashed, StoredOnce, Idle

-----------------------------------------------------------------------------
(* The steps.  Everything but the arrival of a row leaves the table alone. *)

\* The steps between two batches
LEMMA StartCycleKeeps == ASSUME IngestionInv, StartCycle PROVE IngestionInv'
<1> USE IngestionAssumption DEF StartCycle, table, history, IngestionInv
<1>1. cycle' = [Idle EXCEPT !.at = "source", !.count = daily, !.start = daily]
      /\ cycle'.at = "source" /\ cycle'.todo = {} /\ cycle'.count = daily /\ cycle'.start = daily
      /\ cycle.at = "idle" /\ daily \in 0..Cap
  BY DEF Idle, TypeOK
<1>2. TypeOK'
  <2>1. cycle' \in Cycle
    BY <1>1, IdleIsCycle DEF Cycle
  <2>2. QED
    BY <2>1 DEF TypeOK
<1>3. RowsHaveArrived' /\ BudgetIsSpent'
  BY <1>1 DEF RowsHaveArrived, BudgetIsSpent, TypeOK
<1>4. StoredIsHashed' /\ StoredOnce'
  BY <1>1 DEF StoredIsHashed, StoredOnce
<1>5. QED
  BY <1>2, <1>3, <1>4

LEMMA NextSourceKeeps == ASSUME IngestionInv, NextSource PROVE IngestionInv'
<1> USE IngestionAssumption DEF table, history, IngestionInv
<1>1. /\ cycle \in Cycle /\ cycle.at = "source" /\ cycle.src \in Source
      /\ arrived[cycle.src] \in 0..MaxRows /\ cursor[cycle.src] \in {NoCursor} \cup 0..MaxRows
      /\ UNCHANGED <<table, daily, hashes, memories, history>>
  BY DEF NextSource, TypeOK
<1>2. \A top \in 0..arrived[cycle.src] : top \in 0..MaxRows
  BY <1>1
<1>3. \E from \in 0..MaxRows :
          /\ cycle' = [cycle EXCEPT !.at = "fetch", !.from = from, !.high = from]
          /\ cursor' \in {cursor, [cursor EXCEPT ![cycle.src] = from]}
          /\ UNCHANGED faults \/ QueryFails
  <2>1. CASE cursor[cycle.src] # NoCursor
    <3>1. cursor[cycle.src] \in 0..MaxRows
      BY <1>1, <2>1
    <3>2. QED
      BY <2>1, <3>1 DEF NextSource
  <2>2. CASE cursor[cycle.src] = NoCursor
    BY <1>2, <2>2 DEF NextSource
  <2>3. QED
    BY <2>1, <2>2
<1>4. PICK from \in 0..MaxRows :
          /\ cycle' = [cycle EXCEPT !.at = "fetch", !.from = from, !.high = from]
          /\ cursor' \in {cursor, [cursor EXCEPT ![cycle.src] = from]}
          /\ UNCHANGED faults \/ QueryFails
  BY <1>3
<1>5. /\ cycle' \in Cycle /\ cycle'.at = "fetch" /\ cycle'.todo = cycle.todo
      /\ cycle'.count = cycle.count /\ cycle'.start = cycle.start
      /\ cycle'.src = cycle.src /\ cycle'.today = cycle.today
  BY <1>1, <1>4 DEF Cycle
<1>6. faults' \in 0..MaxFaults /\ cursor' \in [Source -> {NoCursor} \cup 0..MaxRows]
  BY <1>1, <1>4 DEF QueryFails, TypeOK
<1>7. TypeOK'
  BY <1>1, <1>5, <1>6 DEF TypeOK
<1>8. RowsHaveArrived' /\ BudgetIsSpent'
  BY <1>1, <1>5 DEF RowsHaveArrived, BudgetIsSpent
<1>9. StoredIsHashed' /\ StoredOnce'
  BY <1>1, <1>5 DEF StoredIsHashed, StoredOnce
<1>10. QED
  BY <1>7, <1>8, <1>9

LEMMA CycleEndsKeeps == ASSUME IngestionInv, CycleFails \/ EndCycle PROVE IngestionInv'
<1> USE IngestionAssumption DEF table, history, IngestionInv
<1>1. /\ cycle' = Idle /\ cycle'.at = "idle" /\ cycle'.todo = {} /\ cycle.at = "source"
      /\ cycle' \in Cycle
      /\ UNCHANGED <<table, cursor, hashes, memories, ingested, slips>>
  <2>1. cycle' = Idle /\ cycle.at = "source"
        /\ UNCHANGED <<table, cursor, hashes, memories, ingested, slips>>
    BY DEF CycleFails, EndCycle
  <2>2. QED
    BY <2>1, IdleIsCycle DEF Idle
<1>2. faults' \in 0..MaxFaults
  BY DEF QueryFails, TypeOK, CycleFails, EndCycle
<1>3. miscounted' \in BOOLEAN
  BY Zenon DEF TypeOK, CycleFails, EndCycle
<1>4. daily' \in 0..Cap
  BY DEF TypeOK, Cycle, CycleFails, EndCycle
<1>5. TypeOK'
  BY <1>1, <1>2, <1>3, <1>4 DEF TypeOK
<1>6. RowsHaveArrived'
  BY <1>1 DEF RowsHaveArrived
<1>7. BudgetIsSpent'
  BY <1>1 DEF BudgetIsSpent, TypeOK, Cycle, CycleFails, EndCycle
<1>8. StoredIsHashed' /\ StoredOnce'
  BY <1>1 DEF StoredIsHashed, StoredOnce
<1>9. QED
  BY <1>5, <1>6, <1>7, <1>8

\* The steps on a batch that store nothing
LEMMA FetchBatchKeeps == ASSUME IngestionInv, FetchBatch PROVE IngestionInv'
<1> USE IngestionAssumption DEF FetchBatch, table, history, IngestionInv
<1> DEFINE rows == Batch(cycle.src, cycle.from)
<1>1. cycle.src \in Source /\ cycle.at = "fetch" /\ cycle.todo = {}
  BY DEF RowsHaveArrived
<1>2. rows \subseteq 1..arrived[cycle.src] /\ rows \subseteq Rows
  <2>1. arrived[cycle.src] \in 0..MaxRows /\ cycle.from \in 0..MaxRows
    BY <1>1 DEF TypeOK, Cycle
  <2>2. QED
    BY <2>1 DEF Batch, Rows
<1>3. cycle' \in {SkipTo(cycle), [cycle EXCEPT !.at = "row", !.todo = rows]}
  OBVIOUS
<1> HIDE DEF rows
<1>4. /\ cycle' \in Cycle /\ cycle'.at \in {"source", "row"}
      /\ cycle'.at = "row" => cycle'.src = cycle.src
      /\ cycle'.todo \in {{}, rows} /\ (cycle'.at = "source" => cycle'.todo = {})
      /\ cycle'.count = cycle.count /\ cycle'.start = cycle.start /\ cycle'.today = cycle.today
  <2>1. cycle \in Cycle
    BY DEF TypeOK
  <2>2. CASE cycle' = SkipTo(cycle)
    BY <1>1, <2>1, <2>2, SkipToNext DEF Cycle
  <2>3. CASE cycle' = [cycle EXCEPT !.at = "row", !.todo = rows]
    BY <1>2, <2>1, <2>3 DEF Cycle
  <2>4. QED
    BY <1>3, <2>2, <2>3
<1>5. faults' \in 0..MaxFaults
  BY DEF QueryFails, TypeOK
<1>6. TypeOK'
  BY <1>4, <1>5 DEF TypeOK
<1>7. RowsHaveArrived' /\ BudgetIsSpent'
  BY <1>1, <1>2, <1>4 DEF RowsHaveArrived, BudgetIsSpent
<1>8. StoredIsHashed' /\ StoredOnce'
  BY <1>1, <1>4 DEF StoredIsHashed, StoredOnce
<1>9. QED
  BY <1>6, <1>7, <1>8

LEMMA SaveCursorKeeps == ASSUME IngestionInv, SaveCursor PROVE IngestionInv'
<1> USE IngestionAssumption DEF SaveCursor, table, history, IngestionInv
<1>1. cycle.src \in Source /\ cycle.at = "row" /\ cycle.high \in 0..MaxRows
  BY DEF RowsHaveArrived, TypeOK, Cycle
<1>2. /\ cycle' \in Cycle /\ cycle'.at = "source" /\ cycle'.todo = {}
      /\ cycle'.count = cycle.count /\ cycle'.start = cycle.start /\ cycle'.today = cycle.today
  BY <1>1, SkipToNext DEF TypeOK, Cycle
<1>3. faults' \in 0..MaxFaults /\ cursor' \in [Source -> {NoCursor} \cup 0..MaxRows]
  BY <1>1 DEF QueryFails, TypeOK
<1>4. TypeOK'
  BY <1>2, <1>3 DEF TypeOK
<1>5. RowsHaveArrived' /\ BudgetIsSpent'
  BY <1>1, <1>2 DEF RowsHaveArrived, BudgetIsSpent
<1>6. StoredIsHashed' /\ StoredOnce'
  BY <1>1, <1>2 DEF StoredIsHashed, StoredOnce
<1>7. QED
  BY <1>4, <1>5, <1>6

LEMMA SlipOf ==
    ASSUME TypeOK, Text \in Contents, Slip
    PROVE  /\ slips' \in [Contents -> Nat]
           /\ slips'[Text] = 1 + slips[Text]
           /\ \A c \in Contents \ {Text} : slips'[c] = slips[c]
           /\ \A c \in Contents : slips[c] <= slips'[c]
  BY DEF Slip, TypeOK

LEMMA LookAtRowKeeps == ASSUME IngestionInv, LookAtRow PROVE IngestionInv'
<1> USE IngestionAssumption DEF table, history, IngestionInv
<1>1. /\ cycle \in Cycle /\ cycle.at = "row" /\ cycle.todo # {} /\ cycle.src \in Source
      /\ Row \in cycle.todo
      /\ UNCHANGED <<table, cursor, daily, hashes, memories, ingested, miscounted>>
  BY RowIsToDo DEF LookAtRow, TypeOK, RowsHaveArrived
<1>2. PICK searched \in BOOLEAN :
          /\ IF searched THEN UNCHANGED faults ELSE Text # Junk /\ QueryFails
          /\ \/ cycle' = Consume(cycle) /\ UNCHANGED slips
             \/ /\ cycle' = [cycle EXCEPT !.todo = @ \ {Row}, !.held = @ \cup {Row}]
                /\ UNCHANGED slips
             \/ /\ Text # Junk /\ ~(searched /\ Text \in hashes) /\ ~(cycle.count >= Cap)
                /\ cycle' = [cycle EXCEPT !.at = "add"]
                /\ IF searched THEN UNCHANGED slips ELSE Slip
  BY DEF LookAtRow
<1>3. faults' \in 0..MaxFaults
  BY <1>2 DEF QueryFails, TypeOK
<1>4. CASE cycle' = Consume(cycle) /\ UNCHANGED slips
  <2>1. /\ cycle' \in Cycle /\ cycle'.at = "row" /\ cycle'.todo \subseteq cycle.todo
        /\ cycle'.count = cycle.count /\ cycle'.start = cycle.start
        /\ cycle'.src = cycle.src /\ cycle'.today = cycle.today
    BY <1>1, <1>4, ConsumeRow DEF Cycle
  <2>2. TypeOK'
    BY <1>1, <1>3, <1>4, <2>1 DEF TypeOK
  <2>3. RowsHaveArrived' /\ BudgetIsSpent'
    BY <1>1, <1>4, <2>1 DEF RowsHaveArrived, BudgetIsSpent
  <2>4. StoredIsHashed' /\ StoredOnce'
    BY <1>1, <1>4, <2>1 DEF StoredIsHashed, StoredOnce
  <2>5. QED
    BY <2>2, <2>3, <2>4
<1>5. CASE /\ cycle' = [cycle EXCEPT !.todo = @ \ {Row}, !.held = @ \cup {Row}]
           /\ UNCHANGED slips
  <2>1. /\ cycle' \in Cycle /\ cycle'.at = "row" /\ cycle'.todo \subseteq cycle.todo
        /\ cycle'.count = cycle.count /\ cycle'.start = cycle.start
        /\ cycle'.src = cycle.src /\ cycle'.today = cycle.today
    BY <1>1, <1>5 DEF Cycle
  <2>2. TypeOK'
    BY <1>1, <1>3, <1>5, <2>1 DEF TypeOK
  <2>3. RowsHaveArrived' /\ BudgetIsSpent'
    BY <1>1, <1>5, <2>1 DEF RowsHaveArrived, BudgetIsSpent
  <2>4. StoredIsHashed' /\ StoredOnce'
    BY <1>1, <1>5, <2>1 DEF StoredIsHashed, StoredOnce
  <2>5. QED
    BY <2>2, <2>3, <2>4
<1>6. CASE /\ Text # Junk /\ ~(searched /\ Text \in hashes) /\ ~(cycle.count >= Cap)
           /\ cycle' = [cycle EXCEPT !.at = "add"]
           /\ IF searched THEN UNCHANGED slips ELSE Slip
  <2>1. /\ cycle' \in Cycle /\ cycle'.at = "add" /\ cycle'.todo = cycle.todo
        /\ cycle'.count = cycle.count /\ cycle'.start = cycle.start
        /\ cycle'.src = cycle.src /\ cycle'.today = cycle.today
    BY <1>1, <1>6 DEF Cycle
  <2>2. Text \in Contents /\ cycle.count < Cap /\ Text' = Text
    <3>1. Row' = Row
      BY <2>1 DEF Row
    <3>2. QED
      BY <1>1, <1>6, <2>1, <3>1, TextIsContent DEF Text, Cycle
  <2>3. /\ slips' \in [Contents -> Nat] /\ \A c \in Contents : slips[c] <= slips'[c]
        /\ ~searched => slips'[Text] = 1 + slips[Text]
    BY <1>6, <2>2, SlipOf DEF TypeOK
  <2>4. TypeOK'
    BY <1>1, <1>3, <1>6, <2>1, <2>3 DEF TypeOK
  <2>5. RowsHaveArrived' /\ BudgetIsSpent'
    BY <1>1, <1>6, <2>1, <2>2 DEF RowsHaveArrived, BudgetIsSpent
  <2>6. memories[Text] <= slips'[Text]
    BY <1>1, <1>6, <2>2, <2>3 DEF StoredIsHashed, TypeOK
  <2>7. StoredIsHashed'
    BY <1>1, <2>1, <2>2, <2>3, <2>6 DEF StoredIsHashed, TypeOK
  <2>8. StoredOnce'
    BY <1>1, <2>3 DEF StoredOnce, TypeOK
  <2>9. QED
    BY <2>4, <2>5, <2>7, <2>8
<1>7. QED
  BY <1>2, <1>4, <1>5, <1>6

-----------------------------------------------------------------------------
(* The steps that store *)

LEMMA StoresOf ==
    ASSUME TypeOK, Text \in Contents, Stores
    PROVE  /\ memories' \in [Contents -> Nat] /\ ingested' \in Nat
           /\ memories'[Text] = 1 + memories[Text]
           /\ \A c \in Contents \ {Text} : memories'[c] = memories[c]
  BY DEF Stores, TypeOK

\* A request that is made again or has failed, and has stored the row or not
LEMMA InVain ==
    ASSUME IngestionInv, cycle.at = "add", cycle' \in Cycle,
           cycle'.at = "row" \/ (cycle'.at = "add" /\ cycle'.todo = cycle.todo),
           cycle'.todo \subseteq cycle.todo, cycle'.count = cycle.count,
           cycle'.start = cycle.start, cycle'.src = cycle.src, cycle'.today = cycle.today,
           faults' \in 0..MaxFaults, UNCHANGED <<table, cursor, daily, hashes>>,
           \/ UNCHANGED <<memories, ingested, miscounted, slips>>
           \/ Stores /\ Slip /\ miscounted' = TRUE
    PROVE  IngestionInv'
<1> USE IngestionAssumption DEF table, IngestionInv
<1>1. cycle.todo # {} /\ Text # Junk /\ cycle.src \in Source /\ cycle.count < Cap
  BY DEF RowsHaveArrived, BudgetIsSpent
<1>2. Text \in Contents
  BY <1>1, TextIsContent
<1>3. cycle'.at = "add" => Text' = Text
  BY DEF Text, Row
<1>4. /\ memories' \in [Contents -> Nat] /\ slips' \in [Contents -> Nat]
      /\ ingested' \in Nat /\ miscounted' \in BOOLEAN
  BY <1>2, StoresOf, SlipOf DEF TypeOK
<1>5. TypeOK'
  BY <1>4 DEF TypeOK
<1>6. RowsHaveArrived' /\ BudgetIsSpent'
  BY <1>1, <1>3 DEF RowsHaveArrived, BudgetIsSpent
<1>7. \A c \in Contents :
          /\ memories[c] <= slips[c] => memories'[c] <= slips'[c]
          /\ memories[c] <= 1 + slips[c] => memories'[c] <= 1 + slips'[c]
  <2>1. CASE UNCHANGED <<memories, ingested, miscounted, slips>>
    BY <2>1
  <2>2. CASE Stores /\ Slip /\ miscounted' = TRUE
    <3>1. memories'[Text] = 1 + memories[Text] /\ slips'[Text] = 1 + slips[Text]
      BY <1>2, <2>2, StoresOf, SlipOf
    <3>2. \A c \in Contents \ {Text} : memories'[c] = memories[c] /\ slips'[c] = slips[c]
      BY <1>2, <2>2, StoresOf, SlipOf
    <3>3. \A c \in Contents : memories[c] \in Nat /\ slips[c] \in Nat
      BY DEF TypeOK
    <3>4. QED
      BY <1>2, <3>1, <3>2, <3>3
  <2>3. QED
    BY <2>1, <2>2
<1>8. StoredIsHashed'
  BY <1>2, <1>3, <1>7 DEF StoredIsHashed
<1>9. StoredOnce'
  BY <1>7 DEF StoredOnce
<1>10. QED
  BY <1>5, <1>6, <1>8, <1>9

LEMMA AddMemoryKeeps == ASSUME IngestionInv, AddMemory PROVE IngestionInv'
<1> USE IngestionAssumption DEF table, history, IngestionInv
<1>1. /\ cycle \in Cycle /\ cycle.at = "add" /\ cycle.todo # {} /\ cycle.src \in Source
      /\ Row \in cycle.todo /\ cycle.count < Cap /\ Text # Junk
      /\ UNCHANGED <<table, cursor, daily, hashes>>
  BY RowIsToDo DEF AddMemory, TypeOK, RowsHaveArrived, BudgetIsSpent
<1>2. Text \in Contents
  BY <1>1, TextIsContent
<1>3. PICK stored \in BOOLEAN, answer \in {"ok", "again", "no"} :
          /\ answer = "ok" => stored
          /\ answer = "again" => cycle.tries < Attempts - 1
          /\ cycle' = CASE answer = "ok" -> [cycle EXCEPT !.at = "record"]
                         [] answer = "again" -> [cycle EXCEPT !.tries = @ + 1]
                         [] answer = "no" -> Consume(cycle)
          /\ IF stored THEN Stores ELSE UNCHANGED <<memories, ingested>>
          /\ IF stored /\ answer # "ok" THEN QueryFails /\ Slip /\ miscounted' = TRUE
             ELSE UNCHANGED <<miscounted, slips, faults>>
  BY DEF AddMemory
<1>4. faults' \in 0..MaxFaults
  BY <1>3 DEF QueryFails, TypeOK
<1>5. CASE answer = "ok"
  <2>1. /\ cycle' \in Cycle /\ cycle'.at = "record" /\ cycle'.todo = cycle.todo
        /\ cycle'.count = cycle.count /\ cycle'.start = cycle.start
        /\ cycle'.src = cycle.src /\ cycle'.today = cycle.today
        /\ Stores /\ UNCHANGED <<miscounted, slips, faults>>
    BY <1>1, <1>3, <1>5 DEF Cycle
  <2>2. Text' = Text
    BY <1>1, <2>1 DEF Text, Row
  <2>3. TypeOK'
    BY <1>1, <1>2, <1>4, <2>1, StoresOf DEF TypeOK
  <2>4. RowsHaveArrived'
    BY <1>1, <2>1, <2>2 DEF RowsHaveArrived
  <2>5. BudgetIsSpent'
    BY <1>1, <2>1 DEF BudgetIsSpent, Stores, TypeOK, Cycle
  <2>6. /\ memories'[Text] <= 1 + slips[Text]
        /\ \A c \in Contents \ {Text} : memories'[c] = memories[c]
    BY <1>1, <1>2, <2>1, StoresOf DEF StoredIsHashed, TypeOK
  <2>7. StoredIsHashed'
    BY <1>1, <1>2, <2>1, <2>2, <2>6 DEF StoredIsHashed, TypeOK
  <2>8. StoredOnce'
    BY <1>2, <2>1, <2>6 DEF StoredOnce
  <2>9. QED
    BY <2>3, <2>4, <2>5, <2>7, <2>8
<1>6. CASE answer # "ok"
  <2>1. /\ cycle' \in Cycle
        /\ cycle'.at = "row" \/ (cycle'.at = "add" /\ cycle'.todo = cycle.todo)
        /\ cycle'.todo \subseteq cycle.todo /\ cycle'.count = cycle.count
        /\ cycle'.start = cycle.start /\ cycle'.src = cycle.src /\ cycle'.today = cycle.today
    <3>1. CASE answer = "again"
      <4>1. cycle' = [cycle EXCEPT !.tries = @ + 1] /\ cycle.tries + 1 \in 0..Attempts - 1
        BY <1>1, <1>3, <3>1 DEF Cycle, Attempts
      <4>2. QED
        BY <1>1, <4>1 DEF Cycle
    <3>2. CASE answer = "no"
      <4>1. cycle' = Consume(cycle)
        BY <1>3, <3>2
      <4>2. QED
        BY <1>1, <4>1, ConsumeRow DEF Cycle
    <3>3. QED
      BY <1>6, <3>1, <3>2
  <2>2. \/ UNCHANGED <<memories, ingested, miscounted, slips>>
        \/ Stores /\ Slip /\ miscounted' = TRUE
    BY <1>3, <1>6
  <2>3. QED
    BY <1>1, <1>4, <2>1, <2>2, InVain
<1>7. QED
  BY <1>5, <1>6

LEMMA RecordHashKeeps == ASSUME IngestionInv, RecordHash PROVE IngestionInv'
<1> USE IngestionAssumption DEF table, history, IngestionInv
<1>1. /\ cycle \in Cycle /\ cycle.at = "record" /\ cycle.todo # {} /\ cycle.src \in Source
      /\ Row \in cycle.todo /\ cycle.count < Cap /\ Text # Junk
      /\ UNCHANGED <<table, cursor, daily, memories, ingested>>
  BY RowIsToDo DEF RecordHash, TypeOK, RowsHaveArrived, BudgetIsSpent
<1>2. Text \in Contents
  BY <1>1, TextIsContent
<1>3. faults' \in 0..MaxFaults
  BY DEF QueryFails, TypeOK, RecordHash
<1>4. /\ Consume(cycle) \in Cycle /\ Consume(cycle).at = "row"
      /\ Consume(cycle).todo \subseteq cycle.todo /\ Consume(cycle).count = cycle.count
      /\ Consume(cycle).start = cycle.start /\ Consume(cycle).src = cycle.src
      /\ Consume(cycle).today = cycle.today
  BY <1>1, ConsumeRow DEF Cycle
<1>5. CASE /\ cycle' = [Consume(cycle) EXCEPT !.count = @ + 1]
           /\ hashes' = hashes \cup {Text}
           /\ UNCHANGED <<miscounted, slips>>
  <2>1. cycle.count + 1 \in 0..Cap
    BY <1>1 DEF Cycle
  <2>2. /\ cycle' \in Cycle /\ cycle'.at = "row" /\ cycle'.todo \subseteq cycle.todo
        /\ cycle'.count = cycle.count + 1 /\ cycle'.start = cycle.start
        /\ cycle'.src = cycle.src /\ cycle'.today = cycle.today
    BY <1>4, <1>5, <2>1 DEF Cycle
  <2>3. TypeOK'
    BY <1>1, <1>2, <1>3, <1>5, <2>2 DEF TypeOK
  <2>4. RowsHaveArrived'
    BY <1>1, <2>2 DEF RowsHaveArrived
  <2>5. BudgetIsSpent'
    BY <1>1, <1>5, <2>2 DEF BudgetIsSpent, TypeOK, Cycle
  <2>6. StoredIsHashed' /\ StoredOnce'
    BY <1>1, <1>5, <2>2 DEF StoredIsHashed, StoredOnce
  <2>7. QED
    BY <2>3, <2>4, <2>5, <2>6
<1>6. CASE /\ cycle' = Consume(cycle)
           /\ miscounted' = TRUE /\ Slip
           /\ UNCHANGED hashes
  <2>1. TypeOK'
    BY <1>1, <1>2, <1>3, <1>4, <1>6, SlipOf DEF TypeOK
  <2>2. RowsHaveArrived' /\ BudgetIsSpent'
    BY <1>1, <1>4, <1>6 DEF RowsHaveArrived, BudgetIsSpent
  <2>3. StoredIsHashed' /\ StoredOnce'
    BY <1>1, <1>2, <1>4, <1>6, SlipOf DEF StoredIsHashed, StoredOnce, TypeOK
  <2>4. QED
    BY <2>1, <2>2, <2>3
<1>7. QED
  BY <1>5, <1>6 DEF RecordHash

-----------------------------------------------------------------------------
(* The steps of others *)

\* A row that arrives is none of those of the batch.
LEMMA ArriveKeeps ==
    ASSUME IngestionInv, NEW s \in Source, NEW c \in Contents \cup {Junk}, Arrive(s, c)
    PROVE  IngestionInv'
<1> USE IngestionAssumption DEF table, history, IngestionInv
<1>1. /\ arrived[s] \in Nat /\ arrived[s] < MaxRows /\ MaxRows \in Nat
      /\ arrived' = [arrived EXCEPT ![s] = arrived[s] + 1]
      /\ arrived'[s] = arrived[s] + 1
      /\ UNCHANGED <<cursor, daily, hashes, memories, cycle, history, faults>>
  BY RoomForRow DEF Arrive, TypeOK
<1>2. /\ content' = [content EXCEPT ![s] = [content[s] EXCEPT ![arrived[s] + 1] = c]]
      /\ arrived[s] + 1 \in Rows
  BY <1>1 DEF Arrive, TypeOK, Rows
<1>3. /\ arrived' \in [Source -> 0..MaxRows] /\ \A t \in Source : arrived[t] <= arrived'[t]
      /\ content' \in [Source -> [Rows -> Contents \cup {Junk}]]
      /\ \A t \in Source, r \in Rows : r <= arrived[t] => content'[t][r] = content[t][r]
  BY <1>1, <1>2 DEF TypeOK
<1>4. TypeOK'
  BY <1>1, <1>3 DEF TypeOK
<1>5. ASSUME cycle.at \in {"add", "record"} PROVE Text' = Text
  <2>1. cycle.src \in Source /\ Row \in Rows /\ Row <= arrived[cycle.src] /\ Row' = Row
    BY <1>1, <1>5, RowIsToDo DEF RowsHaveArrived, TypeOK, Row
  <2>2. QED
    BY <1>1, <1>3, <2>1 DEF Text
<1>6. RowsHaveArrived'
  BY <1>1, <1>3, <1>5 DEF RowsHaveArrived, TypeOK
<1>7. BudgetIsSpent'
  BY <1>1 DEF BudgetIsSpent
<1>8. StoredIsHashed' /\ StoredOnce'
  BY <1>1, <1>5 DEF StoredIsHashed, StoredOnce
<1>9. QED
  BY <1>4, <1>6, <1>7, <1>8

LEMMA NextDayKeeps == ASSUME IngestionInv, NextDay PROVE IngestionInv'
<1> USE IngestionAssumption DEF table, history, IngestionInv, NextDay
<1>1. /\ cycle' \in Cycle /\ cycle'.at = cycle.at /\ cycle'.todo = cycle.todo
      /\ cycle'.count = cycle.count /\ cycle'.src = cycle.src
      /\ cycle.at # "idle" => ~cycle'.today
  BY DEF TypeOK, Cycle
<1>2. Text' = Text
  BY <1>1 DEF Text, Row
<1>3. TypeOK'
  <2>1. daily' \in 0..Cap /\ ingested' \in Nat
    OBVIOUS
  <2>2. miscounted' \in BOOLEAN
    OBVIOUS
  <2>3. QED
    BY <1>1, <2>1, <2>2 DEF TypeOK
<1>4. RowsHaveArrived' /\ BudgetIsSpent'
  BY <1>1, <1>2 DEF RowsHaveArrived, BudgetIsSpent
<1>5. StoredIsHashed' /\ StoredOnce'
  BY <1>1, <1>2 DEF StoredIsHashed, StoredOnce
<1>6. QED
  BY <1>3, <1>4, <1>5

LEMMA CrashKeeps == ASSUME IngestionInv, Crash PROVE IngestionInv'
<1> USE IngestionAssumption DEF table, history, IngestionInv, Crash
<1>1. cycle' = Idle /\ cycle'.at = "idle" /\ cycle'.todo = {} /\ cycle' \in Cycle
  BY IdleIsCycle DEF Idle
<1>2. /\ slips' \in [Contents -> Nat] /\ \A c \in Contents : slips[c] <= slips'[c]
      /\ cycle.at = "record" => Text \in Contents /\ slips'[Text] = 1 + slips[Text]
  <2>1. ASSUME cycle.at = "record" PROVE Text \in Contents
    BY <2>1, TextIsContent DEF RowsHaveArrived
  <2>2. QED
    BY <2>1, SlipOf DEF TypeOK
<1>3. faults' \in 0..MaxFaults
  BY DEF TypeOK
<1>4. TypeOK'
  BY <1>1, <1>2, <1>3 DEF TypeOK
<1>5. RowsHaveArrived' /\ BudgetIsSpent'
  BY <1>1 DEF RowsHaveArrived, BudgetIsSpent
<1>6. StoredIsHashed' /\ StoredOnce'
  BY <1>1, <1>2 DEF StoredIsHashed, StoredOnce, TypeOK
<1>7. QED
  BY <1>4, <1>5, <1>6

LEMMA IngestionStep == IngestionInv /\ [Next]_vars => IngestionInv'
<1>1. ASSUME IngestionInv, UNCHANGED vars PROVE IngestionInv'
  <2>1. TypeOK'
    BY <1>1 DEF vars, table, history, IngestionInv, TypeOK
  <2>2. Text' = Text
    BY <1>1 DEF vars, table, Text, Row
  <2>3. RowsHaveArrived' /\ BudgetIsSpent'
    BY <1>1, <2>2 DEF vars, table, history, IngestionInv, RowsHaveArrived, BudgetIsSpent
  <2>4. StoredIsHashed' /\ StoredOnce'
    BY <1>1, <2>2 DEF vars, history, IngestionInv, StoredIsHashed, StoredOnce
  <2>5. QED
    BY <2>1, <2>3, <2>4 DEF IngestionInv
<1>2. QED
  BY <1>1, StartCycleKeeps, NextSourceKeeps, CycleEndsKeeps, FetchBatchKeeps, LookAtRowKeeps,
     AddMemoryKeeps, RecordHashKeeps, SaveCursorKeeps, ArriveKeeps, NextDayKeeps, CrashKeeps
     DEF Next, Step

-----------------------------------------------------------------------------
(* The theorems *)

LEMMA IngestionInvHolds == Spec => []IngestionInv
<1>1. Init => IngestionInv
  BY IngestionInit
<1>2. IngestionInv /\ [Next]_vars => IngestionInv'
  BY IngestionStep
<1>3. QED
  BY <1>1, <1>2, PTL DEF Spec

\* For any number of sources, rows, cap and faults, with cycles that span days,
\* crash or fail: what a day's budget is spent on keeps to the cap as long as no
\* crash or failing query has lost count.
THEOREM CapStands == Spec => []Inv
<1>1. IngestionInv => Inv
  <2> SUFFICES ASSUME IngestionInv PROVE Inv
    OBVIOUS
  <2>1. ~miscounted => ingested <= Cap
    BY IngestionAssumption DEF IngestionInv, BudgetIsSpent, TypeOK, Cycle
  <2>2. QED
    BY <2>1 DEF Inv, IngestionInv, CapIsKept
<1>2. QED
  BY <1>1, IngestionInvHolds, PTL

\* A content is stored once, in whatever cycles, sources and rows it comes back and
\* however often the store is asked to take it; each further copy has cost a fault
\* that kept its hash from being searched or recorded, or lost a late answer.
THEOREM NothingTwice == Spec => []StoredOnce
<1>1. IngestionInv => StoredOnce
  BY DEF IngestionInv
<1>2. QED
  BY <1>1, IngestionInvHolds, PTL

-----------------------------------------------------------------------------
(***************************************************************************)
(* The runs of the ideas pipeline, which works on what was ingested, for   *)
(* any runs, steps, executions, crashes, resumes and failing queries.      *)
(* They share no state with the ingestion.                                 *)
(***************************************************************************)
Living(k) == execs[k] # Free /\ execs[k].at # "dead"

\* What an execution has behind it, and what its row says.
ExecFits(k) ==
    execs[k] # Free =>
        /\ execs[k].at \in {"work", "insert", "finish"} => execs[k].step \in Steps
        /\ execs[k].at \in {"insert", "finish"} => execs[k].step = LastStep
        /\ execs[k].at \notin {"work", "insert", "finish", "dead"} => execs[k].row = "none"
        /\ execs[k].at = "dead" => execs[k].row = "running"
        /\ \A s \in Steps : s < execs[k].step => s \in done[execs[k].run]
        /\ runs[execs[k].run].status # "unborn"

\* The loops of the web process are at runs that exist; the boot has read of each
\* no fewer attempts than it has.
LoopsFit ==
    /\ \A x, y \in boot.todo : x[1] = y[1] => x = y
    /\ \A x \in boot.todo : runs[x[1]].attempts <= x[2] /\ runs[x[1]].status # "unborn"
    /\ boot.at = "cut" => runs[boot.run].status # "unborn"
    /\ manual.at # "idle" => runs[manual.run].status # "unborn"

\* In a process, a run has one execution beyond its call.
OneInProcess ==
    \A k, l \in Slots : Executing(k) /\ Executing(l) /\ execs[k].run = execs[l].run
                           /\ execs[k].proc = execs[l].proc => k = l

\* A run that was not executed twice at a time has its executions in one process,
\* and no dead one beside them.
OneProcess ==
    \A k, l \in Slots : Living(k) /\ Living(l) /\ execs[k].run = execs[l].run
                           /\ execs[k].run \notin doubled => execs[k].proc = execs[l].proc
NoneBeside ==
    \A k, l \in Slots : Living(k) /\ execs[l].at = "dead" /\ execs[k].run = execs[l].run
                           => execs[k].run \in doubled

Regular(r) == r \notin irregular \cup doubled

\* A run at work is not completed, and where its ideas are in its last step.
WorkIsOpen(k) ==
    execs[k].at \in {"gap", "work", "insert", "finish", "failing"} /\ execs[k].run \notin doubled
        => runs[execs[k].run].status \notin {"completed", "empty"}
IdeasAt(k) ==
    Living(k) /\ Regular(execs[k].run) =>
        /\ execs[k].at \in {"work", "insert", "finish"} => execs[k].step \notin done[execs[k].run]
        /\ execs[k].at = "insert" => ideas[execs[k].run] = 0
        /\ execs[k].at = "finish" => ideas[execs[k].run] = 1

\* The checkpoint of the last step says that the ideas are stored, once.
LastIsStored(r) ==
    /\ Regular(r) /\ LastStep \in done[r] => ideas[r] = 1
    /\ runs[r].status = "completed" => LastStep \in done[r]

LateIsIrregular == \A x \in late : x[1] \in irregular

RunsInv ==
    /\ RunsTypeOK
    /\ \A k \in Slots : ExecFits(k) /\ WorkIsOpen(k) /\ IdeasAt(k)
    /\ \A r \in Runs : LastIsStored(r)
    /\ LoopsFit /\ LateIsIrregular
    /\ OneInProcess /\ OneProcess /\ NoneBeside
    /\ NoGhosts

-----------------------------------------------------------------------------
(* Executions *)

LEMMA ExecShape ==
    ASSUME RunsTypeOK, NEW k \in Slots
    PROVE  /\ execs[k] = Free \/ execs[k] \in Exec
           /\ execs[k] \in Exec <=> execs[k] # Free
           /\ execs[k].at = "free" <=> execs[k] = Free
           /\ Living(k) => execs[k] \in Exec /\ execs[k].at # "dead"
           /\ Executing(k) => Living(k)
<1>1. execs[k] = Free \/ execs[k] \in Exec
  BY DEF RunsTypeOK
<1>2. \A e \in Exec : e.at # "free" /\ e # Free
  BY DEF Exec, Free
<1>3. Free.at = "free"
  BY DEF Free
<1>4. QED
  BY <1>1, <1>2, <1>3 DEF Living, Executing

LEMMA ExecSet ==
    ASSUME RunsTypeOK, NEW k \in Slots, NEW d \in Exec \cup {Free},
           execs' = [execs EXCEPT ![k] = d]
    PROVE  /\ execs' \in [Slots -> Exec \cup {Free}]
           /\ execs'[k] = d /\ \A l \in Slots \ {k} : execs'[l] = execs[l]
BY DEF RunsTypeOK

\* Whoever executes a run that was not executed twice at a time has it for itself,
\* but for calls that are not under way.
LEMMA SoleExecutor ==
    ASSUME RunsInv, NEW k \in Slots, Executing(k), NEW l \in Slots \ {k},
           execs[l].run = execs[k].run, execs[l] # Free, execs[k].run \notin doubled
    PROVE  execs[l].at = "call"
<1>1. RunsTypeOK /\ OneInProcess /\ OneProcess /\ NoneBeside
  BY DEF RunsInv
<1>2. Living(k) /\ execs[l] \in Exec /\ execs[l].at # "free"
  BY <1>1, ExecShape
<1>3. execs[l].at # "dead"
  BY <1>1, <1>2 DEF NoneBeside
<1>4. execs[l].proc = execs[k].proc
  BY <1>1, <1>2, <1>3 DEF OneProcess, Living
<1>5. ~Executing(l)
  BY <1>1, <1>4 DEF OneInProcess
<1>6. QED
  BY <1>2, <1>3, <1>5 DEF Executing

\* A step that begins no execution, ends none with a row that stays, and leaves
\* each its run and its process.
LEMMA NoneNew ==
    ASSUME RunsInv, doubled \subseteq doubled',
           \A l \in Slots :
               /\ Living(l)' => /\ Living(l) /\ execs'[l].run = execs[l].run
                                /\ execs'[l].proc = execs[l].proc
               /\ Executing(l)' => Executing(l) /\ Living(l)'
               /\ execs'[l].at = "dead" => execs[l].at = "dead" /\ execs'[l].run = execs[l].run
    PROVE  OneInProcess' /\ OneProcess' /\ NoneBeside'
<1>1. OneInProcess /\ OneProcess /\ NoneBeside
  BY DEF RunsInv
<1>2. OneInProcess'
  BY <1>1 DEF OneInProcess
<1>3. OneProcess'
  BY <1>1 DEF OneProcess
<1>4. NoneBeside'
  BY <1>1 DEF NoneBeside
<1>5. QED
  BY <1>2, <1>3, <1>4

\* What has to be shown of a step of execution k, which may write the row, the
\* checkpoints and the ideas of its run.
LEMMA ExecStepKeeps ==
    ASSUME RunsInv, NEW k \in Slots, Executing(k), NEW r \in Runs, r = execs[k].run,
           NEW d \in Exec \cup {Free},
           d # Free => d.at # "dead" /\ d.run = r /\ d.proc = execs[k].proc,
           execs' = [execs EXCEPT ![k] = d],
           UNCHANGED <<loops, doubled>>,
           irregular \subseteq irregular',
           \A q \in Runs \ {r} : runs'[q] = runs[q] /\ done'[q] = done[q] /\ ideas'[q] = ideas[q],
           done[r] \subseteq done'[r],
           runs'[r].status # "unborn", runs'[r].attempts = runs[r].attempts,
           RunsTypeOK', ExecFits(k)', WorkIsOpen(k)', IdeasAt(k)', LastIsStored(r)', LateIsIrregular'
    PROVE  RunsInv'
<1>1. RunsTypeOK /\ NoGhosts /\ LoopsFit
  BY DEF RunsInv
<1>2. execs'[k] = d /\ \A l \in Slots \ {k} : execs'[l] = execs[l]
  BY <1>1, ExecSet
<1>3. \A l \in Slots : (execs[l].at = "free" <=> execs[l] = Free)
                          /\ (execs'[l].at = "free" <=> execs'[l] = Free)
                          /\ (execs[l] # Free => execs[l].run \in Runs)
  <2>1. \A l \in Slots : execs[l] \in Exec \cup {Free} /\ execs'[l] \in Exec \cup {Free}
    BY <1>1 DEF RunsTypeOK
  <2>2. Free.at = "free" /\ \A e \in Exec : e.at # "free" /\ e.run \in Runs
    BY DEF Free, Exec
  <2>3. QED
    BY <2>1, <2>2
<1>4. Living(k)
  BY <1>1, ExecShape
<1>5. \A l \in Slots \ {k} : execs[l] # Free /\ execs[l].run = r /\ r \notin doubled
                                => execs[l].at = "call"
  BY SoleExecutor
<1>6. OneInProcess' /\ OneProcess' /\ NoneBeside'
  <2>1. \A l \in Slots :
            /\ Living(l)' => /\ Living(l) /\ execs'[l].run = execs[l].run
                             /\ execs'[l].proc = execs[l].proc
            /\ Executing(l)' => Executing(l) /\ Living(l)'
            /\ execs'[l].at = "dead" => execs[l].at = "dead" /\ execs'[l].run = execs[l].run
    BY <1>2, <1>3, <1>4 DEF Living, Executing
  <2>2. doubled \subseteq doubled'
    OBVIOUS
  <2>3. QED
    BY <2>1, <2>2, NoneNew
<1>7. ASSUME NEW l \in Slots
      PROVE  ExecFits(l)' /\ WorkIsOpen(l)' /\ IdeasAt(l)'
  <2>1. CASE l = k
    BY <2>1
  <2>2. CASE l # k
    <3>1. execs'[l] = execs[l] /\ ExecFits(l) /\ WorkIsOpen(l) /\ IdeasAt(l)
      BY <1>2, <2>2 DEF RunsInv
    <3>2. ExecFits(l)'
      <4>1. CASE execs[l] = Free
        BY <3>1, <4>1 DEF ExecFits
      <4>2. CASE execs[l] # Free
        <5>1. execs[l].run \in Runs
          BY <1>3, <4>2
        <5>2. done[execs[l].run] \subseteq done'[execs[l].run]
          BY <5>1
        <5>3. runs[execs[l].run].status # "unborn" => runs'[execs[l].run].status # "unborn"
          BY <5>1
        <5>4. QED
          BY <3>1, <5>2, <5>3 DEF ExecFits
      <4>3. QED
        BY <4>1, <4>2
    <3>3. CASE execs[l] = Free
      BY <1>3, <3>1, <3>2, <3>3 DEF WorkIsOpen, IdeasAt, Living
    <3>4. CASE execs[l] # Free /\ execs[l].run # r
      <4>1. execs[l].run \in Runs \ {r}
        BY <1>3, <3>4
      <4>2. QED
        BY <3>1, <3>2, <4>1 DEF WorkIsOpen, IdeasAt, Living, Regular
    <3>5. CASE execs[l] # Free /\ execs[l].run = r
      BY <1>5, <2>2, <3>1, <3>2, <3>5 DEF WorkIsOpen, IdeasAt, Living, Regular
    <3>6. QED
      BY <3>3, <3>4, <3>5
  <2>3. QED
    BY <2>1, <2>2
<1>8. \A q \in Runs : LastIsStored(q)'
  <2>1. \A q \in Runs : LastIsStored(q)
    BY DEF RunsInv
  <2>2. QED
    BY <2>1 DEF LastIsStored, Regular
<1>9. NoGhosts'
  <2> SUFFICES ASSUME NEW l \in Slots, execs'[l].at = "dead", execs'[l].run \notin doubled
               PROVE  runs'[execs'[l].run].status \notin {"completed", "empty"}
    BY DEF NoGhosts
  <2>1. l # k /\ execs'[l] = execs[l] /\ execs[l] # Free
    BY <1>2, <1>3
  <2>2. execs[l].run # r
    BY <1>5, <2>1
  <2>3. execs[l].run \in Runs
    BY <1>3, <2>1
  <2>4. QED
    BY <1>1, <2>1, <2>2, <2>3 DEF NoGhosts
<1>10. LoopsFit'
  <2>1. boot' = boot /\ manual' = manual
    BY DEF loops
  <2>2. \A q \in Runs : /\ runs'[q].attempts = runs[q].attempts
                        /\ runs[q].status # "unborn" => runs'[q].status # "unborn"
    OBVIOUS
  <2>3. (\A x \in boot.todo : x[1] \in Runs) /\ boot.run \in Runs /\ manual.run \in Runs
    BY <1>1 DEF RunsTypeOK, Loop
  <2>4. QED
    BY <1>1, <2>1, <2>2, <2>3 DEF LoopsFit
<1>11. QED
  BY <1>6, <1>7, <1>8, <1>9, <1>10 DEF RunsInv

-----------------------------------------------------------------------------
(* The steps of an execution *)

\* The step of an execution, as it moves to d.
LEMMA Mover ==
    ASSUME RunsTypeOK, NEW k \in Slots, Executing(k)
    PROVE  /\ execs[k] \in Exec /\ execs[k].run \in Runs /\ execs[k].proc \in Procs
           /\ Living(k) /\ execs[k] # Free
           /\ execs[k].step \in 1..LastStep + 1 /\ execs[k].row \in {"none", "running", "cut"}
<1>1. execs[k] \in Exec /\ Living(k) /\ execs[k] # Free
  BY ExecShape
<1>2. QED
  BY <1>1 DEF Exec

LEMMA OneMoreError ==
    ASSUME RunsTypeOK, errors < MaxErrors, errors' = errors + 1
    PROVE  errors' \in 0..MaxErrors
BY PipelineAssumption DEF RunsTypeOK

LEMMA AgeIsNat ==
    0 \in Age /\ Stale \in Nat \ {0} /\ LastStep \in Nat \ {0}
BY PipelineAssumption DEF Age

LEMMA ExecNotFree ==
    ASSUME NEW e \in Exec
    PROVE  e # Free
BY DEF Exec, Free

LEMMA BeginKeeps ==
    ASSUME RunsInv, NEW k \in Slots, Begin(k)
    PROVE  RunsInv'
<1>1. /\ RunsTypeOK /\ execs[k].at = "call"
      /\ UNCHANGED <<runs, done, ideas, up, loops, late, runHistory, counts>>
  BY DEF RunsInv, Begin
<1>2. execs[k] \in Exec /\ Living(k) /\ execs[k] # Free /\ ~Executing(k)
  BY <1>1, ExecShape DEF Living, Free, Executing
<1> DEFINE d == IF execs[k].run \in Active(execs[k].proc) THEN Free ELSE [execs[k] EXCEPT !.at = "start"]
<1>3. execs' = [execs EXCEPT ![k] = d]
  BY DEF Begin, Move
<1>4. /\ d \in Exec \cup {Free}
      /\ d # Free => /\ d.at = "start" /\ d.run = execs[k].run /\ d.proc = execs[k].proc
                     /\ d.step = execs[k].step /\ d.row = execs[k].row
                     /\ d.run \notin Active(d.proc)
  BY <1>2 DEF Exec
<1> HIDE DEF d
<1>5. execs'[k] = d /\ (\A l \in Slots \ {k} : execs'[l] = execs[l])
      /\ execs' \in [Slots -> Exec \cup {Free}]
  BY <1>1, <1>3, <1>4, ExecSet
<1>6. RunsTypeOK'
  BY <1>1, <1>5 DEF RunsTypeOK, loops, runHistory, counts
<1>7. \A l \in Slots : ExecFits(l)' /\ WorkIsOpen(l)' /\ IdeasAt(l)'
  <2> SUFFICES ASSUME NEW l \in Slots
               PROVE  ExecFits(l)' /\ WorkIsOpen(l)' /\ IdeasAt(l)'
    OBVIOUS
  <2>1. ExecFits(l) /\ WorkIsOpen(l) /\ IdeasAt(l)
    BY DEF RunsInv
  <2>2. CASE l = k
    <3>1. CASE d = Free
      BY <1>5, <2>2, <3>1 DEF ExecFits, WorkIsOpen, IdeasAt, Living, Free
    <3>2. CASE d # Free
      BY <1>1, <1>2, <1>4, <1>5, <2>1, <2>2, <3>2 DEF ExecFits, WorkIsOpen, IdeasAt
    <3>3. QED
      BY <3>1, <3>2
  <2>3. CASE l # k
    BY <1>1, <1>5, <2>1, <2>3 DEF ExecFits, WorkIsOpen, IdeasAt, Living, Regular, runHistory
  <2>4. QED
    BY <2>2, <2>3
<1>8. OneInProcess'
  <2> SUFFICES ASSUME NEW i \in Slots, NEW j \in Slots, Executing(i)', Executing(j)',
                      execs'[i].run = execs'[j].run, execs'[i].proc = execs'[j].proc
               PROVE  i = j
    BY DEF OneInProcess
  <2>1. \A l \in Slots \ {k} : Executing(l)' => Executing(l)
    BY <1>5 DEF Executing
  <2>2. Executing(k)' => d # Free
    BY <1>5 DEF Executing, Free
  <2>3. ASSUME NEW l \in Slots \ {k}, Executing(l)', Executing(k)', execs'[l].run = execs'[k].run,
               execs'[l].proc = execs'[k].proc
        PROVE  FALSE
    <3>1. execs[l].run \in Active(d.proc) /\ d.run = execs[l].run
      BY <1>5, <2>1, <2>3 DEF Active
    <3>2. QED
      BY <1>4, <2>2, <2>3, <3>1
  <2>4. QED
    BY <1>5, <2>1, <2>3 DEF RunsInv, OneInProcess
<1>9. OneProcess' /\ NoneBeside' /\ NoGhosts'
  <2>1. \A l \in Slots : /\ Living(l)' => /\ Living(l) /\ execs'[l].run = execs[l].run
                                          /\ execs'[l].proc = execs[l].proc
                         /\ execs'[l].at = "dead" => l # k /\ execs'[l] = execs[l]
    BY <1>2, <1>4, <1>5 DEF Living, Free
  <2>2. doubled' = doubled /\ runs' = runs
    BY <1>1 DEF runHistory
  <2>3. OneProcess'
    BY <2>1, <2>2 DEF RunsInv, OneProcess
  <2>4. NoneBeside'
    BY <2>1, <2>2 DEF RunsInv, NoneBeside
  <2>5. NoGhosts'
    BY <2>1, <2>2 DEF RunsInv, NoGhosts
  <2>6. QED
    BY <2>3, <2>4, <2>5
<1>10. (\A q \in Runs : LastIsStored(q)') /\ LoopsFit' /\ LateIsIrregular'
  BY <1>1 DEF RunsInv, LastIsStored, Regular, LoopsFit, LateIsIrregular, loops, runHistory
<1>11. QED
  BY <1>6, <1>7, <1>8, <1>9, <1>10 DEF RunsInv

\* What is known of the run of execution k.
LEMMA RunOf ==
    ASSUME RunsInv, NEW k \in Slots, Executing(k)
    PROVE  /\ RunsTypeOK /\ execs[k] \in Exec /\ execs[k] # Free /\ Living(k)
           /\ ExecFits(k) /\ WorkIsOpen(k) /\ IdeasAt(k) /\ LateIsIrregular
           /\ runs \in [Runs -> RunRow] /\ done \in [Runs -> SUBSET Steps] /\ ideas \in [Runs -> Nat]
           /\ \E r \in Runs : r = execs[k].run /\ LastIsStored(r)
<1>1. RunsTypeOK
  BY DEF RunsInv
<1>2. execs[k] \in Exec /\ execs[k].run \in Runs /\ Living(k) /\ execs[k] # Free
  BY <1>1, Mover
<1>3. QED
  BY <1>1, <1>2 DEF RunsInv, RunsTypeOK

LEMMA StartKeeps ==
    ASSUME RunsInv, NEW k \in Slots, Start(k)
    PROVE  RunsInv'
<1>1. Executing(k) /\ execs[k].at = "start"
  BY DEF Start, Executing
<1>2. PICK r \in Runs : r = execs[k].run /\ LastIsStored(r)
  BY <1>1, RunOf
<1> DEFINE d == [execs[k] EXCEPT !.at = "gap"]
<1>3. execs' = [execs EXCEPT ![k] = d]
      /\ runs' = [runs EXCEPT ![r].status = "running", ![r].age = 0]
      /\ UNCHANGED <<done, ideas, up, loops, late, runHistory, counts>>
  BY <1>2 DEF Start, Move
<1>4. /\ d \in Exec /\ d.at = "gap" /\ d.run = r /\ d.proc = execs[k].proc
      /\ d.step = execs[k].step /\ d.row = execs[k].row /\ d # Free
  BY <1>1, <1>2, RunOf DEF Exec, Free
<1>5. /\ runs' \in [Runs -> RunRow] /\ runs'[r].status = "running"
      /\ runs'[r].attempts = runs[r].attempts
      /\ \A q \in Runs \ {r} : runs'[q] = runs[q]
  BY <1>1, <1>3, RunOf, PipelineAssumption DEF RunRow, Age
<1> HIDE DEF d
<1>6. execs'[k] = d /\ execs' \in [Slots -> Exec \cup {Free}]
  BY <1>1, <1>3, <1>4, RunOf, ExecSet
<1>7. RunsTypeOK'
  BY <1>1, <1>3, <1>5, <1>6, RunOf DEF RunsTypeOK, loops, runHistory, counts
<1>8. ExecFits(k)' /\ WorkIsOpen(k)' /\ IdeasAt(k)'
  BY <1>1, <1>2, <1>3, <1>4, <1>5, <1>6, RunOf DEF ExecFits, WorkIsOpen, IdeasAt
<1>9. LastIsStored(r)' /\ LateIsIrregular'
  BY <1>1, <1>2, <1>3, <1>5, RunOf DEF LastIsStored, Regular, LateIsIrregular, runHistory
<1>10. QED
  BY <1>1, <1>2, <1>3, <1>4, <1>5, <1>7, <1>8, <1>9, ExecStepKeeps DEF runHistory

LEMMA StartFailsKeeps ==
    ASSUME RunsInv, NEW k \in Slots, StartFails(k)
    PROVE  RunsInv'
<1>1. Executing(k) /\ execs[k].at = "start"
  BY DEF StartFails, Executing
<1>2. PICK r \in Runs : r = execs[k].run /\ LastIsStored(r)
  BY <1>1, RunOf
<1> DEFINE d == [execs[k] EXCEPT !.at = "stuck"]
<1>3. execs' = [execs EXCEPT ![k] = d] /\ errors < MaxErrors /\ errors' = errors + 1
      /\ UNCHANGED <<runs, done, ideas, up, loops, late, runHistory, crashes, resumes>>
  BY <1>2 DEF StartFails, Move
<1>4. /\ d \in Exec /\ d.at = "stuck" /\ d.run = r /\ d.proc = execs[k].proc
      /\ d.step = execs[k].step /\ d.row = execs[k].row /\ d # Free
  BY <1>1, <1>2, RunOf DEF Exec, Free
<1> HIDE DEF d
<1>5. execs'[k] = d /\ execs' \in [Slots -> Exec \cup {Free}]
  BY <1>1, <1>3, <1>4, RunOf, ExecSet
<1>6. RunsTypeOK'
  BY <1>1, <1>3, <1>5, RunOf, OneMoreError DEF RunsTypeOK, loops, runHistory
<1>7. ExecFits(k)' /\ WorkIsOpen(k)' /\ IdeasAt(k)'
  BY <1>1, <1>2, <1>3, <1>4, <1>5, RunOf DEF ExecFits, WorkIsOpen, IdeasAt
<1>8. LastIsStored(r)' /\ LateIsIrregular'
  BY <1>1, <1>2, <1>3, RunOf DEF LastIsStored, Regular, LateIsIrregular, runHistory
<1>9. QED
  BY <1>1, <1>2, <1>3, <1>4, <1>6, <1>7, <1>8, RunOf, ExecStepKeeps DEF runHistory, ExecFits

LEMMA NextStepKeeps ==
    ASSUME RunsInv, NEW k \in Slots, NextStep(k)
    PROVE  RunsInv'
<1>1. Executing(k) /\ execs[k].at = "gap" /\ execs[k].step \in Steps
  BY DEF NextStep, Executing
<1>2. PICK r \in Runs : r = execs[k].run /\ LastIsStored(r)
  BY <1>1, RunOf
<1>3. UNCHANGED <<runs, done, ideas, up, loops, late, doubled, crashes, resumes>>
  BY DEF NextStep
<1>4. LastStep \in Nat
  BY PipelineAssumption
<1>5. CASE /\ execs[k].step \in done[r]
           /\ execs' = [execs EXCEPT ![k].step = @ + 1]
           /\ UNCHANGED <<errors, irregular>>
  <2> DEFINE d == [execs[k] EXCEPT !.step = @ + 1]
  <2>1. execs' = [execs EXCEPT ![k] = d]
    BY <1>5
  <2>2. /\ d \in Exec /\ d.at = "gap" /\ d.run = r /\ d.proc = execs[k].proc
        /\ d.step = execs[k].step + 1 /\ d.row = execs[k].row /\ d # Free
    BY <1>1, <1>2, <1>4, RunOf DEF Exec, Free, Steps
  <2> HIDE DEF d
  <2>3. execs'[k] = d /\ execs' \in [Slots -> Exec \cup {Free}]
    BY <1>1, <2>1, <2>2, RunOf, ExecSet
  <2>4. RunsTypeOK'
    BY <1>1, <1>3, <1>5, <2>3, RunOf DEF RunsTypeOK, loops
  <2>5. ExecFits(k)'
    <3>1. \A s \in Steps : s < execs[k].step + 1 => s \in done[r]
      BY <1>1, <1>2, <1>4, <1>5, RunOf DEF ExecFits, Steps
    <3>2. QED
      BY <1>1, <1>2, <1>3, <2>2, <2>3, <3>1, RunOf DEF ExecFits
  <2>6. WorkIsOpen(k)' /\ IdeasAt(k)'
    BY <1>1, <1>2, <1>3, <1>5, <2>2, <2>3, RunOf DEF WorkIsOpen, IdeasAt
  <2>7. LastIsStored(r)' /\ LateIsIrregular'
    BY <1>1, <1>2, <1>3, <1>5, RunOf DEF LastIsStored, Regular, LateIsIrregular
  <2>8. QED
    BY <1>1, <1>2, <1>3, <1>5, <2>1, <2>2, <2>4, <2>5, <2>6, <2>7, RunOf, ExecStepKeeps DEF ExecFits
<1>6. CASE /\ IF execs[k].step \in done[r]
              THEN /\ errors < MaxErrors /\ errors' = errors + 1
                   /\ irregular' = irregular \cup {r}
              ELSE UNCHANGED <<errors, irregular>>
           /\ execs' = [execs EXCEPT ![k] =
                            [execs[k] EXCEPT !.at = "work", !.row = "running", !.age = 0]]
  <2> DEFINE d == [execs[k] EXCEPT !.at = "work", !.row = "running", !.age = 0]
  <2>1. execs' = [execs EXCEPT ![k] = d]
    BY <1>6
  <2>2. /\ d \in Exec /\ d.at = "work" /\ d.run = r /\ d.proc = execs[k].proc
        /\ d.step = execs[k].step /\ d.row = "running" /\ d # Free
    <3>1. d \in Exec
      BY <1>1, RunOf, AgeIsNat DEF Exec
    <3>2. QED
      BY <1>1, <1>2, <3>1, RunOf, ExecNotFree DEF Exec
  <2> HIDE DEF d
  <2>3. execs'[k] = d /\ execs' \in [Slots -> Exec \cup {Free}]
    BY <1>1, <2>1, <2>2, RunOf, ExecSet
  <2>4. /\ errors' \in 0..MaxErrors /\ irregular \subseteq irregular' /\ irregular' \subseteq Runs
        /\ r \notin irregular' => execs[k].step \notin done[r]
    BY <1>1, <1>2, <1>6, RunOf, PipelineAssumption DEF RunsTypeOK
  <2>5. RunsTypeOK'
    BY <1>1, <1>3, <2>3, <2>4, RunOf DEF RunsTypeOK, loops
  <2>6. ExecFits(k)' /\ WorkIsOpen(k)' /\ IdeasAt(k)'
    BY <1>1, <1>2, <1>3, <2>2, <2>3, <2>4, RunOf DEF ExecFits, WorkIsOpen, IdeasAt, Regular
  <2>7. LastIsStored(r)' /\ LateIsIrregular'
    BY <1>1, <1>2, <1>3, <2>4, RunOf DEF LastIsStored, Regular, LateIsIrregular
  <2>8. QED
    BY <1>1, <1>2, <1>3, <2>1, <2>2, <2>4, <2>5, <2>6, <2>7, RunOf, ExecStepKeeps DEF ExecFits
<1>7. QED
  BY <1>2, <1>5, <1>6 DEF NextStep

LEMMA DeleteKeeps ==
    ASSUME RunsInv, NEW k \in Slots, Delete(k)
    PROVE  RunsInv'
<1>1. Executing(k) /\ execs[k].at = "work" /\ execs[k].step = LastStep
  BY DEF Delete, Executing
<1>2. PICK r \in Runs : r = execs[k].run /\ LastIsStored(r)
  BY <1>1, RunOf
<1> DEFINE d == [execs[k] EXCEPT !.at = "insert"]
<1>3. execs' = [execs EXCEPT ![k] = d] /\ ideas' = [ideas EXCEPT ![r] = 0]
      /\ UNCHANGED <<runs, done, up, loops, late, runHistory, counts>>
  BY <1>2 DEF Delete, Move
<1>4. /\ d \in Exec /\ d.at = "insert" /\ d.run = r /\ d.proc = execs[k].proc
      /\ d.step = execs[k].step /\ d.row = execs[k].row /\ d # Free
  BY <1>1, <1>2, RunOf DEF Exec, Free
<1> HIDE DEF d
<1>5. execs'[k] = d /\ execs' \in [Slots -> Exec \cup {Free}]
  BY <1>1, <1>3, <1>4, RunOf, ExecSet
<1>6. ideas' \in [Runs -> Nat] /\ ideas'[r] = 0 /\ \A q \in Runs \ {r} : ideas'[q] = ideas[q]
  BY <1>1, <1>3, RunOf
<1>7. RunsTypeOK'
  BY <1>1, <1>3, <1>5, <1>6, RunOf DEF RunsTypeOK, loops, runHistory, counts
<1>8. ExecFits(k)' /\ WorkIsOpen(k)' /\ IdeasAt(k)'
  BY <1>1, <1>2, <1>3, <1>4, <1>5, <1>6, RunOf DEF ExecFits, WorkIsOpen, IdeasAt, Regular, runHistory
<1>9. LastIsStored(r)' /\ LateIsIrregular'
  BY <1>1, <1>2, <1>3, RunOf DEF LastIsStored, Regular, LateIsIrregular, IdeasAt, runHistory
<1>10. QED
  BY <1>1, <1>2, <1>3, <1>4, <1>6, <1>7, <1>8, <1>9, RunOf, ExecStepKeeps DEF runHistory, ExecFits

LEMMA StoreKeeps ==
    ASSUME RunsInv, NEW k \in Slots, Store(k)
    PROVE  RunsInv'
<1>1. Executing(k) /\ execs[k].at = "insert"
  BY DEF Store, Executing
<1>2. PICK r \in Runs : r = execs[k].run /\ LastIsStored(r)
  BY <1>1, RunOf
<1> DEFINE d == [execs[k] EXCEPT !.at = "finish"]
<1>3. execs' = [execs EXCEPT ![k] = d] /\ ideas' = [ideas EXCEPT ![r] = @ + 1]
      /\ UNCHANGED <<runs, done, up, loops, late, runHistory, counts>>
  BY <1>2 DEF Store, Move
<1>4. /\ d \in Exec /\ d.at = "finish" /\ d.run = r /\ d.proc = execs[k].proc
      /\ d.step = execs[k].step /\ d.row = execs[k].row /\ d # Free
  BY <1>1, <1>2, RunOf DEF Exec, Free
<1> HIDE DEF d
<1>5. execs'[k] = d /\ execs' \in [Slots -> Exec \cup {Free}]
  BY <1>1, <1>3, <1>4, RunOf, ExecSet
<1>6. ideas' \in [Runs -> Nat] /\ ideas'[r] = ideas[r] + 1
      /\ \A q \in Runs \ {r} : ideas'[q] = ideas[q]
  BY <1>1, <1>3, RunOf
<1>7. RunsTypeOK'
  BY <1>1, <1>3, <1>5, <1>6, RunOf DEF RunsTypeOK, loops, runHistory, counts
<1>8. ExecFits(k)' /\ WorkIsOpen(k)' /\ IdeasAt(k)'
  BY <1>1, <1>2, <1>3, <1>4, <1>5, <1>6, RunOf DEF ExecFits, WorkIsOpen, IdeasAt, Regular, runHistory
<1>9. LastIsStored(r)' /\ LateIsIrregular'
  BY <1>1, <1>2, <1>3, RunOf
  DEF LastIsStored, Regular, LateIsIrregular, IdeasAt, ExecFits, runHistory
<1>10. QED
  BY <1>1, <1>2, <1>3, <1>4, <1>6, <1>7, <1>8, <1>9, RunOf, ExecStepKeeps DEF runHistory, ExecFits

LEMMA FinishStepKeeps ==
    ASSUME RunsInv, NEW k \in Slots, FinishStep(k)
    PROVE  RunsInv'
<1>1. Executing(k) /\ execs[k].at \in {"work", "finish"}
      /\ (execs[k].at = "finish" <=> execs[k].step = LastStep)
  BY DEF FinishStep, Executing
<1>2. PICK r \in Runs : r = execs[k].run /\ LastIsStored(r)
  BY <1>1, RunOf
<1> DEFINE d == [execs[k] EXCEPT !.at = "gap", !.row = "none", !.step = @ + 1]
<1>3. execs' = [execs EXCEPT ![k] = d]
      /\ done' = [done EXCEPT ![r] = @ \cup {execs[k].step}]
      /\ UNCHANGED <<runs, ideas, up, loops, late, runHistory, counts>>
  BY <1>2 DEF FinishStep
<1>4. execs[k].step \in Steps /\ LastStep \in Nat
  BY <1>1, RunOf, PipelineAssumption DEF ExecFits
<1>5. /\ d \in Exec /\ d.at = "gap" /\ d.run = r /\ d.proc = execs[k].proc
      /\ d.step = execs[k].step + 1 /\ d.row = "none" /\ d # Free
  <2>1. execs[k].step + 1 \in 1..LastStep + 1
    BY <1>4 DEF Steps
  <2>2. d \in Exec
    BY <1>1, <2>1, RunOf DEF Exec
  <2>3. QED
    BY <1>1, <1>2, <2>2, RunOf, ExecNotFree DEF Exec
<1> HIDE DEF d
<1>6. execs'[k] = d /\ execs' \in [Slots -> Exec \cup {Free}]
  BY <1>1, <1>3, <1>5, RunOf, ExecSet
<1>7. done' \in [Runs -> SUBSET Steps] /\ done'[r] = done[r] \cup {execs[k].step}
      /\ \A q \in Runs \ {r} : done'[q] = done[q]
  BY <1>1, <1>3, <1>4, RunOf
<1>8. RunsTypeOK'
  BY <1>1, <1>3, <1>6, <1>7, RunOf DEF RunsTypeOK, loops, runHistory, counts
<1>9. ExecFits(k)'
  <2>1. \A s \in Steps : s < execs[k].step + 1 => s \in done'[r]
    BY <1>1, <1>2, <1>4, <1>7, RunOf DEF ExecFits, Steps
  <2>2. QED
    BY <1>1, <1>2, <1>3, <1>5, <1>6, <2>1, RunOf DEF ExecFits
<1>10. WorkIsOpen(k)' /\ IdeasAt(k)'
  BY <1>1, <1>2, <1>3, <1>5, <1>6, RunOf DEF WorkIsOpen, IdeasAt, Regular, runHistory
<1>11. LastIsStored(r)' /\ LateIsIrregular'
  BY <1>1, <1>2, <1>3, <1>7, RunOf
  DEF LastIsStored, Regular, LateIsIrregular, IdeasAt, ExecFits, runHistory
<1>12. QED
  BY <1>1, <1>2, <1>3, <1>5, <1>7, <1>8, <1>9, <1>10, <1>11, RunOf, ExecStepKeeps
  DEF runHistory, ExecFits

LEMMA FailStepKeeps ==
    ASSUME RunsInv, NEW k \in Slots, FailStep(k)
    PROVE  RunsInv'
<1>1. Executing(k) /\ execs[k].at \in {"work", "insert", "finish"}
  BY DEF FailStep, Executing
<1>2. PICK r \in Runs : r = execs[k].run /\ LastIsStored(r)
  BY <1>1, RunOf
<1> DEFINE d == [execs[k] EXCEPT !.at = "failing", !.row = "none"]
<1>3. execs' = [execs EXCEPT ![k] = d] /\ errors < MaxErrors /\ errors' = errors + 1
      /\ UNCHANGED <<runs, done, ideas, up, loops, doubled, crashes, resumes>>
  BY DEF FailStep
<1>4. \/ UNCHANGED <<late, irregular>>
      \/ late' = late \cup {<<r, execs[k].proc>>} /\ irregular' = irregular \cup {r}
  BY <1>2 DEF FailStep
<1>5. /\ d \in Exec /\ d.at = "failing" /\ d.run = r /\ d.proc = execs[k].proc
      /\ d.step = execs[k].step /\ d.row = "none" /\ d # Free
  BY <1>1, <1>2, RunOf DEF Exec, Free
<1> HIDE DEF d
<1>6. execs'[k] = d /\ execs' \in [Slots -> Exec \cup {Free}]
  BY <1>1, <1>3, <1>5, RunOf, ExecSet
<1>7. /\ late' \in SUBSET (Runs \X Procs) /\ irregular' \in SUBSET Runs
      /\ irregular \subseteq irregular' /\ LateIsIrregular'
  <2>1. execs[k].proc \in Procs
    BY <1>1, RunOf DEF Exec
  <2>2. QED
    BY <1>1, <1>4, <2>1, RunOf DEF RunsTypeOK, LateIsIrregular
<1>8. RunsTypeOK'
  BY <1>1, <1>3, <1>6, <1>7, RunOf, OneMoreError DEF RunsTypeOK, loops
<1>9. ExecFits(k)' /\ WorkIsOpen(k)' /\ IdeasAt(k)'
  BY <1>1, <1>2, <1>3, <1>5, <1>6, RunOf DEF ExecFits, WorkIsOpen, IdeasAt
<1>10. LastIsStored(r)'
  BY <1>1, <1>2, <1>3, <1>7, RunOf DEF LastIsStored, Regular
<1>11. QED
  BY <1>1, <1>2, <1>3, <1>5, <1>7, <1>8, <1>9, <1>10, RunOf, ExecStepKeeps DEF ExecFits

\* The run gets its last status.
LEMMA OverRow ==
    ASSUME runs \in [Runs -> RunRow], NEW r \in Runs,
           NEW s \in {"completed", "empty", "failed"},
           runs' = Over(r, s)
    PROVE  /\ runs' \in [Runs -> RunRow] /\ runs'[r].status = s
           /\ runs'[r].attempts = runs[r].attempts
           /\ \A q \in Runs \ {r} : runs'[q] = runs[q]
<1> DEFINE d == [runs[r] EXCEPT !.status = s, !.age = 0]
<1>1. runs' = [q \in Runs |-> IF q = r THEN d ELSE runs[q]]
  BY DEF Over
<1>2. d \in RunRow /\ d.status = s /\ d.attempts = runs[r].attempts
  BY AgeIsNat DEF RunRow
<1>3. QED
  BY <1>1, <1>2

\* An execution that gives its run its last status, and moves on.
LEMMA EndsKeep ==
    ASSUME RunsInv, NEW k \in Slots, execs[k].at \in {"gap", "failing"},
           NEW s \in {"completed", "empty", "failed"}, NEW at \in {"failing", "closing"},
           execs' = [execs EXCEPT ![k].at = at], runs' = Over(execs[k].run, s),
           s = "completed" => execs[k].step > LastStep,
           s # "failed" => at = "closing",
           errors' \in 0..MaxErrors,
           UNCHANGED <<done, ideas, up, loops, late, runHistory, crashes, resumes>>
    PROVE  RunsInv'
<1>1. Executing(k)
  BY DEF Executing
<1>2. PICK r \in Runs : r = execs[k].run /\ LastIsStored(r)
  BY <1>1, RunOf
<1> DEFINE d == [execs[k] EXCEPT !.at = at]
<1>3. execs' = [execs EXCEPT ![k] = d]
  OBVIOUS
<1>4. /\ d \in Exec /\ d.at = at /\ d.run = r /\ d.proc = execs[k].proc
      /\ d.step = execs[k].step /\ d.row = execs[k].row /\ d # Free
  BY <1>1, <1>2, RunOf DEF Exec, Free
<1> HIDE DEF d
<1>5. execs'[k] = d /\ execs' \in [Slots -> Exec \cup {Free}]
  BY <1>1, <1>3, <1>4, RunOf, ExecSet
<1>6. /\ runs' \in [Runs -> RunRow] /\ runs'[r].status = s
      /\ runs'[r].attempts = runs[r].attempts
      /\ \A q \in Runs \ {r} : runs'[q] = runs[q]
  BY <1>1, <1>2, RunOf, OverRow
<1>7. RunsTypeOK'
  BY <1>1, <1>5, <1>6, RunOf DEF RunsTypeOK, loops, runHistory
<1>8. ExecFits(k)' /\ WorkIsOpen(k)' /\ IdeasAt(k)'
  BY <1>1, <1>2, <1>4, <1>5, <1>6, RunOf DEF ExecFits, WorkIsOpen, IdeasAt
<1>9. s = "completed" => LastStep \in done[r]
  <2>1. LastStep \in Steps
    BY PipelineAssumption DEF Steps
  <2>2. QED
    BY <1>1, <1>2, <2>1, RunOf, PipelineAssumption DEF ExecFits, Steps, Exec
<1>10. LastIsStored(r)' /\ LateIsIrregular'
  BY <1>1, <1>2, <1>6, <1>9, RunOf DEF LastIsStored, Regular, LateIsIrregular, runHistory
<1>11. QED
  BY <1>1, <1>2, <1>3, <1>4, <1>6, <1>7, <1>8, <1>10, ExecStepKeeps DEF runHistory

LEMMA NothingFreshKeeps ==
    ASSUME RunsInv, NEW k \in Slots, NothingFresh(k)
    PROVE  RunsInv'
<1>1. execs[k].at = "gap" /\ UNCHANGED <<done, ideas, up, loops, late, runHistory, crashes, resumes>>
  BY DEF NothingFresh
<1>2. errors \in 0..MaxErrors /\ MaxErrors \in Nat
  BY PipelineAssumption DEF RunsInv, RunsTypeOK
<1>3. CASE /\ Move(k, "failing") /\ runs' = Over(execs[k].run, "failed") /\ UNCHANGED errors
  BY <1>1, <1>2, <1>3, EndsKeep DEF Move
<1>4. CASE /\ errors < MaxErrors /\ errors' = errors + 1
           /\ Move(k, "closing") /\ runs' = Over(execs[k].run, "empty")
  <2>1. errors' \in 0..MaxErrors
    BY <1>4, OneMoreError DEF RunsInv
  <2>2. QED
    BY <1>1, <1>4, <2>1, EndsKeep DEF Move
<1>5. QED
  BY <1>3, <1>4 DEF NothingFresh

LEMMA EndRunKeeps ==
    ASSUME RunsInv, NEW k \in Slots, EndRun(k)
    PROVE  RunsInv'
<1>1. PICK s \in {"failed", "empty", "completed"} :
          /\ IF s = "failed" THEN execs[k].at = "failing"
                             ELSE execs[k].at = "gap" /\ execs[k].step > LastStep
          /\ runs' = Over(execs[k].run, s)
  BY DEF EndRun
<1>2. execs' = [execs EXCEPT ![k].at = "closing"]
      /\ UNCHANGED <<done, ideas, up, loops, late, runHistory, counts>>
  BY DEF EndRun, Move
<1>3. errors' \in 0..MaxErrors
  BY <1>2 DEF RunsInv, RunsTypeOK, counts
<1>4. QED
  BY <1>1, <1>2, <1>3, EndsKeep DEF counts

LEMMA CloseKeeps ==
    ASSUME RunsInv, NEW k \in Slots, Close(k)
    PROVE  RunsInv'
<1>1. Executing(k) /\ execs' = [execs EXCEPT ![k] = Free]
      /\ UNCHANGED <<runs, done, ideas, up, loops, late, runHistory, counts>>
  BY DEF Close, Executing
<1>2. PICK r \in Runs : r = execs[k].run /\ LastIsStored(r)
  BY <1>1, RunOf
<1>3. execs'[k] = Free /\ execs' \in [Slots -> Exec \cup {Free}]
  BY <1>1, RunOf, ExecSet
<1>4. RunsTypeOK'
  BY <1>1, <1>3, RunOf DEF RunsTypeOK, loops, runHistory, counts
<1>5. ExecFits(k)' /\ WorkIsOpen(k)' /\ IdeasAt(k)'
  BY <1>3 DEF ExecFits, WorkIsOpen, IdeasAt, Living, Free
<1>6. LastIsStored(r)' /\ LateIsIrregular'
  BY <1>1, <1>2, RunOf DEF LastIsStored, Regular, LateIsIrregular, runHistory
<1>7. QED
  BY <1>1, <1>2, <1>4, <1>5, <1>6, RunOf, ExecStepKeeps DEF runHistory, ExecFits

-----------------------------------------------------------------------------
(* The loops, the calls, and what else touches executions *)

\* An execution that is left as it is, loses its row, or is gone; and a call.
FadesTo(e, f) ==
    \/ f = Free
    \/ /\ e \in Exec /\ f \in Exec
       /\ f.at = e.at /\ f.run = e.run /\ f.proc = e.proc /\ f.step = e.step
       /\ f.row = e.row \/ (e.row = "running" /\ e.at # "dead")
Called(r, p) == [at |-> "call", run |-> r, proc |-> p, step |-> 1, row |-> "none", age |-> 0]

LEMMA Stays ==
    ASSUME RunsTypeOK, NEW l \in Slots
    PROVE  FadesTo(execs[l], execs[l])
BY ExecShape DEF FadesTo

LEMMA CalledIs ==
    ASSUME NEW r \in Runs, NEW p \in Procs
    PROVE  /\ Called(r, p) \in Exec /\ Called(r, p) # Free
           /\ Called(r, p).at = "call" /\ Called(r, p).run = r /\ Called(r, p).proc = p
           /\ Called(r, p).step = 1 /\ Called(r, p).row = "none"
<1>1. Called(r, p) \in Exec
  BY AgeIsNat DEF Called, Exec
<1>2. QED
  BY <1>1, ExecNotFree DEF Called

\* A step that marks rows as running or failed, lets executions fade, and puts
\* calls of run r in the slots K, beside which r has no dead execution, nor one in
\* another process unless it is doubled.
LEMMA OthersKeep ==
    ASSUME RunsInv, NEW r \in Runs, NEW p \in Procs, NEW K \in SUBSET Slots,
           \A l \in Slots \ K : FadesTo(execs[l], execs'[l]),
           \A l \in K : execs'[l] = Called(r, p),
           K # {} => runs'[r].status # "unborn",
           K # {} => \A l \in Slots \ K : execs'[l] # Free /\ execs'[l].run = r =>
                         /\ execs'[l].at # "dead"
                         /\ r \in doubled' \/ execs'[l].proc = p,
           \A q \in Runs : \/ runs'[q].status = runs[q].status
                           \/ runs'[q].status \in {"running", "failed"},
           doubled \subseteq doubled', UNCHANGED <<done, ideas, late, irregular>>,
           RunsTypeOK', LoopsFit'
    PROVE  RunsInv'
<1>1. RunsTypeOK /\ OneInProcess /\ OneProcess /\ NoneBeside /\ NoGhosts
  BY DEF RunsInv
<1>2. \A l \in Slots \ K :
          execs'[l] # Free =>
              /\ execs[l] \in Exec /\ execs[l] # Free /\ execs'[l] \in Exec
              /\ execs'[l].at = execs[l].at /\ execs'[l].run = execs[l].run
              /\ execs'[l].proc = execs[l].proc /\ execs'[l].step = execs[l].step
              /\ execs'[l].row = execs[l].row \/ (execs[l].row = "running" /\ execs[l].at # "dead")
  BY ExecNotFree DEF FadesTo
<1>3. \A l \in K : execs'[l] # Free /\ execs'[l].at = "call" /\ execs'[l].run = r
                   /\ execs'[l].proc = p /\ execs'[l].step = 1 /\ execs'[l].row = "none"
  BY CalledIs
<1>4. Free.at = "free"
  BY DEF Free
<1>5. \A l \in Slots \ K : /\ Living(l)' => Living(l)
                           /\ Executing(l)' => Executing(l)
                           /\ execs'[l].at = "dead" => execs[l].at = "dead" /\ execs'[l] # Free
  BY <1>2, <1>4 DEF Living, Executing
<1>6. \A l \in Slots : Living(l)' => execs'[l] # Free
  BY DEF Living
<1>7. \A l \in K : ~Executing(l)' /\ execs'[l].at # "dead"
  BY <1>3 DEF Executing
<1>8. OneInProcess'
  <2> SUFFICES ASSUME NEW i \in Slots, NEW j \in Slots, Executing(i)', Executing(j)',
                      execs'[i].run = execs'[j].run, execs'[i].proc = execs'[j].proc
               PROVE  i = j
    BY DEF OneInProcess
  <2>1. i \notin K /\ j \notin K
    BY <1>7
  <2>2. execs'[i] # Free /\ execs'[j] # Free
    BY <1>4 DEF Executing
  <2>3. QED
    BY <1>1, <1>2, <1>5, <2>1, <2>2 DEF OneInProcess
<1>9. OneProcess'
  <2> SUFFICES ASSUME NEW i \in Slots, NEW j \in Slots, Living(i)', Living(j)',
                      execs'[i].run = execs'[j].run, execs'[i].run \notin doubled'
               PROVE  execs'[i].proc = execs'[j].proc
    BY DEF OneProcess
  <2>1. CASE i \notin K /\ j \notin K
    BY <1>1, <1>2, <1>5, <1>6, <2>1 DEF OneProcess
  <2>2. CASE i \in K \/ j \in K
    BY <1>3, <1>6, <2>2
  <2>3. QED
    BY <2>1, <2>2
<1>10. NoneBeside'
  <2> SUFFICES ASSUME NEW i \in Slots, NEW j \in Slots, Living(i)', execs'[j].at = "dead",
                      execs'[i].run = execs'[j].run
               PROVE  execs'[i].run \in doubled'
    BY DEF NoneBeside
  <2>1. j \notin K /\ execs'[j] # Free
    BY <1>5, <1>7
  <2>2. CASE i \notin K
    BY <1>1, <1>2, <1>5, <1>6, <2>1, <2>2 DEF NoneBeside
  <2>3. CASE i \in K
    BY <1>3, <2>1, <2>3
  <2>4. QED
    BY <2>2, <2>3
<1>11. \A l \in Slots : execs[l] \in Exec => execs[l].run \in Runs
  BY DEF Exec
<1>12. ASSUME NEW l \in Slots
       PROVE  ExecFits(l)' /\ WorkIsOpen(l)' /\ IdeasAt(l)'
  <2>1. ExecFits(l) /\ WorkIsOpen(l) /\ IdeasAt(l)
    BY DEF RunsInv
  <2>2. CASE execs'[l] = Free
    BY <1>4, <2>2 DEF ExecFits, WorkIsOpen, IdeasAt, Living
  <2>3. CASE l \in K
    <3>1. \A s \in Steps : ~(s < 1)
      BY DEF Steps
    <3>2. ExecFits(l)'
      BY <1>3, <2>3, <3>1 DEF ExecFits
    <3>3. QED
      BY <1>3, <2>3, <3>2 DEF WorkIsOpen, IdeasAt
  <2>4. CASE l \notin K /\ execs'[l] # Free
    <3>1. ExecFits(l)'
      BY <1>2, <1>11, <2>1, <2>4 DEF ExecFits
    <3>2. WorkIsOpen(l)' /\ IdeasAt(l)'
      BY <1>2, <1>5, <1>11, <2>1, <2>4 DEF WorkIsOpen, IdeasAt, Regular
    <3>3. QED
      BY <3>1, <3>2
  <2>5. QED
    BY <2>2, <2>3, <2>4
<1>13. (\A q \in Runs : LastIsStored(q)') /\ LateIsIrregular'
  <2>1. (\A q \in Runs : LastIsStored(q)) /\ LateIsIrregular
    BY DEF RunsInv
  <2>2. QED
    BY <2>1 DEF LastIsStored, Regular, LateIsIrregular
<1>14. NoGhosts'
  <2> SUFFICES ASSUME NEW l \in Slots, execs'[l].at = "dead", execs'[l].run \notin doubled'
               PROVE  runs'[execs'[l].run].status \notin {"completed", "empty"}
    BY DEF NoGhosts
  <2>1. l \notin K /\ execs'[l] # Free /\ execs[l].at = "dead"
    BY <1>5, <1>7
  <2>2. execs'[l].run = execs[l].run /\ execs[l].run \in Runs
    BY <1>2, <1>11, <2>1
  <2>3. runs[execs[l].run].status \notin {"completed", "empty"}
    BY <1>1, <2>1, <2>2 DEF NoGhosts
  <2>4. QED
    BY <2>2, <2>3
<1>15. QED
  BY <1>8, <1>9, <1>10, <1>12, <1>13, <1>14 DEF RunsInv

\* ... and one that touches no execution.
LEMMA RowsMarked ==
    ASSUME RunsInv,
           \A q \in Runs : \/ runs'[q].status = runs[q].status
                           \/ runs'[q].status \in {"running", "failed"},
           UNCHANGED <<execs, done, ideas, late, runHistory>>, RunsTypeOK', LoopsFit'
    PROVE  RunsInv'
<1>1. PICK r \in Runs : TRUE
  BY PipelineAssumption
<1>2. \A l \in Slots \ {} : FadesTo(execs[l], execs'[l])
  BY Stays DEF RunsInv
<1>3. "web" \in Procs /\ {} \in SUBSET Slots /\ UNCHANGED <<done, ideas, late, irregular, doubled>>
  BY DEF Procs, runHistory
<1>4. QED
  BY <1>1, <1>2, <1>3, OthersKeep

LEMMA IdleIs ==
    /\ IdleLoop.at = "idle" /\ IdleLoop.todo = {} /\ IdleLoop.run \in Runs
    /\ \A T : IdleLoop \in Loop(T)
<1>1. (CHOOSE r \in Runs : TRUE) \in Runs
  BY PipelineAssumption
<1>2. QED
  BY <1>1 DEF IdleLoop, Loop

LEMMA GoOnIs ==
    ASSUME NEW T, NEW t \in SUBSET T
    PROVE  /\ GoOn(t) \in Loop(T)
           /\ GoOn(t).todo = t /\ GoOn(t).at \in {"idle", "next"}
<1>1. CASE t = {}
  BY <1>1, IdleIs DEF GoOn
<1>2. CASE t # {}
  <2> DEFINE g == [IdleLoop EXCEPT !.at = "next", !.todo = t]
  <2>1. IdleLoop \in Loop({})
    BY IdleIs
  <2>2. g \in Loop(T) /\ g.todo = t /\ g.at = "next"
    BY <2>1, IdleIs DEF Loop
  <2>3. QED
    BY <1>2, <2>2 DEF GoOn
<1>3. QED
  BY <1>1, <1>2

LEMMA LoopIs ==
    ASSUME RunsTypeOK
    PROVE  /\ boot.todo \subseteq Runs \X (0..MaxAttempts) /\ boot.run \in Runs
           /\ reaper.todo \subseteq Runs /\ reaper.run \in Runs /\ manual.run \in Runs
           /\ runs \in [Runs -> RunRow] /\ LastStep \in Nat
BY PipelineAssumption DEF RunsTypeOK, Loop

LEMMA BootListsKeeps ==
    ASSUME RunsInv, BootLists
    PROVE  RunsInv'
<1> DEFINE t == {<<r, runs[r].attempts>> : r \in Resumable}
<1>1. RunsTypeOK /\ LoopsFit /\ runs \in [Runs -> RunRow]
  BY LoopIs DEF RunsInv
<1>2. /\ booted' = TRUE /\ boot' = GoOn(t)
      /\ UNCHANGED <<runs, done, ideas, execs, up, reaper, manual, cron, late, runHistory, counts>>
  BY DEF BootLists
<1>3. t \in SUBSET (Runs \X (0..MaxAttempts))
  BY <1>1 DEF Resumable, RunRow
<1>4. \A r \in Resumable : runs[r].attempts \in Nat /\ runs[r].status # "unborn" /\ r \in Runs
  BY <1>1, PipelineAssumption DEF Resumable, RunRow
<1>5. \A x \in t : /\ runs[x[1]].attempts <= x[2] /\ runs[x[1]].status # "unborn"
                   /\ x = <<x[1], runs[x[1]].attempts>>
  BY <1>4
<1> HIDE DEF t
<1>6. boot' \in Loop(Runs \X (0..MaxAttempts)) /\ boot'.todo = t /\ boot'.at # "cut"
  BY <1>2, <1>3, GoOnIs
<1>7. RunsTypeOK'
  BY <1>1, <1>2, <1>6 DEF RunsTypeOK, runHistory, counts
<1>8. LoopsFit'
  BY <1>1, <1>2, <1>5, <1>6 DEF LoopsFit
<1>9. QED
  BY <1>2, <1>7, <1>8, RowsMarked

LEMMA BootTakesKeeps ==
    ASSUME RunsInv, NEW x \in boot.todo, BootTakes(x)
    PROVE  RunsInv'
<1>1. RunsTypeOK /\ LoopsFit
  BY DEF RunsInv
<1>2. PICK r \in Runs : r = x[1]
  BY <1>1, LoopIs
<1> DEFINE rest == boot.todo \ {x}
<1>3. /\ rest \in SUBSET (Runs \X (0..MaxAttempts)) /\ runs \in [Runs -> RunRow]
      /\ x[2] \in 0..MaxAttempts
  BY <1>1, LoopIs
<1>4. UNCHANGED <<done, ideas, execs, up, booted, reaper, manual, cron, late, runHistory, counts>>
  BY DEF BootTakes
<1>5. /\ \A y \in rest : y[1] # r /\ y[1] \in Runs
      /\ runs[r].attempts <= x[2] /\ runs[r].status # "unborn"
  BY <1>1, <1>2, LoopIs DEF LoopsFit
<1> HIDE DEF rest
<1>6. CASE boot' = GoOn(rest) /\ UNCHANGED runs
  <2>1. boot' \in Loop(Runs \X (0..MaxAttempts)) /\ boot'.todo = rest /\ boot'.at # "cut"
    BY <1>3, <1>6, GoOnIs
  <2>2. RunsTypeOK'
    BY <1>1, <1>4, <1>6, <2>1 DEF RunsTypeOK, runHistory, counts
  <2>3. LoopsFit'
    BY <1>1, <1>4, <1>6, <2>1 DEF LoopsFit, rest
  <2>4. QED
    BY <1>4, <1>6, <2>2, <2>3, RowsMarked
<1>7. CASE boot' = GoOn(rest) /\ runs' = Over(r, "failed")
  <2>1. boot' \in Loop(Runs \X (0..MaxAttempts)) /\ boot'.todo = rest /\ boot'.at # "cut"
    BY <1>3, <1>7, GoOnIs
  <2>2. /\ runs' \in [Runs -> RunRow] /\ runs'[r].status = "failed"
        /\ runs'[r].attempts = runs[r].attempts
        /\ \A q \in Runs \ {r} : runs'[q] = runs[q]
    BY <1>3, <1>7, OverRow
  <2>3. RunsTypeOK'
    BY <1>1, <1>4, <2>1, <2>2 DEF RunsTypeOK, runHistory, counts
  <2>4. LoopsFit'
    BY <1>1, <1>4, <1>5, <2>1, <2>2, LoopIs DEF LoopsFit, rest
  <2>5. QED
    BY <1>4, <2>2, <2>3, <2>4, RowsMarked
<1>8. CASE /\ ~(x[2] >= MaxAttempts)
           /\ boot' = [at |-> "cut", todo |-> rest, run |-> r]
           /\ runs' = [runs EXCEPT ![r].attempts = @ + 1]
  <2>1. /\ boot' \in Loop(Runs \X (0..MaxAttempts)) /\ boot'.todo = rest /\ boot'.run = r
    BY <1>3, <1>8 DEF Loop
  <2>2. runs[r] \in RunRow /\ runs[r].attempts + 1 \in 0..MaxAttempts
    BY <1>3, <1>5, <1>8, PipelineAssumption DEF RunRow
  <2>3. /\ runs' \in [Runs -> RunRow] /\ runs'[r].status = runs[r].status
        /\ \A q \in Runs \ {r} : runs'[q] = runs[q]
    BY <1>3, <1>8, <2>2 DEF RunRow
  <2>4. RunsTypeOK'
    BY <1>1, <1>4, <2>1, <2>3 DEF RunsTypeOK, runHistory, counts
  <2>5. LoopsFit'
    BY <1>1, <1>4, <1>5, <2>1, <2>3, LoopIs DEF LoopsFit, rest
  <2>6. QED
    BY <1>4, <2>3, <2>4, <2>5, RowsMarked
<1>9. QED
  BY <1>2, <1>6, <1>7, <1>8 DEF BootTakes, rest

LEMMA ManualChecksKeeps ==
    ASSUME RunsInv, NEW r \in Runs, ManualChecks(r)
    PROVE  RunsInv'
<1>1. RunsTypeOK /\ LoopsFit
  BY DEF RunsInv
<1>2. /\ runs[r].status # "unborn" /\ resumes < MaxManual /\ resumes' = resumes + 1
      /\ manual' = [manual EXCEPT !.at = "mark", !.run = r]
      /\ UNCHANGED <<runs, done, ideas, execs, up, booted, boot, reaper, cron, late, runHistory,
                     crashes, errors>>
  BY DEF ManualChecks
<1>3. manual' \in Loop(Runs) /\ manual'.run = r
  BY <1>1, <1>2 DEF RunsTypeOK, Loop
<1>4. resumes' \in 0..MaxManual
  BY <1>1, <1>2, PipelineAssumption DEF RunsTypeOK
<1>5. RunsTypeOK'
  BY <1>1, <1>2, <1>3, <1>4 DEF RunsTypeOK, runHistory
<1>6. LoopsFit'
  BY <1>1, <1>2, <1>3 DEF LoopsFit
<1>7. QED
  BY <1>2, <1>5, <1>6, RowsMarked

LEMMA ManualMarksKeeps ==
    ASSUME RunsInv, ManualMarks
    PROVE  RunsInv'
<1>1. RunsTypeOK /\ LoopsFit
  BY DEF RunsInv
<1>2. PICK r \in Runs : r = manual.run
  BY <1>1, LoopIs
<1>3. /\ manual' = [manual EXCEPT !.at = "cut"]
      /\ runs' = [runs EXCEPT ![r] = [status |-> "running", attempts |-> 0, age |-> 0]]
      /\ UNCHANGED <<done, ideas, execs, up, booted, boot, reaper, cron, late, runHistory, counts>>
  BY <1>2 DEF ManualMarks
<1>4. manual' \in Loop(Runs) /\ manual'.run = r
  BY <1>1, <1>2, <1>3 DEF RunsTypeOK, Loop
<1>5. [status |-> "running", attempts |-> 0, age |-> 0] \in RunRow
  BY AgeIsNat, PipelineAssumption DEF RunRow
<1>6. /\ runs' \in [Runs -> RunRow] /\ runs'[r].status = "running" /\ runs'[r].attempts = 0
      /\ \A q \in Runs \ {r} : runs'[q] = runs[q]
  BY <1>1, <1>3, <1>5, LoopIs
<1>7. RunsTypeOK'
  BY <1>1, <1>3, <1>4, <1>6 DEF RunsTypeOK, runHistory, counts
<1>8. LoopsFit'
  <2>1. \A x \in boot.todo : x[1] \in Runs /\ x[2] \in 0..MaxAttempts
    BY <1>1, LoopIs
  <2>2. \A x \in boot.todo : runs'[x[1]].attempts <= x[2] /\ runs'[x[1]].status # "unborn"
    BY <1>1, <1>6, <2>1 DEF LoopsFit
  <2>3. boot.at = "cut" => runs'[boot.run].status # "unborn"
    BY <1>1, <1>6, LoopIs DEF LoopsFit
  <2>4. QED
    BY <1>1, <1>3, <1>4, <1>6, <2>2, <2>3 DEF LoopsFit
<1>9. QED
  BY <1>3, <1>6, <1>7, <1>8, RowsMarked

LEMMA ReaperListsKeeps ==
    ASSUME RunsInv, ReaperLists
    PROVE  RunsInv'
<1>1. RunsTypeOK /\ LoopsFit
  BY DEF RunsInv
<1>2. /\ reaper' = GoOn(Resumable)
      /\ UNCHANGED <<runs, done, ideas, execs, up, booted, boot, manual, cron, late, runHistory, counts>>
  BY DEF ReaperLists
<1>3. Resumable \in SUBSET Runs
  BY DEF Resumable
<1>4. reaper' \in Loop(Runs)
  BY <1>2, <1>3, GoOnIs
<1>5. RunsTypeOK' /\ LoopsFit'
  BY <1>1, <1>2, <1>4 DEF RunsTypeOK, runHistory, counts, LoopsFit
<1>6. QED
  BY <1>2, <1>5, RowsMarked

LEMMA ReaperTakesKeeps ==
    ASSUME RunsInv, NEW r \in reaper.todo, ReaperTakes(r)
    PROVE  RunsInv'
<1> DEFINE rest == reaper.todo \ {r}
<1>1. RunsTypeOK /\ LoopsFit
  BY DEF RunsInv
<1>2. /\ reaper' = GoOn(rest) \/ reaper' = [at |-> "cut", todo |-> rest, run |-> r]
      /\ UNCHANGED <<runs, done, ideas, execs, up, booted, boot, manual, cron, late, runHistory, counts>>
  BY DEF ReaperTakes
<1>3. rest \in SUBSET Runs /\ r \in Runs
  BY <1>1, LoopIs
<1> HIDE DEF rest
<1>4. reaper' \in Loop(Runs)
  <2>1. [at |-> "cut", todo |-> rest, run |-> r] \in Loop(Runs)
    BY <1>3 DEF Loop
  <2>2. QED
    BY <1>2, <1>3, <2>1, GoOnIs
<1>5. RunsTypeOK' /\ LoopsFit'
  BY <1>1, <1>2, <1>4 DEF RunsTypeOK, runHistory, counts, LoopsFit
<1>6. QED
  BY <1>2, <1>5, RowsMarked

LEMMA ReaperFailsKeeps ==
    ASSUME RunsInv, ReaperFails
    PROVE  RunsInv'
<1>1. RunsTypeOK /\ LoopsFit /\ runs \in [Runs -> RunRow]
  BY LoopIs DEF RunsInv
<1>2. PICK r \in Runs : r = reaper.run
  BY <1>1, LoopIs
<1>3. /\ reaper' = GoOn(reaper.todo) /\ runs' = Over(r, "failed")
      /\ UNCHANGED <<done, ideas, execs, up, booted, boot, manual, cron, late, runHistory, counts>>
  BY <1>2 DEF ReaperFails
<1>4. reaper' \in Loop(Runs)
  BY <1>1, <1>3, LoopIs, GoOnIs
<1>5. /\ runs' \in [Runs -> RunRow] /\ runs'[r].status = "failed"
      /\ runs'[r].attempts = runs[r].attempts
      /\ \A q \in Runs \ {r} : runs'[q] = runs[q]
  BY <1>1, <1>3, OverRow
<1>6. RunsTypeOK'
  BY <1>1, <1>3, <1>4, <1>5 DEF RunsTypeOK, runHistory, counts
<1>7. LoopsFit'
  BY <1>1, <1>3, <1>5, LoopIs DEF LoopsFit
<1>8. QED
  BY <1>3, <1>5, <1>6, <1>7, RowsMarked

LEMMA CronChecksKeeps ==
    ASSUME RunsInv, CronChecks
    PROVE  RunsInv'
<1>1. RunsTypeOK /\ LoopsFit
  BY DEF RunsInv
<1>2. /\ cron' = TRUE
      /\ UNCHANGED <<runs, done, ideas, execs, up, booted, boot, reaper, manual, late, runHistory, counts>>
  BY DEF CronChecks
<1>3. RunsTypeOK' /\ LoopsFit'
  BY <1>1, <1>2 DEF RunsTypeOK, runHistory, counts, LoopsFit
<1>4. QED
  BY <1>2, <1>3, RowsMarked

LEMMA RecoverKeeps ==
    ASSUME RunsInv, NEW p \in Procs, Recover(p)
    PROVE  RunsInv'
<1>1. RunsTypeOK /\ LoopsFit
  BY DEF RunsInv
<1>2. /\ up' = [up EXCEPT ![p] = TRUE]
      /\ UNCHANGED <<runs, done, ideas, execs, loops, late, runHistory, counts>>
  BY DEF Recover
<1>3. RunsTypeOK' /\ LoopsFit'
  BY <1>1, <1>2 DEF RunsTypeOK, loops, runHistory, counts, LoopsFit
<1>4. QED
  BY <1>2, <1>3, RowsMarked

LEMMA CutRowsFade ==
    ASSUME RunsInv, NEW r \in Runs
    PROVE  /\ CutRows(r) \in [Slots -> Exec \cup {Free}]
           /\ \A l \in Slots : FadesTo(execs[l], CutRows(r)[l])
           /\ \A l \in Slots : CutRows(r)[l].at = "dead" => CutRows(r)[l].run # r
<1>1. RunsTypeOK /\ \A l \in Slots : ExecFits(l)
  BY DEF RunsInv
<1>2. ASSUME NEW l \in Slots
      PROVE  /\ CutRows(r)[l] \in Exec \cup {Free} /\ FadesTo(execs[l], CutRows(r)[l])
             /\ CutRows(r)[l].at = "dead" => CutRows(r)[l].run # r
  <2>1. CASE execs[l] = Free
    <3>1. CutRows(r)[l] = Free /\ Free.at = "free"
      BY <2>1 DEF CutRows, RowOpen, Free
    <3>2. QED
      BY <3>1 DEF FadesTo
  <2>2. CASE execs[l] \in Exec
    <3>1. execs[l].at # "free" /\ execs[l] # Free
      BY <1>1, <2>2, ExecShape
    <3>2. CASE ~(RowOpen(l) /\ execs[l].run = r)
      <4>1. CutRows(r)[l] = execs[l]
        BY <3>2 DEF CutRows
      <4>2. execs[l].at = "dead" => execs[l].run # r
        BY <1>1, <3>1, <3>2 DEF ExecFits, RowOpen
      <4>3. QED
        BY <2>2, <4>1, <4>2 DEF FadesTo
    <3>3. CASE RowOpen(l) /\ execs[l].run = r /\ execs[l].at = "dead"
      <4>1. CutRows(r)[l] = Free /\ Free.at = "free"
        BY <3>3 DEF CutRows, Free
      <4>2. QED
        BY <4>1 DEF FadesTo
    <3>4. CASE RowOpen(l) /\ execs[l].run = r /\ execs[l].at # "dead"
      <4>1. CutRows(r)[l] = [execs[l] EXCEPT !.row = "cut"] /\ execs[l].row = "running"
        BY <3>4 DEF CutRows, RowOpen
      <4>2. /\ CutRows(r)[l] \in Exec /\ CutRows(r)[l].at = execs[l].at
            /\ CutRows(r)[l].run = execs[l].run /\ CutRows(r)[l].proc = execs[l].proc
            /\ CutRows(r)[l].step = execs[l].step
        BY <2>2, <4>1 DEF Exec
      <4>3. QED
        BY <2>2, <3>4, <4>1, <4>2 DEF FadesTo
    <3>5. QED
      BY <3>2, <3>3, <3>4
  <2>3. QED
    BY <1>1, <2>1, <2>2, ExecShape
<1>3. CutRows(r) = [l \in Slots |-> CutRows(r)[l]]
  BY DEF CutRows
<1>4. QED
  BY <1>2, <1>3

\* Resume, by the boot or by the operator: the loop it belongs to is left to the caller.
LEMMA ResumeKeeps ==
    ASSUME RunsInv, NEW r \in Runs, Resume(r), runs[r].status # "unborn",
           UNCHANGED <<runs, done, ideas, up, booted, reaper, cron, late, irregular, counts>>,
           boot' \in Loop(Runs \X (0..MaxAttempts)), manual' \in Loop(Runs), LoopsFit'
    PROVE  RunsInv'
<1>1. RunsTypeOK
  BY DEF RunsInv
<1> DEFINE ex == CutRows(r)
<1>2. /\ ex \in [Slots -> Exec \cup {Free}]
      /\ \A l \in Slots : FadesTo(execs[l], ex[l])
      /\ \A l \in Slots : ex[l].at = "dead" => ex[l].run # r
  BY CutRowsFade
<1>3. Call(ex, r, "web") /\ doubled' = IF Alive(r, "cron") THEN doubled \cup {r} ELSE doubled
  BY DEF Resume
<1> HIDE DEF ex
<1>4. PICK k \in Slots : execs' = [ex EXCEPT ![k] = Called(r, "web")]
  BY <1>3 DEF Call, Called
<1>5. /\ execs'[k] = Called(r, "web") /\ (\A l \in Slots \ {k} : execs'[l] = ex[l])
      /\ execs' \in [Slots -> Exec \cup {Free}]
  <2>1. Called(r, "web") \in Exec
    BY CalledIs DEF Procs
  <2>2. QED
    BY <1>2, <1>4, <2>1
<1>6. doubled \subseteq doubled' /\ doubled' \in SUBSET Runs
  BY <1>1, <1>3 DEF RunsTypeOK
<1>7. RunsTypeOK'
  BY <1>1, <1>5, <1>6 DEF RunsTypeOK, counts
<1>8. ASSUME NEW l \in Slots \ {k}, execs'[l] # Free, execs'[l].run = r
      PROVE  execs'[l].at # "dead" /\ (r \in doubled' \/ execs'[l].proc = "web")
  <2>1. execs'[l] = ex[l] /\ ex[l].at # "dead" /\ FadesTo(execs[l], ex[l])
    BY <1>2, <1>5, <1>8
  <2>2. /\ execs[l] \in Exec /\ execs[l].at # "dead" /\ execs[l].run = r
        /\ execs[l].proc = execs'[l].proc
    BY <1>8, <2>1 DEF FadesTo
  <2>3. execs[l].at # "free" /\ execs[l].proc \in {"web", "cron"}
    BY <2>2 DEF Exec, Procs
  <2>4. execs[l].proc = "cron" => r \in doubled'
    BY <1>3, <2>2, <2>3 DEF Alive
  <2>5. QED
    BY <2>1, <2>2, <2>3, <2>4
<1>9. \A l \in Slots \ {k} : FadesTo(execs[l], execs'[l])
  BY <1>2, <1>5
<1>10. "web" \in Procs /\ {k} \in SUBSET Slots
  BY DEF Procs
<1>11. QED
  BY <1>5, <1>6, <1>7, <1>8, <1>9, <1>10, OthersKeep

LEMMA BootResumesKeeps ==
    ASSUME RunsInv, BootResumes
    PROVE  RunsInv'
<1>1. RunsTypeOK /\ LoopsFit
  BY DEF RunsInv
<1>2. PICK r \in Runs : r = boot.run
  BY <1>1, LoopIs
<1>3. /\ boot.at = "cut" /\ boot' = GoOn(boot.todo) /\ Resume(r)
      /\ UNCHANGED <<runs, done, ideas, up, booted, reaper, manual, cron, late, irregular, counts>>
  BY <1>2 DEF BootResumes
<1>4. /\ boot' \in Loop(Runs \X (0..MaxAttempts)) /\ boot'.todo = boot.todo /\ boot'.at # "cut"
  BY <1>1, <1>3, LoopIs, GoOnIs
<1>5. manual' \in Loop(Runs)
  BY <1>1, <1>3 DEF RunsTypeOK
<1>6. LoopsFit'
  BY <1>1, <1>3, <1>4 DEF LoopsFit
<1>7. runs[r].status # "unborn"
  BY <1>1, <1>2, <1>3 DEF LoopsFit
<1>8. QED
  BY <1>3, <1>4, <1>5, <1>6, <1>7, ResumeKeeps

LEMMA ManualResumesKeeps ==
    ASSUME RunsInv, ManualResumes
    PROVE  RunsInv'
<1>1. RunsTypeOK /\ LoopsFit
  BY DEF RunsInv
<1>2. PICK r \in Runs : r = manual.run
  BY <1>1, LoopIs
<1>3. /\ manual.at = "cut" /\ manual' = IdleLoop /\ Resume(r)
      /\ UNCHANGED <<runs, done, ideas, up, booted, boot, reaper, cron, late, irregular, counts>>
  BY <1>2 DEF ManualResumes
<1>4. manual' \in Loop(Runs) /\ manual'.at = "idle"
  BY <1>3, IdleIs
<1>5. boot' \in Loop(Runs \X (0..MaxAttempts))
  BY <1>1, <1>3 DEF RunsTypeOK
<1>6. LoopsFit'
  BY <1>1, <1>3, <1>4 DEF LoopsFit
<1>7. runs[r].status # "unborn"
  BY <1>1, <1>2, <1>3 DEF LoopsFit
<1>8. QED
  BY <1>3, <1>4, <1>5, <1>6, <1>7, ResumeKeeps

LEMMA ReaperCutsKeeps ==
    ASSUME RunsInv, ReaperCuts
    PROVE  RunsInv'
<1>1. RunsTypeOK /\ LoopsFit
  BY DEF RunsInv
<1>2. PICK r \in Runs : r = reaper.run
  BY <1>1, LoopIs
<1>3. /\ reaper' = [reaper EXCEPT !.at = "fail"] /\ execs' = CutRows(r)
      /\ UNCHANGED <<runs, done, ideas, up, booted, boot, manual, cron, late, runHistory, counts>>
  BY <1>2 DEF ReaperCuts
<1>4. execs' \in [Slots -> Exec \cup {Free}] /\ \A l \in Slots \ {} : FadesTo(execs[l], execs'[l])
  BY <1>3, CutRowsFade
<1>5. reaper' \in Loop(Runs)
  BY <1>1, <1>3 DEF RunsTypeOK, Loop
<1>6. RunsTypeOK' /\ LoopsFit'
  BY <1>1, <1>3, <1>4, <1>5 DEF RunsTypeOK, LoopsFit, runHistory, counts
<1>7. "web" \in Procs /\ {} \in SUBSET Slots /\ doubled' = doubled /\ irregular' = irregular
  BY <1>3 DEF Procs, runHistory
<1>8. QED
  BY <1>3, <1>4, <1>6, <1>7, OthersKeep

\* A new run: by hand, or by the scheduler.
LEMMA InsertKeeps ==
    ASSUME RunsInv, NEW r \in Runs, NEW p \in Procs, Insert(r, p),
           UNCHANGED <<done, ideas, up, booted, boot, reaper, manual, late, runHistory, counts>>,
           cron' \in BOOLEAN
    PROVE  RunsInv'
<1>1. RunsTypeOK /\ LoopsFit /\ \A l \in Slots : ExecFits(l)
  BY DEF RunsInv
<1>2. /\ runs[r].status = "unborn" /\ runs' = [runs EXCEPT ![r].status = "running"]
      /\ Call(execs, r, p)
  BY DEF Insert
<1>3. PICK k \in Slots : execs' = [execs EXCEPT ![k] = Called(r, p)]
  BY <1>2 DEF Call, Called
<1>4. /\ execs'[k] = Called(r, p) /\ (\A l \in Slots \ {k} : execs'[l] = execs[l])
      /\ execs' \in [Slots -> Exec \cup {Free}]
  BY <1>1, <1>3, CalledIs, ExecSet
<1>5. /\ runs' \in [Runs -> RunRow] /\ runs'[r].status = "running"
      /\ runs'[r].attempts = runs[r].attempts /\ \A q \in Runs \ {r} : runs'[q] = runs[q]
  BY <1>1, <1>2 DEF RunsTypeOK, RunRow
<1>6. RunsTypeOK'
  BY <1>1, <1>4, <1>5 DEF RunsTypeOK, runHistory, counts
<1>7. LoopsFit'
  BY <1>1, <1>5, LoopIs DEF LoopsFit
<1>8. \A l \in Slots \ {k} : ~(execs'[l] # Free /\ execs'[l].run = r)
  BY <1>1, <1>2, <1>4 DEF ExecFits
<1>9. \A l \in Slots \ {k} : FadesTo(execs[l], execs'[l])
  BY <1>1, <1>4, Stays
<1>10. {k} \in SUBSET Slots /\ doubled' = doubled /\ irregular' = irregular
  BY DEF runHistory
<1>11. \A q \in Runs : \/ runs'[q].status = runs[q].status
                       \/ runs'[q].status \in {"running", "failed"}
  BY <1>5
<1>12. QED
  BY <1>4, <1>5, <1>6, <1>7, <1>8, <1>9, <1>10, <1>11, OthersKeep

LEMMA TickKeeps ==
    ASSUME RunsInv, Tick
    PROVE  RunsInv'
<1>1. RunsTypeOK /\ LoopsFit
  BY DEF RunsInv
<1>2. /\ runs' = [r \in Runs |-> IF r \in Resumable THEN [runs[r] EXCEPT !.age = Older(@)]
                                 ELSE runs[r]]
      /\ execs' = [k \in Slots |-> IF execs[k].at = "dead" THEN [execs[k] EXCEPT !.age = Older(@)]
                                      ELSE execs[k]]
      /\ UNCHANGED <<done, ideas, up, loops, late, runHistory, counts>>
  BY DEF Tick
<1>3. \A a \in Age : Older(a) \in Age
  BY PipelineAssumption DEF Older, Age
<1>4. ASSUME NEW r \in Runs
      PROVE  runs'[r] \in RunRow /\ runs'[r].status = runs[r].status
             /\ runs'[r].attempts = runs[r].attempts
  <2>1. runs[r] \in RunRow
    BY <1>1 DEF RunsTypeOK
  <2>2. runs'[r] = IF r \in Resumable THEN [runs[r] EXCEPT !.age = Older(@)] ELSE runs[r]
    BY <1>2
  <2>3. runs[r].age \in Age
    BY <2>1 DEF RunRow
  <2>4. QED
    BY <1>3, <2>1, <2>2, <2>3 DEF RunRow
<1>5. runs' \in [Runs -> RunRow]
  BY <1>2, <1>4
<1>6. ASSUME NEW l \in Slots
      PROVE  execs'[l] \in Exec \cup {Free} /\ FadesTo(execs[l], execs'[l])
  <2>1. CASE execs[l].at = "dead"
    <3>1. execs[l] \in Exec
      BY <1>1, <2>1, ExecShape DEF Free
    <3>2. execs'[l] = [execs[l] EXCEPT !.age = Older(@)] /\ execs[l].age \in Age
      BY <1>2, <2>1, <3>1 DEF Exec
    <3>3. /\ execs'[l] \in Exec /\ execs'[l].at = execs[l].at /\ execs'[l].run = execs[l].run
          /\ execs'[l].proc = execs[l].proc /\ execs'[l].step = execs[l].step
          /\ execs'[l].row = execs[l].row
      BY <1>3, <3>1, <3>2 DEF Exec
    <3>4. QED
      BY <3>1, <3>3 DEF FadesTo
  <2>2. CASE execs[l].at # "dead"
    <3>1. execs'[l] = execs[l]
      BY <1>2, <2>2
    <3>2. QED
      BY <1>1, <3>1, Stays DEF RunsTypeOK
  <2>3. QED
    BY <2>1, <2>2
<1>7. execs' \in [Slots -> Exec \cup {Free}]
  BY <1>2, <1>6
<1>8. RunsTypeOK'
  BY <1>1, <1>2, <1>5, <1>7 DEF RunsTypeOK, loops, runHistory, counts
<1>9. LoopsFit'
  BY <1>1, <1>2, <1>4, LoopIs DEF LoopsFit, loops
<1>10. PICK r \in Runs : TRUE
  BY PipelineAssumption
<1>11. /\ "web" \in Procs /\ {} \in SUBSET Slots /\ doubled' = doubled /\ irregular' = irregular
       /\ \A l \in Slots \ {} : FadesTo(execs[l], execs'[l])
  BY <1>2, <1>6 DEF Procs, runHistory
<1>12. QED
  BY <1>2, <1>4, <1>8, <1>9, <1>10, <1>11, OthersKeep

\* A store that nobody waits for any more: its run is irregular.
LEMMA LateStoreKeeps ==
    ASSUME RunsInv, NEW x \in late, LateStore(x)
    PROVE  RunsInv'
<1>1. RunsTypeOK /\ LateIsIrregular
  BY DEF RunsInv
<1>2. PICK r \in Runs : r = x[1]
  BY <1>1 DEF RunsTypeOK
<1>3. /\ late' = late \ {x} /\ ideas' = [ideas EXCEPT ![r] = @ + 1]
      /\ UNCHANGED <<runs, done, execs, up, loops, runHistory, counts>>
  BY <1>2 DEF LateStore
<1>4. r \in irregular
  BY <1>1, <1>2 DEF LateIsIrregular
<1>5. ideas' \in [Runs -> Nat] /\ \A q \in Runs \ {r} : ideas'[q] = ideas[q]
  BY <1>1, <1>3 DEF RunsTypeOK
<1>6. /\ irregular' = irregular /\ doubled' = doubled /\ boot' = boot /\ manual' = manual
      /\ runs' = runs /\ done' = done /\ execs' = execs
  BY <1>3 DEF runHistory, loops
<1>7. RunsTypeOK'
  BY <1>1, <1>3, <1>5 DEF RunsTypeOK, loops, runHistory, counts
<1>8. ASSUME NEW l \in Slots
      PROVE  ExecFits(l)' /\ WorkIsOpen(l)' /\ IdeasAt(l)'
  <2>1. ExecFits(l) /\ WorkIsOpen(l) /\ IdeasAt(l)
    BY DEF RunsInv
  <2>2. Living(l) => execs[l].run \in Runs
    BY <1>1, ExecShape DEF Exec
  <2>3. QED
    BY <1>4, <1>5, <1>6, <2>1, <2>2 DEF ExecFits, WorkIsOpen, IdeasAt, Living, Regular
<1>9. \A q \in Runs : LastIsStored(q)'
  <2>1. \A q \in Runs : LastIsStored(q)
    BY DEF RunsInv
  <2>2. QED
    BY <1>4, <1>5, <1>6, <2>1 DEF LastIsStored, Regular
<1>10. LoopsFit' /\ LateIsIrregular'
  BY <1>1, <1>3, <1>6 DEF RunsInv, LoopsFit, LateIsIrregular
<1>11. OneInProcess' /\ OneProcess' /\ NoneBeside' /\ NoGhosts'
  BY <1>6 DEF RunsInv, OneInProcess, OneProcess, NoneBeside, NoGhosts, Living, Executing
<1>12. QED
  BY <1>7, <1>8, <1>9, <1>10, <1>11 DEF RunsInv

\* A crash: of the executions of p, the ones with a row marked running leave it behind.
LEMMA RunsCrashKeeps ==
    ASSUME RunsInv, NEW p \in Procs, ProcessCrash(p)
    PROVE  RunsInv'
<1>1. RunsTypeOK /\ LoopsFit /\ OneInProcess /\ OneProcess /\ NoneBeside /\ NoGhosts /\ LateIsIrregular
  BY DEF RunsInv
<1>2. /\ crashes < MaxCrashes /\ crashes' = crashes + 1 /\ up' = [up EXCEPT ![p] = FALSE]
      /\ execs' = [k \in Slots |-> IF execs[k].at \in {"free", "dead"} \/ execs[k].proc # p
                                      THEN execs[k]
                                      ELSE IF execs[k].row = "running"
                                      THEN [execs[k] EXCEPT !.at = "dead"] ELSE Free]
      /\ late' \subseteq late
      /\ UNCHANGED <<runs, done, ideas, runHistory, resumes, errors>>
  BY DEF ProcessCrash
<1>3. \/ /\ booted' = FALSE /\ boot' = IdleLoop /\ reaper' = IdleLoop
         /\ manual' = IdleLoop /\ UNCHANGED cron
      \/ cron' = FALSE /\ UNCHANGED <<booted, boot, reaper, manual>>
  BY DEF ProcessCrash
\* What has become of the execution in a slot.
<1>4. ASSUME NEW l \in Slots
      PROVE  /\ execs'[l] \in Exec \cup {Free}
             /\ Living(l)' => Living(l) /\ execs'[l] = execs[l] /\ execs[l].proc # p
             /\ execs'[l].at = "dead" =>
                    \/ execs[l].at = "dead" /\ execs'[l] = execs[l]
                    \/ /\ Living(l) /\ execs[l].proc = p /\ execs[l].row = "running"
                       /\ execs'[l] \in Exec /\ execs'[l].run = execs[l].run
                       /\ execs'[l].step = execs[l].step /\ execs'[l].row = "running"
  <2>1. CASE execs[l].at \in {"free", "dead"}
    <3>1. execs'[l] = execs[l]
      BY <1>2, <2>1
    <3>2. ~Living(l)
      BY <1>1, <2>1, ExecShape DEF Living
    <3>3. execs'[l].at = "dead" => execs[l].at = "dead"
      BY <3>1
    <3>4. QED
      BY <1>1, <3>1, <3>2, <3>3 DEF RunsTypeOK, Living
  <2>2. CASE execs[l].at \notin {"free", "dead"}
    <3>1. execs[l] \in Exec /\ Living(l)
      BY <1>1, <2>2, ExecShape DEF Living
    <3>2. CASE execs[l].proc # p
      <4>1. execs'[l] = execs[l]
        BY <1>2, <3>2
      <4>2. QED
        BY <2>2, <3>1, <3>2, <4>1
    <3>3. CASE execs[l].proc = p /\ execs[l].row = "running"
      <4>1. execs'[l] = [execs[l] EXCEPT !.at = "dead"]
        BY <1>2, <2>2, <3>3
      <4>2. /\ execs'[l] \in Exec /\ execs'[l].at = "dead" /\ execs'[l].run = execs[l].run
            /\ execs'[l].step = execs[l].step /\ execs'[l].row = "running"
        BY <3>1, <3>3, <4>1 DEF Exec
      <4>3. QED
        BY <3>1, <3>3, <4>2 DEF Living
    <3>4. CASE execs[l].proc = p /\ execs[l].row # "running"
      <4>1. execs'[l] = Free /\ Free.at = "free"
        BY <1>2, <2>2, <3>4 DEF Free
      <4>2. QED
        BY <4>1 DEF Living
    <3>5. QED
      BY <3>2, <3>3, <3>4
  <2>3. QED
    BY <2>1, <2>2
<1>5. execs' \in [Slots -> Exec \cup {Free}]
  BY <1>2, <1>4
<1>6. /\ boot' \in Loop(Runs \X (0..MaxAttempts)) /\ reaper' \in Loop(Runs)
      /\ manual' \in Loop(Runs) /\ booted' \in BOOLEAN /\ cron' \in BOOLEAN
  BY <1>1, <1>3, IdleIs DEF RunsTypeOK
<1>7. crashes' \in 0..MaxCrashes
  BY <1>1, <1>2, PipelineAssumption DEF RunsTypeOK
<1>8. RunsTypeOK'
  BY <1>1, <1>2, <1>5, <1>6, <1>7 DEF RunsTypeOK, runHistory
<1>9. LoopsFit'
  BY <1>1, <1>2, <1>3, IdleIs DEF LoopsFit
<1>10. irregular' = irregular /\ doubled' = doubled /\ runs' = runs /\ done' = done /\ ideas' = ideas
  BY <1>2 DEF runHistory
<1>11. LateIsIrregular' /\ \A q \in Runs : LastIsStored(q)'
  BY <1>1, <1>2, <1>10 DEF RunsInv, LastIsStored, Regular, LateIsIrregular
<1>12. OneInProcess'
  <2>1. \A l \in Slots : Executing(l)' => Living(l)' /\ Executing(l)
    <3> SUFFICES ASSUME NEW l \in Slots, Executing(l)'
                 PROVE  Living(l)' /\ Executing(l)
      OBVIOUS
    <3>1. Living(l)'
      BY DEF Executing, Living, Free
    <3>2. QED
      BY <1>4, <3>1 DEF Executing
  <2>2. QED
    BY <1>1, <1>4, <2>1 DEF OneInProcess
<1>13. OneProcess'
  BY <1>1, <1>4, <1>10 DEF OneProcess
<1>14. NoneBeside'
  <2> SUFFICES ASSUME NEW i \in Slots, NEW j \in Slots, Living(i)', execs'[j].at = "dead",
                      execs'[i].run = execs'[j].run
               PROVE  execs'[i].run \in doubled'
    BY DEF NoneBeside
  <2>1. Living(i) /\ execs'[i] = execs[i] /\ execs[i].proc # p
    BY <1>4
  <2>2. CASE execs[j].at = "dead" /\ execs'[j] = execs[j]
    BY <1>1, <1>10, <2>1, <2>2 DEF NoneBeside
  <2>3. CASE Living(j) /\ execs[j].proc = p /\ execs'[j].run = execs[j].run
    BY <1>1, <1>10, <2>1, <2>3 DEF OneProcess
  <2>4. QED
    BY <1>4, <2>2, <2>3
<1>15. NoGhosts'
  <2> SUFFICES ASSUME NEW j \in Slots, execs'[j].at = "dead", execs'[j].run \notin doubled'
               PROVE  runs'[execs'[j].run].status \notin {"completed", "empty"}
    BY DEF NoGhosts
  <2>1. CASE execs[j].at = "dead" /\ execs'[j] = execs[j]
    BY <1>1, <1>10, <2>1 DEF NoGhosts
  <2>2. CASE Living(j) /\ execs[j].row = "running" /\ execs'[j].run = execs[j].run
    <3>1. execs[j].at \in {"work", "insert", "finish"}
      BY <2>2 DEF RunsInv, ExecFits, Living
    <3>2. QED
      BY <1>10, <2>2, <3>1 DEF RunsInv, WorkIsOpen
  <2>3. QED
    BY <1>4, <2>1, <2>2
<1>16. ASSUME NEW l \in Slots
       PROVE  ExecFits(l)' /\ WorkIsOpen(l)' /\ IdeasAt(l)'
  <2>1. ExecFits(l) /\ WorkIsOpen(l) /\ IdeasAt(l)
    BY DEF RunsInv
  <2>2. CASE execs'[l] = Free
    BY <2>2 DEF ExecFits, WorkIsOpen, IdeasAt, Living, Free
  <2>3. CASE Living(l)'
    BY <1>4, <1>10, <2>1, <2>3 DEF ExecFits, WorkIsOpen, IdeasAt, Living, Regular
  <2>4. CASE execs'[l] # Free /\ execs'[l].at = "dead"
    <3>1. execs'[l].row = "running" /\ execs'[l].run = execs[l].run
          /\ execs'[l].step = execs[l].step /\ execs[l] # Free
      BY <1>4, <2>1, <2>4 DEF ExecFits, Living
    <3>2. ExecFits(l)'
      BY <1>10, <2>1, <2>4, <3>1 DEF ExecFits
    <3>3. QED
      BY <2>4, <3>2 DEF WorkIsOpen, IdeasAt, Living
  <2>5. QED
    BY <2>2, <2>3, <2>4 DEF Living
<1>17. QED
  BY <1>8, <1>9, <1>11, <1>12, <1>13, <1>14, <1>15, <1>16 DEF RunsInv

-----------------------------------------------------------------------------
(* The theorems *)

LEMMA RunsInitIsSound ==
    ASSUME RunsInit
    PROVE  RunsInv
<1>1. /\ runs = [r \in Runs |-> [status |-> "unborn", attempts |-> 0, age |-> 0]]
      /\ done = [r \in Runs |-> {}] /\ ideas = [r \in Runs |-> 0]
      /\ execs = [k \in Slots |-> Free] /\ up = [p \in Procs |-> TRUE]
      /\ booted = FALSE /\ boot = IdleLoop /\ reaper = IdleLoop /\ manual = IdleLoop
      /\ cron = FALSE /\ late = {} /\ irregular = {} /\ doubled = {}
      /\ crashes = 0 /\ resumes = 0 /\ errors = 0
  BY DEF RunsInit
<1>2. [status |-> "unborn", attempts |-> 0, age |-> 0] \in RunRow
  BY AgeIsNat, PipelineAssumption DEF RunRow
<1>3. RunsTypeOK
  <2>1. runs \in [Runs -> RunRow] /\ done \in [Runs -> SUBSET Steps] /\ ideas \in [Runs -> Nat]
    BY <1>1, <1>2
  <2>2. execs \in [Slots -> Exec \cup {Free}] /\ up \in [Procs -> BOOLEAN]
    BY <1>1
  <2>3. /\ boot \in Loop(Runs \X (0..MaxAttempts)) /\ reaper \in Loop(Runs)
        /\ manual \in Loop(Runs)
    BY <1>1, IdleIs
  <2>4. crashes \in 0..MaxCrashes /\ resumes \in 0..MaxManual /\ errors \in 0..MaxErrors
    BY <1>1, PipelineAssumption
  <2>5. QED
    BY <1>1, <2>1, <2>2, <2>3, <2>4 DEF RunsTypeOK
<1>4. \A k \in Slots : execs[k] = Free /\ execs[k].at = "free" /\ ~Living(k) /\ ~Executing(k)
  BY <1>1 DEF Living, Executing, Free
<1>5. \A k \in Slots : ExecFits(k) /\ WorkIsOpen(k) /\ IdeasAt(k)
  BY <1>4 DEF ExecFits, WorkIsOpen, IdeasAt
<1>6. \A r \in Runs : LastIsStored(r)
  BY <1>1 DEF LastIsStored
<1>7. LoopsFit /\ LateIsIrregular
  BY <1>1, IdleIs DEF LoopsFit, LateIsIrregular
<1>8. OneInProcess /\ OneProcess /\ NoneBeside /\ NoGhosts
  BY <1>4 DEF OneInProcess, OneProcess, NoneBeside, NoGhosts
<1>9. QED
  BY <1>3, <1>5, <1>6, <1>7, <1>8 DEF RunsInv

LEMMA RunsStepsKeep ==
    ASSUME RunsInv, [RunsNext]_runVars
    PROVE  RunsInv'
<1>1. ASSUME NEW k \in Slots, ExecStep(k) \/ StartFails(k) \/ FailStep(k)
      PROVE  RunsInv'
  BY <1>1, BeginKeeps, StartKeeps, NextStepKeeps, DeleteKeeps, StoreKeeps, FinishStepKeeps,
     NothingFreshKeeps, EndRunKeeps, CloseKeeps, StartFailsKeeps, FailStepKeeps DEF ExecStep
<1>2. ASSUME NEW x \in late, LateStore(x)
      PROVE  RunsInv'
  BY <1>2, LateStoreKeeps
<1>3. ASSUME NEW r \in Runs, RunByHand(r) \/ ManualChecks(r) \/ CronStarts(r)
      PROVE  RunsInv'
  <2>1. CASE RunByHand(r)
    <3>1. /\ Insert(r, "web") /\ "web" \in Procs
          /\ UNCHANGED <<done, ideas, up, booted, boot, reaper, manual, cron, late, runHistory, counts>>
      BY <2>1 DEF RunByHand, loops, Procs
    <3>2. cron' \in BOOLEAN
      BY <3>1 DEF RunsInv, RunsTypeOK
    <3>3. QED
      BY <3>1, <3>2, InsertKeeps
  <2>2. CASE ManualChecks(r)
    BY <2>2, ManualChecksKeeps
  <2>3. CASE CronStarts(r)
    <3>1. /\ Insert(r, "cron") /\ "cron" \in Procs /\ cron' \in BOOLEAN
          /\ UNCHANGED <<done, ideas, up, booted, boot, reaper, manual, late, runHistory, counts>>
      BY <2>3 DEF CronStarts, Procs
    <3>2. QED
      BY <3>1, InsertKeeps
  <2>4. QED
    BY <1>3, <2>1, <2>2, <2>3
<1>4. CASE Boot
  BY <1>4, BootListsKeeps, BootResumesKeeps, BootTakesKeeps DEF Boot
<1>5. CASE Reap
  BY <1>5, ReaperListsKeeps, ReaperCutsKeeps, ReaperFailsKeeps, ReaperTakesKeeps DEF Reap
<1>6. CASE ManualMarks \/ ManualResumes \/ CronChecks \/ Tick
  BY <1>6, ManualMarksKeeps, ManualResumesKeeps, CronChecksKeeps, TickKeeps
<1>7. ASSUME NEW p \in Procs, ProcessCrash(p) \/ Recover(p)
      PROVE  RunsInv'
  BY <1>7, RunsCrashKeeps, RecoverKeeps
<1>8. CASE UNCHANGED runVars
  <2>1. LoopsFit' /\ RunsTypeOK'
    BY <1>8 DEF RunsInv, LoopsFit, RunsTypeOK, runVars, loops, runHistory, counts
  <2>2. UNCHANGED <<runs, execs, done, ideas, late, runHistory>>
    BY <1>8 DEF runVars
  <2>3. QED
    BY <2>1, <2>2, RowsMarked
<1>9. QED
  BY <1>1, <1>2, <1>3, <1>4, <1>5, <1>6, <1>7, <1>8 DEF RunsNext

LEMMA RunsStay ==
    RunsSpec => []RunsInv
<1>1. RunsInit => RunsInv
  BY RunsInitIsSound
<1>2. RunsInv /\ [RunsNext]_runVars => RunsInv'
  BY RunsStepsKeep
<1>3. QED
  BY <1>1, <1>2, PTL DEF RunsSpec

\* A run that has come to its end has no step still marked running by an executor
\* that is dead: whoever resumes it clears them first (resume.ts, the rows that
\* failIncompleteStepsForRun marks), or the run was executed twice at a time.
THEOREM NoGhostIsLeft ==
    RunsSpec => []RunsSound
<1>1. RunsInv => RunsSound
  BY DEF RunsInv, RunsSound
<1>2. QED
  BY <1>1, RunsStay, PTL

\* A completed run has stored its ideas once, however often its steps failed, it was
\* resumed, reaped and crashed (pipeline.ts, the DELETE before the inserts of the last
\* step) -- unless it was executed twice at a time or was irregular.
THEOREM IdeasAreStoredOnce ==
    RunsSpec => []IdeasOnce
<1>1. RunsInv => IdeasOnce
  BY DEF RunsInv, LastIsStored, Regular, IdeasOnce
<1>2. QED
  BY <1>1, RunsStay, PTL
=============================================================================
