----------------------- MODULE SigeSessions_proofs -----------------------
(***************************************************************************)
(* SIGE sessions, for any number of sessions, games in a session, cancel    *)
(* requests, restarts and failures.                                         *)
(***************************************************************************)
EXTENDS SigeSessions, FiniteSetTheorems, WellFoundedInduction, TLAPS

\* The process plays a session.
Active == run # NoRun /\ run.at # "interrupted"

TypeInv ==
    /\ row \in [Sessions -> Row]
    /\ proc \in {"down", "boot", "up", "leaving"}
    /\ run \in Run \cup {NoRun} \cup [at : {"interrupted"}]
    /\ cancelling \in SUBSET Sessions

\* Sessions are numbered as they are created, so that a new one never takes the
\* place of one that is there.
IdsInOrder == \E n \in 0..MaxSessions : Created = 1..n

\* What is being cancelled or played has been created.
InHand == cancelling \subseteq Created /\ (Active => run.session \in Created)

\* The stages that leave an artifact.
StageInHand == Active /\ run.at \in {"last", "recheck", "save"} => run.stage \in Artifacts

\* A verdict of the guard that allows a write was given before the cancellation.
GuardHolds == \A s \in Sessions : WriteInFlight(s) /\ row[s].status = "cancelled" => s \in raced

CInv == TypeInv /\ IdsInOrder /\ InHand /\ StageInHand /\ GuardHolds

\* What a step may do to the status of a session that was cancelled.
CancelStep ==
    \A s \in Sessions : row[s].status = "cancelled" /\ row'[s].status # "cancelled" => s \in raced

StepHolds ==
    /\ CInv'
    /\ CancelStep

-----------------------------------------------------------------------------
(* Statuses and stages *)

LEMMA StatusFacts ==
    /\ \A k \in Stages : StageStatus[k] \in Running
    /\ Running \subseteq Status
    /\ "none" \notin Running /\ "pending" \notin Running
    /\ "completed" \notin Running /\ "cancelled" \notin Running /\ "failed" \notin Running
<1>1. \A k \in Stages : StageStatus[k] \in {"knowledge_construction", "game_formulation",
          "expert_game", "social_simulation", "scoring", "report_generation"}
  BY DEF Stages, StageStatus
<1>2. QED
  BY <1>1 DEF Running, Status

LEMMA NoRowType == NoRow \in Row /\ NoRow.status = "none"
  BY DEF NoRow, Row, Status, Artifacts

\* A set of numbers that is not empty has a least one.
LEMMA LeastNat ==
    ASSUME NEW T \in SUBSET Nat, T # {}
    PROVE  \E x \in T : \A y \in T : x <= y
<1> DEFINE R == OpToRel(<, Nat)
<1>1. IsWellFoundedOn(R, Nat)
  BY NatLessThanWellFounded
<1> HIDE DEF R
<1>2. PICK x \in T : \A y \in T : ~(<<y, x>> \in R)
  BY <1>1, WFMin
<1>3. \A y \in T : y < x => <<y, x>> \in R
  BY DEF R, OpToRel
<1>4. \A y \in T : ~(y < x)
  BY <1>2, <1>3, Zenon
<1>5. x \in Nat /\ \A y \in T : y \in Nat
  OBVIOUS
<1>6. QED
  BY <1>4, <1>5

LEMMA OldestIn ==
    ASSUME NEW X \in SUBSET Sessions, X # {}
    PROVE  Oldest(X) \in X
<1>1. X \in SUBSET Nat
  BY SigeAssumption DEF Sessions
<1>2. \E s \in X : \A r \in X : s <= r
  BY <1>1, LeastNat
<1>3. QED
  BY <1>2 DEF Oldest

\* A run that enters its next stage keeps its session.
LEMMA EnterType ==
    ASSUME NEW r \in Run, NEW k \in Stages
    PROVE  /\ Enter(r, k) \in Run
           /\ Enter(r, k).session = r.session
           /\ Enter(r, k).at = "check"
           /\ Enter(r, k).left = r.left
<1> DEFINE todo == {j \in k..5 : ~Skips(r, j)}
<1>1. todo \in SUBSET Stages
  BY DEF Stages
<1>2. todo \in SUBSET Nat
  BY <1>1 DEF Stages
<1>3. 5 \in todo
  BY DEF Stages, Skips, Run, Artifacts
<1>4. (CHOOSE j \in todo : \A i \in todo : j <= i) \in Stages
  <2>1. \E j \in todo : \A i \in todo : j <= i
    BY <1>2, <1>3, LeastNat
  <2>2. QED
    BY <1>1, <2>1
<1>5. QED
  BY <1>4 DEF Enter, Run

\* What is at one of the points of a run is a run.
LEMMA AtRun ==
    ASSUME TypeInv, Active
    PROVE  /\ run \in Run /\ run.session \in Sessions /\ run.stage \in Stages
           /\ row[run.session] \in Row
  BY DEF TypeInv, Active, Run

-----------------------------------------------------------------------------
(* The rows *)

\* A write to one session that was created, or to none.
LEMMA CreatedKept ==
    ASSUME TypeInv, NEW s \in Created, NEW new \in Row, new.status # "none",
           row' = [row EXCEPT ![s] = new] \/ row' = row
    PROVE  Created' = Created /\ row' \in [Sessions -> Row]
<1>1. s \in Sessions /\ row[s].status # "none"
  BY DEF Created, In
<1>2. row' \in [Sessions -> Row]
  BY <1>1 DEF TypeInv
<1>3. \A t \in Sessions : row'[t].status = "none" <=> row[t].status = "none"
  BY <1>1 DEF TypeInv
<1>4. QED
  BY <1>2, <1>3 DEF Created, In

\* A new session takes a number that is free, and the next one.
LEMMA CreateNext ==
    ASSUME TypeInv, IdsInOrder, NEW kind \in {"seeded", "seedless", "auto"}, Create(kind)
    PROVE  \E s \in Sessions :
               /\ row[s].status = "none"
               /\ row' = [row EXCEPT ![s] = [NoRow EXCEPT !.status = "pending", !.kind = kind]]
               /\ row' \in [Sessions -> Row]
               /\ Created' = Created \cup {s}
               /\ IdsInOrder'
<1> DEFINE s == Cardinality(Created) + 1
           new == [NoRow EXCEPT !.status = "pending", !.kind = kind]
<1>1. PICK n \in 0..MaxSessions : Created = 1..n
  BY DEF IdsInOrder
<1>2. MaxSessions \in Nat
  BY SigeAssumption
<1>3. s = n + 1
  <2>1. Cardinality(1..n) = IF 1 > n THEN 0 ELSE n - 1 + 1
    BY <1>2, FS_Interval
  <2>2. QED
    BY <1>1, <1>2, <2>1
<1>4. s \in Sessions /\ row' = [row EXCEPT ![s] = new]
  BY DEF Create
<1>5. row[s].status = "none"
  BY <1>1, <1>2, <1>3, <1>4 DEF Created, In
<1>6. new \in Row /\ new.status = "pending"
  BY DEF NoRow, Row, Status, Artifacts
<1>7. row' \in [Sessions -> Row]
  BY <1>4, <1>6 DEF TypeInv
<1>8. Created' = Created \cup {s}
  BY <1>4, <1>6, <1>7 DEF Created, In, TypeInv
<1>9. IdsInOrder'
  <2>1. n + 1 \in 0..MaxSessions
    BY <1>1, <1>2, <1>3, <1>4 DEF Sessions
  <2>2. Created' = 1..(n + 1)
    BY <1>1, <1>2, <1>3, <1>8
  <2>3. QED
    BY <2>1, <2>2 DEF IdsInOrder
<1>10. QED
  BY <1>4, <1>5, <1>7, <1>8, <1>9

Writing == {"mark", "save", "complete", "fail"}

\* A step that leaves the rows alone, after which nothing is played, or a session
\* in hand, or one found in a running status.
LEMMA RunMoves ==
    ASSUME CInv, row' = row, raced' = raced, cancelling' = cancelling,
           proc' \in {"down", "boot", "up", "leaving"},
           \/ run' = run \/ run' = NoRun \/ run' = [at |-> "interrupted"]
           \/ /\ run' \in Run /\ run'.at # "interrupted"
              /\ \/ Active /\ run'.session = run.session
                 \/ run'.session \in Sessions /\ row[run'.session].status \in Running
              /\ \/ run'.at \notin Writing \/ ~run'.ok
                 \/ row[run'.session].status # "cancelled"
                 \/ Active /\ run'.at = run.at /\ run'.ok = run.ok
              /\ run'.at \in {"last", "recheck", "save"} => run'.stage \in Artifacts
    PROVE  StepHolds
<1>1. TypeInv'
  BY DEF CInv, TypeInv
<1>2. Created' = Created
  BY DEF Created, In
<1>3. IdsInOrder'
  BY <1>2 DEF CInv, IdsInOrder
<1>4. ASSUME Active'
      PROVE  \/ Active /\ run'.session = run.session
             \/ run'.session \in Sessions /\ row[run'.session].status \in Running
  BY <1>4 DEF Active, NoRun
<1>5. InHand'
  <2>1. ASSUME Active' PROVE run'.session \in Created'
    BY <1>2, <1>4, <2>1, StatusFacts DEF CInv, InHand, Created, In
  <2>2. QED
    BY <1>2, <2>1 DEF CInv, InHand
<1>6. StageInHand'
  BY DEF CInv, StageInHand, Active, NoRun
<1>7. GuardHolds'
  <2>1. SUFFICES ASSUME NEW s \in Sessions, WriteInFlight(s)', row[s].status = "cancelled"
                 PROVE  s \in raced
    BY DEF GuardHolds
  <2>2. run' # NoRun /\ run'.at \in Writing /\ run'.session = s /\ run'.ok
    BY <2>1 DEF WriteInFlight, Writing
  <2>3. WriteInFlight(s)
    <3>1. CASE run' = run
      BY <2>2, <3>1 DEF WriteInFlight, Writing
    <3>2. CASE run' # run
      <4>1. run' # [at |-> "interrupted"]
        BY <2>2 DEF Writing
      <4>2. Active /\ run'.at = run.at /\ run'.ok = run.ok
        BY <2>1, <2>2, <3>2, <4>1
      <4>3. row[run'.session].status \notin Running
        BY <2>1, <2>2, StatusFacts
      <4>4. run'.session = run.session
        BY <2>2, <3>2, <4>1, <4>3
      <4>5. QED
        BY <2>2, <4>2, <4>4 DEF WriteInFlight, Writing, Active
    <3>3. QED
      BY <3>1, <3>2
  <2>4. QED
    BY <2>1, <2>3 DEF CInv, GuardHolds
<1>8. CancelStep
  BY DEF CancelStep
<1>9. QED
  BY <1>1, <1>3, <1>5, <1>6, <1>7, <1>8 DEF StepHolds, CInv

\* The write that follows the guard's read.
LEMMA RunWrites ==
    ASSUME CInv, Active, run.at \in Writing, raced' = raced, cancelling' = cancelling,
           proc' \in {"down", "boot", "up", "leaving"},
           NEW new \in Row, new.status \notin {"none", "cancelled"}, WriteIfOk(new),
           \/ run' = NoRun
           \/ /\ run' \in Run /\ run'.at \notin Writing \cup {"interrupted", "last", "recheck"}
              /\ run'.session = run.session
    PROVE  StepHolds
<1>1. run \in Run /\ run.session \in Sessions /\ run.session \in Created
  BY AtRun DEF CInv, InHand
<1>2. row' = [row EXCEPT ![run.session] = new] \/ row' = row
  BY DEF WriteIfOk, S
<1>3. Created' = Created /\ row' \in [Sessions -> Row]
  BY <1>1, <1>2, CreatedKept DEF CInv
<1>4. TypeInv'
  BY <1>3 DEF CInv, TypeInv
<1>5. IdsInOrder' /\ InHand'
  <2>1. IdsInOrder'
    BY <1>3 DEF CInv, IdsInOrder
  <2>2. Active' => run'.session \in Created'
    BY <1>1, <1>3 DEF Active
  <2>3. QED
    BY <1>3, <2>1, <2>2 DEF CInv, InHand
<1>6. GuardHolds' /\ StageInHand'
  <2>1. run' = NoRun \/ run'.at \notin Writing \cup {"last", "recheck"}
    OBVIOUS
  <2>2. QED
    BY <2>1 DEF GuardHolds, StageInHand, WriteInFlight, Writing, Active
<1>7. CancelStep
  <2>1. SUFFICES ASSUME NEW s \in Sessions, row[s].status = "cancelled",
                        row'[s].status # "cancelled"
                 PROVE  s \in raced
    BY DEF CancelStep
  <2>2. s = run.session /\ run.ok
    BY <1>1, <1>2, <2>1 DEF WriteIfOk, S, CInv, TypeInv
  <2>3. WriteInFlight(s)
    BY <2>2 DEF WriteInFlight, Writing, Active
  <2>4. QED
    BY <2>1, <2>3 DEF CInv, GuardHolds
<1>8. QED
  BY <1>4, <1>5, <1>6, <1>7 DEF StepHolds, CInv

\* A new session.
LEMMA RowAdded ==
    ASSUME CInv, NEW kind \in {"seeded", "seedless", "auto"}, Create(kind),
           UNCHANGED <<proc, run, cancelling, raced>>
    PROVE  StepHolds
<1>1. PICK s \in Sessions :
          /\ row[s].status = "none"
          /\ row' = [row EXCEPT ![s] = [NoRow EXCEPT !.status = "pending", !.kind = kind]]
          /\ row' \in [Sessions -> Row]
          /\ Created' = Created \cup {s}
          /\ IdsInOrder'
  BY CreateNext DEF CInv
<1>2. s \notin Created
  BY <1>1 DEF Created, In
<1>3. row'[s].status = "pending"
  BY <1>1 DEF NoRow, CInv, TypeInv
<1>4. \A t \in Sessions \ {s} : row'[t] = row[t]
  BY <1>1 DEF CInv, TypeInv
<1>5. TypeInv' /\ InHand' /\ StageInHand'
  BY <1>1 DEF CInv, TypeInv, InHand, StageInHand, Active
<1>6. GuardHolds'
  BY <1>3, <1>4 DEF CInv, GuardHolds, WriteInFlight
<1>7. CancelStep
  BY <1>1, <1>4 DEF CancelStep
<1>8. QED
  BY <1>1, <1>5, <1>6, <1>7 DEF StepHolds, CInv

-----------------------------------------------------------------------------
(* The steps *)

\* A run that begins
LEMMA BeginType ==
    ASSUME NEW s \in Sessions, NEW have \in SUBSET Artifacts, Begin(s, have)
    PROVE  run' \in Run /\ run'.at = "load" /\ run'.session = s
<1>1. 1 \in 1..MaxFrontiers /\ 0 \in Stages
  BY SigeAssumption DEF Stages
<1>2. QED
  BY <1>1 DEF Begin, Run

LEMMA SigeInit == Init => CInv
<1> SUFFICES ASSUME Init PROVE CInv
  OBVIOUS
<1>1. TypeInv
  BY NoRowType DEF Init, TypeInv
<1>2. Created = 1..0
  BY NoRowType DEF Init, Created, In
<1>3. IdsInOrder
  BY <1>2, SigeAssumption DEF IdsInOrder
<1>4. InHand /\ StageInHand /\ GuardHolds
  BY DEF Init, InHand, StageInHand, GuardHolds, WriteInFlight, Active
<1>5. QED
  BY <1>1, <1>3, <1>4 DEF CInv

LEMMA SigeStep == CInv /\ [Next]_vars => StepHolds
<1> SUFFICES ASSUME CInv, [Next]_vars PROVE StepHolds
  OBVIOUS
<1> USE DEF history, published, requests
<1>0. TypeInv
  BY DEF CInv
<1>1. CASE UNCHANGED vars
  BY <1>0, <1>1, RunMoves DEF vars, TypeInv
<1>2. CASE CountPending
  BY <1>0, <1>2, RunMoves DEF CountPending, TypeInv
<1>3. ASSUME NEW kind \in {"seeded", "seedless"}, PostSession(kind) PROVE StepHolds
  BY <1>3, RowAdded DEF PostSession
<1>4. CASE TickCounts
  BY <1>0, <1>4, RunMoves DEF TickCounts, TypeInv
<1>5. CASE TickInserts
  BY <1>5, RowAdded DEF TickInserts
<1>6. CASE Boot
  BY <1>6, RunMoves DEF Boot
<1>7. CASE Terminate
  BY <1>7, RunMoves DEF Terminate
<1>8. CASE Exit
  BY <1>8, RunMoves DEF Exit, CutOff
<1>9. CASE Crash
  BY <1>9, RunMoves DEF Crash, CutOff
<1>10. ASSUME NEW s \in Sessions, ReadToCancel(s) PROVE StepHolds
  <2>1. row' = row /\ run' = run /\ proc' = proc /\ raced' = raced
        /\ cancelling' = cancelling \cup {s} /\ row[s].status # "none"
    BY <1>10 DEF ReadToCancel, Terminal
  <2>2. s \in Created /\ Created' = Created
    BY <2>1 DEF Created, In
  <2>3. CInv'
    BY <2>1, <2>2 DEF CInv, TypeInv, IdsInOrder, InHand, StageInHand, Active, GuardHolds, WriteInFlight
  <2>4. QED
    BY <2>1, <2>3 DEF StepHolds, CancelStep
<1>11. ASSUME NEW s \in Sessions, Cancel(s) PROVE StepHolds
  <2> DEFINE new == [row[s] EXCEPT !.status = "cancelled"]
  <2>1. s \in cancelling /\ cancelling' = cancelling \ {s}
        /\ row' = [row EXCEPT ![s] = new] /\ run' = run /\ proc' = proc
        /\ raced' = IF WriteInFlight(s) THEN raced \cup {s} ELSE raced
    BY <1>11 DEF Cancel, SetStatus
  <2>2. new \in Row /\ new.status = "cancelled"
    BY <1>0, StatusFacts DEF TypeInv, Row, Status, Terminal
  <2>3. s \in Created
    BY <2>1 DEF CInv, InHand
  <2>4. Created' = Created /\ row' \in [Sessions -> Row]
    BY <1>0, <2>1, <2>2, <2>3, CreatedKept
  <2>5. row'[s].status = "cancelled" /\ \A t \in Sessions \ {s} : row'[t] = row[t]
    BY <1>0, <2>1, <2>2 DEF TypeInv
  <2>6. TypeInv' /\ IdsInOrder' /\ InHand' /\ StageInHand'
    BY <2>1, <2>4 DEF CInv, TypeInv, IdsInOrder, InHand, StageInHand, Active
  <2>7. GuardHolds'
    BY <2>1, <2>5 DEF CInv, GuardHolds, WriteInFlight
  <2>8. CancelStep
    BY <2>1, <2>5 DEF CancelStep
  <2>9. QED
    BY <2>6, <2>7, <2>8 DEF StepHolds, CInv
<1>12. CASE ClaimPending
  <2>1. CASE In({"pending"}) = {}
    BY <1>12, <2>1, RunMoves DEF ClaimPending
  <2>2. CASE In({"pending"}) # {}
    <3> DEFINE s == Oldest(In({"pending"}))
               new == [row[s] EXCEPT !.status = StageStatus[0]]
    <3>1. s \in Sessions /\ row[s].status = "pending"
      BY <2>2, OldestIn DEF In
    <3>2. row' = [row EXCEPT ![s] = new] /\ run' \in Run /\ run'.at = "load"
          /\ run'.session = s /\ UNCHANGED <<proc, cancelling, raced>>
      <4>1. row[s].arts \in SUBSET Artifacts
        BY <1>0, <3>1 DEF TypeInv, Row
      <4>2. Begin(s, row[s].arts) /\ SetStatus(s, StageStatus[0])
            /\ UNCHANGED <<proc, cancelling, raced>>
        BY <1>12, <2>2 DEF ClaimPending
      <4>3. QED
        BY <3>1, <4>1, <4>2, BeginType DEF SetStatus
    <3>3. new.status \in Running /\ new \in Row
      BY <1>0, <3>1, StatusFacts DEF TypeInv, Row, Stages
    <3>4. s \in Created
      BY <3>1 DEF Created, In
    <3>5. Created' = Created /\ row' \in [Sessions -> Row]
      BY <1>0, <3>2, <3>3, <3>4, StatusFacts, CreatedKept
    <3>6. row'[s].status \in Running /\ \A t \in Sessions \ {s} : row'[t] = row[t]
      BY <1>0, <3>1, <3>2, <3>3 DEF TypeInv
    <3>7. TypeInv' /\ IdsInOrder' /\ InHand' /\ StageInHand'
      BY <3>2, <3>4, <3>5 DEF CInv, TypeInv, IdsInOrder, InHand, StageInHand
    <3>8. GuardHolds'
      BY <3>2 DEF GuardHolds, WriteInFlight
    <3>9. CancelStep
      BY <3>1, <3>6 DEF CancelStep
    <3>10. QED
      BY <3>7, <3>8, <3>9 DEF StepHolds, CInv
  <2>3. QED
    BY <2>1, <2>2
<1>13. CASE ClaimInterrupted
  <2>1. CASE Interrupted = {}
    BY <1>0, <1>13, <2>1, RunMoves DEF ClaimInterrupted, EndPoll, TypeInv
  <2>2. CASE Interrupted # {}
    <3> DEFINE s == Oldest(Interrupted)
    <3>1. s \in Sessions /\ row[s].status \in Running
      BY <2>2, OldestIn DEF Interrupted, In
    <3>2. row[s].arts \in SUBSET Artifacts
      BY <1>0, <3>1 DEF TypeInv, Row
    <3>3. Begin(s, row[s].arts)
      BY <1>13, <2>2 DEF ClaimInterrupted
    <3>4. run' \in Run /\ run'.at = "load" /\ run'.session = s
      BY <3>1, <3>2, <3>3, BeginType
    <3>5. UNCHANGED <<row, proc, cancelling, raced>>
      BY <1>13, <2>2 DEF ClaimInterrupted
    <3>6. QED
      BY <1>0, <3>1, <3>4, <3>5, RunMoves DEF TypeInv, Writing
  <2>3. QED
    BY <2>1, <2>2
<1>14. CASE LoadContext
  <2>1. Active /\ UNCHANGED <<row, proc, cancelling, raced>>
    BY <1>14 DEF LoadContext, At, Active
  <2>2. run \in Run /\ 0 \in Stages
    BY <1>0, <2>1, AtRun DEF Stages
  <2>3. run' \in Run /\ run'.session = run.session /\ run'.at \in {"check", "discover"}
    <3>1. \/ run' = Enter(run, 0) \/ run' = Enter([run EXCEPT !.fresh = TRUE], 0)
          \/ run' = [run EXCEPT !.fresh = TRUE, !.at = "discover"]
      BY <1>14 DEF LoadContext
    <3>2. /\ [run EXCEPT !.fresh = TRUE] \in Run
          /\ [run EXCEPT !.fresh = TRUE].session = run.session
      BY <2>2 DEF Run
    <3>3. CASE run' = [run EXCEPT !.fresh = TRUE, !.at = "discover"]
      BY <2>2, <3>3 DEF Run
    <3>4. QED
      BY <2>2, <3>1, <3>2, <3>3, EnterType
  <2>4. QED
    BY <1>0, <2>1, <2>3, RunMoves DEF TypeInv, Writing
<1>15. CASE Discover
  <2>1. Active /\ UNCHANGED <<row, cancelling, raced>>
        /\ proc' \in {"down", "boot", "up", "leaving"}
    BY <1>0, <1>15 DEF Discover, At, Active, EndPoll, TypeInv
  <2>2. 0 \in Stages
    BY DEF Stages
  <2>3. run' = NoRun \/ (run' \in Run /\ run'.session = run.session
                         /\ run'.at \in {"check", "finish"})
    <3>1. CASE run' = [run EXCEPT !.at = "finish"]
      BY <1>0, <2>1, <3>1, AtRun DEF Run
    <3>2. ASSUME NEW n \in 1..MaxFrontiers, run' = Enter([run EXCEPT !.left = n], 0)
          PROVE  run' \in Run /\ run'.session = run.session /\ run'.at \in {"check", "finish"}
      <4>1. [run EXCEPT !.left = n] \in Run /\ [run EXCEPT !.left = n].session = run.session
        BY <1>0, <2>1, AtRun DEF Run
      <4>2. QED
        BY <2>2, <3>2, <4>1, EnterType
    <3>3. QED
      BY <1>15, <3>1, <3>2 DEF Discover, EndPoll
  <2>4. QED
    BY <2>1, <2>3, RunMoves DEF Writing
<1>16. CASE Guard
  <2> DEFINE G(a, b) == /\ At(a)
                        /\ run' = [run EXCEPT !.at = b,
                               !.ok = MayWrite(a \in {"finish", "catch"}, row[S].status)]
  <2>1. G("check", "mark") \/ G("recheck", "save") \/ G("finish", "complete") \/ G("catch", "fail")
    <3>1. PICK p \in {<<"check", "mark">>, <<"recheck", "save">>, <<"finish", "complete">>,
                      <<"catch", "fail">>} : G(p[1], p[2])
      BY <1>16 DEF Guard
    <3>2. CASE p = <<"check", "mark">>
      BY <3>1, <3>2
    <3>3. CASE p = <<"recheck", "save">>
      BY <3>1, <3>3
    <3>4. CASE p = <<"finish", "complete">>
      BY <3>1, <3>4
    <3>5. CASE p = <<"catch", "fail">>
      BY <3>1, <3>5
    <3>6. QED
      BY <3>2, <3>3, <3>4, <3>5
  <2>2. Active /\ UNCHANGED <<row, proc, cancelling, raced>>
    BY <1>16 DEF Guard, At, Active
  <2>3. run \in Run /\ StageInHand
    BY <1>0, <2>2, AtRun DEF CInv
  <2>4. PICK a \in {"mark", "save", "complete", "fail"} :
            \E ok \in BOOLEAN :
                /\ run' = [run EXCEPT !.at = a, !.ok = ok]
                /\ ok => row[run.session].status # "cancelled"
                /\ a = "save" => run.at = "recheck"
    BY <2>1 DEF MayWrite, Terminal, S, At
  <2>5. run' \in Run /\ run'.session = run.session /\ run'.stage = run.stage /\ run'.at = a
        /\ (run'.ok => row[run'.session].status # "cancelled")
    BY <2>3, <2>4 DEF Run
  <2>6. run'.at \in {"last", "recheck", "save"} => run'.stage \in Artifacts
    BY <2>2, <2>3, <2>4, <2>5 DEF StageInHand
  <2>7. QED
    BY <1>0, <2>2, <2>5, <2>6, RunMoves DEF TypeInv
<1>17. CASE Mark
  <2> DEFINE new == [row[S] EXCEPT !.status = StageStatus[run.stage]]
  <2>1. Active /\ run.at = "mark" /\ WriteIfOk(new) /\ UNCHANGED <<proc, cancelling, raced>>
    BY <1>17 DEF Mark, At, Active
  <2>2. run \in Run /\ run.stage \in Stages /\ row[S] \in Row
    BY <1>0, <2>1, AtRun DEF S
  <2>3. new \in Row /\ new.status \in Running
    BY <2>2, StatusFacts DEF Row
  <2>4. run' \in Run /\ run'.session = run.session /\ run'.at \in {"check", "work"}
    <3>1. [run EXCEPT !.at = "work"] \in Run /\ 1 \in Stages
      BY <2>2 DEF Run, Stages
    <3>2. QED
      BY <1>17, <2>2, <3>1, EnterType DEF Mark, Run
  <2>5. QED
    BY <1>0, <2>1, <2>3, <2>4, StatusFacts, RunWrites DEF TypeInv, Writing
<1>18. CASE Save
  <2> DEFINE new == [row[S] EXCEPT !.status = StageStatus[run.stage],
                                   !.arts = @ \cup {run.stage}]
  <2>1. Active /\ run.at = "save" /\ WriteIfOk(new) /\ UNCHANGED <<proc, cancelling, raced>>
    BY <1>18 DEF Save, At, Active
  <2>2. run \in Run /\ run.stage \in Stages /\ row[S] \in Row
    BY <1>0, <2>1, AtRun DEF S
  <2>3. run.stage \in Artifacts
    BY <2>1 DEF CInv, StageInHand
  <2>4. new \in Row /\ new.status \in Running
    BY <2>2, <2>3, StatusFacts DEF Row
  <2>5. run' \in Run /\ run'.session = run.session /\ run'.at \in {"check", "cross"}
    <3> DEFINE r == [run EXCEPT !.have = @ \cup {run.stage}]
    <3>1. r \in Run /\ r.session = run.session /\ run.stage + 1 \in Stages
      BY <2>2, <2>3 DEF Run, Artifacts, Stages
    <3>2. run' = [r EXCEPT !.at = "cross"] \/ run' = Enter(r, run.stage + 1)
      BY <1>18 DEF Save
    <3>3. CASE run' = [r EXCEPT !.at = "cross"]
      BY <3>1, <3>3 DEF Run
    <3>4. QED
      BY <3>1, <3>2, <3>3, EnterType
  <2>6. QED
    BY <1>0, <2>1, <2>4, <2>5, StatusFacts, RunWrites DEF TypeInv, Writing
<1>19. CASE Complete
  <2> DEFINE new == [row[S] EXCEPT !.status = "completed"]
  <2>1. Active /\ run.at = "complete" /\ WriteIfOk(new) /\ UNCHANGED <<cancelling, raced>>
        /\ proc' \in {"down", "boot", "up", "leaving"}
    BY <1>0, <1>19 DEF Complete, At, Active, EndPoll, TypeInv
  <2>2. run \in Run /\ row[S] \in Row
    BY <1>0, <2>1, AtRun DEF S
  <2>3. new \in Row /\ new.status = "completed"
    BY <2>2, StatusFacts DEF Row, Status, Terminal
  <2>4. \/ run' = NoRun
        \/ run' \in Run /\ run'.session = run.session /\ run'.at = "check"
    <3> DEFINE r == [run EXCEPT !.left = @ - 1, !.have = {}]
    <3>1. CASE run.left > 1 /\ ~Aborted
      <4>1. run.left \in 1..MaxFrontiers /\ MaxFrontiers \in Nat /\ 0 \in Stages
        BY <2>2, SigeAssumption DEF Run, Stages
      <4>2. run.left - 1 \in 1..MaxFrontiers
        BY <3>1, <4>1
      <4>3. r \in Run /\ r.session = run.session
        BY <2>2, <4>2 DEF Run
      <4>4. run' = Enter(r, 0)
        BY <1>19, <3>1 DEF Complete
      <4>5. QED
        BY <4>1, <4>2, <4>3, <4>4, EnterType
    <3>2. CASE ~(run.left > 1 /\ ~Aborted)
      BY <1>19, <3>2 DEF Complete, EndPoll
    <3>3. QED
      BY <3>1, <3>2
  <2>5. QED
    BY <2>1, <2>3, <2>4, RunWrites DEF Writing
<1>20. CASE Fail
  <2> DEFINE new == [row[S] EXCEPT !.status = "failed"]
  <2>1. Active /\ run.at = "fail" /\ WriteIfOk(new) /\ UNCHANGED <<cancelling, raced>>
        /\ proc' \in {"down", "boot", "up", "leaving"} /\ run' = NoRun
    BY <1>0, <1>20 DEF Fail, At, Active, EndPoll, TypeInv
  <2>2. new \in Row /\ new.status = "failed"
    BY <1>0, <2>1, AtRun, StatusFacts DEF S, Row, Status, Terminal
  <2>3. QED
    BY <2>1, <2>2, RunWrites DEF Writing
<1>21. CASE Synthesize
  <2> DEFINE new == [row[S] EXCEPT !.ctx = TRUE]
  <2>1. Active /\ run.at = "work" /\ row' = [row EXCEPT ![S] = new]
        /\ UNCHANGED <<proc, cancelling, raced>>
    BY <1>21 DEF Synthesize, At, Active
  <2>2. run \in Run /\ S \in Sessions /\ S \in Created /\ row[S] \in Row
    BY <1>0, <2>1, AtRun DEF S, CInv, InHand
  <2>3. new \in Row /\ new.status = row[S].status /\ new.status # "none"
    BY <2>2 DEF Row, Created, In
  <2>4. Created' = Created /\ row' \in [Sessions -> Row]
    BY <1>0, <2>1, <2>2, <2>3, CreatedKept
  <2>5. \A t \in Sessions : row'[t].status = row[t].status
    BY <1>0, <2>1, <2>2, <2>3 DEF TypeInv
  <2>6. run' \in Run /\ run'.session = run.session /\ run'.at = "check"
    <3>1. run' = Enter(run, 1) /\ 1 \in Stages
      BY <1>21 DEF Synthesize, Stages
    <3>2. QED
      BY <2>2, <3>1, EnterType
  <2>7. TypeInv' /\ IdsInOrder' /\ InHand' /\ StageInHand' /\ GuardHolds'
    BY <1>0, <2>1, <2>2, <2>4, <2>6
       DEF CInv, TypeInv, IdsInOrder, InHand, StageInHand, GuardHolds, WriteInFlight, S
  <2>8. CancelStep
    BY <2>5 DEF CancelStep
  <2>9. QED
    BY <2>7, <2>8 DEF StepHolds, CInv
<1>22. CASE PlayGame \/ LastRound
  <2>1. PICK a \in {"last", "recheck"} : run' = [run EXCEPT !.at = a]
    BY <1>22 DEF PlayGame, LastRound
  <2>2. Active /\ run.stage \in Artifacts /\ UNCHANGED <<row, proc, cancelling, raced>>
    BY <1>0, <1>22 DEF PlayGame, LastRound, At, Active, Artifacts, CInv, StageInHand
  <2>3. run' \in Run /\ run'.session = run.session /\ run'.at = a /\ run'.stage = run.stage
    BY <1>0, <2>1, <2>2, AtRun DEF Run
  <2>4. QED
    BY <1>0, <2>2, <2>3, RunMoves DEF TypeInv, Writing
<1>23. CASE Score
  <2>1. Active /\ run.stage \in Artifacts /\ run' = [run EXCEPT !.at = "recheck"]
        /\ UNCHANGED <<row, proc, cancelling, raced>>
    BY <1>23 DEF Score, At, Active, Artifacts
  <2>2. run' \in Run /\ run'.session = run.session /\ run'.at = "recheck"
        /\ run'.stage = run.stage
    BY <1>0, <2>1, AtRun DEF Run
  <2>3. QED
    BY <1>0, <2>1, <2>2, RunMoves DEF TypeInv, Writing
<1>24. CASE Report
  <2>1. Active /\ run' = [run EXCEPT !.at = "finish"] /\ UNCHANGED <<row, proc, cancelling, raced>>
    BY <1>24 DEF Report, At, Active
  <2>2. run' \in Run /\ run'.session = run.session /\ run'.at = "finish"
    BY <1>0, <2>1, AtRun DEF Run
  <2>3. QED
    BY <1>0, <2>1, <2>2, RunMoves DEF TypeInv, Writing
<1>25. ASSUME NEW done \in BOOLEAN, CrossWrite(done) PROVE StepHolds
  <2>1. Active /\ run' = Enter(run, 5) /\ UNCHANGED <<row, proc, cancelling, raced>>
    BY <1>25 DEF CrossWrite, At, Active
  <2>2. run' \in Run /\ run'.session = run.session /\ run'.at = "check"
    <3>1. run \in Run /\ 5 \in Stages
      BY <1>0, <2>1, AtRun DEF Stages
    <3>2. QED
      BY <2>1, <3>1, EnterType
  <2>3. QED
    BY <1>0, <2>1, <2>2, RunMoves DEF TypeInv, Writing
<1>26. CASE GameAborts
  <2>1. Active /\ run' = [run EXCEPT !.at = "catch"] /\ UNCHANGED <<row, proc, cancelling, raced>>
    BY <1>26 DEF GameAborts, At, Active
  <2>2. run' \in Run /\ run'.session = run.session /\ run'.at = "catch"
    BY <1>0, <2>1, AtRun DEF Run
  <2>3. QED
    BY <1>0, <2>1, <2>2, RunMoves DEF TypeInv, Writing
<1>27. CASE Throw
  <2>1. UNCHANGED <<row, cancelling, raced>> /\ proc' \in {"down", "boot", "up", "leaving"}
    BY <1>0, <1>27 DEF Throw, EndPoll, TypeInv
  <2>2. CASE run' = NoRun
    BY <2>1, <2>2, RunMoves
  <2>3. CASE run' # NoRun
    <3>1. Active /\ run' = [run EXCEPT !.at = "catch"]
      BY <1>27, <2>3 DEF Throw, EndPoll, Active
    <3>2. run' \in Run /\ run'.session = run.session /\ run'.at = "catch"
      BY <1>0, <3>1, AtRun DEF Run
    <3>3. QED
      BY <2>1, <3>1, <3>2, RunMoves DEF Writing
  <2>4. QED
    BY <2>2, <2>3
<1>28. ASSUME Abort, run # NoRun, run.at # "interrupted", UNCHANGED <<row, proc, cancelling, raced>>
       PROVE  StepHolds
  <2>1. Active /\ run \in Run
    BY <1>0, <1>28, AtRun DEF Active
  <2>2. run' \in Run /\ run'.session = run.session /\ run'.at = run.at
        /\ run'.ok = run.ok /\ run'.stage = run.stage
    BY <1>28, <2>1 DEF Abort, Run
  <2>3. run'.at \in {"last", "recheck", "save"} => run'.stage \in Artifacts
    BY <2>1, <2>2 DEF CInv, StageInHand
  <2>4. QED
    BY <1>0, <1>28, <2>1, <2>2, <2>3, RunMoves DEF TypeInv, Active
<1>29. CASE Watch \/ TimeOut
  BY <1>28, <1>29 DEF Watch, TimeOut
<1>30. QED
  BY <1>1, <1>2, <1>3, <1>4, <1>5, <1>6, <1>7, <1>8, <1>9, <1>10, <1>11, <1>12, <1>13,
     <1>14, <1>15, <1>16, <1>17, <1>18, <1>19, <1>20, <1>21, <1>22, <1>23, <1>24, <1>25,
     <1>26, <1>27, <1>29 DEF Next

-----------------------------------------------------------------------------
(* The theorems *)

LEMMA CInvHolds == Spec => []CInv
<1>1. Init => CInv
  BY SigeInit
<1>2. CInv /\ [Next]_vars => CInv'
  BY SigeStep DEF StepHolds
<1>3. QED
  BY <1>1, <1>2, PTL DEF Spec

\* A cancelled session stays cancelled, whatever the run that is still unwinding
\* writes, unless it was cancelled between the guard's read and the write it
\* allows (updateSessionStatus).
CancelledIsFinal == [][CancelStep]_vars

\* For any number of sessions, games, cancel requests and failures.
THEOREM CancellationStands == Spec => CancelledIsFinal
<1>1. CInv /\ [Next]_vars => [CancelStep]_vars
  BY SigeStep DEF StepHolds
<1>2. QED
  BY <1>1, CInvHolds, PTL DEF Spec, CancelledIsFinal

-----------------------------------------------------------------------------
(* The place of a run *)

\* Where a run is: the stages before its own have left their artifacts, its own
\* has not, and a cross-write follows the scores.
Placed(r) ==
    /\ \A j \in Artifacts : j < r.stage => j \in r.have
    /\ r.at \in {"check", "mark", "work", "last", "recheck", "save"} => r.stage \notin r.have
    /\ r.at \in {"recheck", "save"} => r.stage \in Artifacts
    /\ r.at = "last" => r.stage = 2
    /\ r.at = "cross" => r.stage = 4 /\ 4 \in r.have
    /\ r.at \in {"load", "discover"} => r.stage = 0
    /\ r.at \in {"finish", "complete"} => r.stage \in {0, 5}

\* A run that was aborted early is still aborted, and its expert game has still to
\* look at the signal.
Barred(r) ==
    r.early => /\ r.aborted /\ 2 \notin r.have
               /\ ~(r.stage = 2 /\ r.at \in {"last", "recheck", "save"})

RunInv == Active => Placed(run) /\ Barred(run)

\* The stage that a run enters is the first one without an artifact.
LEMMA EnterPlaced ==
    ASSUME NEW r \in Run, NEW k \in Stages, \A j \in Artifacts : j < k => j \in r.have,
           r.early => r.aborted /\ 2 \notin r.have
    PROVE  /\ Enter(r, k) \in Run /\ Placed(Enter(r, k)) /\ Barred(Enter(r, k))
           /\ Enter(r, k).at = "check" /\ Enter(r, k).session = r.session
           /\ Enter(r, k).have = r.have /\ Enter(r, k).fresh = r.fresh
           /\ Enter(r, k).left = r.left
           /\ Enter(r, k).stage >= k
           /\ Enter(r, k).stage > 0 => k > 0 \/ r.have # {}
<1> DEFINE todo == {j \in k..5 : ~Skips(r, j)}
           m == CHOOSE j \in todo : \A i \in todo : j <= i
           e == [r EXCEPT !.at = "check", !.stage = m]
<1>1. k \in 0..5 /\ r.have \subseteq Artifacts
  BY DEF Run, Stages
<1>2. todo \in SUBSET Nat /\ 5 \in todo
  BY <1>1 DEF Skips, Artifacts
<1>3. \E j \in todo : \A i \in todo : j <= i
  BY <1>2, LeastNat
<1>4. m \in todo /\ \A i \in todo : m <= i
  BY <1>3
<1>5. Enter(r, k) = e
  BY DEF Enter
<1>6. m \in k..5 /\ ~Skips(r, m) /\ \A i \in k..5 : i < m => Skips(r, i)
  <2>1. m \in k..5 /\ ~Skips(r, m)
    BY <1>4
  <2>2. ASSUME NEW i \in k..5, i < m PROVE Skips(r, i)
    <3>1. i \notin todo
      BY <1>1, <1>4, <2>1, <2>2
    <3>2. QED
      BY <3>1
  <2>3. QED
    BY <2>1, <2>2
<1> HIDE DEF m
<1>7. m \in Stages /\ m >= k /\ m \notin r.have
  BY <1>1, <1>6 DEF Stages, Skips
<1>8. e \in Run
  BY <1>7 DEF Run
<1>9. /\ e.at = "check" /\ e.stage = m /\ e.session = r.session /\ e.have = r.have
      /\ e.fresh = r.fresh /\ e.left = r.left /\ e.early = r.early /\ e.aborted = r.aborted
  BY DEF Run
<1> HIDE DEF e
<1>10. \A j \in Artifacts : j < m => j \in r.have
  <2> TAKE j \in Artifacts
  <2>1. j \in 1..4
    BY DEF Artifacts
  <2>2. CASE j < k
    BY <2>2
  <2>3. CASE j >= k /\ j < m
    <3>1. Skips(r, j)
      BY <1>1, <1>6, <2>1, <2>3
    <3>2. QED
      BY <2>1, <3>1 DEF Skips
  <2>4. QED
    BY <1>1, <2>1, <2>2, <2>3
<1>11. m > 0 => k > 0 \/ r.have # {}
  <2>1. ASSUME m > 0, k = 0 PROVE r.have # {}
    <3>1. Skips(r, 0)
      BY <1>1, <1>6, <2>1
    <3>2. QED
      BY <3>1 DEF Skips
  <2>2. QED
    BY <1>1, <2>1
<1>12. Placed(e)
  BY <1>7, <1>9, <1>10 DEF Placed
<1>13. Barred(e)
  BY <1>9 DEF Barred
<1>14. QED
  BY <1>5, <1>7, <1>8, <1>9, <1>11, <1>12, <1>13

\* A run that keeps what it has, its stage and its abort.
LEMMA PlaceKept ==
    ASSUME NEW r \in Run, NEW q \in Run, Placed(r), Barred(r),
           q.stage = r.stage, q.have = r.have, q.aborted = r.aborted, q.early = r.early,
           q.at \in {"mark", "work", "last", "save", "complete", "catch", "fail", "finish",
                     "recheck"},
           q.at \in {"mark", "work"} => r.at \in {"check", "mark"},
           q.at = "save" => r.at = "recheck",
           q.at = "complete" => r.at = "finish",
           q.at = "finish" => r.at = "discover" \/ r.stage = 5,
           q.at = "last" => r.at = "work" /\ r.stage = 2 /\ ~r.early,
           q.at = "recheck" => /\ r.at \in {"work", "last"} /\ r.stage \in Artifacts
                               /\ ~(r.early /\ r.stage = 2)
    PROVE  Placed(q) /\ Barred(q)
<1>1. Placed(q)
  BY DEF Placed
<1>2. Barred(q)
  BY DEF Barred
<1>3. QED
  BY <1>1, <1>2

\* What the fields of a changed run are.
LEMMA RunChanged ==
    ASSUME NEW r \in Run
    PROVE  /\ \A a \in {"mark", "work", "last", "recheck", "save", "cross", "finish", "complete",
                        "catch", "fail", "discover"} :
                  /\ [r EXCEPT !.at = a] \in Run
                  /\ [r EXCEPT !.at = a].at = a /\ [r EXCEPT !.at = a].stage = r.stage
                  /\ [r EXCEPT !.at = a].have = r.have /\ [r EXCEPT !.at = a].early = r.early
                  /\ [r EXCEPT !.at = a].aborted = r.aborted
                  /\ [r EXCEPT !.at = a].session = r.session
                  /\ [r EXCEPT !.at = a].fresh = r.fresh /\ [r EXCEPT !.at = a].ok = r.ok
                  /\ [r EXCEPT !.at = a].left = r.left
           /\ LET q == [r EXCEPT !.fresh = TRUE] IN
                  /\ q \in Run /\ q.at = r.at /\ q.stage = r.stage /\ q.have = r.have
                  /\ q.early = r.early /\ q.aborted = r.aborted /\ q.session = r.session
                  /\ q.fresh = TRUE /\ q.ok = r.ok /\ q.left = r.left
  BY DEF Run

\* The steps of the run of a session.
LEMMA LoadPlaced ==
    ASSUME TypeInv, RunInv, LoadContext
    PROVE  /\ Active /\ run.at = "load"
           /\ run' \in Run /\ Placed(run') /\ Barred(run')
           /\ run'.at \in {"check", "discover"}
           /\ run'.session = run.session /\ run'.have = run.have
           /\ row[run.session].ctx \/ (run'.fresh /\ (run'.stage > 0 => run.have # {}))
           /\ run'.at = "discover" => /\ ~row[run.session].ctx
                                     /\ run'.fresh /\ run'.stage = 0
<1>1. Active /\ run.at = "load"
  BY DEF LoadContext, At, Active
<1>2. run \in Run /\ Placed(run) /\ Barred(run) /\ 0 \in Stages
  BY <1>1, AtRun DEF RunInv, Stages
<1>3. \A j \in Artifacts : ~(j < 0)
  BY DEF Artifacts
<1>4. run.early => run.aborted /\ 2 \notin run.have
  BY <1>2 DEF Barred
<1> DEFINE q == [run EXCEPT !.fresh = TRUE]
<1>5. /\ q \in Run /\ q.at = run.at /\ q.stage = run.stage /\ q.have = run.have
      /\ q.early = run.early /\ q.aborted = run.aborted
      /\ q.session = run.session /\ q.fresh = TRUE
  BY <1>2, RunChanged
<1>6. \/ row[run.session].ctx /\ run' = Enter(run, 0)
      \/ ~row[run.session].ctx /\ run' = Enter(q, 0)
      \/ ~row[run.session].ctx /\ run' = [q EXCEPT !.at = "discover"]
  BY <1>2 DEF LoadContext, Run, S
<1> HIDE DEF q
<1>7. CASE row[run.session].ctx /\ run' = Enter(run, 0)
  BY <1>1, <1>2, <1>3, <1>4, <1>7, EnterPlaced
<1>8. CASE run' = Enter(q, 0)
  <2>1. /\ run' \in Run /\ Placed(run') /\ Barred(run') /\ run'.at = "check"
        /\ run'.session = q.session /\ run'.have = q.have /\ run'.fresh = TRUE
        /\ run'.stage > 0 => q.have # {}
    BY <1>2, <1>3, <1>4, <1>5, <1>8, EnterPlaced
  <2>2. QED
    BY <1>1, <1>5, <2>1
<1>9. CASE ~row[run.session].ctx /\ run' = [q EXCEPT !.at = "discover"]
  <2>1. /\ run' \in Run /\ run'.at = "discover" /\ run'.stage = run.stage
        /\ run'.have = run.have /\ run'.early = run.early /\ run'.aborted = run.aborted
        /\ run'.session = run.session /\ run'.fresh = TRUE
    BY <1>5, <1>9 DEF Run
  <2>2. run.stage = 0
    BY <1>1, <1>2 DEF Placed
  <2>3. QED
    BY <1>1, <1>3, <1>4, <1>9, <2>1, <2>2 DEF Placed, Barred
<1>10. QED
  BY <1>6, <1>7, <1>8, <1>9

LEMMA DiscoverPlaced ==
    ASSUME TypeInv, RunInv, Discover
    PROVE  /\ Active /\ run.at = "discover"
           /\ \/ run' = NoRun
              \/ /\ run' \in Run /\ Placed(run') /\ Barred(run')
                 /\ run'.session = run.session /\ run'.have = run.have
                 /\ run'.fresh = run.fresh
                 /\ \/ run'.at = "finish" /\ run'.stage = run.stage
                    \/ run'.at = "check" /\ (run'.stage > 0 => run.have # {})
<1>1. Active /\ run.at = "discover"
  BY DEF Discover, At, Active
<1>2. run \in Run /\ Placed(run) /\ Barred(run) /\ 0 \in Stages
  BY <1>1, AtRun DEF RunInv, Stages
<1>3. \A j \in Artifacts : ~(j < 0)
  BY DEF Artifacts
<1>4. run.early => run.aborted /\ 2 \notin run.have
  BY <1>2 DEF Barred
<1>5. CASE run' = [run EXCEPT !.at = "finish"]
  <2>1. /\ run' \in Run /\ run'.at = "finish" /\ run'.stage = run.stage
        /\ run'.have = run.have /\ run'.early = run.early /\ run'.aborted = run.aborted
        /\ run'.session = run.session /\ run'.fresh = run.fresh
    BY <1>2, <1>5, RunChanged
  <2>2. Placed(run') /\ Barred(run')
    BY <1>1, <1>2, <2>1, PlaceKept
  <2>3. QED
    BY <1>1, <2>1, <2>2
<1>6. ASSUME NEW n \in 1..MaxFrontiers, run' = Enter([run EXCEPT !.left = n], 0)
      PROVE  /\ run' \in Run /\ Placed(run') /\ Barred(run')
             /\ run'.session = run.session /\ run'.have = run.have
             /\ run'.fresh = run.fresh
             /\ run'.at = "check" /\ (run'.stage > 0 => run.have # {})
  <2> DEFINE q == [run EXCEPT !.left = n]
  <2>1. /\ q \in Run /\ q.have = run.have /\ q.early = run.early
        /\ q.aborted = run.aborted /\ q.session = run.session /\ q.fresh = run.fresh
    BY <1>2 DEF Run
  <2> HIDE DEF q
  <2>2. run' = Enter(q, 0)
    BY <1>6 DEF q
  <2>3. /\ run' \in Run /\ Placed(run') /\ Barred(run') /\ run'.at = "check"
        /\ run'.session = q.session /\ run'.have = q.have /\ run'.fresh = q.fresh
        /\ run'.stage > 0 => q.have # {}
    BY <1>2, <1>3, <1>4, <2>1, <2>2, EnterPlaced
  <2>4. QED
    BY <2>1, <2>3
<1>7. QED
  BY <1>1, <1>5, <1>6 DEF Discover, EndPoll

\* The guard's verdict is that of its two cases.
Reads(a, b, terminal) ==
    /\ run.at = a /\ run'.at = b
    /\ run'.ok = MayWrite(terminal, row[run.session].status)

LEMMA GuardPlaced ==
    ASSUME TypeInv, RunInv, Guard
    PROVE  /\ Active /\ run' \in Run /\ Placed(run') /\ Barred(run')
           /\ run'.session = run.session /\ run'.have = run.have /\ run'.stage = run.stage
           /\ run'.fresh = run.fresh
           /\ \/ Reads("check", "mark", FALSE) \/ Reads("recheck", "save", FALSE)
              \/ Reads("finish", "complete", TRUE) \/ Reads("catch", "fail", TRUE)
<1>1. Active
  BY DEF Guard, At, Active
<1>2. run \in Run /\ Placed(run) /\ Barred(run)
  BY <1>1, AtRun DEF RunInv
<1>3. ASSUME NEW a, NEW b, NEW terminal \in BOOLEAN, run.at = a,
             b \in {"mark", "save", "complete", "fail"},
             b = "mark" => a = "check", b = "save" => a = "recheck",
             b = "complete" => a = "finish",
             run' = [run EXCEPT !.at = b, !.ok = MayWrite(terminal, row[run.session].status)]
      PROVE  /\ run' \in Run /\ Placed(run') /\ Barred(run')
             /\ run'.session = run.session /\ run'.have = run.have /\ run'.stage = run.stage
             /\ run'.fresh = run.fresh
             /\ Reads(a, b, terminal)
  <2>1. PICK ok \in BOOLEAN : ok = MayWrite(terminal, row[run.session].status)
    BY DEF MayWrite
  <2>2. run' = [run EXCEPT !.at = b, !.ok = ok]
    BY <1>3, <2>1
  <2>3. /\ run' \in Run /\ Placed(run') /\ Barred(run') /\ run'.at = b /\ run'.ok = ok
        /\ run'.session = run.session /\ run'.have = run.have /\ run'.stage = run.stage
        /\ run'.fresh = run.fresh
    <3>1. /\ b = "mark" => run.at = "check"
          /\ b = "save" => run.at = "recheck"
          /\ b = "complete" => run.at = "finish"
      BY <1>3
    <3>2. b \in {"mark", "save", "complete", "fail"}
      BY <1>3
    <3>3. /\ run' \in Run /\ run'.at = b /\ run'.ok = ok /\ run'.stage = run.stage
          /\ run'.have = run.have /\ run'.early = run.early /\ run'.aborted = run.aborted
          /\ run'.session = run.session /\ run'.fresh = run.fresh
      BY <1>2, <2>1, <2>2, <3>2 DEF Run
    <3>4. Placed(run') /\ Barred(run')
      BY <1>2, <3>1, <3>2, <3>3, PlaceKept
    <3>5. QED
      BY <3>3, <3>4
  <2>4. Reads(a, b, terminal)
    BY <1>3, <2>1, <2>3 DEF Reads
  <2>5. QED
    BY <2>3, <2>4
<1>4. PICK p \in {<<"check", "mark">>, <<"recheck", "save">>, <<"finish", "complete">>,
                  <<"catch", "fail">>} :
          /\ At(p[1])
          /\ run' = [run EXCEPT !.at = p[2],
                     !.ok = MayWrite(p[1] \in {"finish", "catch"}, row[S].status)]
  BY DEF Guard
<1>5. CASE p = <<"check", "mark">>
  <2>1. /\ run.at = "check"
        /\ run' = [run EXCEPT !.at = "mark", !.ok = MayWrite(FALSE, row[run.session].status)]
    BY <1>4, <1>5 DEF At, S, MayWrite, Terminal
  <2>2. QED
    BY <1>1, <1>3, <2>1, Zenon
<1>6. CASE p = <<"recheck", "save">>
  <2>1. /\ run.at = "recheck"
        /\ run' = [run EXCEPT !.at = "save", !.ok = MayWrite(FALSE, row[run.session].status)]
    BY <1>4, <1>6 DEF At, S, MayWrite, Terminal
  <2>2. QED
    BY <1>1, <1>3, <2>1, Zenon
<1>7. CASE p = <<"finish", "complete">>
  <2>1. /\ run.at = "finish"
        /\ run' = [run EXCEPT !.at = "complete", !.ok = MayWrite(TRUE, row[run.session].status)]
    BY <1>4, <1>7 DEF At, S, MayWrite, Terminal
  <2>2. QED
    BY <1>1, <1>3, <2>1, Zenon
<1>8. CASE p = <<"catch", "fail">>
  <2>1. /\ run.at = "catch"
        /\ run' = [run EXCEPT !.at = "fail", !.ok = MayWrite(TRUE, row[run.session].status)]
    BY <1>4, <1>8 DEF At, S, MayWrite, Terminal
  <2>2. Reads("catch", "fail", TRUE) /\ run' \in Run /\ Placed(run') /\ Barred(run')
        /\ run'.session = run.session /\ run'.have = run.have /\ run'.stage = run.stage
        /\ run'.fresh = run.fresh
    <3>1. "fail" # "mark" /\ "fail" # "save" /\ "fail" # "complete"
      OBVIOUS
    <3>2. QED
      BY <1>3, <2>1, <3>1, ZenonT(60)
  <2>3. QED
    BY <1>1, <2>2
<1>9. QED
  BY <1>4, <1>5, <1>6, <1>7, <1>8

\* Stage 0, or the stage after r's.
LEMMA SavePlaced ==
    ASSUME TypeInv, RunInv, Save
    PROVE  /\ Active /\ run.at = "save" /\ run.stage \in Artifacts
           /\ run' \in Run /\ Placed(run') /\ Barred(run')
           /\ run'.session = run.session /\ run'.have = run.have \cup {run.stage}
           /\ run'.fresh = run.fresh /\ run'.at \in {"check", "cross"}
           /\ run'.stage >= 1 /\ (run'.at = "cross" <=> run.stage = 4)
<1>1. Active /\ run.at = "save"
  BY DEF Save, At, Active
<1>2. run \in Run /\ Placed(run) /\ Barred(run)
  BY <1>1, AtRun DEF RunInv
<1> DEFINE r == [run EXCEPT !.have = @ \cup {run.stage}]
<1>3. run.stage \in Artifacts
  BY <1>1, <1>2 DEF Placed
<1>4. /\ r \in Run /\ r.have = run.have \cup {run.stage} /\ r.stage = run.stage
      /\ r.early = run.early /\ r.aborted = run.aborted /\ r.session = run.session
      /\ r.fresh = run.fresh /\ r.at = run.at
  BY <1>2, <1>3 DEF Run
<1>5. run' = IF run.stage = 4 THEN [r EXCEPT !.at = "cross"] ELSE Enter(r, run.stage + 1)
  BY DEF Save
<1> HIDE DEF r
<1>6. run.early => run.aborted /\ 2 \notin run.have /\ run.stage # 2
  BY <1>1, <1>2 DEF Barred
<1>7. \A j \in Artifacts : j < run.stage => j \in run.have
  BY <1>2 DEF Placed
<1>8. CASE run.stage = 4
  <2>1. /\ run' \in Run /\ run'.at = "cross" /\ run'.stage = 4 /\ run'.have = r.have
        /\ run'.early = run.early /\ run'.aborted = run.aborted
        /\ run'.session = run.session /\ run'.fresh = run.fresh
    BY <1>4, <1>5, <1>8, RunChanged
  <2>2. Placed(run')
    BY <1>4, <1>7, <1>8, <2>1 DEF Placed
  <2>3. Barred(run')
    BY <1>4, <1>6, <2>1, <1>8 DEF Barred
  <2>4. QED
    BY <1>1, <1>3, <1>4, <1>8, <2>1, <2>2, <2>3
<1>9. CASE run.stage # 4
  <2>1. run.stage + 1 \in Stages /\ run.stage + 1 >= 1 /\ run.stage \in 1..3
    BY <1>3, <1>9 DEF Artifacts, Stages
  <2>2. \A j \in Artifacts : j < run.stage + 1 => j \in r.have
    BY <1>4, <1>7, <2>1 DEF Artifacts
  <2>3. r.early => r.aborted /\ 2 \notin r.have
    BY <1>4, <1>6
  <2>4. /\ run' \in Run /\ Placed(run') /\ Barred(run') /\ run'.at = "check"
        /\ run'.session = r.session /\ run'.have = r.have /\ run'.fresh = r.fresh
        /\ run'.stage >= run.stage + 1
    BY <1>4, <1>5, <1>9, <2>1, <2>2, <2>3, EnterPlaced
  <2>5. run'.stage >= 1
    BY <2>1, <2>4 DEF Run, Stages
  <2>6. QED
    BY <1>1, <1>3, <1>4, <1>9, <2>4, <2>5
<1>10. QED
  BY <1>8, <1>9

LEMMA MarkPlaced ==
    ASSUME TypeInv, RunInv, Mark
    PROVE  /\ Active /\ run.at = "mark"
           /\ run' \in Run /\ Placed(run') /\ Barred(run')
           /\ run'.session = run.session /\ run'.have = run.have /\ run'.fresh = run.fresh
           /\ run'.at \in {"check", "work"}
           /\ \/ run'.stage = run.stage
              \/ run.stage = 0 /\ ~run.fresh
<1>1. Active /\ run.at = "mark"
  BY DEF Mark, At, Active
<1>2. run \in Run /\ Placed(run) /\ Barred(run) /\ 1 \in Stages
  BY <1>1, AtRun DEF RunInv, Stages
<1>3. \A j \in Artifacts : ~(j < 1)
  BY DEF Artifacts
<1>4. run.early => run.aborted /\ 2 \notin run.have
  BY <1>2 DEF Barred
<1>5. run' = IF run.stage = 0 /\ ~run.fresh THEN Enter(run, 1) ELSE [run EXCEPT !.at = "work"]
  BY DEF Mark
<1>6. CASE run.stage = 0 /\ ~run.fresh
  BY <1>1, <1>2, <1>3, <1>4, <1>5, <1>6, EnterPlaced
<1>7. CASE ~(run.stage = 0 /\ ~run.fresh)
  <2>1. /\ run' \in Run /\ run'.at = "work" /\ run'.stage = run.stage /\ run'.ok = run.ok
        /\ run'.have = run.have /\ run'.early = run.early /\ run'.aborted = run.aborted
        /\ run'.session = run.session /\ run'.fresh = run.fresh
    BY <1>2, <1>5, <1>7, RunChanged
  <2>2. Placed(run') /\ Barred(run')
    BY <1>1, <1>2, <2>1, PlaceKept
  <2>3. QED
    BY <1>1, <2>1, <2>2
<1>8. QED
  BY <1>6, <1>7

\* A step of the run that keeps its stage.
LEMMA MovePlaced ==
    ASSUME TypeInv, RunInv, Active, NEW a \in {"last", "recheck", "finish", "catch"},
           run' = [run EXCEPT !.at = a],
           a = "finish" => run.stage = 5,
           a = "last" => run.at = "work" /\ run.stage = 2 /\ ~run.early,
           a = "recheck" => /\ run.at \in {"work", "last"} /\ run.stage \in Artifacts
                            /\ ~(run.early /\ run.stage = 2)
    PROVE  /\ run' \in Run /\ Placed(run') /\ Barred(run') /\ run'.at = a
           /\ run'.session = run.session /\ run'.have = run.have
           /\ run'.stage = run.stage /\ run'.fresh = run.fresh
<1>1. run \in Run /\ Placed(run) /\ Barred(run)
  BY AtRun DEF RunInv
<1>2. /\ run' \in Run /\ run'.at = a /\ run'.stage = run.stage
      /\ run'.have = run.have /\ run'.early = run.early /\ run'.aborted = run.aborted
      /\ run'.session = run.session /\ run'.fresh = run.fresh
  BY <1>1 DEF Run
<1>3. Placed(run') /\ Barred(run')
  BY <1>1, <1>2, PlaceKept
<1>4. QED
  BY <1>2, <1>3

\* A run that was aborted early does not come to the stages that publish.
LEMMA EarlyStops ==
    ASSUME TypeInv, RunInv, Active, run.early
    PROVE  run.stage <= 2 /\ run.at # "cross" /\ run.aborted
<1>1. run \in Run /\ Placed(run) /\ Barred(run)
  BY AtRun DEF RunInv
<1>2. run.stage \in 0..5 /\ 2 \notin run.have /\ run.aborted
  BY <1>1 DEF Run, Stages, Barred
<1>3. ~(2 < run.stage)
  BY <1>1, <1>2 DEF Placed, Artifacts
<1>4. QED
  BY <1>1, <1>2, <1>3 DEF Placed

LEMMA SynthesizePlaced ==
    ASSUME TypeInv, RunInv, Synthesize
    PROVE  /\ Active /\ run.at = "work" /\ run.stage = 0
           /\ run' \in Run /\ Placed(run') /\ Barred(run') /\ run'.at = "check"
           /\ run'.session = run.session /\ run'.have = run.have /\ run'.fresh = run.fresh
<1>1. Active /\ run.at = "work" /\ run.stage = 0
  BY DEF Synthesize, At, Active
<1>2. run \in Run /\ Placed(run) /\ Barred(run) /\ 1 \in Stages
  BY <1>1, AtRun DEF RunInv, Stages
<1>3. \A j \in Artifacts : ~(j < 1)
  BY DEF Artifacts
<1>4. run.early => run.aborted /\ 2 \notin run.have
  BY <1>2 DEF Barred
<1>5. run' = Enter(run, 1)
  BY DEF Synthesize
<1>6. QED
  BY <1>1, <1>2, <1>3, <1>4, <1>5, EnterPlaced

\* An expert game that was aborted is not played on to its last round.
LEMMA PlayPlaced ==
    ASSUME TypeInv, RunInv, PlayGame \/ LastRound
    PROVE  /\ Active /\ run.at \in {"work", "last"} /\ run.stage \in {1, 2, 3}
           /\ run' \in Run /\ Placed(run') /\ Barred(run') /\ run'.at \in {"last", "recheck"}
           /\ run'.session = run.session /\ run'.have = run.have
           /\ run'.stage = run.stage /\ run'.fresh = run.fresh
<1>1. Active /\ run.at \in {"work", "last"}
  BY DEF PlayGame, LastRound, At, Active
<1>2. Placed(run) /\ Barred(run)
  BY <1>1 DEF RunInv
<1>3. run.stage \in {1, 2, 3} /\ run.stage \in Artifacts
  BY <1>2 DEF PlayGame, LastRound, At, Placed, Artifacts
<1>4. ~(run.early /\ run.stage = 2)
  BY <1>2 DEF PlayGame, LastRound, At, Barred, Aborted
<1>5. \/ run.at = "work" /\ run.stage = 2 /\ run' = [run EXCEPT !.at = "last"]
      \/ run' = [run EXCEPT !.at = "recheck"]
  BY DEF PlayGame, LastRound, At
<1>6. QED
  BY <1>1, <1>3, <1>4, <1>5, MovePlaced

LEMMA ScorePlaced ==
    ASSUME TypeInv, RunInv, Score
    PROVE  /\ Active /\ run.at = "work" /\ run.stage = 4
           /\ run' \in Run /\ Placed(run') /\ Barred(run') /\ run'.at = "recheck"
           /\ run'.session = run.session /\ run'.have = run.have
           /\ run'.stage = run.stage /\ run'.fresh = run.fresh
<1>1. Active /\ run.at = "work" /\ run.stage = 4
  BY DEF Score, At, Active
<1>2. run' = [run EXCEPT !.at = "recheck"] /\ run.stage \in Artifacts /\ run.stage # 2
  BY <1>1 DEF Score, Artifacts
<1>3. QED
  BY <1>1, <1>2, MovePlaced

LEMMA ReportPlaced ==
    ASSUME TypeInv, RunInv, Report
    PROVE  /\ Active /\ run.at = "work" /\ run.stage = 5
           /\ run' \in Run /\ Placed(run') /\ Barred(run') /\ run'.at = "finish"
           /\ run'.session = run.session /\ run'.have = run.have
           /\ run'.stage = run.stage /\ run'.fresh = run.fresh
<1>1. Active /\ run.at = "work" /\ run.stage = 5
  BY DEF Report, At, Active
<1>2. run' = [run EXCEPT !.at = "finish"]
  BY DEF Report
<1>3. QED
  BY <1>1, <1>2, MovePlaced

LEMMA CrossPlaced ==
    ASSUME TypeInv, RunInv, NEW done \in BOOLEAN, CrossWrite(done)
    PROVE  /\ Active /\ run.at = "cross" /\ 4 \in run.have
           /\ run' \in Run /\ Placed(run') /\ Barred(run') /\ run'.at = "check"
           /\ run'.session = run.session /\ run'.have = run.have /\ run'.fresh = run.fresh
           /\ run'.stage = 5
<1>1. Active /\ run.at = "cross"
  BY DEF CrossWrite, At, Active
<1>2. run \in Run /\ Placed(run) /\ Barred(run) /\ 5 \in Stages
  BY <1>1, AtRun DEF RunInv, Stages
<1>3. \A j \in Artifacts : j < 5 => j \in run.have
  <2>1. run.stage = 4 /\ 4 \in run.have
    BY <1>1, <1>2 DEF Placed
  <2>2. \A j \in Artifacts : j < 4 \/ j = 4
    BY DEF Artifacts
  <2>3. QED
    BY <1>2, <2>1, <2>2 DEF Placed
<1>4. run.early => run.aborted /\ 2 \notin run.have
  BY <1>2 DEF Barred
<1>5. run' = Enter(run, 5)
  BY DEF CrossWrite
<1>6. /\ run' \in Run /\ Placed(run') /\ Barred(run') /\ run'.at = "check"
      /\ run'.session = run.session /\ run'.have = run.have /\ run'.fresh = run.fresh
      /\ run'.stage >= 5
  BY <1>2, <1>3, <1>4, <1>5, EnterPlaced
<1>7. run'.stage = 5
  BY <1>6 DEF Run, Stages
<1>8. QED
  BY <1>1, <1>2, <1>6, <1>7 DEF Placed

\* After a game the session is over, or the next game begins.
LEMMA CompletePlaced ==
    ASSUME TypeInv, RunInv, Complete
    PROVE  /\ Active /\ run.at = "complete"
           /\ \/ run' = NoRun
              \/ /\ run' \in Run /\ Placed(run') /\ Barred(run') /\ run'.at = "check"
                 /\ run'.session = run.session /\ run.left > 1
<1>1. Active /\ run.at = "complete"
  BY DEF Complete, At, Active
<1>2. run \in Run /\ 0 \in Stages /\ run.left \in 1..MaxFrontiers /\ MaxFrontiers \in Nat
  BY <1>1, AtRun, SigeAssumption DEF Run, Stages
<1>3. CASE run.left > 1 /\ ~Aborted
  <2> DEFINE q == [run EXCEPT !.left = @ - 1, !.have = {}]
  <2>1. run' = Enter(q, 0)
    BY <1>3 DEF Complete
  <2>2. q \in Run /\ q.have = {} /\ q.session = run.session /\ q.early = run.early
        /\ q.aborted = run.aborted
    <3>1. run.left - 1 \in 1..MaxFrontiers
      BY <1>2, <1>3
    <3>2. QED
      BY <1>2, <3>1 DEF Run
  <2> HIDE DEF q
  <2>3. ~run.early
    BY <1>1, <1>3, EarlyStops DEF Aborted
  <2>4. \A j \in Artifacts : ~(j < 0)
    BY DEF Artifacts
  <2>5. QED
    BY <1>1, <1>2, <1>3, <2>1, <2>2, <2>3, <2>4, EnterPlaced
<1>4. CASE ~(run.left > 1 /\ ~Aborted)
  BY <1>1, <1>4 DEF Complete, EndPoll
<1>5. QED
  BY <1>3, <1>4

\* A claim begins with the artifacts that the row has.
LEMMA BeginPlaced ==
    ASSUME NEW s \in Sessions, NEW have \in SUBSET Artifacts, Begin(s, have)
    PROVE  /\ run' \in Run /\ Placed(run') /\ Barred(run') /\ run'.at = "load"
           /\ run'.session = s /\ run'.have = have /\ run'.stage = 0
           /\ run'.fresh = FALSE
<1>1. 1 \in 1..MaxFrontiers /\ 0 \in Stages
  BY SigeAssumption DEF Stages
<1>2. /\ run' \in Run /\ run'.at = "load" /\ run'.session = s /\ run'.have = have
      /\ run'.stage = 0 /\ run'.fresh = FALSE /\ run'.early = FALSE
  BY <1>1 DEF Begin, Run
<1>3. \A j \in Artifacts : ~(j < 0)
  BY DEF Artifacts
<1>4. Placed(run') /\ Barred(run')
  BY <1>2, <1>3 DEF Placed, Barred
<1>5. QED
  BY <1>2, <1>4

LEMMA ClaimPlaced ==
    ASSUME TypeInv, ClaimPending \/ ClaimInterrupted
    PROVE  /\ ~Active
           /\ \/ run' = NoRun \/ run' = [at |-> "interrupted"]
              \/ /\ run' \in Run /\ Placed(run') /\ Barred(run') /\ run'.at = "load"
                 /\ run'.session \in Sessions /\ run'.have = row[run'.session].arts
                 /\ run'.stage = 0 /\ run'.fresh = FALSE
                 /\ row[run'.session].status \in {"pending"} \cup Running
                 /\ \/ row' = row /\ row[run'.session].status \in Running
                    \/ row' = [row EXCEPT ![run'.session].status = StageStatus[0]]
<1>1. ~Active
  BY DEF ClaimPending, ClaimInterrupted, Active
<1>2. ASSUME NEW s \in Sessions, Begin(s, row[s].arts), row[s].status \in {"pending"} \cup Running
      PROVE  /\ run' \in Run /\ Placed(run') /\ Barred(run') /\ run'.at = "load"
             /\ run'.session \in Sessions /\ run'.have = row[run'.session].arts
             /\ run'.stage = 0 /\ run'.fresh = FALSE
             /\ row[run'.session].status \in {"pending"} \cup Running
  <2>1. row[s].arts \in SUBSET Artifacts
    BY DEF TypeInv, Row
  <2>2. QED
    BY <1>2, <2>1, BeginPlaced
<1>3. CASE ClaimPending
  <2>1. CASE In({"pending"}) # {}
    <3>1. Oldest(In({"pending"})) \in In({"pending"})
      BY <2>1, OldestIn DEF In
    <3>2. PICK s \in Sessions : /\ Begin(s, row[s].arts) /\ row[s].status = "pending"
                               /\ row' = [row EXCEPT ![s].status = StageStatus[0]]
      BY <1>3, <2>1, <3>1 DEF ClaimPending, In, SetStatus
    <3>3. run'.session = s
      BY <3>2 DEF Begin
    <3>4. QED
      BY <1>1, <1>2, <3>2, <3>3
  <2>2. QED
    BY <1>1, <1>3, <2>1 DEF ClaimPending
<1>4. CASE ClaimInterrupted
  <2>1. CASE Interrupted # {}
    <3>1. Oldest(Interrupted) \in Interrupted
      BY <2>1, OldestIn DEF Interrupted, In
    <3>2. PICK s \in Sessions : /\ Begin(s, row[s].arts) /\ row[s].status \in Running
                               /\ row' = row
      BY <1>4, <2>1, <3>1 DEF ClaimInterrupted, Interrupted, In
    <3>3. run'.session = s
      BY <3>2 DEF Begin
    <3>4. QED
      BY <1>1, <1>2, <3>2, <3>3
  <2>2. QED
    BY <1>1, <1>4, <2>1 DEF ClaimInterrupted, EndPoll
<1>5. QED
  BY <1>3, <1>4

LEMMA ThrowPlaced ==
    ASSUME TypeInv, RunInv, Throw
    PROVE  /\ run' = NoRun \/ (/\ Active /\ run.at # "cross" /\ run.at # "catch"
                               /\ run' \in Run /\ Placed(run') /\ Barred(run')
                               /\ run'.at = "catch" /\ run'.session = run.session
                               /\ run'.have = run.have /\ run'.stage = run.stage)
           /\ scored' = scored \/ (/\ Active /\ run.at = "work" /\ run.stage = 4
                                   /\ scored' = [scored EXCEPT ![run.session] = @ + 1]
                                   /\ run' # NoRun)
<1>1. CASE run.at \in {"interrupted", "catch", "fail"}
  BY <1>1 DEF Throw, EndPoll
<1>2. CASE run.at \notin {"interrupted", "catch", "fail"}
  <2>1. /\ Active /\ run.at # "cross" /\ run.at # "catch"
        /\ run' = [run EXCEPT !.at = "catch"]
        /\ scored' = scored \/ (/\ run.at = "work" /\ run.stage = 4
                                /\ scored' = [scored EXCEPT ![run.session] = @ + 1])
    BY <1>2 DEF Throw, Active, S
  <2>2. run' \in Run /\ Placed(run') /\ Barred(run') /\ run'.at = "catch"
        /\ run'.session = run.session /\ run'.have = run.have /\ run'.stage = run.stage
    BY <2>1, MovePlaced
  <2>3. run' # NoRun
    BY <2>2 DEF NoRun
  <2>4. QED
    BY <2>1, <2>2, <2>3
<1>3. QED
  BY <1>1, <1>2

LEMMA AbortPlaced ==
    ASSUME TypeInv, RunInv, Active, Abort
    PROVE  /\ run' \in Run /\ Placed(run') /\ Barred(run') /\ run'.at = run.at
           /\ run'.session = run.session /\ run'.have = run.have
           /\ run'.stage = run.stage /\ run'.fresh = run.fresh /\ run'.ok = run.ok
<1>1. run \in Run /\ Placed(run)
  BY AtRun DEF RunInv
<1>2. /\ run' \in Run /\ run'.at = run.at /\ run'.stage = run.stage /\ run'.aborted
      /\ run'.session = run.session /\ run'.have = run.have
      /\ run'.fresh = run.fresh /\ run'.ok = run.ok
      /\ run'.early => /\ 2 \notin run.have
                       /\ ~(run.stage = 2 /\ run.at \in {"last", "recheck", "save"})
  BY <1>1 DEF Abort, Run
<1>3. Placed(run') /\ Barred(run')
  BY <1>1, <1>2 DEF Placed, Barred
<1>4. QED
  BY <1>2, <1>3

\* A run that was aborted before its expert game's last look at the signal publishes
\* nothing.
AbortStep == Active /\ run.early => UNCHANGED published

LEMMA PlaceStep ==
    ASSUME TypeInv, RunInv, [Next]_vars
    PROVE  RunInv' /\ AbortStep
<1>1. ASSUME UNCHANGED published,
             \/ run' = run \/ run' = NoRun \/ run' = [at |-> "interrupted"]
             \/ run' \in Run /\ Placed(run') /\ Barred(run')
      PROVE  RunInv' /\ AbortStep
  BY <1>1 DEF RunInv, Active, AbortStep
<1>2. ASSUME Active, run.stage > 2 \/ run.at = "cross",
             run' \in Run, Placed(run'), Barred(run')
      PROVE  RunInv' /\ AbortStep
  <2>1. ~run.early
    <3>1. run.stage \in 0..5
      BY <1>2, AtRun DEF Stages
    <3>2. QED
      BY <1>2, <3>1, EarlyStops
  <2>2. QED
    BY <1>2, <2>1 DEF RunInv, AbortStep
<1>3. CASE UNCHANGED vars
  BY <1>1, <1>3 DEF vars, history, published
<1>4. CASE CountPending
  BY <1>1, <1>4 DEF CountPending, history, published
<1>5. CASE \E kind \in {"seeded", "seedless"} : PostSession(kind)
  BY <1>1, <1>5 DEF PostSession, history, published
<1>6. CASE \E s \in Sessions : ReadToCancel(s) \/ Cancel(s)
  BY <1>1, <1>6 DEF ReadToCancel, Cancel, history, published
<1>7. CASE TickCounts \/ TickInserts
  BY <1>1, <1>7 DEF TickCounts, TickInserts, history, published
<1>8. CASE Boot \/ Terminate
  BY <1>1, <1>8 DEF Boot, Terminate, history, published
<1>9. CASE Exit \/ Crash
  BY <1>1, <1>9 DEF Exit, Crash, CutOff, history, published
<1>10. CASE ClaimPending \/ ClaimInterrupted
  <2>1. UNCHANGED published
    BY <1>10 DEF ClaimPending, ClaimInterrupted, history, published
  <2>2. QED
    BY <1>1, <1>10, <2>1, ClaimPlaced
<1>11. CASE LoadContext
  <2>1. UNCHANGED published
    BY <1>11 DEF LoadContext, history, published
  <2>2. QED
    BY <1>1, <1>11, <2>1, LoadPlaced
<1>12. CASE Discover
  <2>1. UNCHANGED published
    BY <1>12 DEF Discover, history, published
  <2>2. QED
    BY <1>1, <1>12, <2>1, DiscoverPlaced
<1>13. CASE Guard
  <2>1. UNCHANGED published
    BY <1>13 DEF Guard, history, published
  <2>2. QED
    BY <1>1, <1>13, <2>1, GuardPlaced
<1>14. CASE Mark
  <2>1. UNCHANGED published
    BY <1>14 DEF Mark, history, published
  <2>2. QED
    BY <1>1, <1>14, <2>1, MarkPlaced
<1>15. CASE Synthesize
  <2>1. UNCHANGED published
    BY <1>15 DEF Synthesize, history, published
  <2>2. QED
    BY <1>1, <1>15, <2>1, SynthesizePlaced
<1>16. CASE PlayGame \/ LastRound
  <2>1. UNCHANGED published
    BY <1>16 DEF PlayGame, LastRound, history, published
  <2>2. QED
    BY <1>1, <1>16, <2>1, PlayPlaced
<1>17. CASE Score
  BY <1>2, <1>17, ScorePlaced
<1>18. CASE Report
  BY <1>2, <1>18, ReportPlaced
<1>19. CASE Save
  <2>1. UNCHANGED published
    BY <1>19 DEF Save, history, published
  <2>2. QED
    BY <1>1, <1>19, <2>1, SavePlaced
<1>20. CASE \E done \in BOOLEAN : CrossWrite(done)
  BY <1>2, <1>20, CrossPlaced
<1>21. CASE Complete
  <2>1. UNCHANGED published
    BY <1>21 DEF Complete, history, published
  <2>2. QED
    BY <1>1, <1>21, <2>1, CompletePlaced
<1>22. CASE Fail
  BY <1>1, <1>22 DEF Fail, EndPoll, history, published
<1>23. CASE GameAborts
  <2>1. /\ Active /\ run' = [run EXCEPT !.at = "catch"] /\ UNCHANGED published
    BY <1>23 DEF GameAborts, At, Active, history, published
  <2>2. QED
    BY <1>1, <2>1, MovePlaced
<1>24. CASE Throw
  <2>1. UNCHANGED <<crossed, remembered>>
    BY <1>24 DEF Throw
  <2>2. CASE scored' = scored
    BY <1>1, <1>24, <2>1, <2>2, ThrowPlaced DEF published
  <2>3. CASE scored' # scored
    BY <1>2, <1>24, <2>3, ThrowPlaced
  <2>4. QED
    BY <2>2, <2>3
<1>25. CASE Watch \/ TimeOut
  <2>1. Active /\ Abort /\ UNCHANGED published
    BY <1>25 DEF Watch, TimeOut, Active, history, published
  <2>2. QED
    BY <1>1, <2>1, AbortPlaced
<1>26. QED
  BY <1>3, <1>4, <1>5, <1>6, <1>7, <1>8, <1>9, <1>10, <1>11, <1>12, <1>13, <1>14,
     <1>15, <1>16, <1>17, <1>18, <1>19, <1>20, <1>21, <1>22, <1>23, <1>24, <1>25
     DEF Next

\* A run that is aborted, by a cancellation or by the clock, before its expert game's
\* last look at the signal (runExpertGame, expert-game.ts:185) scores, cross-writes
\* and remembers nothing of it in any stage that follows (runSeededSteps, run.ts): for
\* any number of sessions, games, cancel requests and failures.
THEOREM AbortStands == Spec => AbortStopsGame
<1>1. Init => RunInv
  BY DEF Init, RunInv, Active
<1>2. CInv /\ RunInv /\ [Next]_vars => RunInv' /\ AbortStep
  BY PlaceStep DEF CInv
<1>3. AbortStep => [run # NoRun /\ run.at # "interrupted" /\ run.early => UNCHANGED published]_vars
  BY DEF AbortStep, Active
<1>4. QED
  BY <1>1, <1>2, <1>3, CInvHolds, PTL DEF Spec, AbortStopsGame

-----------------------------------------------------------------------------
(* What a row says of its session *)

\* A session without a resume context has neither artifacts nor scores, and one
\* that was completed after its ideas were scored has every artifact.
RowOk(r, k) ==
    /\ r.status = "none" => ~r.ctx
    /\ r.arts # {} \/ k > 0 => r.ctx
    /\ r.status = "completed" /\ k > 0 => r.arts = Artifacts

\* What was done to a session that is not played was done once, or by several
\* games, and will not be done again: the artifact says so, or the session is over.
SeveralGames(r) == MaxFrontiers # 1 /\ r.kind # "seeded"
Settled(r, n) ==
    /\ n <= 1 \/ (SeveralGames(r) /\ r.status \in Terminal)
    /\ n > 0 => 4 \in r.arts \/ r.status \in Terminal

\* The row of the session that is played, in its first game.  The run may hold an artifact that
\* the row has not only when the session was cancelled, and then it writes no
\* more; a stage after stage 0, and a resumed run, have their context.
Fits(q, r) ==
    /\ r.status \notin {"none", "completed", "failed"}
    /\ r.arts \subseteq q.have
    /\ q.at \in Writing /\ ~q.ok => r.status \in Terminal
    /\ ~(q.have \subseteq r.arts) =>
           /\ r.status \in Terminal
           /\ q.at \in {"mark", "save", "complete"} => ~q.ok
    /\ q.have # {} \/ q.stage >= 1 => r.ctx
    /\ q.at \in {"check", "mark", "work"} /\ ~q.fresh => r.ctx
    /\ q.at = "discover" => q.fresh
    /\ q.at \in {"discover", "finish", "complete"} /\ q.stage = 0 => ~r.ctx

\* A further game is played when the session is over already.  The guard refuses
\* its running statuses, so that its artifacts are not saved, and lets it write
\* completed over completed.
Later(q, r) ==
    /\ SeveralGames(r) /\ r.status \in {"completed", "cancelled"} /\ r.ctx
    /\ r.status = "completed" \/ (q.at = "complete" /\ q.ok) => r.arts = Artifacts
    /\ q.at \in {"mark", "save"} => ~q.ok

\* The scores are in the table and their artifact is not yet in the run's hands.
Rescored(q) == q.stage = 4 /\ q.at \in {"recheck", "save", "catch", "fail"}

\* How often the run's session was cross-written and scored.
InPlay(q, n)  == n <= 1 /\ (n > 0 => q.at # "cross" /\ 4 \in q.have)
InScore(q, k) == k <= 1 /\ (k > 0 => 4 \in q.have \/ Rescored(q))

Playing(s) == Active /\ run.session = s

Sound(s) ==
    /\ RowOk(row[s], scored[s])
    /\ ~Playing(s) => /\ Settled(row[s], crossed[s])
                      /\ s \notin torn => Settled(row[s], scored[s])
    /\ Playing(s) => \/ Later(run, row[s])
                     \/ /\ Fits(run, row[s]) /\ InPlay(run, crossed[s])
                        /\ s \notin torn => InScore(run, scored[s])

SoundInv == \A s \in Sessions : Sound(s)

\* The process plays a further game of its session.
Late == Active /\ Later(run, row[run.session])

\* Games that are left were counted by discoverFrontiers, and are then played.
GamesInv ==
    Active =>
        /\ run.at = "discover" => row[run.session].kind # "seeded"
        /\ run.left > 1 => SeveralGames(row[run.session])
        /\ run.at \in {"load", "discover"} => run.left = 1
        /\ run.stage = 0 /\ run.at \in {"finish", "complete"} => run.left = 1

\* The scheduler's own sessions that are not over, and what is left of the type.
Autos == {s \in Created : row[s].kind = "auto" /\ row[s].status \notin Terminal}

AutoInv ==
    ~miscounted /\ raced = {} => (\A s, t \in Autos : s = t) /\ (ticking => Autos = {})

RestType ==
    /\ ticking \in BOOLEAN /\ posting \in 0..MaxSessions
    /\ scored \in [Sessions -> Nat] /\ crossed \in [Sessions -> Nat]
    /\ remembered \in SUBSET Sessions /\ torn \in SUBSET Sessions
    /\ cancelled \in SUBSET Sessions /\ raced \in SUBSET Sessions
    /\ miscounted \in BOOLEAN
    /\ faults \in 0..MaxFaults

SInv == CInv /\ RunInv /\ RestType /\ GamesInv /\ SoundInv /\ AutoInv

\* A step that touches one session at most, the one that is played before and
\* after it, unless the run stays what it is.
LEMMA OneSound ==
    ASSUME SoundInv, NEW s \in Sessions,
           \A t \in Sessions \ {s} :
               /\ row'[t] = row[t] /\ scored'[t] = scored[t] /\ crossed'[t] = crossed[t]
               /\ t \in torn => t \in torn',
           run' = run \/ ((Active => run.session = s) /\ (Active' => run'.session = s)),
           Sound(s)'
    PROVE  SoundInv'
<1> SUFFICES ASSUME NEW t \in Sessions \ {s} PROVE Sound(t)'
  BY DEF SoundInv
<1>1. Sound(t)
  BY DEF SoundInv
<1>2. CASE run' = run
  BY <1>1, <1>2 DEF Sound, Playing, Active
<1>3. CASE (Active => run.session = s) /\ (Active' => run'.session = s)
  <2>1. ~Playing(t) /\ ~Playing(t)'
    BY <1>3 DEF Playing
  <2>2. QED
    BY <1>1, <2>1 DEF Sound
<1>4. QED
  BY <1>2, <1>3

\* A step that does not touch a session.
LEMMA NoneSound ==
    ASSUME SoundInv, UNCHANGED <<row, scored, crossed, torn>>,
           run' = run \/ (~Active /\ ~Active')
    PROVE  SoundInv'
<1> SUFFICES ASSUME NEW t \in Sessions PROVE Sound(t)'
  BY DEF SoundInv
<1>1. Sound(t)
  BY DEF SoundInv
<1>2. QED
  BY <1>1 DEF Sound, Playing, Active

\* The session that is played, in its first game.
LEMMA PlayedFacts ==
    ASSUME CInv, RunInv, RestType, SoundInv, Active, ~Late
    PROVE  /\ run \in Run /\ run.session \in Sessions /\ row[run.session] \in Row
           /\ scored[run.session] \in Nat /\ crossed[run.session] \in Nat
           /\ Placed(run) /\ RowOk(row[run.session], scored[run.session])
           /\ Fits(run, row[run.session]) /\ InPlay(run, crossed[run.session])
           /\ run.session \notin torn => InScore(run, scored[run.session])
<1>1. run \in Run /\ run.session \in Sessions /\ row[run.session] \in Row
  BY AtRun DEF CInv
<1>2. Sound(run.session) /\ Playing(run.session)
  BY <1>1 DEF SoundInv, Playing
<1>3. QED
  BY <1>1, <1>2 DEF Sound, RestType, RunInv, Late

\* The run goes on and writes nothing.
LEMMA GoesOn ==
    ASSUME CInv, RunInv, RestType, SoundInv, Active, ~Late,
           UNCHANGED <<row, scored, crossed, torn>>,
           run' \in Run, run'.at # "interrupted",
           run'.session = run.session, run.have \subseteq run'.have,
           Fits(run', row[run.session]),
           run'.at = "cross" => run.at = "cross",
           Rescored(run) => Rescored(run') \/ 4 \in run'.have
    PROVE  SoundInv'
<1> DEFINE s == run.session
<1>1. /\ s \in Sessions /\ scored[s] \in Nat /\ crossed[s] \in Nat
      /\ RowOk(row[s], scored[s]) /\ InPlay(run, crossed[s])
      /\ s \notin torn => InScore(run, scored[s])
  BY PlayedFacts
<1>2. InPlay(run', crossed[s]) /\ (s \notin torn => InScore(run', scored[s]))
  BY <1>1 DEF InPlay, InScore
<1>3. PICK t \in Sessions : t = s
  BY <1>1
<1>4. Playing(t)' => run'.session = t
  BY DEF Playing
<1>5. Active' => Playing(t)'
  BY <1>3 DEF Playing
<1>6. Active'
  BY DEF Active, Run, NoRun
<1>7. Sound(t)'
  BY <1>1, <1>2, <1>3, <1>5, <1>6 DEF Sound
<1>8. QED
  BY <1>3, <1>6, <1>7, OneSound DEF Active

\* The run is over.
LEMMA RunEnds ==
    ASSUME CInv, RunInv, RestType, SoundInv, Active, ~Late, ~Active',
           NEW new \in Row, row' = row \/ row' = [row EXCEPT ![run.session] = new],
           new.status \in Terminal,
           new.arts = row[run.session].arts, new.ctx = row[run.session].ctx,
           new.status = "completed" =>
               scored[run.session] = 0 \/ row[run.session].arts = Artifacts,
           UNCHANGED <<scored, crossed>>,
           torn' = torn \/ torn' = torn \cup {run.session},
           Rescored(run) => \/ run.session \in torn' \/ row' # row
                            \/ row[run.session].status \in Terminal
    PROVE  SoundInv'
<1>1. PICK s \in Sessions : s = run.session
  BY PlayedFacts
<1>2. /\ scored[s] \in Nat /\ crossed[s] \in Nat /\ row[s] \in Row
      /\ RowOk(row[s], scored[s]) /\ InPlay(run, crossed[s]) /\ Fits(run, row[s])
      /\ s \notin torn => InScore(run, scored[s])
  BY <1>1, PlayedFacts
<1>3. row'[s] = row[s] \/ row'[s] = new
  BY <1>1 DEF CInv, TypeInv
<1>4. row' # row => row'[s] = new
  BY <1>1 DEF CInv, TypeInv
<1>5. 4 \in run.have => 4 \in row[s].arts \/ row[s].status \in Terminal
  BY <1>2 DEF Fits
<1>6. RowOk(row'[s], scored[s])
  BY <1>1, <1>2, <1>3 DEF RowOk, Terminal
<1>7. Settled(row'[s], crossed[s])
  BY <1>1, <1>2, <1>3, <1>5 DEF Settled, InPlay
<1>8. ASSUME s \notin torn' PROVE Settled(row'[s], scored[s])
  <2>1. InScore(run, scored[s])
    BY <1>2, <1>8
  <2>2. Rescored(run) => row'[s].status \in Terminal
    BY <1>1, <1>3, <1>4, <1>8
  <2>3. QED
    BY <1>1, <1>2, <1>3, <1>5, <2>1, <2>2 DEF Settled, InScore
<1>9. Sound(s)'
  <2>1. ~Playing(s)'
    BY DEF Playing
  <2>2. QED
    BY <1>6, <1>7, <1>8, <2>1 DEF Sound
<1>10. \A t \in Sessions \ {s} : row'[t] = row[t]
  BY <1>1 DEF CInv, TypeInv
<1>11. \A t \in Sessions : t \in torn => t \in torn'
  OBVIOUS
<1>12. QED
  BY <1>1, <1>9, <1>10, <1>11, OneSound

\* The run is over, and the row is left as it is.
LEMMA RunCutOff ==
    ASSUME CInv, RunInv, RestType, SoundInv, Active, ~Late, ~Active',
           UNCHANGED <<row, scored, crossed>>,
           torn' = torn \/ torn' = torn \cup {run.session},
           Rescored(run) => \/ run.session \in torn'
                            \/ row[run.session].status \in Terminal
    PROVE  SoundInv'
<1>1. row[run.session] \in Row
  BY PlayedFacts
<1> DEFINE over == [row[run.session] EXCEPT !.status = "failed"]
<1>2. /\ over \in Row /\ over.status = "failed"
      /\ over.arts = row[run.session].arts /\ over.ctx = row[run.session].ctx
  BY <1>1 DEF Row, Status, Terminal
<1> HIDE DEF over
<1>3. PICK new \in Row : new = over
  BY <1>2
<1>4. /\ new.status \in Terminal /\ new.status # "completed"
      /\ new.arts = row[run.session].arts /\ new.ctx = row[run.session].ctx
  BY <1>2, <1>3 DEF Terminal
<1>5. QED
  BY <1>4, RunEnds

\* The steps of the run of a session leave its row and its counts sound.
LEMMA LoadSound ==
    ASSUME SInv, ~Late, LoadContext PROVE SoundInv'
<1>1. /\ Active /\ run.at = "load" /\ run' \in Run /\ run'.at \in {"check", "discover"}
      /\ run'.session = run.session /\ run'.have = run.have
      /\ row[run.session].ctx \/ (run'.fresh /\ (run'.stage > 0 => run.have # {}))
      /\ run'.at = "discover" => /\ ~row[run.session].ctx
                                 /\ run'.fresh /\ run'.stage = 0
  BY LoadPlaced DEF SInv, CInv
<1>2. Fits(run, row[run.session]) /\ run.stage \in Nat /\ run'.stage \in Nat
  BY <1>1, PlayedFacts DEF SInv, Run, Stages
<1>3. run'.stage >= 1 => row[run.session].ctx
  BY <1>1, <1>2 DEF Fits
<1>4. Fits(run', row[run.session])
  BY <1>1, <1>2, <1>3 DEF Fits, Writing
<1>5. UNCHANGED <<row, scored, crossed, torn>>
  BY DEF LoadContext, history, published
<1>6. ~Rescored(run)
  BY <1>1 DEF Rescored
<1>7. QED
  BY <1>1, <1>4, <1>5, <1>6, GoesOn DEF SInv

LEMMA DiscoverSound ==
    ASSUME SInv, ~Late, Discover PROVE SoundInv'
<1>1. /\ Active /\ run.at = "discover"
      /\ \/ run' = NoRun
         \/ /\ run' \in Run
            /\ run'.session = run.session /\ run'.have = run.have
            /\ run'.fresh = run.fresh
            /\ \/ run'.at = "finish" /\ run'.stage = run.stage
               \/ run'.at = "check" /\ (run'.stage > 0 => run.have # {})
  BY DiscoverPlaced DEF SInv, CInv
<1>2. UNCHANGED <<row, scored, crossed, torn>>
  BY DEF Discover, history, published
<1>3. /\ Fits(run, row[run.session]) /\ run.stage \in Nat /\ Placed(run)
      /\ row[run.session] \in Row /\ run.session \in Sessions
  BY <1>1, PlayedFacts DEF SInv, Run, Stages
<1>4. ~Rescored(run) /\ run.stage = 0
  BY <1>1, <1>3 DEF Rescored, Placed
<1>5. CASE run' = NoRun
  <2>1. ~Active'
    BY <1>5 DEF Active
  <2>2. QED
    BY <1>1, <1>2, <1>4, <2>1, RunCutOff DEF SInv
<1>6. CASE run' \in Run /\ run' # NoRun
  <2>1. run'.stage \in Nat /\ run'.session = run.session /\ run'.have = run.have
        /\ run'.at # "interrupted" /\ run'.at # "cross"
    BY <1>1, <1>6 DEF Run, Stages
  <2>2. Fits(run', row[run.session])
    BY <1>1, <1>3, <1>4, <1>6, <2>1 DEF Fits, Writing
  <2>3. QED
    BY <1>1, <1>2, <1>4, <1>6, <2>1, <2>2, GoesOn DEF SInv
<1>7. QED
  BY <1>1, <1>5, <1>6

LEMMA GuardSound ==
    ASSUME SInv, ~Late, Guard PROVE SoundInv'
<1>1. /\ Active /\ run' \in Run
      /\ run'.session = run.session /\ run'.have = run.have /\ run'.stage = run.stage
      /\ run'.fresh = run.fresh
      /\ \/ Reads("check", "mark", FALSE) \/ Reads("recheck", "save", FALSE)
         \/ Reads("finish", "complete", TRUE) \/ Reads("catch", "fail", TRUE)
  BY GuardPlaced DEF SInv, CInv
<1>2. UNCHANGED <<row, scored, crossed, torn>>
  BY DEF Guard, history, published
<1>3. Fits(run, row[run.session])
  BY <1>1, PlayedFacts DEF SInv
<1>4. \/ /\ run.at = "check" /\ run'.at = "mark"
         /\ run'.ok <=> row[run.session].status \notin Terminal
      \/ /\ run.at = "recheck" /\ run'.at = "save"
         /\ run'.ok <=> row[run.session].status \notin Terminal
      \/ /\ run.at = "finish" /\ run'.at = "complete"
         /\ run'.ok <=> row[run.session].status # "cancelled"
      \/ /\ run.at = "catch" /\ run'.at = "fail"
         /\ run'.ok <=> row[run.session].status # "cancelled"
  BY <1>1 DEF Reads, MayWrite
<1>5. Fits(run', row[run.session])
  BY <1>1, <1>3, <1>4 DEF Fits, Writing, Terminal
<1>6. /\ run'.at # "interrupted" /\ run'.at # "cross"
      /\ Rescored(run) => Rescored(run')
  BY <1>1, <1>4 DEF Rescored
<1>7. QED
  BY <1>1, <1>2, <1>5, <1>6, GoesOn DEF SInv

\* A stage that is played, an expert game that is aborted, the report, a call
\* that fails: what is written is not in the row.
LEMMA WorkSound ==
    ASSUME SInv, ~Late, Active, run' \in Run, run'.session = run.session, run'.have = run.have,
           run'.stage = run.stage, UNCHANGED <<row, scored, crossed, torn>>,
           \/ run.at \in {"work", "last"} /\ run'.at \in {"last", "recheck", "catch"}
           \/ run.at = "work" /\ run.stage = 5 /\ run'.at = "finish"
           \/ run'.at = "catch"
           \/ run'.at = run.at /\ run'.ok = run.ok /\ run'.fresh = run.fresh
    PROVE  SoundInv'
<1>1. Fits(run, row[run.session])
  BY PlayedFacts DEF SInv
<1>2. Fits(run', row[run.session])
  BY <1>1 DEF Fits, Writing
<1>3. /\ run'.at # "interrupted"
      /\ run'.at = "cross" => run.at = "cross"
      /\ Rescored(run) => Rescored(run')
  BY DEF Rescored, Active
<1>4. QED
  BY <1>2, <1>3, GoesOn DEF SInv

\* The run goes on, or begins, and writes to its session alone.
LEMMA PlaysOn ==
    ASSUME SoundInv, NEW s \in Sessions, Active => run.session = s,
           run' \in Run, run'.at # "interrupted", run'.session = s,
           \A t \in Sessions \ {s} :
               /\ row'[t] = row[t] /\ scored'[t] = scored[t] /\ crossed'[t] = crossed[t],
           torn' = torn,
           RowOk(row'[s], scored'[s]), Fits(run', row'[s]), InPlay(run', crossed'[s]),
           s \notin torn => InScore(run', scored'[s])
    PROVE  SoundInv'
<1>1. Active' /\ Playing(s)'
  BY DEF Active, Playing, Run, NoRun
<1>2. Sound(s)'
  BY <1>1 DEF Sound
<1>3. QED
  BY <1>1, <1>2, OneSound

\* A write that the guard lets through, or none.
LEMMA WrittenRow ==
    ASSUME TypeInv, Active, NEW new \in Row, WriteIfOk(new)
    PROVE  /\ row' = row \/ row' = [row EXCEPT ![run.session] = new]
           /\ row' # row => run.ok
           /\ row'[run.session] = IF run.ok THEN new ELSE row[run.session]
           /\ \A t \in Sessions \ {run.session} : row'[t] = row[t]
<1>1. run.session \in Sessions
  BY AtRun
<1>2. QED
  BY <1>1 DEF WriteIfOk, S, TypeInv

LEMMA MarkSound ==
    ASSUME SInv, ~Late, Mark PROVE SoundInv'
<1>1. /\ Active /\ run.at = "mark" /\ run' \in Run
      /\ run'.session = run.session /\ run'.have = run.have /\ run'.fresh = run.fresh
      /\ run'.at \in {"check", "work"}
      /\ \/ run'.stage = run.stage
         \/ run.stage = 0 /\ ~run.fresh
  BY MarkPlaced DEF SInv, CInv
<1>2. PICK s \in Sessions : s = run.session
  BY <1>1, PlayedFacts DEF SInv
<1>3. /\ scored[s] \in Nat /\ crossed[s] \in Nat /\ row[s] \in Row /\ run.stage \in Stages
      /\ RowOk(row[s], scored[s]) /\ InPlay(run, crossed[s]) /\ Fits(run, row[s])
      /\ s \notin torn => InScore(run, scored[s])
  BY <1>1, <1>2, PlayedFacts DEF SInv, Run
<1> DEFINE new == [row[s] EXCEPT !.status = StageStatus[run.stage]]
<1>4. /\ new \in Row /\ new.status \in Running /\ new.arts = row[s].arts
      /\ new.ctx = row[s].ctx
  BY <1>3, StatusFacts DEF Row
<1>5. WriteIfOk(new) /\ UNCHANGED <<scored, crossed, torn>>
  BY <1>2 DEF Mark, S, history, published
<1> HIDE DEF new
<1>6. /\ row'[s] = IF run.ok THEN new ELSE row[s]
      /\ \A t \in Sessions \ {s} : row'[t] = row[t]
  BY <1>1, <1>2, <1>4, <1>5, WrittenRow DEF SInv, CInv
<1>7. RowOk(row'[s], scored[s])
  BY <1>3, <1>4, <1>6, StatusFacts DEF RowOk
<1>8. Fits(run', row'[s])
  <2>1. run'.stage \in Nat /\ run.stage \in Nat
    BY <1>1, <1>3 DEF Run, Stages
  <2>2. ~(run.have \subseteq row[s].arts) => row[s].status \in Terminal /\ ~run.ok
    BY <1>1, <1>3 DEF Fits
  <2>3. run'.stage >= 1 => row[s].ctx
    BY <1>1, <1>3, <2>1 DEF Fits
  <2>4. CASE run.ok
    <3>1. new.status \notin {"none", "completed", "failed"}
      BY <1>4, StatusFacts
    <3>2. QED
      BY <1>1, <1>3, <1>4, <1>6, <2>2, <2>3, <2>4, <3>1 DEF Fits, Writing
  <2>5. CASE ~run.ok
    BY <1>1, <1>3, <1>6, <2>2, <2>3, <2>5 DEF Fits, Writing
  <2>6. QED
    BY <2>4, <2>5
<1>9. InPlay(run', crossed[s]) /\ (s \notin torn => InScore(run', scored[s]))
  BY <1>1, <1>3 DEF InPlay, InScore, Rescored
<1>10. QED
  BY <1>1, <1>2, <1>5, <1>6, <1>7, <1>8, <1>9, PlaysOn DEF SInv

LEMMA SynthesizeSound ==
    ASSUME SInv, ~Late, Synthesize PROVE SoundInv'
<1>1. /\ Active /\ run.at = "work" /\ run.stage = 0
      /\ run' \in Run /\ run'.at = "check"
      /\ run'.session = run.session /\ run'.have = run.have /\ run'.fresh = run.fresh
  BY SynthesizePlaced DEF SInv, CInv
<1>2. PICK s \in Sessions : s = run.session
  BY <1>1, PlayedFacts DEF SInv
<1>3. /\ scored[s] \in Nat /\ crossed[s] \in Nat /\ row[s] \in Row
      /\ RowOk(row[s], scored[s]) /\ InPlay(run, crossed[s]) /\ Fits(run, row[s])
      /\ s \notin torn => InScore(run, scored[s])
  BY <1>1, <1>2, PlayedFacts DEF SInv
<1>4. /\ row' = [row EXCEPT ![s].ctx = TRUE] /\ UNCHANGED <<scored, crossed, torn>>
  BY <1>2 DEF Synthesize, S, history, published
<1>5. /\ row'[s].ctx = TRUE /\ row'[s].arts = row[s].arts /\ row'[s].status = row[s].status
      /\ \A t \in Sessions \ {s} : row'[t] = row[t]
  BY <1>3, <1>4 DEF SInv, CInv, TypeInv, Row
<1>6. RowOk(row'[s], scored[s])
  BY <1>3, <1>5 DEF RowOk, Fits
<1>7. Fits(run', row'[s])
  BY <1>1, <1>3, <1>5 DEF Fits, Writing
<1>8. InPlay(run', crossed[s]) /\ (s \notin torn => InScore(run', scored[s]))
  BY <1>1, <1>3 DEF InPlay, InScore, Rescored
<1>9. QED
  BY <1>1, <1>2, <1>4, <1>5, <1>6, <1>7, <1>8, PlaysOn DEF SInv

\* Scores are inserted when there are none, whether the step ends or fails.
LEMMA ScoreSound ==
    ASSUME SInv, ~Late, Active, run.at = "work", run.stage = 4, run' \in Run,
           run'.at \in {"recheck", "catch"}, run'.session = run.session,
           run'.have = run.have, run'.stage = run.stage,
           scored' = [scored EXCEPT ![run.session] = @ + 1],
           UNCHANGED <<row, crossed, torn>>
    PROVE  SoundInv'
<1>1. PICK s \in Sessions : s = run.session
  BY PlayedFacts DEF SInv
<1>2. /\ scored[s] \in Nat /\ crossed[s] \in Nat /\ row[s] \in Row /\ Placed(run)
      /\ RowOk(row[s], scored[s]) /\ InPlay(run, crossed[s]) /\ Fits(run, row[s])
      /\ s \notin torn => InScore(run, scored[s])
  BY <1>1, PlayedFacts DEF SInv
<1>3. /\ scored'[s] = scored[s] + 1
      /\ \A t \in Sessions \ {s} : scored'[t] = scored[t]
  BY <1>1 DEF SInv, RestType
<1>4. 4 \notin run.have
  BY DEF Placed, SInv, RunInv
<1>5. s \notin torn => scored[s] = 0
  BY <1>2, <1>4 DEF InScore, Rescored
<1>6. RowOk(row[s], scored'[s])
  BY <1>2, <1>3 DEF RowOk, Fits
<1>7. Fits(run', row[s])
  BY <1>1, <1>2 DEF Fits, Writing
<1>8. InPlay(run', crossed[s]) /\ (s \notin torn => InScore(run', scored'[s]))
  BY <1>2, <1>3, <1>5 DEF InPlay, InScore, Rescored
<1>9. QED
  BY <1>1, <1>3, <1>6, <1>7, <1>8, PlaysOn DEF SInv

LEMMA SaveSound ==
    ASSUME SInv, ~Late, Save PROVE SoundInv'
<1>1. /\ Active /\ run.at = "save" /\ run.stage \in Artifacts /\ run' \in Run
      /\ run'.session = run.session /\ run'.have = run.have \cup {run.stage}
      /\ run'.at \in {"check", "cross"} /\ run'.fresh = run.fresh
      /\ run'.at = "cross" <=> run.stage = 4
  BY SavePlaced DEF SInv, CInv
<1>2. PICK s \in Sessions : s = run.session
  BY <1>1, PlayedFacts DEF SInv
<1>3. /\ scored[s] \in Nat /\ crossed[s] \in Nat /\ row[s] \in Row /\ run.stage \in Stages
      /\ RowOk(row[s], scored[s]) /\ InPlay(run, crossed[s]) /\ Fits(run, row[s])
      /\ s \notin torn => InScore(run, scored[s])
      /\ run.stage \notin run.have
  BY <1>1, <1>2, PlayedFacts DEF SInv, Run, Placed
<1> DEFINE new == [row[s] EXCEPT !.status = StageStatus[run.stage],
                                 !.arts = @ \cup {run.stage}]
<1>4. /\ new \in Row /\ new.status \in Running /\ new.ctx = row[s].ctx
      /\ new.arts = row[s].arts \cup {run.stage}
  BY <1>1, <1>3, StatusFacts DEF Row
<1>5. WriteIfOk(new) /\ UNCHANGED <<scored, crossed, torn>>
  BY <1>2 DEF Save, S, history, published
<1> HIDE DEF new
<1>6. /\ row'[s] = IF run.ok THEN new ELSE row[s]
      /\ \A t \in Sessions \ {s} : row'[t] = row[t]
  BY <1>1, <1>2, <1>4, <1>5, WrittenRow DEF SInv, CInv
<1>7. row[s].ctx
  BY <1>1, <1>3 DEF Fits, Artifacts
<1>8. RowOk(row'[s], scored[s])
  BY <1>3, <1>4, <1>6, <1>7, StatusFacts DEF RowOk
<1>9. Fits(run', row'[s])
  <2>1. CASE run.ok
    <3>1. new.status \notin {"none", "completed", "failed"}
      BY <1>4, StatusFacts
    <3>2. row[s].arts \subseteq run.have /\ run.have \subseteq row[s].arts
      BY <1>1, <1>3, <2>1 DEF Fits
    <3>3. QED
      BY <1>1, <1>3, <1>4, <1>6, <1>7, <2>1, <3>1, <3>2 DEF Fits, Writing
  <2>2. CASE ~run.ok
    <3>1. row[s].status \in Terminal
      BY <1>1, <1>3, <2>2 DEF Fits, Writing
    <3>2. QED
      BY <1>1, <1>3, <1>6, <1>7, <2>2, <3>1 DEF Fits, Writing
  <2>3. QED
    BY <2>1, <2>2
<1>10. InPlay(run', crossed[s])
  <2>1. run.stage = 4 => crossed[s] = 0
    BY <1>3 DEF InPlay
  <2>2. QED
    BY <1>1, <1>3, <2>1 DEF InPlay
<1>11. s \notin torn => InScore(run', scored[s])
  BY <1>1, <1>3 DEF InScore, Rescored
<1>12. QED
  BY <1>1, <1>2, <1>5, <1>6, <1>8, <1>9, <1>10, <1>11, PlaysOn DEF SInv

LEMMA CrossSound ==
    ASSUME SInv, ~Late, NEW done \in BOOLEAN, CrossWrite(done) PROVE SoundInv'
<1>1. /\ Active /\ run.at = "cross" /\ 4 \in run.have /\ run' \in Run /\ run'.at = "check"
      /\ run'.session = run.session /\ run'.have = run.have /\ run'.fresh = run.fresh
  BY CrossPlaced DEF SInv, CInv
<1>2. PICK s \in Sessions : s = run.session
  BY <1>1, PlayedFacts DEF SInv
<1>3. /\ scored[s] \in Nat /\ crossed[s] \in Nat /\ row[s] \in Row
      /\ RowOk(row[s], scored[s]) /\ InPlay(run, crossed[s]) /\ Fits(run, row[s])
      /\ s \notin torn => InScore(run, scored[s])
  BY <1>1, <1>2, PlayedFacts DEF SInv
<1>4. /\ UNCHANGED <<row, scored, torn>>
      /\ crossed' = crossed \/ crossed' = [crossed EXCEPT ![s] = @ + 1]
  BY <1>2 DEF CrossWrite, S
<1>5. /\ crossed'[s] \in {crossed[s], crossed[s] + 1}
      /\ \A t \in Sessions \ {s} : crossed'[t] = crossed[t]
  BY <1>4 DEF SInv, RestType
<1>6. crossed[s] = 0
  BY <1>1, <1>3 DEF InPlay
<1>7. Fits(run', row[s])
  BY <1>1, <1>3 DEF Fits, Writing
<1>8. InPlay(run', crossed'[s]) /\ (s \notin torn => InScore(run', scored[s]))
  BY <1>1, <1>3, <1>5, <1>6 DEF InPlay, InScore
<1>9. QED
  BY <1>1, <1>2, <1>3, <1>4, <1>5, <1>7, <1>8, PlaysOn DEF SInv

\* What is left of a session that is, or was, played a further game.
LEMMA LateAfter ==
    ASSUME SoundInv, NEW s \in Sessions, Active => run.session = s,
           Active' => run'.session = s /\ Later(run', row'[s]),
           \A t \in Sessions \ {s} :
               /\ row'[t] = row[t] /\ scored'[t] = scored[t] /\ crossed'[t] = crossed[t]
               /\ t \in torn => t \in torn',
           row'[s].ctx, row'[s].status \in Terminal, SeveralGames(row'[s]),
           row'[s].status = "completed" => row'[s].arts = Artifacts
    PROVE  SoundInv'
<1>1. RowOk(row'[s], scored'[s])
  BY DEF RowOk, Terminal
<1>2. Settled(row'[s], crossed'[s]) /\ Settled(row'[s], scored'[s])
  BY DEF Settled
<1>3. Playing(s)' => Later(run', row'[s])
  BY DEF Playing
<1>4. Sound(s)'
  BY <1>1, <1>2, <1>3 DEF Sound
<1>5. (Active => run.session = s) /\ (Active' => run'.session = s)
  OBVIOUS
<1>6. QED
  BY <1>4, <1>5, OneSound

\* The first game is completed: nothing was scored in a session without frontiers,
\* and one that was played to its end has every artifact.  The next game finds its
\* session completed, or cancelled.
LEMMA CompleteSound ==
    ASSUME SInv, ~Late, Complete PROVE SoundInv'
<1>1. /\ Active /\ run.at = "complete"
      /\ \/ run' = NoRun
         \/ run' \in Run /\ run'.at = "check" /\ run'.session = run.session /\ run.left > 1
  BY CompletePlaced DEF SInv, CInv
<1>2. PICK s \in Sessions : s = run.session
  BY <1>1, PlayedFacts DEF SInv
<1>3. /\ scored[s] \in Nat /\ row[s] \in Row /\ run \in Run /\ Placed(run)
      /\ RowOk(row[s], scored[s]) /\ Fits(run, row[s])
  BY <1>1, <1>2, PlayedFacts DEF SInv
<1> DEFINE new == [row[s] EXCEPT !.status = "completed"]
<1>4. /\ new \in Row /\ new.status = "completed" /\ new.ctx = row[s].ctx
      /\ new.arts = row[s].arts /\ new.kind = row[s].kind
  BY <1>3 DEF Row, Status, Terminal
<1>5. WriteIfOk(new) /\ UNCHANGED <<scored, crossed, torn>>
  BY <1>2 DEF Complete, S, history, published
<1> HIDE DEF new
<1>6. /\ row' = row \/ row' = [row EXCEPT ![s] = new]
      /\ row' # row => run.ok
      /\ row'[s] = IF run.ok THEN new ELSE row[s]
      /\ \A t \in Sessions \ {s} : row'[t] = row[t]
  BY <1>1, <1>2, <1>4, <1>5, WrittenRow DEF SInv, CInv
<1>7. run.ok => row[s].arts = run.have
  BY <1>1, <1>3 DEF Fits
<1>8. /\ run.stage \in {0, 5} /\ run.have \subseteq Artifacts
      /\ run.stage = 5 => Artifacts \subseteq run.have
  BY <1>1, <1>3 DEF Placed, Run, Artifacts
<1>9. CASE run' = NoRun /\ run.ok
  <2>1. run.stage = 0 => scored[s] = 0
    BY <1>1, <1>3 DEF Fits, RowOk
  <2>2. scored[s] = 0 \/ row[s].arts = Artifacts
    BY <1>7, <1>8, <1>9, <2>1
  <2>3. PICK n \in Row : n = new
    BY <1>4
  <2>4. ~Active' /\ ~Rescored(run)
    BY <1>1, <1>9 DEF Active, Rescored
  <2>5. n.status \in Terminal
    BY <1>4, <2>3 DEF Terminal
  <2>6. QED
    BY <1>1, <1>2, <1>4, <1>5, <1>6, <2>2, <2>3, <2>4, <2>5, RunEnds DEF SInv
<1>10. CASE run' = NoRun /\ ~run.ok
  <2>1. ~Active' /\ ~Rescored(run)
    BY <1>1, <1>10 DEF Active, Rescored
  <2>2. QED
    BY <1>1, <1>2, <1>5, <1>6, <1>10, <2>1, RunCutOff DEF SInv
<1>11. CASE run' # NoRun
  <2>1. run'.at = "check" /\ run'.session = s /\ run.left > 1
    BY <1>1, <1>2, <1>11
  <2>2. run.stage = 5 /\ SeveralGames(row[s])
    <3>1. run.left \in Nat
      BY <1>3, SigeAssumption DEF Run
    <3>2. QED
      BY <1>1, <1>2, <1>8, <2>1, <3>1 DEF SInv, GamesInv
  <2>3. run.have = Artifacts /\ row[s].ctx
    <3>1. run.have # {}
      BY <1>8, <2>2 DEF Artifacts
    <3>2. QED
      BY <1>3, <1>8, <2>2, <3>1 DEF Fits
  <2>4. run.ok => row[s].arts = Artifacts
    BY <1>7, <2>3
  <2>5. ~run.ok => row[s].status = "cancelled"
    BY <1>1, <1>3 DEF Fits, Writing, Terminal
  <2>6. /\ row'[s].status = (IF run.ok THEN "completed" ELSE "cancelled")
        /\ row'[s].ctx /\ row'[s].arts = row[s].arts /\ SeveralGames(row'[s])
    BY <1>4, <1>6, <2>2, <2>3, <2>5 DEF SeveralGames
  <2>7. row'[s].status \in {"completed", "cancelled"}
        /\ (row'[s].status = "completed" => row'[s].arts = Artifacts)
    BY <2>4, <2>6
  <2>8. Later(run', row'[s])
    BY <2>1, <2>6, <2>7 DEF Later
  <2>9. row'[s].status \in Terminal
    BY <2>7 DEF Terminal
  <2>10. \A t \in Sessions \ {s} :
             /\ row'[t] = row[t] /\ scored'[t] = scored[t] /\ crossed'[t] = crossed[t]
             /\ t \in torn => t \in torn'
    BY <1>5, <1>6
  <2>11. SoundInv /\ (Active => run.session = s) /\ (Active' => run'.session = s)
    BY <1>2, <2>1 DEF SInv
  <2>12. QED
    BY <2>6, <2>7, <2>8, <2>9, <2>10, <2>11, LateAfter
<1>12. QED
  BY <1>9, <1>10, <1>11

LEMMA FailSound ==
    ASSUME SInv, ~Late, Fail PROVE SoundInv'
<1>1. Active /\ run.at = "fail" /\ ~Active'
  BY DEF Fail, At, Active, EndPoll
<1>2. PICK s \in Sessions : s = run.session
  BY <1>1, PlayedFacts DEF SInv
<1>3. row[s] \in Row /\ Fits(run, row[s])
  BY <1>1, <1>2, PlayedFacts DEF SInv
<1> DEFINE new == [row[s] EXCEPT !.status = "failed"]
<1>4. /\ new \in Row /\ new.status = "failed" /\ new.ctx = row[s].ctx
      /\ new.arts = row[s].arts
  BY <1>3 DEF Row, Status, Terminal
<1>5. WriteIfOk(new) /\ UNCHANGED <<scored, crossed, torn>>
  BY <1>2 DEF Fail, S, history, published
<1> HIDE DEF new
<1>6. /\ row' = row \/ row' = [row EXCEPT ![s] = new]
      /\ row' # row => run.ok
      /\ row'[s] = IF run.ok THEN new ELSE row[s]
  BY <1>1, <1>2, <1>4, <1>5, WrittenRow DEF SInv, CInv
<1>7. ~run.ok => row[s].status \in Terminal
  BY <1>1, <1>3 DEF Fits, Writing
<1>8. CASE run.ok
  <2>1. row' # row
    BY <1>3, <1>4, <1>6, <1>8 DEF Fits
  <2>2. PICK n \in Row : n = new
    BY <1>4
  <2>3. n.status \in Terminal /\ n.status # "completed"
    BY <1>4, <2>2 DEF Terminal
  <2>4. QED
    BY <1>1, <1>2, <1>4, <1>5, <1>6, <2>1, <2>2, <2>3, RunEnds DEF SInv
<1>9. CASE ~run.ok
  BY <1>1, <1>2, <1>5, <1>6, <1>7, <1>9, RunCutOff DEF SInv
<1>10. QED
  BY <1>8, <1>9

LEMMA ThrowSound ==
    ASSUME SInv, ~Late, Throw PROVE SoundInv'
<1>1. UNCHANGED <<row, crossed>>
  BY DEF Throw
<1>2. CASE run.at = "interrupted"
  <2>1. ~Active /\ ~Active' /\ UNCHANGED <<scored, torn>>
    BY <1>2 DEF Throw, Active, EndPoll
  <2>2. QED
    BY <1>1, <2>1, NoneSound DEF SInv
<1>3. CASE run.at \in {"catch", "fail"}
  <2>1. Active /\ ~Active' /\ scored' = scored
    BY <1>3 DEF Throw, Active, EndPoll
  <2>2. run.session \in Sessions
    BY <2>1, PlayedFacts DEF SInv
  <2>3. torn' = IF run.stage = 4 THEN torn \cup {run.session} ELSE torn
    BY <1>3 DEF Throw, S
  <2>4. Rescored(run) => run.session \in torn'
    BY <2>3 DEF Rescored
  <2>5. QED
    BY <1>1, <2>1, <2>3, <2>4, RunCutOff DEF SInv
<1>4. CASE run.at \notin {"interrupted", "catch", "fail"}
  <2>1. /\ torn' = torn
        /\ run' # NoRun
    <3>1. torn' = torn /\ run' = [run EXCEPT !.at = "catch"] /\ Active
      BY <1>4 DEF Throw, Active
    <3>2. run' \in Run
      BY <3>1, AtRun DEF Run, SInv, CInv
    <3>3. QED
      BY <3>1, <3>2 DEF Run, NoRun
  <2>2. /\ Active /\ run.at # "cross" /\ run' \in Run /\ run'.at = "catch"
        /\ run'.session = run.session /\ run'.have = run.have /\ run'.stage = run.stage
        /\ scored' = scored \/ (/\ run.at = "work" /\ run.stage = 4
                                /\ scored' = [scored EXCEPT ![run.session] = @ + 1])
    BY <2>1, ThrowPlaced DEF SInv, CInv
  <2>3. CASE scored' = scored
    BY <1>1, <2>1, <2>2, <2>3, WorkSound
  <2>4. CASE scored' # scored
    BY <1>1, <2>1, <2>2, <2>4, ScoreSound
  <2>5. QED
    BY <2>3, <2>4
<1>5. QED
  BY <1>2, <1>3, <1>4

\* A claimed session starts from what its row has.
LEMMA ClaimSound ==
    ASSUME SInv, ClaimPending \/ ClaimInterrupted PROVE SoundInv'
<1>1. UNCHANGED <<scored, crossed, torn>>
  BY DEF ClaimPending, ClaimInterrupted, history, published
<1>2. ~Active
  BY ClaimPlaced DEF SInv, CInv
<1>3. CASE run' = NoRun \/ run' = [at |-> "interrupted"]
  <2>1. row' = row
    BY <1>3, StatusFacts DEF ClaimPending, ClaimInterrupted, Begin, NoRun
  <2>2. ~Active'
    BY <1>3 DEF Active
  <2>3. QED
    BY <1>1, <1>2, <2>1, <2>2, NoneSound DEF SInv
<1>4. CASE ~(run' = NoRun \/ run' = [at |-> "interrupted"])
  <2>1. /\ run' \in Run /\ run'.at = "load"
        /\ run'.session \in Sessions /\ run'.have = row[run'.session].arts
        /\ run'.stage = 0 /\ run'.fresh = FALSE
        /\ row[run'.session].status \in {"pending"} \cup Running
        /\ \/ row' = row /\ row[run'.session].status \in Running
           \/ row' = [row EXCEPT ![run'.session].status = StageStatus[0]]
    BY <1>4, ClaimPlaced DEF SInv, CInv
  <2>2. PICK s \in Sessions : s = run'.session
    BY <2>1
  <2>3. /\ scored[s] \in Nat /\ crossed[s] \in Nat /\ row[s] \in Row
    BY DEF SInv, CInv, TypeInv, RestType
  <2>4. /\ RowOk(row[s], scored[s]) /\ Settled(row[s], crossed[s])
        /\ s \notin torn => Settled(row[s], scored[s])
    BY <1>2 DEF SInv, SoundInv, Sound, Playing
  <2>5. StageStatus[0] \in Running
    BY StatusFacts DEF Stages
  <2>6. /\ row'[s].status \in Running /\ row'[s].arts = row[s].arts
        /\ row'[s].ctx = row[s].ctx
        /\ \A t \in Sessions \ {s} : row'[t] = row[t]
    BY <2>1, <2>2, <2>3, <2>5 DEF SInv, CInv, TypeInv, Row
  <2>7. row[s].status \notin Terminal
    BY <2>1, <2>2, StatusFacts DEF Terminal
  <2>8. RowOk(row'[s], scored[s])
    BY <2>4, <2>6, StatusFacts DEF RowOk
  <2>9. Fits(run', row'[s])
    <3>1. row'[s].status \notin {"none", "completed", "failed"}
      BY <2>6, StatusFacts
    <3>2. run'.have = row'[s].arts /\ (run'.have # {} => row'[s].ctx)
      BY <2>1, <2>2, <2>4, <2>6 DEF RowOk
    <3>3. QED
      BY <2>1, <3>1, <3>2 DEF Fits, Writing
  <2>10. InPlay(run', crossed[s]) /\ (s \notin torn => InScore(run', scored[s]))
    BY <2>1, <2>2, <2>4, <2>7 DEF InPlay, InScore, Settled
  <2>11. QED
    BY <1>1, <1>2, <2>1, <2>2, <2>6, <2>8, <2>9, <2>10, PlaysOn DEF SInv
<1>5. QED
  BY <1>3, <1>4

\* The process goes down in the middle of a run.
LEMMA CutOffSound ==
    ASSUME SInv, ~Late, CutOff, UNCHANGED <<row, scored, crossed>> PROVE SoundInv'
<1>1. ~Active'
  BY DEF CutOff, Active
<1>2. CASE Active
  <2>1. torn' = torn \/ torn' = torn \cup {run.session}
    BY DEF CutOff
  <2>2. Rescored(run) => run.session \in torn'
    BY <1>2 DEF CutOff, Rescored, Active
  <2>3. QED
    BY <1>1, <1>2, <2>1, <2>2, RunCutOff DEF SInv
<1>3. CASE ~Active
  <2>1. torn' = torn
    BY <1>3 DEF CutOff, Active
  <2>2. QED
    BY <1>1, <1>3, <2>1, NoneSound DEF SInv
<1>4. QED
  BY <1>2, <1>3

\* A cancelled session keeps what it has; its run, if it has one, finds out.
LEMMA CancelSound ==
    ASSUME SInv, NEW s \in Sessions, Cancel(s) PROVE SoundInv'
<1>1. /\ row' = [row EXCEPT ![s].status = "cancelled"] /\ s \in cancelling
      /\ UNCHANGED <<run, scored, crossed, torn>>
  BY DEF Cancel, SetStatus, published
<1>2. /\ row'[s].status = "cancelled" /\ row'[s].arts = row[s].arts
      /\ row'[s].ctx = row[s].ctx /\ row'[s].kind = row[s].kind
      /\ \A t \in Sessions \ {s} : row'[t] = row[t]
  BY <1>1 DEF SInv, CInv, TypeInv, Row
<1>3. Sound(s) /\ row[s].arts \in SUBSET Artifacts
  BY DEF SInv, SoundInv, CInv, TypeInv, Row
<1>4. RowOk(row'[s], scored[s])
  BY <1>2, <1>3 DEF Sound, RowOk
<1>5. Playing(s)' <=> Playing(s)
  BY <1>1 DEF Playing, Active
<1>6. ASSUME ~Playing(s)
      PROVE  /\ Settled(row'[s], crossed[s])
             /\ s \notin torn => Settled(row'[s], scored[s])
  BY <1>2, <1>3, <1>6 DEF Sound, Settled, SeveralGames, Terminal
<1>7. ASSUME Playing(s)
      PROVE  \/ Later(run, row'[s])
             \/ /\ Fits(run, row'[s]) /\ InPlay(run, crossed[s])
                /\ s \notin torn => InScore(run, scored[s])
  <2>1. Fits(run, row[s]) => Fits(run, row'[s])
    BY <1>2, <1>3 DEF Fits, Terminal
  <2>2. Later(run, row[s]) => Later(run, row'[s])
    BY <1>2 DEF Later, SeveralGames
  <2>3. QED
    BY <1>3, <1>7, <2>1, <2>2 DEF Sound
<1>8. Sound(s)'
  BY <1>1, <1>4, <1>5, <1>6, <1>7 DEF Sound
<1>9. QED
  BY <1>1, <1>2, <1>8, OneSound DEF SInv

\* A new session starts with nothing done.
LEMMA CreateSound ==
    ASSUME SInv, NEW kind \in {"seeded", "seedless", "auto"}, Create(kind),
           UNCHANGED <<run, scored, crossed, torn>>
    PROVE  SoundInv'
<1>1. PICK s \in Sessions :
          /\ row[s].status = "none"
          /\ row' = [row EXCEPT ![s] = [NoRow EXCEPT !.status = "pending", !.kind = kind]]
  BY CreateNext DEF SInv, CInv
<1>2. /\ row'[s].status = "pending" /\ row'[s].arts = {} /\ row'[s].ctx = FALSE
      /\ \A t \in Sessions \ {s} : row'[t] = row[t]
  BY <1>1 DEF SInv, CInv, TypeInv, NoRow
<1>3. ~Playing(s) /\ ~Playing(s)'
  BY <1>1 DEF SInv, CInv, InHand, Created, In, Playing, Active
<1>4. /\ Sound(s) /\ scored[s] \in Nat /\ crossed[s] \in Nat /\ row[s] \in Row
  BY DEF SInv, SoundInv, CInv, TypeInv, RestType
<1>5. scored[s] = 0 /\ row[s].arts = {}
  BY <1>1, <1>4 DEF Sound, RowOk
<1>6. crossed[s] = 0
  BY <1>1, <1>3, <1>4, <1>5 DEF Sound, Settled, Terminal
<1>7. RowOk(row'[s], scored[s]) /\ Settled(row'[s], crossed[s]) /\ Settled(row'[s], scored[s])
  BY <1>2, <1>5, <1>6 DEF RowOk, Settled
<1>8. Sound(s)'
  BY <1>3, <1>7 DEF Sound
<1>9. QED
  BY <1>2, <1>8, OneSound DEF SInv

\* A further game leaves the row as the first one left it, but for its status.
LEMMA LateFacts ==
    ASSUME SInv, Late
    PROVE  /\ Active /\ run \in Run /\ run.session \in Sessions /\ row[run.session] \in Row
           /\ Later(run, row[run.session]) /\ SoundInv /\ row \in [Sessions -> Row]
  BY AtRun DEF SInv, CInv, TypeInv, Late

LEMMA LateMoves ==
    ASSUME SInv, Late, row' = row,
           \A t \in Sessions \ {run.session} :
               /\ scored'[t] = scored[t] /\ crossed'[t] = crossed[t]
               /\ t \in torn => t \in torn',
           Active' =>
               /\ run'.session = run.session
               /\ run'.at \in {"mark", "save"} => ~run'.ok
               /\ run'.at = "complete" /\ run'.ok =>
                      \/ row[run.session].status # "cancelled"
                      \/ run.at = "complete" /\ run.ok
    PROVE  SoundInv'
<1>1. PICK s \in Sessions : s = run.session
  BY LateFacts
<1>2. SoundInv /\ Later(run, row[s])
  BY <1>1, LateFacts
<1>3. Active' => run'.session = s /\ Later(run', row'[s])
  BY <1>1, <1>2 DEF Later
<1>4. row'[s].ctx /\ row'[s].status \in Terminal /\ SeveralGames(row'[s])
      /\ (row'[s].status = "completed" => row'[s].arts = Artifacts)
  BY <1>2 DEF Later, Terminal
<1>5. QED
  BY <1>1, <1>2, <1>3, <1>4, LateAfter

\* The step that follows the guard's read.
LEMMA LateWrites ==
    ASSUME SInv, Late, NEW new \in Row, WriteIfOk(new),
           UNCHANGED <<scored, crossed, torn>>,
           new.kind = row[run.session].kind, new.ctx = row[run.session].ctx,
           new.arts = row[run.session].arts,
           new.status = "completed" => run.at = "complete",
           run.ok => new.status = "completed" \/ (new.status = "failed" /\ ~Active'),
           Active' => run'.session = run.session /\ run'.at \in {"check", "work", "cross"}
    PROVE  SoundInv'
<1>1. PICK s \in Sessions : s = run.session
  BY LateFacts
<1>2. SoundInv /\ Later(run, row[s]) /\ TypeInv /\ Active
  BY <1>1, LateFacts DEF SInv, CInv
<1>3. /\ row'[s] = IF run.ok THEN new ELSE row[s]
      /\ \A t \in Sessions \ {s} : row'[t] = row[t]
  BY <1>1, <1>2, WrittenRow
<1>4. row'[s].ctx /\ row'[s].status \in Terminal /\ SeveralGames(row'[s])
      /\ (row'[s].status = "completed" => row'[s].arts = Artifacts)
  BY <1>1, <1>2, <1>3 DEF Later, SeveralGames, Terminal
<1>5. Active' => run'.session = s /\ Later(run', row'[s])
  BY <1>1, <1>2, <1>3, <1>4 DEF Later
<1>6. QED
  BY <1>1, <1>2, <1>3, <1>4, <1>5, LateAfter

LEMMA LateStep ==
    ASSUME SInv, Late,
           \/ Exit \/ Crash \/ LoadContext \/ Discover \/ Guard \/ Mark \/ Synthesize
           \/ PlayGame \/ LastRound \/ Score \/ Report \/ Save
           \/ (\E done \in BOOLEAN : CrossWrite(done))
           \/ Complete \/ Fail \/ GameAborts \/ Throw \/ Watch \/ TimeOut
    PROVE  SoundInv'
<1> USE DEF history, published
<1>1. PICK s \in Sessions : s = run.session
  BY LateFacts
<1>2. /\ Active /\ run \in Run /\ row[s] \in Row /\ Later(run, row[s])
      /\ TypeInv /\ RunInv /\ RestType /\ SoundInv
  BY <1>1, LateFacts DEF SInv, CInv
<1>3. ASSUME UNCHANGED <<row, scored, crossed, torn>>,
             \/ ~Active'
             \/ /\ run'.session = run.session
                /\ run'.at \notin {"mark", "save", "complete"}
      PROVE  SoundInv'
  BY <1>3, LateMoves
<1>4. CASE Exit \/ Crash
  <2>1. ~Active' /\ torn \subseteq torn' /\ UNCHANGED <<row, scored, crossed>>
    BY <1>4 DEF Exit, Crash, CutOff, Active
  <2>2. QED
    BY <2>1, LateMoves
<1>5. CASE LoadContext
  <2>1. run'.session = run.session /\ run'.at \in {"check", "discover"}
    BY <1>2, <1>5, LoadPlaced
  <2>2. QED
    BY <1>3, <1>5, <2>1 DEF LoadContext
<1>6. CASE Discover
  <2>1. \/ run' = NoRun
        \/ run'.session = run.session /\ run'.at \in {"finish", "check"}
    BY <1>2, <1>6, DiscoverPlaced
  <2>2. \/ ~Active'
        \/ run'.session = run.session /\ run'.at \notin {"mark", "save", "complete"}
    BY <2>1 DEF Active
  <2>3. QED
    BY <1>3, <1>6, <2>2 DEF Discover
<1>7. CASE Guard
  <2>1. /\ run'.session = run.session
        /\ \/ Reads("check", "mark", FALSE) \/ Reads("recheck", "save", FALSE)
           \/ Reads("finish", "complete", TRUE) \/ Reads("catch", "fail", TRUE)
    BY <1>2, <1>7, GuardPlaced
  <2>2. row[run.session].status \in Terminal
    BY <1>1, <1>2 DEF Later, Terminal
  <2>3. /\ run'.at \in {"mark", "save"} => ~run'.ok
        /\ run'.at = "complete" /\ run'.ok => row[run.session].status # "cancelled"
    BY <2>1, <2>2 DEF Reads, MayWrite
  <2>4. UNCHANGED <<row, scored, crossed, torn>>
    BY <1>7 DEF Guard
  <2>5. QED
    BY <2>1, <2>3, <2>4, LateMoves
<1>8. CASE Mark \/ Save
  <2>1. /\ run.at \in {"mark", "save"} /\ run'.session = run.session
        /\ run'.at \in {"check", "work", "cross"}
    BY <1>2, <1>8, MarkPlaced, SavePlaced
  <2>2. ~run.ok
    BY <1>2, <2>1 DEF Later
  <2>3. UNCHANGED <<row, scored, crossed, torn>>
    BY <1>8, <2>2 DEF Mark, Save, WriteIfOk
  <2>4. QED
    BY <1>3, <2>1, <2>3
<1>9. CASE Synthesize
  <2>1. run'.session = s /\ run'.at = "check"
    BY <1>1, <1>2, <1>9, SynthesizePlaced
  <2>2. row' = [row EXCEPT ![s].ctx = TRUE] /\ UNCHANGED <<scored, crossed, torn>>
    BY <1>1, <1>9 DEF Synthesize, S
  <2>3. row' = row
    BY <1>2, <2>2 DEF Later, TypeInv, Row
  <2>4. QED
    BY <1>1, <1>3, <2>1, <2>2, <2>3
<1>10. CASE PlayGame \/ LastRound
  <2>1. run'.session = run.session /\ run'.at \in {"last", "recheck"}
    BY <1>2, <1>10, PlayPlaced
  <2>2. QED
    BY <1>3, <1>10, <2>1 DEF PlayGame, LastRound
<1>11. CASE Score
  <2>1. run'.session = run.session /\ run'.at = "recheck"
    BY <1>2, <1>11, ScorePlaced
  <2>2. /\ scored' = [scored EXCEPT ![s] = @ + 1] /\ UNCHANGED <<row, crossed, torn>>
    BY <1>1, <1>11 DEF Score, S
  <2>3. \A t \in Sessions \ {s} : scored'[t] = scored[t]
    BY <1>2, <2>2 DEF RestType
  <2>4. QED
    BY <1>1, <2>1, <2>2, <2>3, LateMoves
<1>12. CASE Report
  <2>1. run'.session = run.session /\ run'.at = "finish"
    BY <1>2, <1>12, ReportPlaced
  <2>2. QED
    BY <1>3, <1>12, <2>1 DEF Report
<1>13. CASE \E done \in BOOLEAN : CrossWrite(done)
  <2>1. PICK done \in BOOLEAN : CrossWrite(done)
    BY <1>13
  <2>2. run'.session = run.session /\ run'.at = "check"
    BY <1>2, <2>1, CrossPlaced
  <2>3. /\ crossed' = crossed \/ crossed' = [crossed EXCEPT ![s] = @ + 1]
        /\ UNCHANGED <<row, scored, torn>>
    BY <1>1, <2>1 DEF CrossWrite, S
  <2>4. \A t \in Sessions \ {s} : crossed'[t] = crossed[t]
    BY <1>2, <2>3 DEF RestType
  <2>5. QED
    BY <1>1, <2>2, <2>3, <2>4, LateMoves
<1>14. CASE Complete
  <2> DEFINE new == [row[s] EXCEPT !.status = "completed"]
  <2>1. /\ new \in Row /\ new.status = "completed" /\ new.ctx = row[s].ctx
        /\ new.arts = row[s].arts /\ new.kind = row[s].kind
    BY <1>2 DEF Row, Status, Terminal
  <2>2. WriteIfOk(new) /\ UNCHANGED <<scored, crossed, torn>>
    BY <1>1, <1>14 DEF Complete, S
  <2> HIDE DEF new
  <2>3. /\ run.at = "complete"
        /\ Active' => run'.session = run.session /\ run'.at = "check"
    BY <1>2, <1>14, CompletePlaced DEF Active
  <2>4. PICK n \in Row : n = new
    BY <2>1
  <2>5. QED
    BY <1>1, <2>1, <2>2, <2>3, <2>4, LateWrites
<1>15. CASE Fail
  <2> DEFINE new == [row[s] EXCEPT !.status = "failed"]
  <2>1. /\ new \in Row /\ new.status = "failed" /\ new.ctx = row[s].ctx
        /\ new.arts = row[s].arts /\ new.kind = row[s].kind
    BY <1>2 DEF Row, Status, Terminal
  <2>2. WriteIfOk(new) /\ UNCHANGED <<scored, crossed, torn>>
    BY <1>1, <1>15 DEF Fail, S
  <2> HIDE DEF new
  <2>3. ~Active'
    BY <1>15 DEF Fail, EndPoll, Active
  <2>4. PICK n \in Row : n = new
    BY <2>1
  <2>5. QED
    BY <1>1, <2>1, <2>2, <2>3, <2>4, LateWrites
<1>16. CASE GameAborts
  <2>1. run'.session = run.session /\ run'.at = "catch"
    BY <1>2, <1>16 DEF GameAborts, Run
  <2>2. QED
    BY <1>3, <1>16, <2>1 DEF GameAborts
<1>17. CASE Throw
  <2>1. /\ run' = NoRun \/ (run'.at = "catch" /\ run'.session = run.session)
        /\ scored' = scored \/ scored' = [scored EXCEPT ![run.session] = @ + 1]
    BY <1>2, <1>17, ThrowPlaced
  <2>2. /\ UNCHANGED <<row, crossed>> /\ torn \subseteq torn'
    BY <1>17 DEF Throw
  <2>3. \A t \in Sessions \ {s} : scored'[t] = scored[t]
    BY <1>1, <1>2, <2>1 DEF RestType
  <2>4. Active' => run'.at = "catch" /\ run'.session = run.session
    BY <2>1 DEF Active
  <2>5. QED
    BY <1>1, <2>2, <2>3, <2>4, LateMoves
<1>18. CASE Watch \/ TimeOut
  <2>1. Abort /\ UNCHANGED <<row, scored, crossed, torn>>
    BY <1>18 DEF Watch, TimeOut
  <2>2. run'.at = run.at /\ run'.session = run.session /\ run'.ok = run.ok
    BY <1>2, <2>1, AbortPlaced
  <2>3. run.at \in {"mark", "save"} => ~run.ok
    BY <1>2 DEF Later
  <2>4. QED
    BY <2>1, <2>2, <2>3, LateMoves
<1>19. QED
  BY <1>4, <1>5, <1>6, <1>7, <1>8, <1>9, <1>10, <1>11, <1>12, <1>13, <1>14, <1>15,
     <1>16, <1>17, <1>18

LEMMA SoundStep ==
    ASSUME SInv, [Next]_vars PROVE SoundInv'
<1> USE DEF history, published
<1>0. ASSUME Late, \/ Exit \/ Crash \/ LoadContext \/ Discover \/ Guard \/ Mark \/ Synthesize
                   \/ PlayGame \/ LastRound \/ Score \/ Report \/ Save
                   \/ (\E done \in BOOLEAN : CrossWrite(done))
                   \/ Complete \/ Fail \/ GameAborts \/ Throw \/ Watch \/ TimeOut
      PROVE  SoundInv'
  BY <1>0, LateStep
<1>1. CASE UNCHANGED vars
  BY <1>1, NoneSound DEF vars, SInv
<1>2. CASE CountPending
  BY <1>2, NoneSound DEF CountPending, SInv
<1>3. CASE \E kind \in {"seeded", "seedless"} : PostSession(kind)
  <2>1. PICK kind \in {"seeded", "seedless"} : PostSession(kind)
    BY <1>3
  <2>2. Create(kind) /\ UNCHANGED <<run, scored, crossed, torn>>
    BY <2>1 DEF PostSession
  <2>3. QED
    BY <2>2, CreateSound
<1>4. CASE \E s \in Sessions : ReadToCancel(s) \/ Cancel(s)
  <2>1. PICK s \in Sessions : ReadToCancel(s) \/ Cancel(s)
    BY <1>4
  <2>2. CASE ReadToCancel(s)
    BY <2>2, NoneSound DEF ReadToCancel, SInv
  <2>3. CASE Cancel(s)
    BY <2>3, CancelSound
  <2>4. QED
    BY <2>1, <2>2, <2>3
<1>5. CASE TickCounts
  BY <1>5, NoneSound DEF TickCounts, SInv
<1>6. CASE TickInserts
  BY <1>6, CreateSound DEF TickInserts
<1>7. CASE Boot \/ Terminate
  BY <1>7, NoneSound DEF Boot, Terminate, SInv
<1>8. CASE ~Late /\ (Exit \/ Crash)
  BY <1>8, CutOffSound DEF Exit, Crash
<1>9. CASE ClaimPending \/ ClaimInterrupted
  BY <1>9, ClaimSound
<1>10. CASE ~Late /\ (LoadContext \/ Discover \/ Guard \/ Mark \/ Synthesize)
  BY <1>10, LoadSound, DiscoverSound, GuardSound, MarkSound, SynthesizeSound
<1>11. CASE ~Late /\ (PlayGame \/ LastRound)
  <2>1. /\ Active /\ run.at \in {"work", "last"} /\ run' \in Run
        /\ run'.at \in {"last", "recheck"}
        /\ run'.session = run.session /\ run'.have = run.have /\ run'.stage = run.stage
    BY <1>11, PlayPlaced DEF SInv, CInv
  <2>2. UNCHANGED <<row, scored, crossed, torn>>
    BY <1>11 DEF PlayGame, LastRound
  <2>3. QED
    BY <1>11, <2>1, <2>2, WorkSound
<1>12. CASE ~Late /\ Score
  <2>1. /\ Active /\ run.at = "work" /\ run.stage = 4 /\ run' \in Run /\ run'.at = "recheck"
        /\ run'.session = run.session /\ run'.have = run.have /\ run'.stage = run.stage
    BY <1>12, ScorePlaced DEF SInv, CInv
  <2>2. UNCHANGED <<row, crossed, torn>> /\ scored' = [scored EXCEPT ![run.session] = @ + 1]
    BY <1>12 DEF Score, S
  <2>3. QED
    BY <1>12, <2>1, <2>2, ScoreSound
<1>13. CASE ~Late /\ Report
  <2>1. /\ Active /\ run.at = "work" /\ run.stage = 5 /\ run' \in Run /\ run'.at = "finish"
        /\ run'.session = run.session /\ run'.have = run.have /\ run'.stage = run.stage
    BY <1>13, ReportPlaced DEF SInv, CInv
  <2>2. UNCHANGED <<row, scored, crossed, torn>>
    BY <1>13 DEF Report
  <2>3. QED
    BY <1>13, <2>1, <2>2, WorkSound
<1>14. CASE ~Late /\ (Save \/ (\E done \in BOOLEAN : CrossWrite(done)))
  BY <1>14, SaveSound, CrossSound
<1>15. CASE ~Late /\ (Complete \/ Fail)
  BY <1>15, CompleteSound, FailSound
<1>16. CASE ~Late /\ GameAborts
  <2>1. /\ Active /\ run' = [run EXCEPT !.at = "catch"]
        /\ UNCHANGED <<row, scored, crossed, torn>>
    BY <1>16 DEF GameAborts, At, Active
  <2>2. /\ run' \in Run /\ run'.at = "catch" /\ run'.session = run.session
        /\ run'.have = run.have /\ run'.stage = run.stage
    BY <2>1, MovePlaced DEF SInv, CInv
  <2>3. QED
    BY <1>16, <2>1, <2>2, WorkSound
<1>17. CASE ~Late /\ Throw
  BY <1>17, ThrowSound
<1>18. CASE ~Late /\ (Watch \/ TimeOut)
  <2>1. Active /\ Abort /\ UNCHANGED <<row, scored, crossed, torn>>
    BY <1>18 DEF Watch, TimeOut, Active
  <2>2. /\ run' \in Run /\ run'.at = run.at /\ run'.ok = run.ok /\ run'.fresh = run.fresh
        /\ run'.session = run.session /\ run'.have = run.have /\ run'.stage = run.stage
    BY <2>1, AbortPlaced DEF SInv, CInv
  <2>3. QED
    BY <1>18, <2>1, <2>2, WorkSound
<1>19. QED
  BY <1>0, <1>1, <1>2, <1>3, <1>4, <1>5, <1>6, <1>7, <1>8, <1>9, <1>10, <1>11, <1>12, <1>13,
     <1>14, <1>15, <1>16, <1>17, <1>18 DEF Next

-----------------------------------------------------------------------------
(* The scheduler's own sessions *)

\* A step after which no more of them are unfinished than before.
LEMMA AutosKept ==
    ASSUME AutoInv, raced \subseteq raced', miscounted => miscounted', ticking' => ticking,
           raced = {} => Autos' \subseteq Autos
    PROVE  AutoInv'
<1> SUFFICES ASSUME ~miscounted', raced' = {}
             PROVE  (\A s, t \in Autos' : s = t) /\ (ticking' => Autos' = {})
  BY DEF AutoInv
<1>1. ~miscounted /\ raced = {} /\ Autos' \subseteq Autos
  OBVIOUS
<1>2. QED
  BY <1>1 DEF AutoInv

\* A write to one session that was created, or to none.
LEMMA AutosWritten ==
    ASSUME CInv, NEW s \in Created, NEW new \in Row, new.status # "none",
           row' = row \/ row' = [row EXCEPT ![s] = new],
           new.kind = row[s].kind,
           raced = {} /\ row' # row /\ new.status \notin Terminal => row[s].status \notin Terminal
    PROVE  raced = {} => Autos' \subseteq Autos
<1>1. Created' = Created /\ s \in Sessions
  BY CreatedKept DEF CInv, Created
<1>2. CASE row' = row
  BY <1>1, <1>2 DEF Autos
<1>3. CASE row' # row
  <2>1. row'[s] = new /\ \A t \in Sessions \ {s} : row'[t] = row[t]
    BY <1>1, <1>3 DEF CInv, TypeInv
  <2>2. QED
    BY <1>1, <1>3, <2>1 DEF Autos, Created
<1>4. QED
  BY <1>2, <1>3

\* The guard keeps a run from bringing its session back, unless that was
\* cancelled between the read and the write.
LEMMA NotBroughtBack ==
    ASSUME SInv, Active, run.at \in {"mark", "save"}, run.ok, raced = {}
    PROVE  row[run.session].status \notin Terminal
<1>1. run.session \in Sessions /\ Fits(run, row[run.session])
  <2>1. ~Late
    BY DEF Late, Later
  <2>2. QED
    BY <2>1, PlayedFacts DEF SInv
<1>2. WriteInFlight(run.session)
  BY DEF WriteInFlight, Writing, Active
<1>3. row[run.session].status # "cancelled"
  BY <1>1, <1>2 DEF SInv, CInv, GuardHolds
<1>4. QED
  BY <1>1, <1>3 DEF Fits, Terminal

LEMMA AutosAfterWrite ==
    ASSUME SInv, Active, run.at \in Writing, NEW status \in Status \ {"none"},
           NEW new \in Row, new.status = status, new.kind = row[run.session].kind,
           status \in Terminal \/ run.at \in {"mark", "save"}, WriteIfOk(new)
    PROVE  raced = {} => Autos' \subseteq Autos
<1>1. PICK s \in Sessions : s = run.session
  BY AtRun DEF SInv, CInv
<1>2. s \in Created
  BY <1>1 DEF SInv, CInv, InHand
<1>3. /\ row' = row \/ row' = [row EXCEPT ![s] = new]
      /\ row' # row => run.ok
  BY <1>1, WrittenRow DEF SInv, CInv
<1>4. raced = {} /\ row' # row /\ new.status \notin Terminal => row[s].status \notin Terminal
  BY <1>1, <1>3, NotBroughtBack
<1>5. CInv /\ new.status # "none"
  BY DEF SInv
<1>6. QED
  BY <1>1, <1>2, <1>3, <1>4, <1>5, AutosWritten

\* A new session of the scheduler, or of a user.
LEMMA AutosCreated ==
    ASSUME CInv, NEW kind \in {"seeded", "seedless", "auto"}, Create(kind)
    PROVE  \E s \in Sessions :
               /\ Autos' \subseteq Autos \cup {s}
               /\ kind # "auto" => Autos' \subseteq Autos
<1>1. PICK s \in Sessions :
          /\ row[s].status = "none"
          /\ row' = [row EXCEPT ![s] = [NoRow EXCEPT !.status = "pending", !.kind = kind]]
          /\ Created' = Created \cup {s}
  BY CreateNext DEF CInv
<1>2. /\ row'[s].kind = kind
      /\ \A t \in Sessions \ {s} : row'[t] = row[t]
  BY <1>1 DEF CInv, TypeInv, NoRow
<1>3. QED
  BY <1>1, <1>2 DEF Autos, Created

\* A row with another status, and what it keeps.
LEMMA NewStatus ==
    ASSUME NEW r \in Row, NEW status \in Status, NEW arts \in SUBSET Artifacts
    PROVE  /\ \E new \in Row : /\ new = [r EXCEPT !.status = status]
                               /\ new.status = status /\ new.kind = r.kind
           /\ \E new \in Row : /\ new = [r EXCEPT !.status = status, !.arts = arts]
                               /\ new.status = status /\ new.kind = r.kind
<1> DEFINE a == [r EXCEPT !.status = status]
           b == [r EXCEPT !.status = status, !.arts = arts]
<1>1. a \in Row /\ a.status = status /\ a.kind = r.kind
  BY DEF Row
<1>2. b \in Row /\ b.status = status /\ b.kind = r.kind
  BY DEF Row
<1> HIDE DEF a, b
<1>3. (\E new \in Row : new = a /\ new.status = status /\ new.kind = r.kind)
      /\ (\E new \in Row : new = b /\ new.status = status /\ new.kind = r.kind)
  BY <1>1, <1>2
<1>4. QED
  BY <1>3 DEF a, b

LEMMA AutoStep ==
    ASSUME SInv, [Next]_vars PROVE AutoInv'
<1> USE DEF history, published, requests
<1>0. CInv /\ AutoInv /\ row \in [Sessions -> Row]
  BY DEF SInv, CInv, TypeInv
<1>1. ASSUME row' = row, raced' = raced, miscounted => miscounted', ticking' => ticking
      PROVE  AutoInv'
  <2>1. Autos' = Autos
    BY <1>1 DEF Autos, Created, In
  <2>2. QED
    BY <1>0, <1>1, <2>1, AutosKept
<1>2. ASSUME raced = {} => Autos' \subseteq Autos, raced \subseteq raced',
             miscounted' = miscounted, ticking' = ticking
      PROVE  AutoInv'
  BY <1>0, <1>2, AutosKept
<1>3. CASE UNCHANGED vars
  BY <1>1, <1>3 DEF vars
<1>4. CASE CountPending
  BY <1>1, <1>4 DEF CountPending
<1>5. CASE \E kind \in {"seeded", "seedless"} : PostSession(kind)
  <2>1. PICK kind \in {"seeded", "seedless"} : PostSession(kind)
    BY <1>5
  <2>2. Create(kind) /\ UNCHANGED <<raced, miscounted, ticking>>
    BY <2>1 DEF PostSession
  <2>3. Autos' \subseteq Autos
    BY <1>0, <2>2, AutosCreated
  <2>4. QED
    BY <1>2, <2>2, <2>3
<1>6. CASE \E s \in Sessions : ReadToCancel(s) \/ Cancel(s)
  <2>1. PICK s \in Sessions : ReadToCancel(s) \/ Cancel(s)
    BY <1>6
  <2>2. CASE ReadToCancel(s)
    BY <1>1, <2>2 DEF ReadToCancel
  <2>3. CASE Cancel(s)
    <3>1. PICK new \in Row : /\ new = [row[s] EXCEPT !.status = "cancelled"]
                             /\ new.status = "cancelled" /\ new.kind = row[s].kind
      BY <1>0, NewStatus DEF Status, Terminal
    <3>2. s \in Created /\ row' = [row EXCEPT ![s] = new]
      BY <1>0, <2>3, <3>1 DEF Cancel, SetStatus, CInv, InHand
    <3>3. new.status \in Terminal /\ new.status # "none"
      BY <3>1 DEF Terminal
    <3>4. raced = {} => Autos' \subseteq Autos
      BY <1>0, <3>1, <3>2, <3>3, AutosWritten
    <3>5. raced \subseteq raced' /\ UNCHANGED <<miscounted, ticking>>
      BY <2>3 DEF Cancel
    <3>6. QED
      BY <1>2, <3>4, <3>5
  <2>4. QED
    BY <2>1, <2>2, <2>3
<1>7. CASE TickCounts
  <2>1. UNCHANGED <<row, raced>>
    BY <1>7 DEF TickCounts
  <2>2. CASE miscounted' = TRUE
    BY <2>2 DEF AutoInv
  <2>3. CASE Runnable = {} /\ miscounted' = miscounted
    <3>1. \A s \in Sessions : row[s].status \notin {"pending"} \cup Running
      BY <2>3 DEF Runnable, In
    <3>2. \A s \in Sessions : row[s].status \in Status
      BY <1>0 DEF Row
    <3>3. Autos = {}
      BY <3>1, <3>2 DEF Autos, Created, In, Status
    <3>4. Autos' = {}
      BY <2>1, <3>3 DEF Autos, Created, In
    <3>5. QED
      BY <3>4 DEF AutoInv
  <2>4. QED
    BY <1>7, <2>2, <2>3 DEF TickCounts
<1>8. CASE TickInserts
  <2>1. /\ ticking /\ ~ticking' /\ Create("auto") /\ UNCHANGED <<raced, miscounted>>
    BY <1>8 DEF TickInserts
  <2>2. PICK s \in Sessions : Autos' \subseteq Autos \cup {s}
    BY <1>0, <2>1, AutosCreated
  <2>3. ~miscounted /\ raced = {} => Autos = {}
    BY <1>0, <2>1 DEF AutoInv
  <2>4. QED
    BY <2>1, <2>2, <2>3 DEF AutoInv
<1>9. CASE Boot \/ Terminate
  BY <1>1, <1>9 DEF Boot, Terminate
<1>10. CASE Exit \/ Crash
  BY <1>1, <1>10 DEF Exit, Crash, CutOff
<1>11. CASE ClaimPending \/ ClaimInterrupted
  <2>1. UNCHANGED <<raced, miscounted, ticking>>
    BY <1>11 DEF ClaimPending, ClaimInterrupted
  <2>2. CASE row' = row
    BY <1>1, <2>1, <2>2
  <2>3. CASE row' # row
    <3>1. In({"pending"}) # {} /\ ClaimPending
      BY <1>11, <2>3 DEF ClaimPending, ClaimInterrupted
    <3>2. Oldest(In({"pending"})) \in In({"pending"})
      BY <3>1, OldestIn DEF In
    <3>3. PICK s \in Sessions : /\ row[s].status = "pending"
                               /\ row' = [row EXCEPT ![s].status = StageStatus[0]]
      BY <3>1, <3>2 DEF ClaimPending, In, SetStatus
    <3>4. PICK new \in Row : /\ new = [row[s] EXCEPT !.status = StageStatus[0]]
                             /\ new.status = StageStatus[0] /\ new.kind = row[s].kind
      <4>1. StageStatus[0] \in Status /\ row[s] \in Row
        BY <1>0, StatusFacts DEF Stages
      <4>2. QED
        BY <4>1, NewStatus
    <3>5. new.status # "none" /\ row[s].status \notin Terminal /\ s \in Created
      BY <3>3, <3>4, StatusFacts DEF Stages, Terminal, Created, In
    <3>6. row' = [row EXCEPT ![s] = new]
      BY <3>3, <3>4
    <3>7. raced = {} => Autos' \subseteq Autos
      BY <1>0, <3>4, <3>5, <3>6, AutosWritten
    <3>8. QED
      BY <1>2, <2>1, <3>7
  <2>4. QED
    BY <2>2, <2>3
<1>12. CASE LoadContext \/ Guard \/ PlayGame \/ LastRound \/ Score \/ Report \/ GameAborts
  BY <1>1, <1>12 DEF LoadContext, Guard, PlayGame, LastRound, Score, Report, GameAborts
<1>13. CASE Discover
  BY <1>1, <1>13 DEF Discover
<1>14. CASE \E done \in BOOLEAN : CrossWrite(done)
  BY <1>1, <1>14 DEF CrossWrite
<1>15. CASE Throw \/ Watch \/ TimeOut
  BY <1>1, <1>15 DEF Throw, Watch, TimeOut
<1>16. CASE Mark \/ Save \/ Synthesize \/ Complete \/ Fail
  <2>1. Active /\ UNCHANGED <<raced, miscounted, ticking>>
    BY <1>16 DEF Mark, Save, Synthesize, Complete, Fail, At, Active
  <2>2. /\ run \in Run /\ run.session \in Sessions /\ row[run.session] \in Row
        /\ row[run.session].arts \subseteq Artifacts /\ run.stage \in Stages
    BY <1>0, <2>1, AtRun DEF CInv, Run, Row
  <2>3. CASE Mark
    <3>1. PICK new \in Row :
              /\ new = [row[run.session] EXCEPT !.status = StageStatus[run.stage]]
              /\ new.status = StageStatus[run.stage] /\ new.kind = row[run.session].kind
      BY <2>2, StatusFacts, NewStatus
    <3>2. WriteIfOk(new) /\ run.at \in Writing /\ run.at \in {"mark", "save"}
      BY <2>3, <3>1 DEF Mark, S, At, Writing
    <3>3. new.status \in Status \ {"none"}
      BY <2>2, <3>1, StatusFacts
    <3>4. QED
      BY <1>2, <2>1, <3>1, <3>2, <3>3, AutosAfterWrite
  <2>4. CASE Save
    <3>1. run.stage \in Artifacts
      BY <2>4, SavePlaced DEF SInv, CInv
    <3>2. row[run.session].arts \cup {run.stage} \in SUBSET Artifacts
      BY <2>2, <3>1
    <3>3. PICK new \in Row :
              /\ new = [row[run.session] EXCEPT !.status = StageStatus[run.stage],
                                                !.arts = @ \cup {run.stage}]
              /\ new.status = StageStatus[run.stage] /\ new.kind = row[run.session].kind
      BY <2>2, <3>1, <3>2, StatusFacts, NewStatus
    <3>4. WriteIfOk(new) /\ run.at \in Writing /\ run.at \in {"mark", "save"}
      BY <2>4, <3>3 DEF Save, S, At, Writing
    <3>5. new.status \in Status \ {"none"}
      BY <2>2, <3>3, StatusFacts
    <3>6. QED
      BY <1>2, <2>1, <3>3, <3>4, <3>5, AutosAfterWrite
  <2>5. CASE Synthesize
    <3>1. row' = [row EXCEPT ![run.session].ctx = TRUE]
      BY <2>5 DEF Synthesize, S
    <3>2. \A s \in Sessions : row'[s].status = row[s].status /\ row'[s].kind = row[s].kind
      BY <1>0, <3>1 DEF Row
    <3>3. Autos' \subseteq Autos
      BY <3>2 DEF Autos, Created, In
    <3>4. QED
      BY <1>2, <2>1, <3>3
  <2>6. CASE Complete
    <3>1. PICK new \in Row :
              /\ new = [row[run.session] EXCEPT !.status = "completed"]
              /\ new.status = "completed" /\ new.kind = row[run.session].kind
      BY <2>2, NewStatus DEF Status, Terminal
    <3>2. WriteIfOk(new) /\ run.at \in Writing
      BY <2>6, <3>1 DEF Complete, S, At, Writing
    <3>3. new.status \in Status \ {"none"} /\ new.status \in Terminal
      BY <3>1 DEF Status, Terminal
    <3>4. QED
      BY <1>2, <2>1, <3>1, <3>2, <3>3, AutosAfterWrite
  <2>7. CASE Fail
    <3>1. PICK new \in Row :
              /\ new = [row[run.session] EXCEPT !.status = "failed"]
              /\ new.status = "failed" /\ new.kind = row[run.session].kind
      BY <2>2, NewStatus DEF Status, Terminal
    <3>2. WriteIfOk(new) /\ run.at \in Writing
      BY <2>7, <3>1 DEF Fail, S, At, Writing
    <3>3. new.status \in Status \ {"none"} /\ new.status \in Terminal
      BY <3>1 DEF Status, Terminal
    <3>4. QED
      BY <1>2, <2>1, <3>1, <3>2, <3>3, AutosAfterWrite
  <2>8. QED
    BY <1>16, <2>3, <2>4, <2>5, <2>6, <2>7
<1>17. QED
  BY <1>3, <1>4, <1>5, <1>6, <1>7, <1>8, <1>9, <1>10, <1>11, <1>12, <1>13, <1>14,
     <1>15, <1>16 DEF Next

LEMMA RestStep ==
    ASSUME SInv, [Next]_vars PROVE RestType'
<1> USE DEF history, published, requests, RestType
<1>0. RestType /\ TypeInv /\ MaxSessions \in Nat /\ MaxFaults \in Nat
  BY SigeAssumption DEF SInv, CInv
<1>1. CASE UNCHANGED vars
  BY <1>0, <1>1 DEF vars
<1>2. CASE CountPending
  <2>1. Cardinality(Created) \in Nat
    <3>1. PICK n \in 0..MaxSessions : Created = 1..n
      BY DEF SInv, CInv, IdsInOrder
    <3>2. QED
      BY <1>0, <3>1, FS_Interval
  <2>2. QED
    BY <1>0, <1>2, <2>1 DEF CountPending
<1>3. CASE \E kind \in {"seeded", "seedless"} : PostSession(kind)
  BY <1>0, <1>3 DEF PostSession
<1>4. CASE \E s \in Sessions : ReadToCancel(s) \/ Cancel(s)
  BY <1>0, <1>4 DEF ReadToCancel, Cancel, Fault
<1>5. CASE TickCounts \/ TickInserts \/ Boot \/ Terminate
  <2>1. faults' \in 0..MaxFaults
    BY <1>0, <1>5 DEF TickCounts, TickInserts, Boot, Terminate, Fault
  <2>2. ticking' \in BOOLEAN /\ miscounted' \in BOOLEAN
    BY <1>0, <1>5 DEF TickCounts, TickInserts, Boot, Terminate
  <2>3. UNCHANGED <<posting, scored, crossed, remembered, torn, cancelled, raced>>
    BY <1>5 DEF TickCounts, TickInserts, Boot, Terminate
  <2>4. QED
    BY <1>0, <2>1, <2>2, <2>3
<1>6. CASE Exit \/ Crash
  <2>1. torn' \in SUBSET Sessions
    <3>1. CASE run # NoRun /\ run.at \in {"recheck", "save", "catch", "fail"}
      <4>1. run.session \in Sessions
        BY <1>0, <3>1, AtRun DEF Active
      <4>2. QED
        BY <1>0, <1>6, <4>1 DEF Exit, Crash, CutOff
    <3>2. CASE ~(run # NoRun /\ run.at \in {"recheck", "save", "catch", "fail"})
      BY <1>0, <1>6, <3>2 DEF Exit, Crash, CutOff
    <3>3. QED
      BY <3>1, <3>2
  <2>2. /\ ticking' = FALSE
        /\ UNCHANGED <<posting, scored, crossed, remembered, cancelled, raced, miscounted>>
    BY <1>6 DEF Exit, Crash, CutOff
  <2>3. faults' \in 0..MaxFaults
    BY <1>0, <1>6 DEF Exit, Crash, Fault
  <2>4. QED
    BY <1>0, <2>1, <2>2, <2>3
<1>7. CASE ClaimPending \/ ClaimInterrupted
  BY <1>0, <1>7 DEF ClaimPending, ClaimInterrupted
<1>8. CASE LoadContext \/ Discover \/ Guard
  BY <1>0, <1>8 DEF LoadContext, Discover, Guard
<1>9. CASE Mark \/ Synthesize \/ PlayGame \/ LastRound \/ Save \/ Complete \/ Fail \/ GameAborts
  BY <1>0, <1>9 DEF Mark, Synthesize, PlayGame, LastRound, Save, Complete, Fail, GameAborts
<1>10. CASE Score \/ Report \/ (\E done \in BOOLEAN : CrossWrite(done))
  <2>1. run.session \in Sessions
    BY <1>0, <1>10, AtRun DEF Score, Report, CrossWrite, At, Active
  <2>2. QED
    BY <1>0, <1>10, <2>1 DEF Score, Report, CrossWrite, S
<1>11. CASE Throw
  <2>1. CASE run.at = "interrupted"
    BY <1>0, <1>11, <2>1 DEF Throw, Fault
  <2>2. CASE run.at # "interrupted"
    <3>1. run.session \in Sessions
      BY <1>0, <1>11, <2>2, AtRun DEF Throw, Active
    <3>2. scored' = scored \/ scored' = [scored EXCEPT ![run.session] = @ + 1]
      BY <1>11 DEF Throw, S
    <3>3. torn' = torn \/ torn' = torn \cup {run.session}
      BY <1>11 DEF Throw, S
    <3>4. UNCHANGED <<requests, crossed, remembered, cancelled, raced, miscounted>> /\ Fault
      BY <1>11 DEF Throw
    <3>5. QED
      BY <1>0, <3>1, <3>2, <3>3, <3>4 DEF Fault
  <2>3. QED
    BY <2>1, <2>2
<1>12. CASE Watch \/ TimeOut
  BY <1>0, <1>12 DEF Watch, TimeOut, Fault
<1>13. QED
  BY <1>1, <1>2, <1>3, <1>4, <1>5, <1>6, <1>7, <1>8, <1>9, <1>10, <1>11, <1>12 DEF Next

\* A session keeps its kind, and a run the games it has left.
LEMMA GamesKept ==
    ASSUME GamesInv, Active, run' \in Run, run'.session = run.session,
           row'[run.session].kind = row[run.session].kind,
           run'.left = run.left, run'.at \notin {"load", "discover"},
           run'.stage = 0 /\ run'.at \in {"finish", "complete"} =>
               \/ run.at = "discover"
               \/ run.stage = 0 /\ run.at \in {"finish", "complete"}
    PROVE  GamesInv'
  BY DEF GamesInv, SeveralGames

LEMMA GamesEnd ==
    ASSUME ~Active' PROVE GamesInv'
  BY DEF GamesInv

LEMMA GamesStep ==
    ASSUME SInv, [Next]_vars PROVE GamesInv'
<1> USE DEF history, published, requests
<1>0. TypeInv /\ CInv /\ RunInv /\ GamesInv /\ row \in [Sessions -> Row]
  BY DEF SInv, CInv, TypeInv
<1>1. ASSUME UNCHANGED <<run, row>> PROVE GamesInv'
  BY <1>0, <1>1 DEF GamesInv, Active
<1>2. ASSUME NEW kind \in {"seeded", "seedless", "auto"}, Create(kind), run' = run PROVE GamesInv'
  <2>1. PICK s \in Sessions :
            /\ row[s].status = "none"
            /\ row' = [row EXCEPT ![s] = [NoRow EXCEPT !.status = "pending", !.kind = kind]]
    BY <1>0, <1>2, CreateNext DEF CInv
  <2>2. Active => run.session # s /\ run.session \in Sessions
    BY <1>0, <2>1, AtRun DEF CInv, InHand, Created, In
  <2>3. Active => row'[run.session] = row[run.session]
    BY <1>0, <2>1, <2>2
  <2>4. QED
    BY <1>0, <1>2, <2>3 DEF GamesInv, Active
<1>3. CASE \E s \in Sessions : Cancel(s)
  <2>1. row' \in [Sessions -> Row] /\ \A t \in Sessions : row'[t].kind = row[t].kind
    <3>1. PICK s \in Sessions : row' = [row EXCEPT ![s].status = "cancelled"]
      BY <1>3 DEF Cancel, SetStatus
    <3>2. "cancelled" \in Status
      BY DEF Status, Terminal
    <3>3. QED
      BY <1>0, <3>1, <3>2 DEF Row
  <2>2. run' = run
    BY <1>3 DEF Cancel
  <2>3. Active => run.session \in Sessions
    BY <1>0, AtRun
  <2>4. QED
    BY <1>0, <2>1, <2>2, <2>3 DEF GamesInv, Active, SeveralGames
<1>4. CASE ClaimPending \/ ClaimInterrupted
  <2>1. CASE Active'
    <3>1. PICK s \in Sessions : Begin(s, row[s].arts)
      <4>1. CASE ClaimPending
        <5>1. In({"pending"}) # {}
          BY <2>1, <4>1 DEF ClaimPending, Active
        <5>2. Oldest(In({"pending"})) \in In({"pending"})
          BY <5>1, OldestIn DEF In
        <5>3. QED
          BY <4>1, <5>1, <5>2 DEF ClaimPending, In
      <4>2. CASE ClaimInterrupted
        <5>1. Interrupted # {}
          BY <2>1, <4>2 DEF ClaimInterrupted, EndPoll, Active
        <5>2. Oldest(Interrupted) \in Interrupted
          BY <5>1, OldestIn DEF Interrupted, In
        <5>3. QED
          BY <4>2, <5>1, <5>2 DEF ClaimInterrupted, Interrupted, In
      <4>3. QED
        BY <1>4, <4>1, <4>2
    <3>2. run'.left = 1 /\ run'.at = "load"
      BY <3>1 DEF Begin
    <3>3. QED
      BY <3>2 DEF GamesInv
  <2>2. QED
    BY <2>1, GamesEnd
<1>5. CASE LoadContext
  <2>1. /\ Active /\ run.at = "load" /\ run \in Run /\ row' = row
    BY <1>0, <1>5, LoadPlaced, AtRun DEF LoadContext
  <2>2. run.left = 1
    BY <1>0, <2>1 DEF GamesInv
  <2>3. /\ run'.session = run.session /\ run'.left = 1
        /\ run'.at = "discover" => row[run.session].kind # "seeded"
    <3> DEFINE q == [run EXCEPT !.fresh = TRUE]
    <3>1. q \in Run /\ q.session = run.session /\ q.left = 1
      BY <2>1, <2>2 DEF Run
    <3>2. \/ run' = Enter(run, 0)
          \/ run' = Enter(q, 0)
          \/ run' = [q EXCEPT !.at = "discover"] /\ row[run.session].kind # "seeded"
      BY <1>5, <2>1 DEF LoadContext, Run, S
    <3> HIDE DEF q
    <3>3. 0 \in Stages
      BY DEF Stages
    <3>4. CASE run' = Enter(run, 0)
      BY <2>1, <2>2, <3>3, <3>4, EnterType
    <3>5. CASE run' = Enter(q, 0)
      BY <3>1, <3>3, <3>5, EnterType
    <3>6. CASE run' = [q EXCEPT !.at = "discover"] /\ row[run.session].kind # "seeded"
      BY <3>1, <3>6, RunChanged
    <3>7. QED
      BY <3>2, <3>4, <3>5, <3>6
  <2>4. QED
    BY <2>1, <2>3 DEF GamesInv
<1>6. CASE Discover
  <2>1. /\ Active /\ run.at = "discover" /\ run \in Run /\ row' = row
        /\ run.left = 1 /\ row[run.session].kind # "seeded"
    BY <1>0, <1>6, DiscoverPlaced, AtRun DEF Discover, GamesInv
  <2>2. CASE run' = [run EXCEPT !.at = "finish"]
    <3>1. /\ run' \in Run /\ run'.at = "finish" /\ run'.session = run.session
          /\ run'.left = run.left
      BY <2>1, <2>2, RunChanged
    <3>2. QED
      BY <1>0, <2>1, <3>1, GamesKept
  <2>3. ASSUME NEW n \in 1..MaxFrontiers, run' = Enter([run EXCEPT !.left = n], 0)
        PROVE  GamesInv'
    <3> DEFINE q == [run EXCEPT !.left = n]
    <3>1. q \in Run /\ q.session = run.session /\ q.left = n
      BY <2>1 DEF Run
    <3>2. run' = Enter(q, 0) /\ 0 \in Stages
      BY <2>3 DEF Stages
    <3> HIDE DEF q
    <3>3. run'.session = run.session /\ run'.left = n /\ run'.at = "check"
      BY <3>1, <3>2, EnterType
    <3>4. n > 1 => MaxFrontiers # 1
      BY SigeAssumption
    <3>5. QED
      BY <2>1, <3>3, <3>4 DEF GamesInv, SeveralGames
  <2>4. CASE ~Active'
    BY <2>4, GamesEnd
  <2>5. QED
    BY <1>6, <2>2, <2>3, <2>4 DEF Discover, EndPoll, Active
<1>7. CASE Exit \/ Crash
  BY <1>7, GamesEnd DEF Exit, Crash, CutOff, Active
<1>8. CASE Mark \/ Save \/ Complete \/ Fail \/ Synthesize
  <2>1. Active /\ run \in Run /\ run.session \in Sessions /\ row[run.session] \in Row
    <3>1. Active
      BY <1>8 DEF Mark, Save, Complete, Fail, Synthesize, At, Active
    <3>2. QED
      BY <1>0, <3>1, AtRun
  <2>2. row'[run.session].kind = row[run.session].kind
    <3>1. ASSUME NEW new, row' = row \/ row' = [row EXCEPT ![run.session] = new],
                 new.kind = row[run.session].kind
          PROVE  row'[run.session].kind = row[run.session].kind
      BY <1>0, <2>1, <3>1
    <3>2. CASE Mark
      <4>1. [row[run.session] EXCEPT !.status = StageStatus[run.stage]].kind
                = row[run.session].kind
        BY <2>1 DEF Row
      <4>2. QED
        BY <3>1, <3>2, <4>1 DEF Mark, WriteIfOk, S
    <3>3. CASE Save
      <4>1. [row[run.session] EXCEPT !.status = StageStatus[run.stage],
                                     !.arts = @ \cup {run.stage}].kind
                = row[run.session].kind
        BY <2>1 DEF Row
      <4>2. QED
        BY <3>1, <3>3, <4>1 DEF Save, WriteIfOk, S
    <3>4. CASE Complete \/ Fail
      <4>1. /\ [row[run.session] EXCEPT !.status = "completed"].kind = row[run.session].kind
            /\ [row[run.session] EXCEPT !.status = "failed"].kind = row[run.session].kind
        BY <2>1 DEF Row
      <4>2. QED
        BY <3>1, <3>4, <4>1 DEF Complete, Fail, WriteIfOk, S
    <3>5. CASE Synthesize
      BY <1>0, <2>1, <3>5 DEF Synthesize, S, Row
    <3>6. QED
      BY <1>8, <3>2, <3>3, <3>4, <3>5
  <2>3. CASE Mark
    <3>1. run' = Enter(run, 1) \/ run' = [run EXCEPT !.at = "work"]
      BY <2>3 DEF Mark
    <3>2. /\ run' \in Run /\ run'.session = run.session /\ run'.left = run.left
          /\ run'.at \in {"check", "work"}
      <4>1. 1 \in Stages
        BY DEF Stages
      <4>2. CASE run' = Enter(run, 1)
        BY <2>1, <4>1, <4>2, EnterType
      <4>3. CASE run' = [run EXCEPT !.at = "work"]
        BY <2>1, <4>3, RunChanged
      <4>4. QED
        BY <3>1, <4>2, <4>3
    <3>3. QED
      BY <1>0, <2>1, <2>2, <3>2, GamesKept
  <2>4. CASE Save
    <3> DEFINE r == [run EXCEPT !.have = @ \cup {run.stage}]
    <3>1. run.stage \in Artifacts
      BY <1>0, <2>4, SavePlaced
    <3>2. r \in Run /\ r.session = run.session /\ r.left = run.left /\ run.stage + 1 \in Stages
      BY <2>1, <3>1 DEF Run, Artifacts, Stages
    <3>3. run' = [r EXCEPT !.at = "cross"] \/ run' = Enter(r, run.stage + 1)
      BY <2>4 DEF Save
    <3> HIDE DEF r
    <3>4. /\ run' \in Run /\ run'.session = run.session /\ run'.left = run.left
          /\ run'.at \in {"check", "cross"}
      <4>1. CASE run' = [r EXCEPT !.at = "cross"]
        BY <3>2, <4>1, RunChanged
      <4>2. CASE run' = Enter(r, run.stage + 1)
        BY <3>2, <4>2, EnterType
      <4>3. QED
        BY <3>3, <4>1, <4>2
    <3>5. QED
      BY <1>0, <2>1, <2>2, <3>4, GamesKept
  <2>5. CASE Synthesize
    <3>1. /\ run' \in Run /\ run'.session = run.session /\ run'.left = run.left
          /\ run'.at = "check"
      BY <2>1, <2>5, EnterType DEF Synthesize, Stages
    <3>2. QED
      BY <1>0, <2>1, <2>2, <3>1, GamesKept
  <2>6. CASE Complete
    <3>1. CASE run.left > 1 /\ ~Aborted
      <4> DEFINE q == [run EXCEPT !.left = @ - 1, !.have = {}]
      <4>1. run.left \in 1..MaxFrontiers /\ MaxFrontiers \in Nat /\ 0 \in Stages
        BY <2>1, SigeAssumption DEF Run, Stages
      <4>2. q \in Run /\ q.session = run.session
        <5>1. run.left - 1 \in 1..MaxFrontiers
          BY <3>1, <4>1
        <5>2. QED
          BY <2>1, <5>1 DEF Run
      <4>3. run' = Enter(q, 0)
        BY <2>6, <3>1 DEF Complete
      <4> HIDE DEF q
      <4>4. run'.session = run.session /\ run'.at = "check"
        BY <4>1, <4>2, <4>3, EnterType
      <4>5. SeveralGames(row'[run.session])
        BY <1>0, <2>1, <2>2, <3>1 DEF GamesInv, SeveralGames
      <4>6. QED
        BY <4>4, <4>5 DEF GamesInv, SeveralGames
    <3>2. CASE ~(run.left > 1 /\ ~Aborted)
      BY <2>6, <3>2, GamesEnd DEF Complete, EndPoll, Active
    <3>3. QED
      BY <3>1, <3>2
  <2>7. CASE Fail
    BY <2>7, GamesEnd DEF Fail, EndPoll, Active
  <2>8. QED
    BY <1>8, <2>3, <2>4, <2>5, <2>6, <2>7
<1>9. CASE Guard
  <2>1. /\ Active /\ run \in Run /\ row' = row
        /\ run' \in Run /\ run'.session = run.session /\ run'.stage = run.stage
        /\ \/ Reads("check", "mark", FALSE) \/ Reads("recheck", "save", FALSE)
           \/ Reads("finish", "complete", TRUE) \/ Reads("catch", "fail", TRUE)
    BY <1>0, <1>9, GuardPlaced, AtRun DEF Guard
  <2>2. run'.left = run.left
    BY <1>9, <2>1 DEF Guard, Run
  <2>3. QED
    BY <1>0, <2>1, <2>2, GamesKept DEF Reads
<1>10. CASE PlayGame \/ LastRound \/ Score \/ GameAborts \/ Report
  <2>1. Active /\ run \in Run /\ row' = row
    BY <1>0, <1>10, PlayPlaced, ScorePlaced, ReportPlaced, AtRun
       DEF PlayGame, LastRound, Score, GameAborts, Report, At, Active
  <2>2. PICK a \in {"last", "recheck", "catch", "finish"} :
            /\ run' = [run EXCEPT !.at = a]
            /\ a = "finish" => run.stage = 5
    BY <1>10 DEF PlayGame, LastRound, Score, GameAborts, Report
  <2>3. /\ run' \in Run /\ run'.at = a /\ run'.session = run.session
        /\ run'.left = run.left /\ run'.stage = run.stage
    BY <2>1, <2>2 DEF Run
  <2>4. QED
    BY <1>0, <2>1, <2>2, <2>3, GamesKept
<1>11. CASE \E done \in BOOLEAN : CrossWrite(done)
  <2>1. Active /\ run \in Run /\ row' = row /\ run' = Enter(run, 5) /\ 5 \in Stages
    BY <1>0, <1>11, AtRun DEF CrossWrite, At, Active, Stages
  <2>2. /\ run' \in Run /\ run'.session = run.session /\ run'.left = run.left
        /\ run'.at = "check"
    BY <2>1, EnterType
  <2>3. QED
    BY <1>0, <2>1, <2>2, GamesKept
<1>12. CASE Throw
  <2>1. CASE run' = [run EXCEPT !.at = "catch"] /\ Active
    <3>1. run \in Run /\ row' = row
      BY <1>0, <1>12, <2>1, AtRun DEF Throw
    <3>2. /\ run' \in Run /\ run'.at = "catch" /\ run'.session = run.session
          /\ run'.left = run.left
      BY <2>1, <3>1, RunChanged
    <3>3. QED
      BY <1>0, <2>1, <3>1, <3>2, GamesKept
  <2>2. QED
    BY <1>12, <2>1, GamesEnd DEF Throw, EndPoll, Active
<1>13. CASE Watch \/ TimeOut
  <2>1. Active /\ run \in Run /\ row' = row /\ Abort
    BY <1>0, <1>13, AtRun DEF Watch, TimeOut, Active
  <2>2. /\ run'.at = run.at /\ run'.session = run.session /\ run'.left = run.left
        /\ run'.stage = run.stage
    BY <2>1 DEF Abort, Run
  <2>3. QED
    BY <1>0, <2>1, <2>2 DEF GamesInv, Active, SeveralGames
<1>14. CASE \/ UNCHANGED vars \/ CountPending \/ (\E s \in Sessions : ReadToCancel(s))
            \/ TickCounts \/ Boot \/ Terminate
  BY <1>1, <1>14 DEF vars, CountPending, ReadToCancel, TickCounts, Boot, Terminate
<1>15. CASE (\E kind \in {"seeded", "seedless"} : PostSession(kind)) \/ TickInserts
  BY <1>2, <1>15 DEF PostSession, TickInserts
<1>16. QED
  BY <1>3, <1>4, <1>5, <1>6, <1>7, <1>8, <1>9, <1>10, <1>11, <1>12, <1>13, <1>14, <1>15
     DEF Next

\* The invariant of the run from the one that is inductive.
LEMMA SInvImplies ==
    ASSUME SInv PROVE Inv
<1>1. TypeOK
  BY DEF SInv, CInv, TypeInv, RestType, TypeOK
<1>2. \A s \in Sessions : Sound(s) /\ scored[s] \in Nat /\ crossed[s] \in Nat
  BY DEF SInv, SoundInv, RestType
<1>3. CompletedIsWhole
  BY <1>2 DEF CompletedIsWhole, Sound, RowOk
<1>4. ScoredOnce
  <2> SUFFICES ASSUME NEW s \in Sessions
               PROVE  PlaysOnce(s) => crossed[s] <= 1 /\ (s \notin torn => scored[s] <= 1)
    BY DEF ScoredOnce
  <2>1. PlaysOnce(s) => ~SeveralGames(row[s])
    BY DEF PlaysOnce, SeveralGames
  <2>2. QED
    BY <1>2, <2>1 DEF Sound, Settled, Later, InPlay, InScore
<1>5. OneAutomaticSession
  <2> SUFFICES ASSUME ~miscounted, raced = {} PROVE Cardinality(Autos) <= 1
    BY DEF OneAutomaticSession, Autos
  <2>1. \A s, t \in Autos : s = t
    BY DEF SInv, AutoInv
  <2>2. CASE Autos = {}
    BY <2>2, FS_EmptySet
  <2>3. CASE Autos # {}
    <3>1. PICK s \in Autos : TRUE
      BY <2>3
    <3>2. Autos = {s}
      BY <2>1, <3>1
    <3>3. QED
      BY <3>2, FS_Singleton
  <2>4. QED
    BY <2>2, <2>3
<1>6. QED
  BY <1>1, <1>3, <1>4, <1>5 DEF Inv

LEMMA SInvInit == Init => SInv
<1> SUFFICES ASSUME Init PROVE SInv
  OBVIOUS
<1>1. CInv /\ ~Active
  BY SigeInit DEF Init, Active
<1>2. RestType
  <2>1. /\ posting \in 0..MaxSessions /\ faults \in 0..MaxFaults
        /\ scored \in [Sessions -> Nat] /\ crossed \in [Sessions -> Nat]
    BY SigeAssumption DEF Init
  <2>2. ticking \in BOOLEAN /\ miscounted \in BOOLEAN
    BY DEF Init
  <2>3. /\ remembered \in SUBSET Sessions /\ torn \in SUBSET Sessions
        /\ cancelled \in SUBSET Sessions /\ raced \in SUBSET Sessions
    BY DEF Init
  <2>4. QED
    BY <2>1, <2>2, <2>3 DEF RestType
<1>3. \A s \in Sessions : row[s] = NoRow /\ scored[s] = 0 /\ crossed[s] = 0
  BY DEF Init
<1>4. RunInv /\ GamesInv /\ SoundInv
  BY <1>1, <1>3 DEF RunInv, GamesInv, SoundInv, Sound, Playing, RowOk, Settled, NoRow
<1>5. AutoInv
  <2>1. Autos = {}
    BY <1>3 DEF Autos, Created, In, NoRow
  <2>2. QED
    BY <2>1 DEF AutoInv, Init
<1>6. QED
  BY <1>1, <1>2, <1>4, <1>5 DEF SInv

LEMMA SInvHolds == Spec => []SInv
<1>1. Init => SInv
  BY SInvInit
<1>2. SInv /\ [Next]_vars => SInv'
  <2> SUFFICES ASSUME SInv, [Next]_vars PROVE SInv'
    OBVIOUS
  <2>1. CInv'
    BY SigeStep DEF SInv, StepHolds
  <2>2. RunInv'
    BY PlaceStep DEF SInv, CInv
  <2>3. QED
    BY <2>1, <2>2, RestStep, GamesStep, SoundStep, AutoStep DEF SInv
<1>3. QED
  BY <1>1, <1>2, PTL DEF Spec

\* For any number of sessions, games, cancel requests, restarts and failures: a
\* session that was played to its end has every artifact, the ideas of a session
\* with one game are scored and cross-written once however often it is resumed,
\* and the scheduler has one unfinished session of its own
\* (claimInterruptedSession, loadResumeContext, runSeededSteps, tickOnce).
THEOREM SessionsAreWhole == Spec => []Inv
  BY SInvHolds, SInvImplies, PTL

\* What a step does to a session that is completed.
CompletedStep ==
    \A s \in Sessions :
        row[s].status = "completed" /\ row'[s].status # "completed" =>
            s \in cancelling \/ (~PlaysOnce(s) /\ row'[s].status = "failed")

\* A verdict of the guard lets a running status through in a first game only,
\* and then the session is not completed.
LEMMA CompletedWritten ==
    ASSUME SInv, Active, run.at \in Writing, NEW new \in Row, WriteIfOk(new),
           \/ run.at \in {"mark", "save"}
           \/ new.status \in {"completed", "failed"}
    PROVE  CompletedStep
<1>1. PICK s \in Sessions : s = run.session
  BY AtRun DEF SInv, CInv
<1>2. /\ row'[s] = IF run.ok THEN new ELSE row[s]
      /\ \A t \in Sessions \ {s} : row'[t] = row[t]
  BY <1>1, WrittenRow DEF SInv, CInv
<1>3. ASSUME row[s].status = "completed", row'[s].status # "completed"
      PROVE  ~PlaysOnce(s) /\ row'[s].status = "failed"
  <2>1. Late
    <3>1. ASSUME ~Late PROVE Fits(run, row[s])
      BY <1>1, <3>1, PlayedFacts DEF SInv
    <3>2. QED
      BY <1>3, <3>1 DEF Fits
  <2>2. SeveralGames(row[s]) /\ (run.at \in {"mark", "save"} => ~run.ok)
    BY <1>1, <2>1 DEF Late, Later
  <2>3. QED
    BY <1>2, <1>3, <2>2 DEF SeveralGames, PlaysOnce
<1>4. QED
  BY <1>2, <1>3 DEF CompletedStep

LEMMA CompletedKept ==
    ASSUME SInv, [Next]_vars PROVE CompletedStep
<1>1. ASSUME row' = row PROVE CompletedStep
  BY <1>1 DEF CompletedStep
<1>2. ASSUME NEW kind \in {"seeded", "seedless", "auto"}, Create(kind) PROVE CompletedStep
  <2>1. PICK s \in Sessions :
            /\ row[s].status = "none"
            /\ row' = [row EXCEPT ![s] = [NoRow EXCEPT !.status = "pending", !.kind = kind]]
    BY <1>2, CreateNext DEF SInv, CInv
  <2>2. \A t \in Sessions \ {s} : row'[t] = row[t]
    BY <2>1 DEF SInv, CInv, TypeInv
  <2>3. QED
    BY <2>1, <2>2 DEF CompletedStep
<1>3. CASE \E s \in Sessions : Cancel(s)
  <2>1. PICK s \in Sessions : s \in cancelling /\ row' = [row EXCEPT ![s].status = "cancelled"]
    BY <1>3 DEF Cancel, SetStatus
  <2>2. \A t \in Sessions \ {s} : row'[t] = row[t]
    BY <2>1 DEF SInv, CInv, TypeInv
  <2>3. QED
    BY <2>1, <2>2 DEF CompletedStep
<1>4. CASE ClaimPending \/ ClaimInterrupted
  <2>1. CASE row' # row
    <3>1. In({"pending"}) # {} /\ ClaimPending
      BY <1>4, <2>1 DEF ClaimPending, ClaimInterrupted
    <3>2. Oldest(In({"pending"})) \in In({"pending"})
      BY <3>1, OldestIn DEF In
    <3>3. PICK s \in Sessions : /\ row[s].status = "pending"
                               /\ row' = [row EXCEPT ![s].status = StageStatus[0]]
      BY <3>1, <3>2 DEF ClaimPending, In, SetStatus
    <3>4. \A t \in Sessions \ {s} : row'[t] = row[t]
      BY <3>3 DEF SInv, CInv, TypeInv
    <3>5. QED
      BY <3>3, <3>4 DEF CompletedStep
  <2>2. QED
    BY <1>1, <2>1
<1>5. CASE Mark \/ Save \/ Complete \/ Fail \/ Synthesize
  <2>1. Active /\ run \in Run /\ run.session \in Sessions /\ row[run.session] \in Row
        /\ row[run.session].arts \subseteq Artifacts /\ run.stage \in Stages
    <3>1. Active
      BY <1>5 DEF Mark, Save, Complete, Fail, Synthesize, At, Active
    <3>2. QED
      BY <3>1, AtRun DEF SInv, CInv, Row
  <2>2. CASE Mark
    <3>1. PICK new \in Row :
              /\ new = [row[run.session] EXCEPT !.status = StageStatus[run.stage]]
              /\ new.status = StageStatus[run.stage] /\ new.kind = row[run.session].kind
      BY <2>1, StatusFacts, NewStatus
    <3>2. WriteIfOk(new) /\ run.at = "mark"
      BY <2>2, <3>1 DEF Mark, S, At
    <3>3. QED
      BY <2>1, <3>2, CompletedWritten DEF Writing
  <2>3. CASE Save
    <3>1. row[run.session].arts \cup {run.stage} \in SUBSET Artifacts
      BY <2>1, <2>3, SavePlaced DEF SInv, CInv
    <3>2. PICK new \in Row :
              /\ new = [row[run.session] EXCEPT !.status = StageStatus[run.stage],
                                                !.arts = @ \cup {run.stage}]
              /\ new.status = StageStatus[run.stage] /\ new.kind = row[run.session].kind
      BY <2>1, <3>1, StatusFacts, NewStatus
    <3>3. WriteIfOk(new) /\ run.at = "save"
      BY <2>3, <3>2 DEF Save, S, At
    <3>4. QED
      BY <2>1, <3>3, CompletedWritten DEF Writing
  <2>4. CASE Complete
    <3>1. PICK new \in Row :
              /\ new = [row[run.session] EXCEPT !.status = "completed"]
              /\ new.status = "completed" /\ new.kind = row[run.session].kind
      BY <2>1, NewStatus DEF Status, Terminal
    <3>2. WriteIfOk(new) /\ run.at = "complete"
      BY <2>4, <3>1 DEF Complete, S, At
    <3>3. QED
      BY <2>1, <3>1, <3>2, CompletedWritten DEF Writing
  <2>5. CASE Fail
    <3>1. PICK new \in Row :
              /\ new = [row[run.session] EXCEPT !.status = "failed"]
              /\ new.status = "failed" /\ new.kind = row[run.session].kind
      BY <2>1, NewStatus DEF Status, Terminal
    <3>2. WriteIfOk(new) /\ run.at = "fail"
      BY <2>5, <3>1 DEF Fail, S, At
    <3>3. QED
      BY <2>1, <3>1, <3>2, CompletedWritten DEF Writing
  <2>6. CASE Synthesize
    <3>1. row' = [row EXCEPT ![run.session].ctx = TRUE]
      BY <2>6 DEF Synthesize, S
    <3>2. \A s \in Sessions : row'[s].status = row[s].status
      BY <3>1 DEF SInv, CInv, TypeInv, Row
    <3>3. QED
      BY <3>2 DEF CompletedStep
  <2>7. QED
    BY <1>5, <2>2, <2>3, <2>4, <2>5, <2>6
<1>6. CASE UNCHANGED vars
  BY <1>1, <1>6 DEF vars
<1>7. CASE (\E kind \in {"seeded", "seedless"} : PostSession(kind)) \/ TickInserts
  BY <1>2, <1>7 DEF PostSession, TickInserts
<1>8. CASE CountPending \/ (\E s \in Sessions : ReadToCancel(s)) \/ TickCounts \/ Boot
           \/ Terminate \/ Exit \/ Crash
  BY <1>1, <1>8 DEF CountPending, ReadToCancel, TickCounts, Boot, Terminate, Exit, Crash
<1>9. CASE LoadContext \/ Discover \/ Guard \/ PlayGame \/ LastRound \/ Score \/ Report
           \/ (\E done \in BOOLEAN : CrossWrite(done)) \/ GameAborts
  BY <1>1, <1>9
     DEF LoadContext, Discover, Guard, PlayGame, LastRound, Score, Report, CrossWrite, GameAborts
<1>10. CASE Throw \/ Watch \/ TimeOut
  BY <1>1, <1>10 DEF Throw, Watch, TimeOut
<1>11. QED
  BY <1>3, <1>4, <1>5, <1>6, <1>7, <1>8, <1>9, <1>10 DEF Next

\* An outcome stands: no claim, no resumed run and no failure takes a session out
\* of completed, but the failure of a further game of the same session
\* (pollAndProcess, claimInterruptedSession, updateSessionStatus).
THEOREM OutcomesStand == Spec => OutcomesAreFinal
<1>1. SInv /\ [Next]_vars =>
          [\A s \in Sessions : row[s].status # row'[s].status =>
               /\ row[s].status = "completed" =>
                      s \in cancelling \/ (~PlaysOnce(s) /\ row'[s].status = "failed")
               /\ row[s].status = "cancelled" => s \in raced]_vars
  <2>1. SInv /\ [Next]_vars => CancelStep /\ CompletedStep
    BY SigeStep, CompletedKept DEF SInv, StepHolds
  <2>2. QED
    BY <2>1 DEF CancelStep, CompletedStep
<1>2. QED
  BY <1>1, SInvHolds, PTL DEF Spec, OutcomesAreFinal
=============================================================================
