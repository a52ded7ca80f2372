------------------------- MODULE Orchestrator_proofs -------------------------
(***************************************************************************)
(* The hard invariant of the orchestrator: a child has at most one live    *)
(* process, which is known, for any numbers of processes, state objects,   *)
(* restarts, strikes, calls and changes of the manifest, any policies --   *)
(* from the start until two calls cross, in one of the four ways that      *)
(* Crosses names.  Passes of the reconcile timer may begin at any time,    *)
(* those that remove a child whose kill is awaited included.               *)
(* A child that is stopped or in crash-loop stays down in any case.        *)
(***************************************************************************)
EXTENDS Orchestrator, Workflows, SequencesExt, FiniteSetTheorems, SequenceTheorems, WellFoundedInduction, TLAPS

\* A state object at any time: none that a user stopped has a respawn armed, and
\* one in crash-loop is down.
KidFits(k) ==
    /\ k \in ChildState /\ k.strikes < HungStrikesMax
    /\ k.stoppedByUser => ~k.timer
    /\ k.status = "crash-loop" => k.proc = None /\ ~k.timer

KidsFit == kids \in [Objs -> ChildState] /\ \A o \in Objs : KidFits(kids[o])

\* A kill always concerns an object.
Kill  == [who : {"stop", "restart", "reconcile", "shutdown"}, obj : Objs,
          proc : Procs \cup {None}]
Going == [step : {"killed", "resume"}, w : Kill]

CallsFit ==
    /\ entry \in Objs \cup {None}
    /\ waiting \in Seq(Kill) /\ Len(waiting) <= MaxWaiting
    /\ micro \in Seq(Going)

\* Processes have an object, and a ping in flight has both.
LinksFit ==
    /\ ps \in [Procs -> {"none", "alive", "exit0", "exit1"}]
    /\ owner \in [Procs -> Objs \cup {None}]
    /\ \A p \in Procs : ps[p] # "none" => owner[p] \in Objs
    /\ ping \in [obj : Objs \cup {None}, proc : Procs \cup {None}, ponged : BOOLEAN]
    /\ ping # NoPing => ping.obj \in Objs /\ ping.proc \in Procs

\* Before the first pass of start() there is no child and no call.
ModeFits ==
    /\ policy \in Policies /\ desired \in BOOLEAN
    /\ commands \in 0..MaxCommands /\ tangled \in BOOLEAN
    /\ phase \in {"idle", "starting", "started"} /\ running \in BOOLEAN /\ timersOn \in BOOLEAN
    /\ phase = "idle" => ~running
    /\ phase # "started" => entry = None /\ waiting = <<>> /\ micro = <<>> /\ ~timersOn

\* What holds whatever calls cross.
BodyFits == KidsFit /\ CallsFit
LooseInv == BodyFits /\ LinksFit /\ ModeFits

\* Shutting down, or down.
Down == phase = "started" /\ ~running

\* The process that the map's entry knows.
Known == IF entry = None THEN None ELSE kids[entry].proc

\* A kill that waits or goes on before a shutdown.  That of a pass over the manifest
\* removes the entry or comes after its removal; that of a restart is of the entry.
\* The entry that it is about has no respawn armed and no other process.
CallFits(w) ==
    /\ w.who # "shutdown"
    /\ w.who = "reconcile" => entry \in {None, w.obj}
    /\ w.who = "restart" => entry = w.obj
    /\ w.obj = entry => ~kids[entry].timer /\ kids[entry].proc \in {None, w.proc}

WaitFits(w) ==
    CallFits(w) /\ w.proc # None /\ (w.obj = entry => kids[entry].stoppedByUser)

GoFits(m) ==
    /\ CallFits(m.w)
    /\ IF m.step = "resume" THEN m.w.obj = entry => kids[entry].proc = None
       ELSE m.w.proc \notin Live

\* A restart waits or goes on alone.
Alone ==
    /\ \A i \in DOMAIN waiting :
           waiting[i].who = "restart" => Len(waiting) = 1 /\ micro = <<>>
    /\ \A i \in DOMAIN micro :
           micro[i].w.who = "restart" => Len(micro) = 1 /\ waiting = <<>>

Others == \A o \in Objs : o # entry => kids[o].proc = None /\ ~kids[o].timer

\* Before a shutdown only the entry has a process or a timer.
UpFits ==
    /\ Others
    /\ Live \subseteq {Known}
    /\ \A i \in DOMAIN waiting : WaitFits(waiting[i])
    /\ \A i \in DOMAIN micro : GoFits(micro[i])
    /\ Alone

\* In a shutdown nothing is spawned any more, and a kill waits for the process.
DownFits ==
    \A p \in Live : Live \subseteq {p} /\ \E i \in DOMAIN waiting : waiting[i].proc = p

\* What holds until two calls cross.
Tidy ==
    /\ phase = "starting" => running
    /\ timersOn => running
    /\ IF Down THEN DownFits ELSE UpFits

ChildInv == LooseInv /\ (~tangled => Tidy)

-----------------------------------------------------------------------------
(* Numbers and sequences *)

\* A set of numbers that is not empty has a least one.
LEMMA LeastIn ==
    ASSUME NEW T \in SUBSET Nat, T # {}
    PROVE  Least(T) \in T
<1> DEFINE R == OpToRel(<, Nat)
<1>1. IsWellFoundedOn(R, Nat)
  BY NatLessThanWellFounded
<1> HIDE DEF R
<1>2. PICK x \in T : \A y \in T : ~(<<y, x>> \in R)
  BY <1>1, WFMin
<1>3. \A y \in T : y < x => <<y, x>> \in R
  BY DEF R, OpToRel
<1>4. \A y \in T : ~(y < x)
  BY <1>2, <1>3, Zenon
<1>5. x \in Nat /\ \A y \in T : y \in Nat
  OBVIOUS
<1>6. \A y \in T : x <= y
  BY <1>4, <1>5
<1>7. QED
  BY <1>6 DEF Least

LEMMA Numbers == None \notin Procs /\ None \notin Objs
  BY OrchestratorAssumption DEF None

\* All of a sequence is chosen, or nothing.
LEMMA OnlyAll ==
    ASSUME NEW T, NEW s \in Seq(T), NEW X, \A i \in DOMAIN s : s[i] \in X
    PROVE  Only(s, X) = s
<1> DEFINE n == Len(s)
           at == {i \in DOMAIN s : s[i] \in X}
           nth(j) == CHOOSE i \in at : Cardinality({h \in at : h <= i}) = j
<1>1. n \in Nat /\ DOMAIN s = 1..n /\ s = [j \in 1..n |-> s[j]]
  BY LenProperties
<1> HIDE DEF n
<1>2. at = 1..n
  BY <1>1
<1>3. \A i \in 1..n : Cardinality({h \in at : h <= i}) = i
  <2> SUFFICES ASSUME NEW i \in 1..n PROVE Cardinality({h \in 1..n : h <= i}) = i
    BY <1>2
  <2>1. i \in Nat /\ i >= 1 /\ i <= n
    BY <1>1
  <2>2. \A h : h \in 1..n /\ h <= i <=> h \in 1..i
    BY <1>1, <2>1
  <2>3. {h \in 1..n : h <= i} = 1..i
    BY <2>2
  <2>4. Cardinality(1..i) = IF 1 > i THEN 0 ELSE i - 1 + 1
    BY <2>1, FS_Interval
  <2>5. Cardinality(1..i) = i
    BY <2>1, <2>4
  <2>6. QED
    BY <2>3, <2>5
<1>4. Cardinality(at) = n
  <2>1. Cardinality(1..n) = IF 1 > n THEN 0 ELSE n - 1 + 1
    BY <1>1, FS_Interval
  <2>2. Cardinality(1..n) = n
    BY <1>1, <2>1
  <2>3. QED
    BY <1>2, <2>2
<1>5. \A j \in 1..n : nth(j) = j
  BY <1>2, <1>3
<1>6. Only(s, X) = [j \in 1..Cardinality(at) |-> s[nth(j)]]
  BY DEF Only
<1> HIDE DEF at, nth
<1>7. Only(s, X) = [j \in 1..n |-> s[j]]
  BY <1>4, <1>5, <1>6
<1>8. QED
  BY <1>1, <1>7

LEMMA OnlyNone ==
    ASSUME NEW T, NEW s \in Seq(T), NEW X, \A i \in DOMAIN s : s[i] \notin X
    PROVE  Only(s, X) = <<>>
<1> DEFINE at == {i \in DOMAIN s : s[i] \in X}
           nth(j) == CHOOSE i \in at : Cardinality({h \in at : h <= i}) = j
<1>1. at = {}
  OBVIOUS
<1>2. Cardinality(at) = 0
  BY <1>1, FS_EmptySet
<1>3. Only(s, X) = [j \in 1..Cardinality(at) |-> s[nth(j)]]
  BY DEF Only
<1> HIDE DEF at, nth
<1>4. Only(s, X) = [j \in 1..0 |-> s[nth(j)]]
  BY <1>2, <1>3
<1>5. 1..0 = {}
  OBVIOUS
<1>6. QED
  BY <1>4, <1>5

\* A kill that waits leaves the others in their order.
LEMMA OneLess ==
    ASSUME NEW T, NEW s \in Seq(T), NEW i \in DOMAIN s
    PROVE  LET r == SubSeq(s, 1, i - 1) \o SubSeq(s, i + 1, Len(s)) IN
           /\ r \in Seq(T) /\ Len(r) = Len(s) - 1
           /\ \A j \in DOMAIN r : \E h \in DOMAIN s : r[j] = s[h]
           /\ \A h \in DOMAIN s : h # i => \E j \in DOMAIN r : r[j] = s[h]
<1> DEFINE n == Len(s)
           a == SubSeq(s, 1, i - 1)
           b == SubSeq(s, i + 1, n)
<1>1. n \in Nat /\ i \in 1..n /\ DOMAIN s = 1..n
  BY LenProperties
<1>2. a \in Seq(T) /\ Len(a) = i - 1 /\ \A j \in 1..i - 1 : a[j] = s[j]
  BY <1>1
<1>3. b \in Seq(T) /\ Len(b) = n - i /\ \A j \in 1..n - i : b[j] = s[i + j]
  BY <1>1
<1> HIDE DEF a, b
<1>4. /\ a \o b \in Seq(T) /\ Len(a \o b) = Len(a) + Len(b)
      /\ \A j \in 1..Len(a) + Len(b) :
             (a \o b)[j] = IF j <= Len(a) THEN a[j] ELSE b[j - Len(a)]
  BY <1>2, <1>3, ConcatProperties
<1>5. Len(a \o b) = n - 1
  BY <1>1, <1>2, <1>3, <1>4
<1>6. ASSUME NEW j \in 1..n - 1
      PROVE  (a \o b)[j] = IF j <= i - 1 THEN s[j] ELSE s[j + 1]
  <2>1. CASE j <= i - 1
    BY <1>1, <1>2, <1>3, <1>4, <1>6, <2>1
  <2>2. CASE j > i - 1
    <3>1. j - (i - 1) \in 1..n - i /\ i + (j - (i - 1)) = j + 1
      BY <1>1, <1>6, <2>2
    <3>2. (a \o b)[j] = b[j - (i - 1)]
      BY <1>1, <1>2, <1>3, <1>4, <1>6, <2>2
    <3>3. (a \o b)[j] = s[i + (j - (i - 1))]
      BY <1>3, <3>1, <3>2
    <3>4. QED
      BY <1>1, <1>6, <2>2, <3>1, <3>3
  <2>3. j <= i - 1 \/ j > i - 1
    BY <1>1, <1>6
  <2>4. QED
    BY <2>1, <2>2, <2>3
<1>7. a \o b \in Seq(T) /\ Len(a \o b) = n - 1 /\ DOMAIN (a \o b) = 1..n - 1
  BY <1>1, <1>4, <1>5, LenProperties
<1> DEFINE r == a \o b
<1>8. /\ r \in Seq(T) /\ Len(r) = n - 1 /\ DOMAIN r = 1..n - 1
      /\ \A j \in 1..n - 1 : r[j] = IF j <= i - 1 THEN s[j] ELSE s[j + 1]
  BY <1>6, <1>7
<1> HIDE DEF r
<1>9. ASSUME NEW j \in DOMAIN r PROVE \E h \in DOMAIN s : r[j] = s[h]
  <2>1. j \in 1..n /\ j + 1 \in 1..n /\ r[j] \in {s[j], s[j + 1]}
    BY <1>1, <1>8, <1>9
  <2>2. QED
    BY <1>1, <2>1
<1>10. ASSUME NEW h \in DOMAIN s, h # i PROVE \E j \in DOMAIN r : r[j] = s[h]
  <2>1. h \in 1..n
    BY <1>1, <1>10
  <2>2. CASE h < i
    <3>1. h \in DOMAIN r /\ r[h] = s[h]
      BY <1>1, <1>8, <2>1, <2>2
    <3>2. QED
      BY <3>1
  <2>3. CASE h > i
    <3>1. h - 1 \in DOMAIN r /\ ~(h - 1 <= i - 1) /\ h - 1 + 1 = h
      BY <1>1, <1>8, <2>1, <2>3
    <3>2. r[h - 1] = s[h]
      BY <1>8, <3>1
    <3>3. QED
      BY <3>1, <3>2
  <2>4. QED
    BY <1>1, <1>10, <2>1, <2>2, <2>3
<1>11. QED
  BY <1>8, <1>9, <1>10 DEF r, a, b

\* The elements that are chosen are elements of the sequence: each of their
\* numbers belongs to one of them.
LEMMA OnlyIn ==
    ASSUME NEW T, NEW s \in Seq(T), NEW X
    PROVE  /\ Only(s, X) \in Seq(T) /\ Len(Only(s, X)) <= Len(s)
           /\ \A j \in DOMAIN Only(s, X) : \E i \in DOMAIN s : Only(s, X)[j] = s[i] /\ s[i] \in X
           /\ \A i \in DOMAIN s : s[i] \in X => \E j \in DOMAIN Only(s, X) : Only(s, X)[j] = s[i]
<1> DEFINE at == {i \in DOMAIN s : s[i] \in X}
           c == Cardinality(at)
           rank(i) == Cardinality({h \in at : h <= i})
           nth(j) == CHOOSE i \in at : rank(i) = j
           R == {rank(i) : i \in at}
           f == [i \in at |-> rank(i)]
<1>1. /\ Len(s) \in Nat /\ DOMAIN s = 1..Len(s)
      /\ at \subseteq 1..Len(s) /\ IsFiniteSet(at) /\ c \in Nat /\ c <= Len(s)
  <2>1. Len(s) \in Nat /\ DOMAIN s = 1..Len(s)
    BY LenProperties
  <2>2. at \subseteq 1..Len(s) /\ IsFiniteSet(1..Len(s))
    BY <2>1, FS_Interval
  <2>3. IsFiniteSet(at) /\ Cardinality(at) <= Cardinality(1..Len(s))
    BY <2>2, FS_Subset
  <2>4. Cardinality(1..Len(s)) = Len(s)
    BY <2>1, FS_Interval
  <2>5. QED
    BY <2>1, <2>2, <2>3, <2>4, FS_CardinalityType
<1>2. ASSUME NEW i \in at PROVE rank(i) \in 1..c
  <2> DEFINE below == {h \in at : h <= i}
  <2>1. i \in below /\ below \subseteq at
    BY <1>1
  <2>2. IsFiniteSet(below) /\ Cardinality(below) <= c /\ Cardinality(below) \in Nat
    BY <1>1, <2>1, FS_Subset, FS_CardinalityType
  <2>3. Cardinality(below) # 0
    BY <2>1, <2>2, FS_EmptySet
  <2>4. QED
    BY <1>1, <2>2, <2>3
<1>3. ASSUME NEW i \in at, NEW k \in at, i < k PROVE rank(i) # rank(k)
  <2> DEFINE low == {h \in at : h <= i}
             high == {h \in at : h <= k}
  <2>1. low \subseteq high /\ high \subseteq at /\ k \in high /\ k \notin low
    BY <1>1, <1>3
  <2>2. IsFiniteSet(high)
    BY <1>1, <2>1, FS_Subset
  <2>3. Cardinality(low) # Cardinality(high)
    BY <2>1, <2>2, FS_Subset
  <2>4. QED
    BY <2>3
<1> HIDE DEF rank, c
<1>4. f \in Bijection(at, R)
  <2>1. f \in Surjection(at, R)
    BY DEF Surjection
  <2>2. ASSUME NEW i \in at, NEW k \in at, f[i] = f[k] PROVE i = k
    <3>1. i \in Nat /\ k \in Nat /\ rank(i) = rank(k)
      BY <1>1, <2>2
    <3>2. ~(i < k) /\ ~(k < i)
      BY <1>3, <3>1
    <3>3. QED
      BY <3>1, <3>2
  <2>3. f \in Injection(at, R)
    BY <2>2 DEF Injection, IsInjective
  <2>4. QED
    BY <2>1, <2>3 DEF Bijection
<1>5. R = 1..c
  <2>1. R \subseteq 1..c
    BY <1>2
  <2>2. IsFiniteSet(R) /\ Cardinality(R) = c
    BY <1>1, <1>4, FS_Bijection DEF c, ExistsBijection
  <2>3. Cardinality(1..c) = c /\ IsFiniteSet(1..c)
    BY <1>1, FS_Interval
  <2>4. QED
    BY <2>1, <2>2, <2>3, FS_Subset
<1>6. ASSUME NEW j \in 1..c PROVE nth(j) \in at /\ rank(nth(j)) = j /\ s[nth(j)] \in T
  <2>1. \E i \in at : rank(i) = j
    BY <1>5
  <2>2. nth(j) \in at /\ rank(nth(j)) = j
    BY <2>1
  <2> HIDE DEF nth
  <2>3. QED
    BY <1>1, <2>2, ElementOfSeq
<1>7. Only(s, X) = [j \in 1..c |-> s[nth(j)]]
  BY DEF Only, c, rank
<1>8. ASSUME NEW i \in at PROVE \E j \in 1..c : nth(j) = i
  <2>1. rank(i) \in 1..c
    BY <1>2
  <2>2. nth(rank(i)) \in at /\ rank(nth(rank(i))) = rank(i)
    BY <1>6, <2>1
  <2> HIDE DEF nth
  <2>3. i \in Nat /\ nth(rank(i)) \in Nat
    BY <1>1, <2>2
  <2>4. ~(i < nth(rank(i))) /\ ~(nth(rank(i)) < i)
    BY <1>3, <2>2
  <2>5. QED
    BY <2>1, <2>3, <2>4
<1> HIDE DEF nth
<1>9. Only(s, X) \in Seq(T) /\ Len(Only(s, X)) = c /\ DOMAIN Only(s, X) = 1..c
  BY <1>1, <1>6, <1>7
<1>10. QED
  BY <1>1, <1>6, <1>7, <1>8, <1>9
-----------------------------------------------------------------------------
(* State objects and calls, whatever calls cross *)

\* The object that is written fits.
LEMMA FitSet ==
    ASSUME KidsFit, NEW o, NEW r, o \in Objs => KidFits(r), kids' = [kids EXCEPT ![o] = r]
    PROVE  KidsFit'
<1>1. /\ kids' \in [Objs -> ChildState]
      /\ \A x \in Objs : kids'[x] = IF x = o THEN r ELSE kids[x]
  BY DEF KidsFit, KidFits
<1>2. QED
  BY <1>1 DEF KidsFit, KidFits

LEMMA FitSame == KidsFit /\ kids' = kids => KidsFit'
  BY DEF KidsFit, KidFits

LEMMA CallsSame == CallsFit /\ UNCHANGED <<entry, waiting, micro>> => CallsFit'
  BY DEF CallsFit

\* The fields that fitting is about, of an object that is given others.
LEMMA FitAs ==
    ASSUME NEW k, KidFits(k), NEW r \in ChildState,
           r.stoppedByUser => k.stoppedByUser \/ ~r.timer,
           r.timer => k.timer,
           r.status = "crash-loop" => k.status = "crash-loop",
           r.proc \in {None, k.proc}, r.strikes < HungStrikesMax
    PROVE  KidFits(r)
  BY DEF KidFits, ChildState

\* What the code does to the fields of an object.
LEMMA FitForgot == ASSUME NEW k, KidFits(k) PROVE KidFits([k EXCEPT !.proc = None])
<1> DEFINE r == [k EXCEPT !.proc = None]
<1>1. r \in ChildState /\ r.proc = None /\ r.timer = k.timer /\ r.status = k.status
      /\ r.stoppedByUser = k.stoppedByUser /\ r.strikes < HungStrikesMax
  BY DEF KidFits, ChildState
<1> HIDE DEF r
<1>2. KidFits(r)
  BY <1>1, FitAs
<1>3. QED
  BY <1>2 DEF r

LEMMA FitStopped == ASSUME NEW k, KidFits(k) PROVE KidFits([k EXCEPT !.status = "stopped"])
<1> DEFINE r == [k EXCEPT !.status = "stopped"]
<1>1. r \in ChildState /\ r.proc = k.proc /\ r.timer = k.timer /\ r.status = "stopped"
      /\ r.stoppedByUser = k.stoppedByUser /\ r.strikes < HungStrikesMax
  BY DEF KidFits, ChildState
<1> HIDE DEF r
<1>2. KidFits(r)
  BY <1>1, FitAs
<1>3. QED
  BY <1>2 DEF r

LEMMA FitStruck ==
    ASSUME NEW k, KidFits(k), NEW n \in Nat, n < HungStrikesMax PROVE KidFits([k EXCEPT !.strikes = n])
<1> DEFINE r == [k EXCEPT !.strikes = n]
<1>1. r \in ChildState /\ r.proc = k.proc /\ r.timer = k.timer /\ r.status = k.status
      /\ r.stoppedByUser = k.stoppedByUser /\ r.strikes < HungStrikesMax
  BY DEF KidFits, ChildState
<1> HIDE DEF r
<1>2. KidFits(r)
  BY <1>1, FitAs
<1>3. QED
  BY <1>2 DEF r

LEMMA FitCleared ==
    ASSUME NEW k, KidFits(k), NEW b \in BOOLEAN
    PROVE  KidFits([k EXCEPT !.timer = FALSE, !.stoppedByUser = b])
<1> DEFINE r == [k EXCEPT !.timer = FALSE, !.stoppedByUser = b]
<1>1. r \in ChildState /\ r.proc = k.proc /\ r.timer = FALSE /\ r.status = k.status
      /\ r.stoppedByUser = b /\ r.strikes < HungStrikesMax
  BY DEF KidFits, ChildState
<1> HIDE DEF r
<1>2. KidFits(r)
  BY <1>1, FitAs
<1>3. QED
  BY <1>2 DEF r

LEMMA FitDisarmed == ASSUME NEW k, KidFits(k) PROVE KidFits([k EXCEPT !.timer = FALSE])
<1> DEFINE r == [k EXCEPT !.timer = FALSE]
<1>1. r \in ChildState /\ r.proc = k.proc /\ r.timer = FALSE /\ r.status = k.status
      /\ r.stoppedByUser = k.stoppedByUser /\ r.strikes < HungStrikesMax
  BY DEF KidFits, ChildState
<1> HIDE DEF r
<1>2. KidFits(r)
  BY <1>1, FitAs
<1>3. QED
  BY <1>2 DEF r

LEMMA FitWilling == ASSUME NEW k, KidFits(k) PROVE KidFits([k EXCEPT !.stoppedByUser = FALSE])
<1> DEFINE r == [k EXCEPT !.stoppedByUser = FALSE]
<1>1. r \in ChildState /\ r.proc = k.proc /\ r.timer = k.timer /\ r.status = k.status
      /\ r.stoppedByUser = FALSE /\ r.strikes < HungStrikesMax
  BY DEF KidFits, ChildState
<1> HIDE DEF r
<1>2. KidFits(r)
  BY <1>1, FitAs
<1>3. QED
  BY <1>2 DEF r

LEMMA FitReset == ASSUME NEW k, KidFits(k) PROVE KidFits(Reset(k))
<1> DEFINE r == Reset(k)
<1>1. r \in ChildState /\ r.proc = k.proc /\ r.timer = k.timer /\ r.status = k.status
      /\ r.stoppedByUser = FALSE /\ r.strikes < HungStrikesMax
  BY DEF KidFits, ChildState, Reset
<1> HIDE DEF r
<1>2. KidFits(r)
  BY <1>1, FitAs
<1>3. QED
  BY <1>2 DEF r

LEMMA FitStable == ASSUME NEW k, KidFits(k) PROVE KidFits(ResetBackoff(k))
<1> DEFINE r == [k EXCEPT !.raised = FALSE, !.window = 0]
<1>1. r \in ChildState /\ r.proc = k.proc /\ r.timer = k.timer /\ r.status = k.status
      /\ r.stoppedByUser = k.stoppedByUser /\ r.strikes < HungStrikesMax
  BY DEF KidFits, ChildState
<1>2. ResetBackoff(k) \in {k, r}
  BY DEF ResetBackoff
<1> HIDE DEF r
<1>3. KidFits(r)
  BY <1>1, FitAs
<1>4. QED
  BY <1>2, <1>3

LEMMA FitFresh == KidFits(FreshChild) /\ FreshChild.proc = None /\ ~FreshChild.timer
<1>1. FreshChild \in ChildState
  BY DEF FreshChild, ChildState
<1>2. /\ FreshChild.status = "running" /\ FreshChild.stoppedByUser = FALSE
      /\ FreshChild.strikes = 0 /\ FreshChild.proc = None /\ FreshChild.timer = FALSE
  BY DEF FreshChild
<1>3. QED
  BY <1>1, <1>2, OrchestratorAssumption DEF KidFits

\* A respawn is armed for an object that nobody stopped, and that then is not in
\* crash-loop.
LEMMA FitScheduled ==
    ASSUME NEW k, KidFits(k), k.proc = None, ~k.stoppedByUser, NEW r \in ScheduleRestart(k)
    PROVE  KidFits(r) /\ r.proc = None /\ ~r.stoppedByUser
<1>1. k \in ChildState /\ k.window \in Nat
  BY DEF KidFits, ChildState
<1>2. CASE k.timer
  BY <1>2 DEF ScheduleRestart
<1>3. CASE ~k.timer
  <2>1. PICK kept \in 0..k.window :
            r = IF kept + 1 > MaxRestarts
                THEN [k EXCEPT !.status = "crash-loop", !.window = kept + 1]
                ELSE [k EXCEPT !.status = "backoff", !.window = kept + 1,
                               !.raised = TRUE, !.timer = TRUE]
    BY <1>3 DEF ScheduleRestart
  <2>2. kept + 1 \in Nat
    BY <1>1
  <2>3. CASE r = [k EXCEPT !.status = "crash-loop", !.window = kept + 1]
    <3>1. /\ r \in ChildState /\ r.proc = k.proc /\ r.timer = k.timer
          /\ r.stoppedByUser = k.stoppedByUser /\ r.strikes = k.strikes
      BY <1>1, <2>2, <2>3 DEF ChildState
    <3>2. QED
      BY <1>3, <3>1 DEF KidFits
  <2>4. CASE r = [k EXCEPT !.status = "backoff", !.window = kept + 1,
                           !.raised = TRUE, !.timer = TRUE]
    <3>1. /\ r \in ChildState /\ r.status = "backoff" /\ r.stoppedByUser = k.stoppedByUser
          /\ r.strikes = k.strikes /\ r.proc = k.proc
      BY <1>1, <2>2, <2>4 DEF ChildState
    <3>2. QED
      BY <3>1 DEF KidFits
  <2>5. QED
    BY <2>1, <2>3, <2>4
<1>4. QED
  BY <1>2, <1>3

LEMMA FitSpawn ==
    ASSUME KidsFit, NEW o, NEW k, KidFits(k), Spawn(k, o)
    PROVE  KidsFit'
<1> DEFINE p == Least(FreeProcs)
           r == [k EXCEPT !.proc = p, !.status = "running", !.strikes = 0]
<1>1. p \in Procs
  <2>1. FreeProcs \in SUBSET Nat /\ FreeProcs \subseteq Procs /\ FreeProcs # {}
    BY OrchestratorAssumption DEF FreeProcs, Spawn
  <2>2. QED
    BY <2>1, LeastIn
<1>2. kids' = [kids EXCEPT ![o] = r]
  BY DEF Spawn
<1> HIDE DEF p
<1>3. /\ r \in ChildState /\ r.status = "running" /\ r.timer = k.timer
      /\ r.stoppedByUser = k.stoppedByUser /\ r.strikes = 0
  BY <1>1 DEF KidFits, ChildState
<1> HIDE DEF r
<1>4. KidFits(r)
  BY <1>3, OrchestratorAssumption DEF KidFits
<1>5. QED
  BY <1>2, <1>4, FitSet

\* killChild on behalf of a caller disarms the object and is queued.
LEMMA FitKill ==
    ASSUME KidsFit, CallsFit, Room, NEW o \in Objs, NEW k, KidFits(k),
           NEW who \in {"stop", "restart", "reconcile", "shutdown"},
           KillChild(k, o, who), entry' = entry
    PROVE  KidsFit' /\ CallsFit'
<1> DEFINE w == [who |-> who, obj |-> o, proc |-> k.proc]
<1>1. w \in Kill
  BY DEF Kill, KidFits, ChildState
<1>2. CASE k.proc = None
  <2>1. /\ kids' = [kids EXCEPT ![o] = [k EXCEPT !.timer = FALSE]]
        /\ micro' = Append(micro, [step |-> "resume", w |-> w]) /\ waiting' = waiting
    BY <1>2 DEF KillChild
  <2>2. KidFits([k EXCEPT !.timer = FALSE])
    BY FitDisarmed
  <2>3. [step |-> "resume", w |-> w] \in Going
    BY <1>1 DEF Going
  <2> HIDE DEF w
  <2>4. KidsFit'
    BY <2>1, <2>2, FitSet
  <2>5. CallsFit'
    BY <2>1, <2>3, AppendProperties DEF CallsFit
  <2>6. QED
    BY <2>4, <2>5
<1>3. CASE k.proc # None
  <2>1. /\ kids' = [kids EXCEPT ![o] = [k EXCEPT !.timer = FALSE, !.stoppedByUser = TRUE]]
        /\ waiting' = Append(waiting, w) /\ micro' = micro
    BY <1>3 DEF KillChild
  <2>2. KidFits([k EXCEPT !.timer = FALSE, !.stoppedByUser = TRUE])
    BY FitCleared
  <2> HIDE DEF w
  <2>3. KidsFit'
    BY <2>1, <2>2, FitSet
  <2>4. waiting' \in Seq(Kill) /\ Len(waiting') <= MaxWaiting
    BY <1>1, <2>1, AppendProperties, LenProperties, OrchestratorAssumption DEF CallsFit, Room
  <2>5. CallsFit'
    BY <2>1, <2>4 DEF CallsFit
  <2>6. QED
    BY <2>3, <2>5
<1>4. QED
  BY <1>2, <1>3

LEMMA BodyObserve ==
    ASSUME BodyFits, NEW p \in Procs, ObserveExit(p) PROVE BodyFits'
<1> DEFINE o == owner[p]
           k == [kids[o] EXCEPT !.proc = None]
           final == \/ k.stoppedByUser
                    \/ policy = "never"
                    \/ policy = "on-failure" /\ ps[p] = "exit0"
           freed == {w \in Pending : w.proc = p}
<1>1. /\ ExitHandler(p) /\ entry' = entry
      /\ waiting' = Only(waiting, Pending \ freed)
      /\ micro' = [i \in DOMAIN Only(waiting, freed) |->
                      [step |-> "killed", w |-> Only(waiting, freed)[i]]]
  BY DEF ObserveExit
<1>2. KidsFit'
  <2>1. CASE ~running \/ kids[o].proc # p
    <3>1. kids' = kids
      BY <1>1, <2>1 DEF ExitHandler
    <3>2. QED
      BY <3>1, FitSame DEF BodyFits
  <2>2. CASE running /\ kids[o].proc = p
    <3>1. PICK r \in (IF final THEN {[k EXCEPT !.status = "stopped"]} ELSE ScheduleRestart(k)) :
              kids' = [kids EXCEPT ![o] = r]
      BY <1>1, <2>2 DEF ExitHandler
    <3>2. ASSUME o \in Objs PROVE KidFits(r)
      <4>1. KidFits(kids[o])
        BY <3>2 DEF BodyFits, KidsFit
      <4>2. KidFits(k) /\ k.proc = None
        BY <4>1, FitForgot DEF KidFits, ChildState
      <4> HIDE DEF k
      <4>3. CASE final
        BY <3>1, <4>2, <4>3, FitStopped
      <4>4. CASE ~final
        BY <3>1, <4>2, <4>4, FitScheduled
      <4>5. QED
        BY <4>3, <4>4
    <3> HIDE DEF o
    <3>3. QED
      BY <3>1, <3>2, FitSet DEF BodyFits
  <2>3. QED
    BY <2>1, <2>2
<1>3. CallsFit'
  <2>1. waiting \in Seq(Kill) /\ entry \in Objs \cup {None} /\ Len(waiting) <= MaxWaiting
    BY DEF BodyFits, CallsFit
  <2>2. waiting' \in Seq(Kill) /\ Only(waiting, freed) \in Seq(Kill) /\ Len(waiting') <= MaxWaiting
    BY <1>1, <2>1, OnlyIn, LenProperties, OrchestratorAssumption
  <2> DEFINE g == Only(waiting, freed)
  <2> HIDE DEF freed, g
  <2>3. g \in Seq(Kill) /\ micro' = [i \in DOMAIN g |-> [step |-> "killed", w |-> g[i]]]
    BY <1>1, <2>2 DEF g
  <2>4. \A i \in 1..Len(g) : [step |-> "killed", w |-> g[i]] \in Going
    BY <2>3, ElementOfSeq, LenProperties DEF Going
  <2> DEFINE T == Going
  <2>5. micro' \in Seq(T)
    <3>1. DOMAIN g = 1..Len(g) /\ Len(g) \in Nat
      BY <2>3, LenProperties
    <3>2. micro' \in [1..Len(g) -> T]
      BY <2>3, <2>4, <3>1
    <3> HIDE DEF T
    <3>3. QED
      BY <3>1, <3>2, SeqDef
  <2>6. QED
    BY <1>1, <2>1, <2>2, <2>5 DEF CallsFit
<1>4. QED
  BY <1>2, <1>3 DEF BodyFits

LEMMA BodyTimeout ==
    ASSUME BodyFits, NEW i \in DOMAIN waiting, KillTimeout(i) PROVE BodyFits'
<1> DEFINE w == waiting[i]
<1>0. waiting \in Seq(Kill) /\ entry \in Objs \cup {None} /\ KidsFit /\ Len(waiting) <= MaxWaiting
  BY DEF BodyFits, CallsFit
<1>1. w \in Kill
  BY <1>0, ElementOfSeq, LenProperties
<1>2. /\ kids' = [kids EXCEPT ![w.obj].proc = None] /\ entry' = entry
      /\ waiting' = SubSeq(waiting, 1, i - 1) \o SubSeq(waiting, i + 1, Len(waiting))
      /\ micro' = <<[step |-> "resume", w |-> w]>>
  BY DEF KillTimeout, ForgetProc
<1>3. waiting' \in Seq(Kill) /\ Len(waiting') <= MaxWaiting
  BY <1>0, <1>2, OneLess, LenProperties, OrchestratorAssumption
<1>4. micro' \in Seq(Going)
  BY <1>1, <1>2 DEF Going
<1> HIDE DEF w
<1>5. kids' = [kids EXCEPT ![w.obj] = [kids[w.obj] EXCEPT !.proc = None]]
  BY <1>2
<1>6. w.obj \in Objs => KidFits([kids[w.obj] EXCEPT !.proc = None])
  BY <1>0, FitForgot DEF KidsFit
<1>7. KidsFit'
  BY <1>0, <1>5, <1>6, FitSet
<1>8. QED
  BY <1>0, <1>2, <1>3, <1>4, <1>7 DEF BodyFits, CallsFit

LEMMA BodyTimer ==
    ASSUME BodyFits, NEW o \in Objs, TimerFire(o) PROVE BodyFits'
<1> DEFINE k == [kids[o] EXCEPT !.timer = FALSE]
<1>1. KidsFit /\ KidFits(k)
  BY FitDisarmed DEF BodyFits, KidsFit
<1>2. Spawn(k, o) \/ kids' = [kids EXCEPT ![o] = k]
  BY DEF TimerFire
<1> HIDE DEF k
<1>3. KidsFit'
  BY <1>1, <1>2, FitSpawn, FitSet
<1>4. CallsFit'
  BY CallsSame DEF TimerFire, BodyFits
<1>5. QED
  BY <1>3, <1>4 DEF BodyFits

LEMMA BodyPong ==
    ASSUME BodyFits, NEW p \in Procs, Pong(p) PROVE BodyFits'
<1> DEFINE o == owner[p]
<1>1. kids' = [kids EXCEPT ![o] = [kids[o] EXCEPT !.strikes = 0]]
  BY DEF Pong
<1> HIDE DEF o
<1>2. o \in Objs => KidFits([kids[o] EXCEPT !.strikes = 0])
  BY FitStruck, OrchestratorAssumption DEF BodyFits, KidsFit
<1>3. KidsFit'
  BY <1>1, <1>2, FitSet DEF BodyFits
<1>4. CallsFit'
  BY CallsSame DEF Pong, BodyFits
<1>5. QED
  BY <1>3, <1>4 DEF BodyFits

LEMMA BodyEvaluate ==
    ASSUME BodyFits, PingEvaluate PROVE BodyFits'
<1> DEFINE o == ping.obj
           k == kids[o]
           dead == [k EXCEPT !.proc = None, !.strikes = 0]
<1>1. CallsFit'
  BY CallsSame DEF PingEvaluate, BodyFits
<1>2. \/ kids' = kids
      \/ kids' = [kids EXCEPT ![o].strikes = @ + 1] /\ k.strikes + 1 < HungStrikesMax
      \/ \E r \in (IF ~k.stoppedByUser /\ policy # "never" THEN ScheduleRestart(dead)
                   ELSE {[dead EXCEPT !.status = "stopped"]}) :
            kids' = [kids EXCEPT ![o] = r]
  BY DEF PingEvaluate
<1>3. CASE kids' = kids
  BY <1>1, <1>3, FitSame DEF BodyFits
<1>4. CASE kids' = [kids EXCEPT ![o].strikes = @ + 1] /\ k.strikes + 1 < HungStrikesMax
  <2>1. kids' = [kids EXCEPT ![o] = [k EXCEPT !.strikes = k.strikes + 1]]
    BY <1>4
  <2>2. ASSUME o \in Objs PROVE KidFits([k EXCEPT !.strikes = k.strikes + 1])
    <3>1. KidFits(k)
      BY <2>2 DEF BodyFits, KidsFit
    <3>2. k.strikes + 1 \in Nat /\ k.strikes + 1 < HungStrikesMax
      BY <1>4, <3>1 DEF KidFits, ChildState
    <3> HIDE DEF k
    <3>3. QED
      BY <3>1, <3>2, FitStruck
  <2> HIDE DEF o, k
  <2>3. KidsFit'
    BY <2>1, <2>2, FitSet DEF BodyFits
  <2>4. QED
    BY <1>1, <2>3 DEF BodyFits
<1>5. ASSUME NEW r \in (IF ~k.stoppedByUser /\ policy # "never" THEN ScheduleRestart(dead)
                        ELSE {[dead EXCEPT !.status = "stopped"]}),
             kids' = [kids EXCEPT ![o] = r]
      PROVE  BodyFits'
  <2>1. ASSUME o \in Objs PROVE KidFits(r)
    <3>1. KidFits(k)
      BY <2>1 DEF BodyFits, KidsFit
    <3> HIDE DEF k
    <3>2. /\ dead \in ChildState /\ dead.proc = None /\ dead.timer = k.timer
          /\ dead.status = k.status /\ dead.stoppedByUser = k.stoppedByUser
          /\ dead.strikes = 0
      BY <3>1 DEF KidFits, ChildState
    <3> HIDE DEF dead
    <3>3. KidFits(dead)
      BY <3>1, <3>2, FitAs, OrchestratorAssumption
    <3>4. CASE ~k.stoppedByUser /\ policy # "never"
      BY <1>5, <3>2, <3>3, <3>4, FitScheduled
    <3>5. CASE ~(~k.stoppedByUser /\ policy # "never")
      BY <1>5, <3>3, <3>5, FitStopped
    <3>6. QED
      BY <3>4, <3>5
  <2> HIDE DEF o, k, dead
  <2>2. KidsFit'
    BY <1>5, <2>1, FitSet DEF BodyFits
  <2>3. QED
    BY <1>1, <2>2 DEF BodyFits
<1>6. QED
  BY <1>2, <1>3, <1>4, <1>5

LEMMA BodyReconcile ==
    ASSUME BodyFits, Room, Reconcile PROVE BodyFits'
<1>0. KidsFit /\ CallsFit /\ \A o \in Objs : KidFits(kids[o])
  BY DEF BodyFits, KidsFit
<1>1. CASE /\ desired /\ entry = None /\ FreeObjs # {} /\ entry' = Least(FreeObjs)
           /\ Spawn(FreshChild, entry') /\ UNCHANGED <<waiting, micro>>
  <2>1. FreeObjs \in SUBSET Nat /\ FreeObjs \subseteq Objs
    BY OrchestratorAssumption DEF FreeObjs
  <2>2. entry' \in Objs
    BY <1>1, <2>1, LeastIn
  <2>3. KidsFit'
    BY <1>0, <1>1, FitFresh, FitSpawn
  <2>4. QED
    BY <1>0, <1>1, <2>2, <2>3 DEF BodyFits, CallsFit
<1>2. CASE /\ desired /\ entry # None
           /\ \E k \in {kids[entry], ResetBackoff(kids[entry])} :
                 kids' = [kids EXCEPT ![entry] = k]
           /\ UNCHANGED <<entry, ps, owner, waiting, micro>>
  <2>1. PICK k \in {kids[entry], ResetBackoff(kids[entry])} : kids' = [kids EXCEPT ![entry] = k]
    BY <1>2
  <2>2. entry \in Objs => KidFits(k)
    BY <1>0, <2>1, FitStable
  <2>3. KidsFit'
    BY <1>0, <2>1, <2>2, FitSet
  <2>4. QED
    BY <1>0, <1>2, <2>3, CallsSame DEF BodyFits
<1>3. CASE /\ ~desired /\ entry # None
           /\ KillChild(kids[entry], entry, "reconcile") /\ UNCHANGED <<entry, ps, owner>>
  <2>1. entry \in Objs
    BY <1>0, <1>3 DEF CallsFit
  <2>2. QED
    BY <1>0, <1>3, <2>1, FitKill DEF BodyFits
<1>4. CASE UNCHANGED <<entry, kids, ps, owner, waiting, micro>>
  BY <1>0, <1>4, FitSame, CallsSame DEF BodyFits
<1>5. QED
  BY <1>1, <1>2, <1>3, <1>4 DEF Reconcile

LEMMA BodyStop ==
    ASSUME BodyFits, Stop PROVE BodyFits'
<1>0. KidsFit /\ CallsFit /\ \A o \in Objs : KidFits(kids[o])
  BY DEF BodyFits, KidsFit
<1>1. CASE entry = None
  BY <1>0, <1>1, FitSame, CallsSame DEF Stop, BodyFits
<1>2. CASE entry # None
  <2>1. entry \in Objs /\ Room /\ KillChild(kids[entry], entry, "shutdown") /\ entry' = entry
    BY <1>0, <1>2 DEF CallsFit, Stop
  <2>2. QED
    BY <1>0, <2>1, FitKill DEF BodyFits
<1>3. QED
  BY <1>1, <1>2

LEMMA BodyCalls ==
    ASSUME BodyFits, StopProcess \/ StartProcess \/ RestartProcess PROVE BodyFits'
<1>0. /\ KidsFit /\ CallsFit /\ \A o \in Objs : KidFits(kids[o])
      /\ entry \in Objs /\ entry' = entry
  BY DEF BodyFits, KidsFit, CallsFit, StopProcess, StartProcess, RestartProcess, Called
<1>1. CASE StopProcess
  <2> DEFINE k == [kids[entry] EXCEPT !.stoppedByUser = TRUE, !.timer = FALSE]
  <2>1. /\ k \in ChildState /\ k.proc = kids[entry].proc /\ ~k.timer
        /\ k.status = kids[entry].status /\ k.strikes < HungStrikesMax
    BY <1>0 DEF KidFits, ChildState
  <2>2. \/ kids' = [kids EXCEPT ![entry] = [k EXCEPT !.status = "stopped"]]
           /\ UNCHANGED <<waiting, micro>>
        \/ Room /\ KillChild(k, entry, "stop")
    BY <1>1 DEF StopProcess
  <2> HIDE DEF k
  <2>3. KidFits(k)
    BY <1>0, <2>1, FitAs
  <2>4. CASE Room /\ KillChild(k, entry, "stop")
    BY <1>0, <2>3, <2>4, FitKill DEF BodyFits
  <2>5. CASE kids' = [kids EXCEPT ![entry] = [k EXCEPT !.status = "stopped"]]
             /\ UNCHANGED <<waiting, micro>>
    <3>1. KidFits([k EXCEPT !.status = "stopped"])
      BY <2>3, FitStopped
    <3>2. KidsFit'
      BY <1>0, <2>5, <3>1, FitSet
    <3>3. QED
      BY <1>0, <2>5, <3>2, CallsSame DEF BodyFits
  <2>6. QED
    BY <2>2, <2>4, <2>5
<1>2. CASE StartProcess
  <2> DEFINE k == Reset(kids[entry])
  <2>1. KidFits(k)
    BY <1>0, FitReset
  <2>2. Spawn(k, entry) \/ kids' = [kids EXCEPT ![entry] = k]
    BY <1>2 DEF StartProcess
  <2> HIDE DEF k
  <2>3. KidsFit'
    BY <1>0, <2>1, <2>2, FitSpawn, FitSet
  <2>4. QED
    BY <1>0, <1>2, <2>3, CallsSame DEF BodyFits, StartProcess
<1>3. CASE RestartProcess
  <2> DEFINE k == Reset(kids[entry])
  <2>1. KidFits(k)
    BY <1>0, FitReset
  <2>2. \/ Spawn(k, entry) /\ UNCHANGED <<waiting, micro>>
        \/ Room /\ KillChild(k, entry, "restart")
    BY <1>3 DEF RestartProcess
  <2> HIDE DEF k
  <2>3. CASE Spawn(k, entry) /\ UNCHANGED <<waiting, micro>>
    BY <1>0, <2>1, <2>3, FitSpawn, CallsSame DEF BodyFits
  <2>4. CASE Room /\ KillChild(k, entry, "restart")
    BY <1>0, <2>1, <2>4, FitKill DEF BodyFits
  <2>5. QED
    BY <2>2, <2>3, <2>4
<1>4. QED
  BY <1>1, <1>2, <1>3

LEMMA BodyContinue ==
    ASSUME BodyFits, Continue PROVE BodyFits'
<1> DEFINE T == Going
           m == Head(micro)
           k == [kids[m.w.obj] EXCEPT !.stoppedByUser = FALSE]
<1>0. /\ KidsFit /\ CallsFit /\ micro \in Seq(T) /\ micro # <<>> /\ waiting' = waiting
      /\ \A o \in Objs : KidFits(kids[o])
  BY DEF BodyFits, KidsFit, CallsFit, Continue
<1>1. m \in T /\ Tail(micro) \in Seq(T)
  BY <1>0, HeadTailProperties
<1>2. [m EXCEPT !.step = "resume"] \in T /\ m.w \in Kill
  BY <1>1 DEF Going
<1>3. /\ micro' = Append(Tail(micro), [m EXCEPT !.step = "resume"]) \/ micro' = Tail(micro)
      /\ \/ ForgetProc(m.w.obj) /\ entry' = entry
         \/ AfterKill(m.w)
  BY DEF Continue
<1>4. micro' \in Seq(T)
  <2> DEFINE r == [m EXCEPT !.step = "resume"]
  <2>1. r \in T /\ Tail(micro) \in Seq(T) /\ micro' \in {Append(Tail(micro), r), Tail(micro)}
    BY <1>1, <1>2, <1>3
  <2> HIDE DEF r, T
  <2>2. QED
    BY <2>1, AppendProperties
<1>5. m.w.who \in {"stop", "restart", "reconcile", "shutdown"}
  BY <1>2 DEF Kill
<1>6. /\ entry' \in {entry, None}
      /\ \/ kids' = kids
         \/ kids' = [kids EXCEPT ![m.w.obj].proc = None]
         \/ kids' = [kids EXCEPT ![m.w.obj].status = "stopped"]
         \/ kids' = [kids EXCEPT ![m.w.obj] = k]
         \/ kids' = [kids EXCEPT ![m.w.obj] = FreshChild]
         \/ Spawn(k, m.w.obj)
  BY <1>3, <1>5 DEF AfterKill, ForgetProc
<1> DEFINE o == m.w.obj
<1>7. \/ kids' = kids
      \/ kids' = [kids EXCEPT ![o] = [kids[o] EXCEPT !.proc = None]]
      \/ kids' = [kids EXCEPT ![o] = [kids[o] EXCEPT !.status = "stopped"]]
      \/ kids' = [kids EXCEPT ![o] = k]
      \/ kids' = [kids EXCEPT ![o] = FreshChild]
      \/ Spawn(k, o)
  BY <1>6
<1>8. o \in Objs
  BY <1>2 DEF Kill
<1> HIDE DEF o, m
<1>9. o \in Objs => /\ KidFits([kids[o] EXCEPT !.proc = None])
                    /\ KidFits([kids[o] EXCEPT !.status = "stopped"])
                    /\ KidFits([kids[o] EXCEPT !.stoppedByUser = FALSE])
  BY <1>0, FitForgot, FitStopped, FitWilling
<1>10. KidsFit'
  <2>1. CASE kids' = kids
    BY <1>0, <2>1, FitSame
  <2>2. CASE kids' = [kids EXCEPT ![o] = [kids[o] EXCEPT !.proc = None]]
    BY <1>0, <1>9, <2>2, FitSet
  <2>3. CASE kids' = [kids EXCEPT ![o] = [kids[o] EXCEPT !.status = "stopped"]]
    BY <1>0, <1>9, <2>3, FitSet
  <2>4. CASE kids' = [kids EXCEPT ![o] = k]
    BY <1>0, <1>9, <2>4, FitSet DEF o
  <2>5. CASE kids' = [kids EXCEPT ![o] = FreshChild]
    BY <1>0, <2>5, FitFresh, FitSet
  <2>6. CASE Spawn(k, o)
    BY <1>0, <1>8, <1>9, <2>6, FitSpawn DEF o
  <2>7. QED
    BY <1>7, <2>1, <2>2, <2>3, <2>4, <2>5, <2>6
<1>11. QED
  BY <1>0, <1>4, <1>6, <1>10 DEF BodyFits, CallsFit

-----------------------------------------------------------------------------
(* Processes, pings and the phases of the orchestrator, whatever calls cross *)

LEMMA LinksSame == LinksFit /\ UNCHANGED <<ps, owner, ping>> => LinksFit'
  BY DEF LinksFit, NoPing

\* No process comes about, and a ping in flight is left or ends.
LEMMA LinksKept ==
    ASSUME LinksFit, ps' \in [Procs -> {"none", "alive", "exit0", "exit1"}], owner' = owner,
           \A q \in Procs : ps'[q] # "none" => ps[q] # "none",
           ping' = ping \/ ping' = NoPing
    PROVE  LinksFit'
<1>1. /\ ping' \in [obj : Objs \cup {None}, proc : Procs \cup {None}, ponged : BOOLEAN]
      /\ ping' # NoPing => ping'.obj \in Objs /\ ping'.proc \in Procs
  <2>1. CASE ping' = ping
    BY <2>1 DEF LinksFit
  <2>2. CASE ping' = NoPing
    BY <2>2 DEF NoPing
  <2>3. QED
    BY <2>1, <2>2
<1>2. QED
  BY <1>1 DEF LinksFit, NoPing

\* A process that is killed is not live.
LEMMA SigKilled ==
    ASSUME LinksFit, NEW p, ps' = SigKill(ps, p)
    PROVE  /\ ps' \in [Procs -> {"none", "alive", "exit0", "exit1"}]
           /\ \A q \in Procs : ps'[q] # "none" => ps[q] # "none"
           /\ Live' \subseteq Live \ {p}
<1>1. \A q \in Procs : ps'[q] = IF q = p /\ ps[q] = "alive" THEN "exit1" ELSE ps[q]
  BY DEF SigKill
<1>2. ps' \in [Procs -> {"none", "alive", "exit0", "exit1"}]
  BY DEF SigKill, LinksFit
<1>3. QED
  BY <1>1, <1>2 DEF Live

\* A spawn leaves the new process as the only live one, if the object knew the others.
LEMMA Spawned ==
    ASSUME KidsFit, LinksFit, NEW o \in Objs, NEW k, KidFits(k), Spawn(k, o), ping' = ping
    PROVE  /\ LinksFit'
           /\ kids'[o].proc \in Procs /\ kids'[o].timer = k.timer
           /\ \A x \in Objs : x # o => kids'[x] = kids[x]
           /\ Live \subseteq {k.proc} => Live' \subseteq {kids'[o].proc}
<1> DEFINE p == Least(FreeProcs)
           r == [k EXCEPT !.proc = p, !.status = "running", !.strikes = 0]
<1>1. p \in Procs
  <2>1. FreeProcs \in SUBSET Nat /\ FreeProcs \subseteq Procs /\ FreeProcs # {}
    BY OrchestratorAssumption DEF FreeProcs, Spawn
  <2>2. QED
    BY <2>1, LeastIn
<1>2. /\ ps' = [SigKill(ps, k.proc) EXCEPT ![p] = "alive"]
      /\ owner' = [owner EXCEPT ![p] = o]
      /\ kids' = [kids EXCEPT ![o] = r]
  BY DEF Spawn
<1> HIDE DEF p
<1>3. r.proc = p /\ r.timer = k.timer
  BY <1>1 DEF KidFits, ChildState
<1> HIDE DEF r
<1>4. kids'[o] = r /\ \A x \in Objs : x # o => kids'[x] = kids[x]
  BY <1>2 DEF KidsFit
<1>5. /\ ps' \in [Procs -> {"none", "alive", "exit0", "exit1"}]
      /\ \A q \in Procs : ps'[q] = IF q = p THEN "alive"
                                   ELSE IF q = k.proc /\ ps[q] = "alive" THEN "exit1" ELSE ps[q]
  <2>1. SigKill(ps, k.proc) \in [Procs -> {"none", "alive", "exit0", "exit1"}]
    BY DEF SigKill, LinksFit
  <2>2. \A q \in Procs : SigKill(ps, k.proc)[q] =
                             IF q = k.proc /\ ps[q] = "alive" THEN "exit1" ELSE ps[q]
    BY DEF SigKill
  <2>3. QED
    BY <1>1, <1>2, <2>1, <2>2
<1>6. /\ owner' \in [Procs -> Objs \cup {None}]
      /\ \A q \in Procs : owner'[q] = IF q = p THEN o ELSE owner[q]
  BY <1>1, <1>2 DEF LinksFit
<1>7. \A q \in Procs : ps'[q] # "none" => owner'[q] \in Objs
  BY <1>5, <1>6 DEF LinksFit
<1>8. LinksFit'
  BY <1>5, <1>6, <1>7 DEF LinksFit, NoPing
<1>9. Live \subseteq {k.proc} => Live' \subseteq {p}
  BY <1>5 DEF Live
<1>10. QED
  BY <1>1, <1>3, <1>4, <1>8, <1>9

LEMMA FreeIsIn == FreeObjs # {} => Least(FreeObjs) \in FreeObjs /\ Least(FreeObjs) \in Objs
<1>1. FreeObjs \in SUBSET Nat /\ FreeObjs \subseteq Objs
  BY OrchestratorAssumption DEF FreeObjs
<1>2. QED
  BY <1>1, LeastIn

\* The call whose continuation is at the head of the queue.
LEMMA HeadIs ==
    ASSUME CallsFit, micro # <<>>
    PROVE  /\ Head(micro) = micro[1] /\ 1 \in DOMAIN micro /\ Head(micro) \in Going
           /\ Head(micro).w \in Kill /\ Head(micro).w.obj \in Objs
           /\ Head(micro).w.who \in {"stop", "restart", "reconcile", "shutdown"}
           /\ Tail(micro) \in Seq(Going) /\ Len(Tail(micro)) = Len(micro) - 1
           /\ \A i \in DOMAIN Tail(micro) : i + 1 \in DOMAIN micro /\ Tail(micro)[i] = micro[i + 1]
<1>1. micro \in Seq(Going)
  BY DEF CallsFit
<1> HIDE DEF Going
<1>2. /\ Head(micro) = micro[1] /\ 1 \in DOMAIN micro /\ Head(micro) \in Going
      /\ Tail(micro) \in Seq(Going) /\ Len(Tail(micro)) = Len(micro) - 1
      /\ \A i \in DOMAIN Tail(micro) : i + 1 \in DOMAIN micro /\ Tail(micro)[i] = micro[i + 1]
  BY <1>1
<1>3. QED
  BY <1>2 DEF Going, Kill

\* What spawns, or leaves the processes alone.
LEMMA LinksSpawn ==
    ASSUME LooseInv, ping' = ping,
           \/ UNCHANGED <<ps, owner>>
           \/ \E o \in Objs, k \in ChildState : KidFits(k) /\ Spawn(k, o)
    PROVE  LinksFit'
<1>1. CASE UNCHANGED <<ps, owner>>
  BY <1>1, LinksSame DEF LooseInv
<1>2. ASSUME NEW o \in Objs, NEW k \in ChildState, KidFits(k) /\ Spawn(k, o)
      PROVE  LinksFit'
  BY <1>2, Spawned DEF LooseInv, BodyFits
<1>3. QED
  BY <1>1, <1>2

LEMMA LinksStep == LooseInv /\ [Next]_vars => LinksFit'
<1> SUFFICES ASSUME LooseInv, [Next]_vars PROVE LinksFit'
  OBVIOUS
<1>0. /\ KidsFit /\ CallsFit /\ LinksFit
      /\ \A o \in Objs : KidFits(kids[o]) /\ kids[o] \in ChildState
  BY DEF LooseInv, BodyFits, KidsFit, KidFits
<1>1. ASSUME UNCHANGED <<ps, owner, ping>> PROVE LinksFit'
  BY <1>0, <1>1, LinksSame
<1>2. ASSUME NEW p \in Procs, NEW code \in {"exit0", "exit1"}, ProcExit(p, code)
      PROVE  LinksFit'
  <2>1. ps[p] = "alive" /\ ps' = [ps EXCEPT ![p] = code] /\ UNCHANGED <<owner, ping>>
    BY <1>2 DEF ProcExit
  <2>2. /\ ps' \in [Procs -> {"none", "alive", "exit0", "exit1"}]
        /\ \A q \in Procs : ps'[q] # "none" => ps[q] # "none"
    BY <1>0, <2>1 DEF LinksFit
  <2>3. QED
    BY <1>0, <2>1, <2>2, LinksKept
<1>3. ASSUME NEW p \in Procs, ObserveExit(p) PROVE LinksFit'
  <2>1. ps' = [ps EXCEPT ![p] = "none"] /\ owner' = [owner EXCEPT ![p] = None] /\ ping' = ping
    BY <1>3 DEF ObserveExit
  <2>2. QED
    BY <1>0, <2>1 DEF LinksFit, NoPing
<1>4. ASSUME NEW p \in Procs, Pong(p) PROVE LinksFit'
  <2>1. /\ UNCHANGED <<ps, owner>>
        /\ ping' = ping \/ (ping' = [ping EXCEPT !.ponged = TRUE] /\ ping.obj = owner[p])
        /\ owner[p] \in Objs
    BY <1>0, <1>4 DEF Pong, LinksFit
  <2>2. ping' \in [obj : Objs \cup {None}, proc : Procs \cup {None}, ponged : BOOLEAN]
    BY <1>0, <2>1 DEF LinksFit
  <2>3. ping' # NoPing => ping'.obj \in Objs /\ ping'.proc \in Procs
    <3>1. CASE ping' = ping
      BY <1>0, <3>1 DEF LinksFit
    <3>2. CASE ping' = [ping EXCEPT !.ponged = TRUE] /\ ping.obj = owner[p]
      <4>1. ping.obj # None
        BY <2>1, <3>2, Numbers
      <4>2. ping # NoPing
        BY <4>1 DEF NoPing
      <4>3. QED
        BY <1>0, <3>2, <4>2 DEF LinksFit
    <3>3. QED
      BY <2>1, <3>1, <3>2
  <2>4. QED
    BY <1>0, <2>1, <2>2, <2>3 DEF LinksFit
<1>5. ASSUME NEW i \in DOMAIN waiting, KillTimeout(i) PROVE LinksFit'
  BY <1>0, <1>5, SigKilled, LinksKept DEF KillTimeout
<1>6. ASSUME NEW o \in Objs, TimerFire(o) PROVE LinksFit'
  <2> DEFINE k == [kids[o] EXCEPT !.timer = FALSE]
  <2>1. KidFits(k) /\ k \in ChildState
    BY <1>0, FitDisarmed DEF KidFits
  <2>2. ping' = ping /\ (Spawn(k, o) \/ UNCHANGED <<ps, owner>>)
    BY <1>6 DEF TimerFire
  <2> HIDE DEF k
  <2>3. QED
    BY <2>1, <2>2, LinksSpawn
<1>7. CASE PingStart
  <2>1. /\ entry \in Objs /\ kids[entry].proc \in Procs
        /\ ping' = [obj |-> entry, proc |-> kids[entry].proc, ponged |-> FALSE]
        /\ UNCHANGED <<ps, owner>>
    BY <1>0, <1>7 DEF PingStart, CallsFit, ChildState
  <2>2. QED
    BY <1>0, <2>1 DEF LinksFit
<1>8. CASE PingEvaluate
  <2>1. /\ ping' = NoPing /\ owner' = owner
        /\ ps' = ps \/ ps' = SigKill(ps, ping.proc)
    BY <1>8 DEF PingEvaluate
  <2>2. CASE ps' = ps
    <3>1. \A q \in Procs : ps'[q] # "none" => ps[q] # "none"
      BY <2>2
    <3>2. QED
      BY <1>0, <2>1, <2>2, <3>1, LinksKept DEF LinksFit
  <2>3. CASE ps' = SigKill(ps, ping.proc)
    BY <1>0, <2>1, <2>3, SigKilled, LinksKept
  <2>4. QED
    BY <2>1, <2>2, <2>3
<1>9. CASE FinishStart \/ ReconcileTick
  <2>1. ping' = ping /\ Reconcile
    BY <1>9 DEF FinishStart, ReconcileTick
  <2>2. \/ UNCHANGED <<ps, owner>>
        \/ FreeObjs # {} /\ Spawn(FreshChild, Least(FreeObjs))
    BY <2>1 DEF Reconcile
  <2>3. FreshChild \in ChildState
    BY FitFresh DEF KidFits
  <2>4. QED
    BY <2>1, <2>2, <2>3, FitFresh, FreeIsIn, LinksSpawn
<1>10. CASE StopProcess \/ Stop \/ UpdateConfig \/ Start \/ UNCHANGED vars
  BY <1>1, <1>10 DEF StopProcess, Stop, UpdateConfig, Start, vars
<1>11. CASE StartProcess \/ RestartProcess
  <2> DEFINE k == Reset(kids[entry])
  <2>1. entry \in Objs
    BY <1>0, <1>11 DEF StartProcess, RestartProcess, Called, CallsFit
  <2>2. KidFits(k) /\ k \in ChildState
    BY <1>0, <2>1, FitReset DEF KidFits
  <2>3. ping' = ping /\ (UNCHANGED <<ps, owner>> \/ Spawn(k, entry))
    BY <1>11 DEF StartProcess, RestartProcess
  <2> HIDE DEF k
  <2>4. QED
    BY <2>1, <2>2, <2>3, LinksSpawn
<1>12. CASE Continue
  <2> DEFINE o == Head(micro).w.obj
             k == [kids[o] EXCEPT !.stoppedByUser = FALSE]
  <2>1. o \in Objs /\ Head(micro).w.who \in {"stop", "restart", "reconcile", "shutdown"}
    BY <1>0, <1>12, HeadIs DEF Continue
  <2>2. KidFits(k) /\ k \in ChildState
    BY <1>0, <2>1, FitWilling DEF KidFits
  <2>3. ping' = ping /\ (UNCHANGED <<ps, owner>> \/ Spawn(k, o))
    BY <1>12, <2>1 DEF Continue, AfterKill
  <2> HIDE DEF k, o
  <2>4. QED
    BY <2>1, <2>2, <2>3, LinksSpawn
<1>13. QED
  BY <1>2, <1>3, <1>4, <1>5, <1>6, <1>7, <1>8, <1>9, <1>10, <1>11, <1>12 DEF Next

\* Calls and kills come after start().
LEMMA ModeSame ==
    ASSUME ModeFits, UNCHANGED <<policy, mode>>, desired' \in BOOLEAN,
           commands' \in 0..MaxCommands, tangled' \in BOOLEAN,
           phase = "started" \/ UNCHANGED <<entry, waiting, micro>>
    PROVE  ModeFits'
<1>1. phase' = phase /\ running' = running /\ timersOn' = timersOn
  BY DEF mode
<1>2. QED
  BY <1>1 DEF ModeFits

\* The history of a step is Boolean.
LEMMA CrossesType == ASSUME NEW how, Crosses(how), ModeFits PROVE tangled' \in BOOLEAN
<1>1. tangled \in BOOLEAN
  BY DEF ModeFits
<1>2. tangled' = (tangled \/ how)
  BY DEF Crosses
<1>3. QED
  BY <1>1, <1>2, Zenon

LEMMA Counted == ASSUME ModeFits, Command PROVE commands' \in 0..MaxCommands
  BY OrchestratorAssumption DEF ModeFits, Command

LEMMA ReconcileType == ASSUME ModeFits, Reconcile PROVE tangled' \in BOOLEAN
  BY CrossesType DEF Reconcile, ModeFits

LEMMA ModeStep == LooseInv /\ [Next]_vars => ModeFits'
<1> SUFFICES ASSUME LooseInv, [Next]_vars PROVE ModeFits'
  OBVIOUS
<1>0. /\ CallsFit /\ ModeFits /\ desired \in BOOLEAN /\ commands \in 0..MaxCommands
      /\ tangled \in BOOLEAN
      /\ phase # "started" => waiting = <<>> /\ micro = <<>> /\ entry = None
  BY DEF LooseInv, BodyFits, ModeFits
<1>1. CASE \/ \E p \in Procs : (\E code \in {"exit0", "exit1"} : ProcExit(p, code)) \/ Pong(p)
           \/ (\E o \in Objs : TimerFire(o)) \/ PingStart \/ PingEvaluate \/ UNCHANGED vars
  <2>1. UNCHANGED <<policy, mode, desired, commands, tangled, entry, waiting, micro>>
    BY <1>1 DEF ProcExit, Pong, TimerFire, PingStart, PingEvaluate, vars, spec, hist, mode
  <2>2. QED
    BY <1>0, <2>1, ModeSame
<1>2. ASSUME NEW p \in Procs, ObserveExit(p) PROVE ModeFits'
  <2> DEFINE freed == {w \in Pending : w.proc = p}
  <2>1. /\ UNCHANGED <<policy, mode, desired, commands, tangled, entry>>
        /\ waiting' = Only(waiting, Pending \ freed)
        /\ micro' = [i \in DOMAIN Only(waiting, freed) |->
                        [step |-> "killed", w |-> Only(waiting, freed)[i]]]
        /\ micro = <<>>
    BY <1>2 DEF ObserveExit, spec, hist, mode, Idle
  <2> HIDE DEF freed
  <2>2. CASE waiting = <<>>
    <3>1. ASSUME NEW X PROVE Only(waiting, X) = <<>>
      <4>1. waiting \in Seq(Kill) /\ \A i \in DOMAIN waiting : waiting[i] \notin X
        BY <2>2
      <4>2. QED
        BY <4>1, OnlyNone
    <3>2. waiting' = waiting /\ DOMAIN Only(waiting, freed) = {}
      BY <2>1, <2>2, <3>1
    <3>3. micro' = micro
      BY <2>1, <3>2
    <3>4. QED
      BY <1>0, <2>1, <3>2, <3>3, ModeSame
  <2>3. CASE waiting # <<>>
    BY <1>0, <2>1, <2>3, ModeSame
  <2>4. QED
    BY <2>2, <2>3
<1>3. ASSUME NEW i \in DOMAIN waiting, KillTimeout(i) PROVE ModeFits'
  <2>1. UNCHANGED <<policy, mode, desired, commands, tangled, entry>> /\ waiting # <<>>
    BY <1>3 DEF KillTimeout, spec, hist, mode
  <2>2. QED
    BY <1>0, <2>1, ModeSame
<1>4. CASE UpdateConfig
  <2>1. /\ UNCHANGED <<policy, mode, tangled, entry, waiting, micro>>
        /\ desired' \in BOOLEAN /\ Command
    BY <1>0, <1>4 DEF UpdateConfig
  <2>2. QED
    BY <1>0, <2>1, ModeSame, Counted
<1>5. CASE Start
  BY <1>0, <1>5 DEF Start, ModeFits, spec, hist
<1>6. CASE FinishStart
  <2>1. /\ phase' = "started" /\ timersOn' = TRUE /\ running' = running
        /\ UNCHANGED <<policy, desired, commands>> /\ Reconcile
    BY <1>6 DEF FinishStart, spec
  <2>2. QED
    BY <1>0, <2>1, ReconcileType DEF ModeFits
<1>7. CASE ReconcileTick
  <2>1. UNCHANGED <<policy, desired, commands, mode>> /\ Reconcile /\ timersOn
    BY <1>7 DEF ReconcileTick, spec
  <2>2. phase = "started"
    BY <1>0, <2>1 DEF ModeFits
  <2>3. QED
    BY <1>0, <2>1, <2>2, ReconcileType, ModeSame
<1>8. CASE Stop
  <2>1. /\ UNCHANGED <<policy, desired, commands, phase, entry>> /\ running
        /\ running' = FALSE /\ timersOn' = FALSE /\ Crosses(phase # "started")
        /\ entry = None => UNCHANGED <<waiting, micro>>
    BY <1>8 DEF Stop, spec
  <2>2. QED
    BY <1>0, <2>1, CrossesType DEF ModeFits
<1>9. CASE StopProcess \/ StartProcess \/ RestartProcess
  <2>1. /\ UNCHANGED <<policy, desired, mode>> /\ Command /\ entry # None
        /\ Crosses(Awaits("restart")) \/ Crosses(waiting # <<>>)
    BY <1>9 DEF StopProcess, StartProcess, RestartProcess, Called, spec
  <2>2. tangled' \in BOOLEAN
    BY <1>0, <2>1, CrossesType
  <2>3. QED
    BY <1>0, <2>1, <2>2, ModeSame, Counted
<1>10. CASE Continue
  <2>1. UNCHANGED <<policy, mode, desired, commands, tangled>> /\ micro # <<>>
    BY <1>10 DEF Continue, spec, hist
  <2>2. QED
    BY <1>0, <2>1, ModeSame
<1>11. QED
  BY <1>1, <1>2, <1>3, <1>4, <1>5, <1>6, <1>7, <1>8, <1>9, <1>10 DEF Next

LEMMA BodyStep == LooseInv /\ [Next]_vars => BodyFits'
<1> SUFFICES ASSUME LooseInv, [Next]_vars PROVE BodyFits'
  OBVIOUS
<1>0. BodyFits
  BY DEF LooseInv
<1>1. ASSUME UNCHANGED <<kids, entry, waiting, micro>> PROVE BodyFits'
  BY <1>0, <1>1, FitSame, CallsSame DEF BodyFits
<1>2. ASSUME NEW p \in Procs, NEW code \in {"exit0", "exit1"}, ProcExit(p, code) PROVE BodyFits'
  BY <1>1, <1>2 DEF ProcExit
<1>3. ASSUME NEW p \in Procs, ObserveExit(p) \/ Pong(p) PROVE BodyFits'
  BY <1>0, <1>3, BodyObserve, BodyPong
<1>4. ASSUME NEW i \in DOMAIN waiting, KillTimeout(i) PROVE BodyFits'
  BY <1>0, <1>4, BodyTimeout
<1>5. ASSUME NEW o \in Objs, TimerFire(o) PROVE BodyFits'
  BY <1>0, <1>5, BodyTimer
<1>6. CASE PingStart \/ UpdateConfig \/ Start \/ UNCHANGED vars
  BY <1>1, <1>6 DEF PingStart, UpdateConfig, Start, vars
<1>7. CASE PingEvaluate \/ Stop \/ Continue
  BY <1>0, <1>7, BodyEvaluate, BodyStop, BodyContinue
<1>8. CASE ReconcileTick
  BY <1>0, <1>8, BodyReconcile DEF ReconcileTick
<1>9. CASE FinishStart
  <2>1. waiting = <<>> /\ Reconcile
    BY <1>9 DEF FinishStart, LooseInv, ModeFits
  <2>2. Room
    BY <2>1, OrchestratorAssumption DEF Room
  <2>3. QED
    BY <1>0, <2>1, <2>2, BodyReconcile
<1>10. CASE StopProcess \/ StartProcess \/ RestartProcess
  BY <1>0, <1>10, BodyCalls
<1>11. QED
  BY <1>2, <1>3, <1>4, <1>5, <1>6, <1>7, <1>8, <1>9, <1>10 DEF Next

LEMMA LooseStep == LooseInv /\ [Next]_vars => LooseInv'
  BY BodyStep, LinksStep, ModeStep DEF LooseInv

LEMMA LooseInit == Init => LooseInv
<1> SUFFICES ASSUME Init PROVE LooseInv
  OBVIOUS
<1>1. kids = [o \in Objs |-> FreshChild] /\ entry = None /\ waiting = <<>> /\ micro = <<>>
  BY DEF Init
<1>2. FreshChild \in ChildState
  BY FitFresh DEF KidFits
<1>3. KidsFit
  BY <1>1, <1>2, FitFresh DEF KidsFit
<1>4. CallsFit
  BY <1>1, OrchestratorAssumption DEF CallsFit
<1>5. LinksFit
  BY DEF Init, LinksFit, NoPing
<1>6. ModeFits
  <2>1. commands = 0 /\ 0 \in 0..MaxCommands
    BY OrchestratorAssumption DEF Init
  <2>2. QED
    BY <2>1 DEF Init, ModeFits
<1>7. QED
  BY <1>3, <1>4, <1>5, <1>6 DEF LooseInv, BodyFits

\* It has the types.
LEMMA LooseTypes == LooseInv => TypeOK
<1> SUFFICES ASSUME LooseInv PROVE TypeOK
  OBVIOUS
<1>1. Kill \subseteq Waiter /\ Going \subseteq [step : {"killed", "resume"}, w : Waiter]
  BY DEF Kill, Waiter, Going
<1> DEFINE G == [step : {"killed", "resume"}, w : Waiter]
<1>2. waiting \in Seq(Waiter) /\ micro \in Seq(G) /\ Len(waiting) <= MaxWaiting
      /\ entry \in Objs \cup {None}
  <2>1. waiting \in Seq(Kill) /\ micro \in Seq(Going) /\ Going \subseteq G
    BY <1>1 DEF LooseInv, BodyFits, CallsFit
  <2> HIDE DEF G, Going, Kill, Waiter
  <2>2. QED
    BY <1>1, <2>1 DEF LooseInv, BodyFits, CallsFit
<1>3. kids \in [Objs -> ChildState] /\ \A o \in Objs : kids[o].strikes < HungStrikesMax
  BY DEF LooseInv, BodyFits, KidsFit, KidFits
<1>4. QED
  BY <1>2, <1>3 DEF TypeOK, LooseInv, LinksFit, ModeFits

-----------------------------------------------------------------------------
(* What holds until two calls cross *)

LEMMA Kills ==
    ASSUME LooseInv
    PROVE  /\ \A i \in DOMAIN waiting : waiting[i] \in Kill /\ waiting[i].obj \in Objs
           /\ \A i \in DOMAIN micro : micro[i] \in Going /\ micro[i].w \in Kill /\ micro[i].w.obj \in Objs
<1>1. waiting \in Seq(Kill) /\ micro \in Seq(Going)
  BY DEF LooseInv, BodyFits, CallsFit
<1> HIDE DEF Kill, Going
<1>2. (\A i \in DOMAIN waiting : waiting[i] \in Kill) /\ (\A i \in DOMAIN micro : micro[i] \in Going)
  BY <1>1, ElementOfSeq, LenProperties
<1>3. QED
  BY <1>2 DEF Kill, Going

LEMMA UpSame == UpFits /\ UNCHANGED <<entry, kids, ps, waiting, micro>> => UpFits'
  BY DEF UpFits, Others, Live, Known, WaitFits, GoFits, CallFits, Alone

\* The modes stay, and what goes with them.
LEMMA TidyFrom ==
    ASSUME Tidy, UNCHANGED mode,
           ~Down /\ UpFits => UpFits', Down /\ DownFits => DownFits'
    PROVE  Tidy'
<1>1. phase' = phase /\ running' = running /\ timersOn' = timersOn
  BY DEF mode
<1>2. QED
  BY <1>1 DEF Tidy, Down

\* In a shutdown: what does not add to the live processes, and leaves the kills of
\* those that are.
LEMMA DownKept ==
    ASSUME DownFits, Live' \subseteq Live,
           \A j \in DOMAIN waiting :
               waiting[j].proc \in Live' => \E i \in DOMAIN waiting' : waiting'[i] = waiting[j]
    PROVE  DownFits'
<1> SUFFICES ASSUME NEW p \in Live'
             PROVE  Live' \subseteq {p} /\ \E i \in DOMAIN waiting' : waiting'[i].proc = p
  BY DEF DownFits
<1>1. Live \subseteq {p} /\ \E i \in DOMAIN waiting : waiting[i].proc = p
  BY DEF DownFits
<1>2. QED
  BY <1>1

\* An object that keeps or loses its process, and on which nothing is armed while
\* the call waits or goes on, fits the call.
LEMMA CallKept ==
    ASSUME NEW w \in Kill, CallFits(w), entry' = entry,
           entry \in Objs =>
               /\ kids'[entry].proc \in {None, kids[entry].proc}
               /\ kids'[entry].timer => kids[entry].timer
    PROVE  CallFits(w)'
<1>1. w.obj \in Objs
  BY DEF Kill
<1>2. QED
  BY <1>1 DEF CallFits

\* Steps that spawn nothing and begin no call.
LEMMA UpKept ==
    ASSUME LooseInv, UpFits, entry' = entry, Live' \subseteq Live,
           \A x \in Objs :
               /\ kids'[x].proc \in {None, kids[x].proc}
               /\ kids'[x].timer =>
                      kids[x].timer \/ (x = entry /\ ~kids[x].stoppedByUser /\ micro = <<>>)
               /\ kids[x].stoppedByUser => kids'[x].stoppedByUser \/ waiting = <<>>,
           entry \in Objs => kids'[entry].proc = kids[entry].proc \/ kids[entry].proc \notin Live',
           \A i \in DOMAIN waiting' : \E j \in DOMAIN waiting : waiting'[i] = waiting[j],
           \A i \in DOMAIN micro' :
               \/ \E j \in DOMAIN micro : micro'[i] = micro[j]
               \/ /\ \/ \E j \in DOMAIN waiting : micro'[i].w = waiting[j]
                     \/ \E j \in DOMAIN micro : micro'[i].w = micro[j].w
                  /\ IF micro'[i].step = "resume" THEN kids'[micro'[i].w.obj].proc = None
                     ELSE micro'[i].w.proc \notin Live',
           Alone'
    PROVE  UpFits'
<1>1. /\ Others /\ Live \subseteq {Known} /\ entry \in Objs \cup {None}
      /\ \A i \in DOMAIN waiting : WaitFits(waiting[i]) /\ waiting[i] \in Kill /\ waiting[i].obj \in Objs
      /\ \A i \in DOMAIN micro : GoFits(micro[i]) /\ micro[i].w \in Kill /\ micro[i].w.obj \in Objs
  BY Kills DEF UpFits, LooseInv, BodyFits, CallsFit
<1>2. Others'
  BY <1>1 DEF Others
<1>3. Live' \subseteq {Known'}
  <2> SUFFICES ASSUME NEW p \in Live' PROVE p = Known'
    OBVIOUS
  <2>1. p \in Procs /\ p # None /\ p = Known
    BY <1>1, Numbers DEF Live
  <2>2. entry # None /\ entry \in Objs /\ p = kids[entry].proc
    BY <1>1, <2>1 DEF Known
  <2>3. kids'[entry].proc = p
    BY <2>2
  <2>4. QED
    BY <2>2, <2>3 DEF Known
<1>4. ASSUME NEW j \in DOMAIN waiting, NEW w, w = waiting[j]
      PROVE  /\ CallFits(w)' /\ w.proc # None /\ w.obj \in Objs
             /\ w.obj = entry => kids'[entry].stoppedByUser
  <2>1. CallFits(w) /\ w.proc # None /\ (w.obj = entry => kids[entry].stoppedByUser) /\ w \in Kill
        /\ w.obj \in Objs
    BY <1>1, <1>4 DEF WaitFits
  <2>2. w.obj = entry => kids'[entry].stoppedByUser /\ (kids'[entry].timer => kids[entry].timer)
    <3>1. waiting # <<>>
      BY <1>4
    <3>2. QED
      BY <1>1, <2>1, <3>1
  <2>3. CASE w.obj = entry
    <3>1. CallFits(w)'
      BY <2>1, <2>2, <2>3, CallKept
    <3>2. QED
      BY <2>1, <2>2, <3>1
  <2>4. CASE w.obj # entry
    <3>1. CallFits(w)'
      BY <2>1, <2>4 DEF CallFits
    <3>2. QED
      BY <2>1, <2>4, <3>1
  <2>5. QED
    BY <2>3, <2>4
<1>5. ASSUME NEW j \in DOMAIN micro, NEW w, w = micro[j].w
      PROVE  CallFits(w)' /\ w.obj \in Objs
  <2>1. CallFits(w) /\ w \in Kill /\ micro # <<>> /\ w.obj \in Objs
    BY <1>1, <1>5 DEF GoFits
  <2>2. QED
    BY <2>1, CallKept
<1>6. \A i \in DOMAIN waiting' : WaitFits(waiting[i])'
  <2> SUFFICES ASSUME NEW i \in DOMAIN waiting' PROVE WaitFits(waiting[i])'
    OBVIOUS
  <2>1. PICK j \in DOMAIN waiting : waiting'[i] = waiting[j]
    OBVIOUS
  <2>2. PICK w : w = waiting[j]
    OBVIOUS
  <2>3. CallFits(w)' /\ w.proc # None /\ (w.obj = entry' => kids'[entry'].stoppedByUser) /\ waiting'[i] = w
    BY <1>4, <2>1, <2>2
  <2>4. QED
    BY <2>3 DEF WaitFits, CallFits
<1>7. \A i \in DOMAIN micro' : GoFits(micro[i])'
  <2> SUFFICES ASSUME NEW i \in DOMAIN micro' PROVE GoFits(micro[i])'
    OBVIOUS
  <2>1. PICK m : m = micro'[i]
    OBVIOUS
  <2>2. CallFits(m.w)' /\ m.w.obj \in Objs
    BY <1>4, <1>5, <2>1
  <2>3. IF m.step = "resume" THEN m.w.obj = entry => kids'[entry].proc = None
        ELSE m.w.proc \notin Live'
    <3>1. CASE \E j \in DOMAIN micro : m = micro[j]
      <4>1. PICK j \in DOMAIN micro : m = micro[j]
        BY <3>1
      <4>2. GoFits(m)
        BY <1>1, <4>1
      <4>3. QED
        BY <2>2, <4>2 DEF GoFits
    <3>2. CASE IF m.step = "resume" THEN kids'[m.w.obj].proc = None ELSE m.w.proc \notin Live'
      BY <3>2
    <3>3. QED
      BY <2>1, <3>1, <3>2
  <2>4. QED
    BY <2>1, <2>2, <2>3 DEF GoFits, CallFits
<1>8. QED
  BY <1>2, <1>3, <1>6, <1>7 DEF UpFits

\* A spawn for the entry, or the one that comes: no other call is about it.
LEMMA UpSpawn ==
    ASSUME LooseInv, NEW o \in Objs, NEW k, KidFits(k), Spawn(k, o), ping' = ping,
           entry' = o, Live \subseteq {k.proc}, waiting' = waiting, micro' = <<>>,
           \A x \in Objs : x # o => kids[x].proc = None /\ ~kids[x].timer,
           \A i \in DOMAIN waiting :
               waiting[i].who = "stop" /\ waiting[i].obj # o /\ waiting[i].proc # None
    PROVE  UpFits'
<1>1. /\ \A x \in Objs : x # o => kids'[x] = kids[x]
      /\ Live' \subseteq {kids'[o].proc} /\ o # None
  BY Spawned, Numbers DEF LooseInv, BodyFits
<1>2. Others' /\ Live' \subseteq {Known'}
  BY <1>1 DEF Others, Known
<1>3. \A i \in DOMAIN waiting' : WaitFits(waiting[i])'
  BY DEF WaitFits, CallFits
<1>4. DOMAIN micro' = {}
  OBVIOUS
<1>5. Alone'
  BY <1>4 DEF Alone
<1>6. QED
  BY <1>2, <1>3, <1>4, <1>5 DEF UpFits

\* A kill begins: without a process its caller goes on, else it waits.
LEMMA KillSets ==
    ASSUME KidsFit, CallsFit, NEW o \in Objs, NEW k, KidFits(k), NEW who, KillChild(k, o, who)
    PROVE  LET w == [who |-> who, obj |-> o, proc |-> k.proc] IN
           /\ \A x \in Objs : x # o => kids'[x] = kids[x]
           /\ ~kids'[o].timer /\ kids'[o].proc = k.proc
           /\ k.stoppedByUser => kids'[o].stoppedByUser
           /\ k.proc = None => /\ waiting' = waiting
                               /\ micro' = Append(micro, [step |-> "resume", w |-> w])
           /\ k.proc # None => /\ waiting' = Append(waiting, w) /\ micro' = micro
                               /\ kids'[o].stoppedByUser
<1> DEFINE w == [who |-> who, obj |-> o, proc |-> k.proc]
<1>1. CASE k.proc = None
  <2> DEFINE r == [k EXCEPT !.timer = FALSE]
  <2>1. /\ kids' = [kids EXCEPT ![o] = r]
        /\ micro' = Append(micro, [step |-> "resume", w |-> w]) /\ waiting' = waiting
    BY <1>1 DEF KillChild
  <2>2. r.proc = k.proc /\ ~r.timer /\ r.stoppedByUser = k.stoppedByUser
    BY DEF KidFits, ChildState
  <2> HIDE DEF r
  <2>3. kids'[o] = r /\ \A x \in Objs : x # o => kids'[x] = kids[x]
    BY <2>1 DEF KidsFit
  <2>4. QED
    BY <1>1, <2>1, <2>2, <2>3
<1>2. CASE k.proc # None
  <2> DEFINE r == [k EXCEPT !.timer = FALSE, !.stoppedByUser = TRUE]
  <2>1. /\ kids' = [kids EXCEPT ![o] = r]
        /\ waiting' = Append(waiting, w) /\ micro' = micro
    BY <1>2 DEF KillChild
  <2>2. r.proc = k.proc /\ ~r.timer /\ r.stoppedByUser
    BY DEF KidFits, ChildState
  <2> HIDE DEF r
  <2>3. kids'[o] = r /\ \A x \in Objs : x # o => kids'[x] = kids[x]
    BY <2>1 DEF KidsFit
  <2>4. QED
    BY <1>2, <2>1, <2>2, <2>3
<1>3. QED
  BY <1>1, <1>2

\* For a call or a pass: not while a restart waits, and a restart only when nothing does.
LEMMA UpKill ==
    ASSUME LooseInv, UpFits, Idle, entry \in Objs, UNCHANGED <<entry, ps>>,
           NEW k, KidFits(k), k.proc = kids[entry].proc,
           NEW who \in {"stop", "restart", "reconcile"},
           \/ waiting = <<>>
           \/ /\ who # "restart" /\ ~Awaits("restart")
              /\ kids[entry].stoppedByUser => k.stoppedByUser,
           KillChild(k, entry, who)
    PROVE  UpFits'
<1>0. PICK w : w = [who |-> who, obj |-> entry, proc |-> k.proc]
  OBVIOUS
<1>1. /\ \A x \in Objs : x # entry => kids'[x] = kids[x]
      /\ ~kids'[entry].timer /\ kids'[entry].proc = k.proc
      /\ k.stoppedByUser => kids'[entry].stoppedByUser
      /\ k.proc = None => /\ waiting' = waiting
                          /\ micro' = Append(micro, [step |-> "resume", w |-> w])
      /\ k.proc # None => /\ waiting' = Append(waiting, w) /\ micro' = micro
                          /\ kids'[entry].stoppedByUser
  BY <1>0, KillSets DEF LooseInv, BodyFits
<1>2. /\ Others /\ Live \subseteq {Known} /\ micro = <<>> /\ Live' = Live
      /\ w.who = who /\ w.obj = entry /\ w.proc = k.proc /\ entry # None
      /\ \A i \in DOMAIN waiting : WaitFits(waiting[i]) /\ waiting[i] \in Kill
      /\ waiting \in Seq(Kill)
  BY <1>0, Numbers, Kills DEF UpFits, Idle, Live, LooseInv, BodyFits, CallsFit
<1>3. Others' /\ Live' \subseteq {Known'} /\ entry' = entry
  BY <1>1, <1>2 DEF Others, Known
<1>4. CallFits(w)'
  BY <1>1, <1>2 DEF CallFits
<1>5. ASSUME NEW i \in DOMAIN waiting, NEW v, v = waiting[i] PROVE WaitFits(v)'
  <2>1. WaitFits(v) /\ v \in Kill /\ waiting # <<>>
    BY <1>2, <1>5
  <2>2. kids[entry].stoppedByUser => kids'[entry].stoppedByUser
    BY <1>1, <2>1
  <2>3. CallFits(v)'
    BY <1>1, <2>1, CallKept DEF WaitFits
  <2>4. QED
    BY <2>1, <2>2, <2>3 DEF WaitFits
<1>6. waiting # <<>> => who # "restart" /\ \A i \in DOMAIN waiting : waiting[i].who # "restart"
  BY DEF Awaits, Waits
<1> HIDE DEF Kill
<1>7. CASE k.proc = None
  <2>1. waiting' = waiting /\ micro' = <<[step |-> "resume", w |-> w]>>
    BY <1>1, <1>2, <1>7
  <2>2. DOMAIN micro' = {1} /\ micro'[1].w = w /\ micro'[1].step = "resume" /\ Len(micro') = 1
    BY <2>1
  <2>3. \A i \in DOMAIN waiting' : WaitFits(waiting[i])'
    <3> SUFFICES ASSUME NEW i \in DOMAIN waiting' PROVE WaitFits(waiting[i])'
      OBVIOUS
    <3>1. PICK v : v = waiting[i]
      OBVIOUS
    <3>2. WaitFits(v)' /\ waiting'[i] = v
      BY <1>5, <2>1, <3>1
    <3>3. QED
      BY <3>2 DEF WaitFits, CallFits
  <2>4. \A i \in DOMAIN micro' : GoFits(micro[i])'
    <3>1. PICK m : m = micro'[1]
      OBVIOUS
    <3>2. GoFits(m)'
      BY <1>1, <1>3, <1>4, <1>7, <2>2, <3>1 DEF GoFits, CallFits
    <3>3. QED
      BY <2>2, <3>1, <3>2 DEF GoFits, CallFits
  <2>5. Alone'
    BY <1>2, <1>6, <2>1, <2>2 DEF Alone
  <2>6. QED
    BY <1>3, <2>3, <2>4, <2>5 DEF UpFits
<1>8. CASE k.proc # None
  <2>1. /\ waiting' = Append(waiting, w) /\ micro' = <<>> /\ DOMAIN micro' = {}
        /\ Len(waiting) \in Nat /\ DOMAIN waiting = 1..Len(waiting)
        /\ DOMAIN waiting' = 1..Len(waiting) + 1
        /\ \A i \in DOMAIN waiting : waiting'[i] = waiting[i]
        /\ waiting'[Len(waiting) + 1] = w /\ Len(waiting') = Len(waiting) + 1
    BY <1>1, <1>2, <1>8, AppendProperties, LenProperties
  <2>2. WaitFits(w)'
    BY <1>1, <1>2, <1>3, <1>4, <1>8 DEF WaitFits
  <2>3. \A i \in DOMAIN waiting' : WaitFits(waiting[i])'
    <3> SUFFICES ASSUME NEW i \in DOMAIN waiting' PROVE WaitFits(waiting[i])'
      OBVIOUS
    <3>1. PICK v : v = waiting'[i]
      OBVIOUS
    <3>2. i \in DOMAIN waiting \/ i = Len(waiting) + 1
      BY <2>1
    <3>3. WaitFits(v)'
      BY <1>5, <2>1, <2>2, <3>1, <3>2
    <3>4. QED
      BY <3>1, <3>3 DEF WaitFits, CallFits
  <2>4. Alone'
    <3>1. CASE waiting = <<>>
      BY <2>1, <3>1 DEF Alone
    <3>2. CASE waiting # <<>>
      <4>1. \A i \in DOMAIN waiting' : waiting'[i].who # "restart"
        BY <1>2, <1>6, <2>1, <3>2
      <4>2. QED
        BY <2>1, <4>1 DEF Alone
    <3>3. QED
      BY <3>1, <3>2
  <2>5. QED
    BY <1>3, <2>1, <2>3, <2>4 DEF UpFits
<1>9. QED
  BY <1>7, <1>8

-----------------------------------------------------------------------------
(* The steps, until two calls cross *)

\* Steps that leave the kills alone, and every object its process.
LEMMA Quiet ==
    ASSUME LooseInv, Tidy, UNCHANGED <<mode, entry, waiting, micro>>, Live' \subseteq Live,
           \A x \in Objs : /\ kids'[x].proc = kids[x].proc
                           /\ kids'[x].timer => kids[x].timer
                           /\ kids'[x].stoppedByUser = kids[x].stoppedByUser
    PROVE  Tidy'
<1>1. ASSUME DownFits PROVE DownFits'
  BY <1>1, DownKept
<1>2. ASSUME UpFits PROVE UpFits'
  <2>1. Alone'
    BY <1>2 DEF UpFits, Alone
  <2>2. QED
    BY <1>2, <2>1, UpKept
<1>3. QED
  BY <1>1, <1>2, TidyFrom

\* What the fields of an object become that is given other strikes.
LEMMA Struck ==
    ASSUME KidsFit, NEW o, NEW n, kids' = [kids EXCEPT ![o].strikes = n]
    PROVE  \A x \in Objs : /\ kids'[x].proc = kids[x].proc
                           /\ kids'[x].timer => kids[x].timer
                           /\ kids'[x].stoppedByUser = kids[x].stoppedByUser
<1> SUFFICES ASSUME NEW x \in Objs
             PROVE  /\ kids'[x].proc = kids[x].proc /\ kids'[x].timer = kids[x].timer
                    /\ kids'[x].stoppedByUser = kids[x].stoppedByUser
  OBVIOUS
<1>1. kids[x] \in ChildState
  BY DEF KidsFit
<1>2. kids'[x] = IF x = o THEN [kids[x] EXCEPT !.strikes = n] ELSE kids[x]
  BY DEF KidsFit
<1>3. QED
  BY <1>1, <1>2 DEF ChildState

\* An object forgets a process that is not live any more, if a call was about it.
LEMMA Forgot ==
    ASSUME KidsFit, NEW o \in Objs, ForgetProc(o)
    PROVE  /\ kids'[o].proc = None
           /\ \A x \in Objs : /\ kids'[x].proc \in {None, kids[x].proc}
                              /\ kids'[x].timer = kids[x].timer
                              /\ kids'[x].stoppedByUser = kids[x].stoppedByUser
                              /\ x # o => kids'[x] = kids[x]
<1>1. kids' = [kids EXCEPT ![o] = [kids[o] EXCEPT !.proc = None]]
  BY DEF ForgetProc
<1> DEFINE r == [kids[o] EXCEPT !.proc = None]
<1>2. r.proc = None /\ r.timer = kids[o].timer /\ r.stoppedByUser = kids[o].stoppedByUser
  BY DEF KidsFit, ChildState
<1> HIDE DEF r
<1>3. kids'[o] = r /\ \A x \in Objs : x # o => kids'[x] = kids[x]
  BY <1>1 DEF KidsFit, r
<1>4. QED
  BY <1>2, <1>3

LEMMA TidyExit ==
    ASSUME LooseInv, Tidy, NEW p \in Procs, NEW code \in {"exit0", "exit1"}, ProcExit(p, code)
    PROVE  Tidy'
<1>1. ps' = [ps EXCEPT ![p] = code] /\ UNCHANGED <<mode, entry, kids, waiting, micro>>
  BY DEF ProcExit
<1>2. Live' \subseteq Live
  BY <1>1 DEF Live, LooseInv, LinksFit
<1>3. QED
  BY <1>1, <1>2, Quiet

\* What an observed exit does to the objects.
LEMMA HandlerKids ==
    ASSUME KidsFit, LinksFit, NEW p \in Procs, ps[p] # "none", ExitHandler(p)
    PROVE  \A x \in Objs :
               /\ kids'[x].proc \in {None, kids[x].proc}
               /\ kids'[x].proc = kids[x].proc \/ kids[x].proc = p
               /\ kids'[x].timer =>
                      kids[x].timer \/ (kids[x].proc = p /\ ~kids[x].stoppedByUser)
               /\ kids'[x].stoppedByUser = kids[x].stoppedByUser
<1> DEFINE o == owner[p]
           k == [kids[o] EXCEPT !.proc = None]
           final == \/ k.stoppedByUser
                    \/ policy = "never"
                    \/ policy = "on-failure" /\ ps[p] = "exit0"
<1>1. o \in Objs /\ KidFits(kids[o])
  BY DEF LinksFit, KidsFit
<1>2. CASE ~running \/ kids[o].proc # p
  <2>1. kids' = kids
    BY <1>2 DEF ExitHandler
  <2>2. QED
    BY <2>1
<1>3. CASE running /\ kids[o].proc = p
  <2>1. PICK r \in (IF final THEN {[k EXCEPT !.status = "stopped"]} ELSE ScheduleRestart(k)) :
            kids' = [kids EXCEPT ![o] = r]
    BY <1>3 DEF ExitHandler
  <2>2. /\ k \in ChildState /\ k.proc = None /\ k.timer = kids[o].timer
        /\ k.stoppedByUser = kids[o].stoppedByUser
    BY <1>1 DEF KidFits, ChildState
  <2>3. KidFits(k)
    BY <1>1, FitForgot
  <2> HIDE DEF k
  <2>4. /\ r.proc = None /\ r.stoppedByUser = k.stoppedByUser
        /\ r.timer => k.timer \/ ~k.stoppedByUser
    <3>1. CASE final
      <4>1. r = [k EXCEPT !.status = "stopped"]
        BY <2>1, <3>1
      <4>2. QED
        BY <2>2, <4>1 DEF ChildState
    <3>2. CASE ~final
      <4>1. r \in ScheduleRestart(k) /\ ~k.stoppedByUser
        BY <2>1, <3>2
      <4>2. r.proc = None /\ ~r.stoppedByUser
        BY <2>2, <2>3, <4>1, FitScheduled
      <4>3. r.stoppedByUser = k.stoppedByUser
        BY <2>2, <4>1 DEF ScheduleRestart, ChildState
      <4>4. QED
        BY <4>1, <4>2, <4>3
    <3>3. QED
      BY <3>1, <3>2
  <2>5. kids'[o] = r /\ \A x \in Objs : x # o => kids'[x] = kids[x]
    BY <1>1, <2>1 DEF KidsFit
  <2> HIDE DEF o
  <2>6. QED
    BY <1>3, <2>2, <2>4, <2>5
<1>4. QED
  BY <1>2, <1>3

LEMMA TidyObserve ==
    ASSUME LooseInv, Tidy, NEW p \in Procs, ObserveExit(p)
    PROVE  Tidy'
<1> DEFINE freed == {w \in Pending : w.proc = p}
           kept  == Pending \ freed
           g     == Only(waiting, freed)
<1>1. /\ Idle /\ ps[p] \in {"exit0", "exit1"} /\ ExitHandler(p)
      /\ ps' = [ps EXCEPT ![p] = "none"]
      /\ waiting' = Only(waiting, kept)
      /\ micro' = [i \in DOMAIN g |-> [step |-> "killed", w |-> g[i]]]
      /\ UNCHANGED <<mode, entry>>
  BY DEF ObserveExit
<1>2. /\ KidsFit /\ LinksFit /\ waiting \in Seq(Kill) /\ micro = <<>>
      /\ entry \in Objs \cup {None}
      /\ \A w \in freed : w.proc = p
      /\ \A i \in DOMAIN waiting : waiting[i] \in freed \/ waiting[i] \in kept
      /\ \A i \in DOMAIN waiting : waiting[i].proc # p => waiting[i] \in kept
  BY <1>1 DEF LooseInv, BodyFits, CallsFit, Idle, Pending, Waits
<1>3. Live' \subseteq Live /\ p \notin Live /\ p \notin Live'
  BY <1>1, <1>2 DEF LinksFit, Live
<1>4. \A x \in Objs :
          /\ kids'[x].proc \in {None, kids[x].proc}
          /\ kids'[x].proc = kids[x].proc \/ kids[x].proc = p
          /\ kids'[x].timer =>
                 kids[x].timer \/ (kids[x].proc = p /\ ~kids[x].stoppedByUser)
          /\ kids'[x].stoppedByUser = kids[x].stoppedByUser
  BY <1>1, <1>2, HandlerKids
<1> HIDE DEF freed, kept
<1>5. /\ \A j \in DOMAIN waiting' : \E i \in DOMAIN waiting : waiting'[j] = waiting[i]
      /\ \A i \in DOMAIN waiting : waiting[i] \in kept => \E j \in DOMAIN waiting' : waiting'[j] = waiting[i]
      /\ g \in Seq(Kill)
      /\ \A j \in DOMAIN g : \E i \in DOMAIN waiting : g[j] = waiting[i] /\ waiting[i] \in freed
  BY <1>1, <1>2, OnlyIn
<1>6. /\ DOMAIN micro' = DOMAIN g
      /\ \A j \in DOMAIN g : micro'[j].step = "killed" /\ micro'[j].w = g[j]
  BY <1>1
<1>7. ASSUME DownFits PROVE DownFits'
  <2>1. \A i \in DOMAIN waiting :
            waiting[i].proc \in Live' => \E j \in DOMAIN waiting' : waiting'[j] = waiting[i]
    BY <1>2, <1>3, <1>5
  <2>2. QED
    BY <1>3, <1>7, <2>1, DownKept
<1>8. ASSUME UpFits PROVE UpFits'
  <2>1. Others /\ Alone
    BY <1>8 DEF UpFits
  <2>2. \A x \in Objs :
            /\ kids'[x].timer => kids[x].timer \/ (x = entry /\ ~kids[x].stoppedByUser /\ micro = <<>>)
            /\ kids[x].stoppedByUser => kids'[x].stoppedByUser \/ waiting = <<>>
    BY <1>2, <1>4, <2>1, Numbers DEF Others
  <2>3. \A i \in DOMAIN micro' :
            /\ \E j \in DOMAIN waiting : micro'[i].w = waiting[j]
            /\ micro'[i].step = "killed" /\ micro'[i].w.proc \notin Live'
    BY <1>2, <1>3, <1>5, <1>6
  <2>4. Alone'
    <3>1. CASE \E h \in DOMAIN waiting : waiting[h].who = "restart"
      <4>1. Len(waiting) = 1 /\ DOMAIN waiting = {1}
        BY <1>2, <2>1, <3>1 DEF Alone
      <4>2. CASE waiting[1] \in freed
        <5>1. waiting[1] \notin kept
          BY <4>2 DEF kept
        <5>2. Only(waiting, freed) = waiting /\ Only(waiting, kept) = <<>>
          BY <1>2, <4>1, <4>2, <5>1, OnlyAll, OnlyNone
        <5>3. waiting' = <<>> /\ g = waiting
          BY <1>1, <5>2
        <5>4. micro' = [i \in 1..1 |-> [step |-> "killed", w |-> waiting[i]]]
          BY <1>1, <4>1, <5>3
        <5>5. Len(micro') = 1
          BY <5>4
        <5>6. QED
          BY <5>3, <5>5 DEF Alone
      <4>3. CASE waiting[1] \notin freed
        <5>1. waiting[1] \in kept
          BY <1>2, <4>1, <4>3
        <5>2. Only(waiting, freed) = <<>> /\ Only(waiting, kept) = waiting
          BY <1>2, <4>1, <4>3, <5>1, OnlyAll, OnlyNone
        <5>3. waiting' = waiting /\ DOMAIN g = {}
          BY <1>1, <5>2
        <5>4. micro' = <<>>
          BY <1>1, <5>3
        <5>5. QED
          BY <2>1, <4>1, <5>3, <5>4 DEF Alone
      <4>4. QED
        BY <4>2, <4>3
    <3>2. CASE \A h \in DOMAIN waiting : waiting[h].who # "restart"
      <4>1. \A j \in DOMAIN waiting' : waiting'[j].who # "restart"
        BY <1>5, <3>2
      <4>2. \A j \in DOMAIN micro' : micro'[j].w.who # "restart"
        BY <2>3, <3>2
      <4>3. QED
        BY <4>1, <4>2 DEF Alone
    <3>3. QED
      BY <3>1, <3>2
  <2>5. entry \in Objs => kids'[entry].proc = kids[entry].proc \/ kids[entry].proc \notin Live'
    BY <1>3, <1>4
  <2>6. \A i \in DOMAIN micro' :
            /\ \E j \in DOMAIN waiting : micro'[i].w = waiting[j]
            /\ IF micro'[i].step = "resume" THEN kids'[micro'[i].w.obj].proc = None
               ELSE micro'[i].w.proc \notin Live'
    BY <2>3
  <2>7. entry' = entry
    BY <1>1
  <2>8. QED
    BY <1>3, <1>4, <1>5, <1>8, <2>2, <2>4, <2>5, <2>6, <2>7, UpKept
<1>9. QED
  BY <1>1, <1>7, <1>8, TidyFrom

LEMMA TidyTimeout ==
    ASSUME LooseInv, Tidy, NEW i \in DOMAIN waiting, KillTimeout(i)
    PROVE  Tidy'
<1>0. PICK w : w = waiting[i]
  OBVIOUS
<1>1. /\ micro = <<>> /\ ps' = SigKill(ps, w.proc) /\ ForgetProc(w.obj)
      /\ waiting' = SubSeq(waiting, 1, i - 1) \o SubSeq(waiting, i + 1, Len(waiting))
      /\ micro' = <<[step |-> "resume", w |-> w]>> /\ UNCHANGED <<mode, entry>>
  BY <1>0 DEF KillTimeout, Idle
<1>2. /\ KidsFit /\ LinksFit /\ waiting \in Seq(Kill) /\ w \in Kill /\ w.obj \in Objs
  BY <1>0, Kills DEF LooseInv, BodyFits, CallsFit
<1>3. Live' \subseteq Live \ {w.proc}
  BY <1>1, <1>2, SigKilled
<1>4. /\ kids'[w.obj].proc = None
      /\ \A x \in Objs : /\ kids'[x].proc \in {None, kids[x].proc}
                         /\ kids'[x].timer = kids[x].timer
                         /\ kids'[x].stoppedByUser = kids[x].stoppedByUser
                         /\ x # w.obj => kids'[x] = kids[x]
  BY <1>1, <1>2, Forgot
<1>5. /\ \A j \in DOMAIN waiting' : \E h \in DOMAIN waiting : waiting'[j] = waiting[h]
      /\ \A h \in DOMAIN waiting : h # i => \E j \in DOMAIN waiting' : waiting'[j] = waiting[h]
      /\ Len(waiting') = Len(waiting) - 1 /\ waiting' \in Seq(Kill)
  BY <1>1, <1>2, OneLess
<1>6. DOMAIN micro' = {1} /\ micro'[1].w = w /\ micro'[1].step = "resume" /\ Len(micro') = 1
  BY <1>1
<1>7. ASSUME DownFits PROVE DownFits'
  <2>1. \A h \in DOMAIN waiting :
            waiting[h].proc \in Live' => \E j \in DOMAIN waiting' : waiting'[j] = waiting[h]
    BY <1>0, <1>3, <1>5
  <2>2. QED
    BY <1>3, <1>7, <2>1, DownKept
<1>8. ASSUME UpFits PROVE UpFits'
  <2>1. WaitFits(w) /\ Alone
    BY <1>0, <1>8 DEF UpFits
  <2>2. entry \in Objs => kids'[entry].proc = kids[entry].proc \/ kids[entry].proc \notin Live'
    <3> SUFFICES ASSUME entry \in Objs, w.obj = entry PROVE kids[entry].proc \notin Live'
      BY <1>4
    <3>1. kids[entry].proc \in {None, w.proc} /\ None \notin Procs
      BY <2>1, Numbers DEF WaitFits, CallFits
    <3>2. QED
      BY <1>3, <3>1 DEF Live
  <2>3. Alone'
    <3>1. CASE \E h \in DOMAIN waiting : waiting[h].who = "restart"
      <4>1. Len(waiting') = 0
        BY <1>5, <2>1, <3>1 DEF Alone
      <4>2. waiting' = <<>>
        BY <1>5, <4>1, EmptySeq
      <4>3. QED
        BY <1>6, <4>2 DEF Alone
    <3>2. CASE \A h \in DOMAIN waiting : waiting[h].who # "restart"
      <4>1. \A j \in DOMAIN waiting' : waiting'[j].who # "restart"
        BY <1>5, <3>2
      <4>2. \A j \in DOMAIN micro' : micro'[j].w.who # "restart"
        BY <1>0, <1>6, <3>2
      <4>3. QED
        BY <4>1, <4>2 DEF Alone
    <3>3. QED
      BY <3>1, <3>2
  <2>4. \A j \in DOMAIN micro' :
            /\ \E h \in DOMAIN waiting : micro'[j].w = waiting[h]
            /\ IF micro'[j].step = "resume" THEN kids'[micro'[j].w.obj].proc = None
               ELSE micro'[j].w.proc \notin Live'
    BY <1>0, <1>4, <1>6
  <2>5. entry' = entry
    BY <1>1
  <2>6. QED
    BY <1>3, <1>4, <1>5, <1>8, <2>2, <2>3, <2>4, <2>5, UpKept
<1>9. QED
  BY <1>1, <1>7, <1>8, TidyFrom

LEMMA TidyTimer ==
    ASSUME LooseInv, Tidy, NEW o \in Objs, TimerFire(o)
    PROVE  Tidy'
<1> DEFINE k == [kids[o] EXCEPT !.timer = FALSE]
<1>1. /\ kids[o].timer /\ micro = <<>> /\ ping' = ping
      /\ UNCHANGED <<mode, entry, waiting, micro>>
      /\ IF running /\ ~k.stoppedByUser THEN Spawn(k, o)
         ELSE kids' = [kids EXCEPT ![o] = k] /\ UNCHANGED <<ps, owner>>
  BY DEF TimerFire, Idle
<1>2. /\ KidFits(kids[o]) /\ KidFits(k) /\ KidsFit
      /\ k.proc = kids[o].proc /\ ~k.timer /\ k.stoppedByUser = kids[o].stoppedByUser
  BY FitDisarmed DEF LooseInv, BodyFits, KidsFit, KidFits, ChildState
<1> HIDE DEF k
<1>3. CASE running /\ ~k.stoppedByUser
  <2>1. ~Down /\ UpFits
    BY <1>3 DEF Tidy, Down
  <2>2. o = entry /\ Others /\ Live \subseteq {kids[o].proc}
    <3>1. o = entry /\ o # None /\ Others
      BY <1>1, <2>1, Numbers DEF UpFits, Others
    <3>2. QED
      BY <2>1, <3>1 DEF UpFits, Known
  <2>3. \A i \in DOMAIN waiting :
            waiting[i].who = "stop" /\ waiting[i].obj # o /\ waiting[i].proc # None
    <3> SUFFICES ASSUME NEW i \in DOMAIN waiting
                 PROVE  waiting[i].who = "stop" /\ waiting[i].obj # o /\ waiting[i].proc # None
      OBVIOUS
    <3>1. WaitFits(waiting[i]) /\ waiting[i].who \in {"stop", "restart", "reconcile", "shutdown"}
      BY <2>1, Kills DEF UpFits, Kill
    <3>2. o # None
      BY Numbers
    <3>3. QED
      BY <1>1, <2>2, <3>1, <3>2 DEF WaitFits, CallFits
  <2>4. UpFits'
    BY <1>1, <1>2, <1>3, <2>2, <2>3, UpSpawn DEF Others
  <2>5. QED
    BY <1>1, <2>1, <2>4, TidyFrom
<1>4. CASE ~(running /\ ~k.stoppedByUser)
  <2>1. kids' = [kids EXCEPT ![o] = k] /\ ps' = ps
    BY <1>1, <1>4
  <2>2. kids'[o] = k /\ \A x \in Objs : x # o => kids'[x] = kids[x]
    BY <1>2, <2>1 DEF KidsFit
  <2>3. \A x \in Objs : /\ kids'[x].proc = kids[x].proc
                        /\ kids'[x].timer => kids[x].timer
                        /\ kids'[x].stoppedByUser = kids[x].stoppedByUser
    BY <1>2, <2>2
  <2>4. QED
    BY <1>1, <2>1, <2>3, Quiet DEF Live
<1>5. QED
  BY <1>3, <1>4

LEMMA TidyPong ==
    ASSUME LooseInv, Tidy, NEW p \in Procs, Pong(p)
    PROVE  Tidy'
<1>1. /\ kids' = [kids EXCEPT ![owner[p]].strikes = 0]
      /\ UNCHANGED <<mode, entry, ps, waiting, micro>>
  BY DEF Pong
<1>2. Live' \subseteq Live
  BY <1>1 DEF Live
<1>3. QED
  BY <1>1, <1>2, Struck, Quiet DEF LooseInv, BodyFits

LEMMA TidyEvaluate ==
    ASSUME LooseInv, Tidy, PingEvaluate
    PROVE  Tidy'
<1> DEFINE o == ping.obj
           k == kids[o]
           dead == [k EXCEPT !.proc = None, !.strikes = 0]
<1>1. /\ ping # NoPing /\ micro = <<>> /\ UNCHANGED <<mode, entry, waiting, micro>>
      /\ \/ UNCHANGED <<kids, ps>>
         \/ kids' = [kids EXCEPT ![o].strikes = @ + 1] /\ ps' = ps
         \/ /\ k.proc = ping.proc /\ ps' = SigKill(ps, ping.proc)
            /\ \E r \in (IF ~k.stoppedByUser /\ policy # "never" THEN ScheduleRestart(dead)
                         ELSE {[dead EXCEPT !.status = "stopped"]}) :
                  kids' = [kids EXCEPT ![o] = r]
  BY DEF PingEvaluate, Idle
<1>2. KidsFit /\ LinksFit /\ entry \in Objs \cup {None}
  BY DEF LooseInv, BodyFits, CallsFit
<1>3. CASE UNCHANGED <<kids, ps>>
  BY <1>1, <1>3, Quiet DEF Live
<1>4. CASE kids' = [kids EXCEPT ![o].strikes = @ + 1] /\ ps' = ps
  <2>1. kids' = [kids EXCEPT ![o].strikes = kids[o].strikes + 1]
    BY <1>4
  <2>2. Live' \subseteq Live
    BY <1>4 DEF Live
  <2> HIDE DEF o
  <2>3. QED
    BY <1>1, <1>2, <2>1, <2>2, Struck, Quiet
<1>5. CASE /\ k.proc = ping.proc /\ ps' = SigKill(ps, ping.proc)
           /\ \E r \in (IF ~k.stoppedByUser /\ policy # "never" THEN ScheduleRestart(dead)
                        ELSE {[dead EXCEPT !.status = "stopped"]}) :
                 kids' = [kids EXCEPT ![o] = r]
  <2>1. o \in Objs /\ ping.proc \in Procs /\ KidFits(k)
    BY <1>1, <1>2 DEF LinksFit, KidsFit
  <2>2. PICK r \in (IF ~k.stoppedByUser /\ policy # "never" THEN ScheduleRestart(dead)
                    ELSE {[dead EXCEPT !.status = "stopped"]}) :
            kids' = [kids EXCEPT ![o] = r]
    BY <1>5
  <2>3. Live' \subseteq Live \ {ping.proc}
    BY <1>2, <1>5, SigKilled
  <2>4. k.proc = ping.proc /\ k.proc \notin Live'
    BY <1>5, <2>3
  <2> HIDE DEF k
  <2>5. /\ dead \in ChildState /\ dead.proc = None /\ dead.timer = k.timer
        /\ dead.status = k.status /\ dead.stoppedByUser = k.stoppedByUser /\ dead.strikes = 0
    BY <2>1 DEF KidFits, ChildState
  <2> HIDE DEF dead
  <2>6. KidFits(dead)
    BY <2>1, <2>5, FitAs, OrchestratorAssumption
  <2>7. /\ r.proc = None /\ r.stoppedByUser = k.stoppedByUser
        /\ r.timer => k.timer \/ ~k.stoppedByUser
    <3>1. CASE ~k.stoppedByUser /\ policy # "never"
      <4>1. r \in ScheduleRestart(dead)
        BY <2>2, <3>1
      <4>2. r.proc = None /\ ~r.stoppedByUser
        BY <2>5, <2>6, <3>1, <4>1, FitScheduled
      <4>3. r.stoppedByUser = dead.stoppedByUser
        BY <2>5, <4>1 DEF ScheduleRestart, ChildState
      <4>4. QED
        BY <2>5, <3>1, <4>2, <4>3
    <3>2. CASE ~(~k.stoppedByUser /\ policy # "never")
      <4>1. r = [dead EXCEPT !.status = "stopped"]
        BY <2>2, <3>2
      <4>2. QED
        BY <2>5, <4>1 DEF ChildState
    <3>3. QED
      BY <3>1, <3>2
  <2>8. kids'[o] = r /\ (\A x \in Objs : x # o => kids'[x] = kids[x]) /\ kids[o] = k
    BY <1>2, <2>1, <2>2 DEF KidsFit, k
  <2> HIDE DEF o
  <2>9. ASSUME DownFits PROVE DownFits'
    BY <1>1, <2>3, <2>9, DownKept
  <2>10. ASSUME UpFits PROVE UpFits'
    <3>1. Others /\ Alone
      BY <2>10 DEF UpFits
    <3>2. o = entry /\ entry' = entry
      BY <1>1, <2>1, <2>4, <2>8, <3>1, Numbers DEF Others
    <3>3. Alone'
      BY <1>1, <3>1 DEF Alone
    <3>4. \A x \in Objs :
              /\ kids'[x].proc \in {None, kids[x].proc}
              /\ kids'[x].timer =>
                     kids[x].timer \/ (x = entry /\ ~kids[x].stoppedByUser /\ micro = <<>>)
              /\ kids[x].stoppedByUser => kids'[x].stoppedByUser \/ waiting = <<>>
      BY <1>1, <2>7, <2>8, <3>2
    <3>5. kids[entry].proc \notin Live' /\ Live' \subseteq Live
      BY <2>3, <2>4, <2>8, <3>2
    <3>6. /\ \A i \in DOMAIN waiting' : \E j \in DOMAIN waiting : waiting'[i] = waiting[j]
          /\ \A i \in DOMAIN micro' : \E j \in DOMAIN micro : micro'[i] = micro[j]
      BY <1>1
    <3>7. QED
      BY <2>10, <3>2, <3>3, <3>4, <3>5, <3>6, UpKept
  <2>11. QED
    BY <1>1, <2>9, <2>10, TidyFrom
<1>6. QED
  BY <1>1, <1>3, <1>4, <1>5

\* A pass over the manifest, until two calls cross.
LEMMA UpReconcile ==
    ASSUME LooseInv, UpFits, Idle, Room, Reconcile, ~tangled', ping' = ping
    PROVE  UpFits'
<1>0. /\ KidsFit /\ CallsFit /\ micro = <<>> /\ entry \in Objs \cup {None}
      /\ Others /\ Live \subseteq {Known} /\ Alone
      /\ \A i \in DOMAIN waiting :
             WaitFits(waiting[i]) /\ waiting[i].who \in {"stop", "restart", "reconcile", "shutdown"}
             /\ waiting[i].obj \in Objs
  BY Kills DEF LooseInv, BodyFits, CallsFit, UpFits, Idle, Kill
<1>1. CASE /\ entry = None /\ FreeObjs # {} /\ entry' = Least(FreeObjs)
           /\ Spawn(FreshChild, entry') /\ Crosses(Awaits("reconcile"))
           /\ UNCHANGED <<waiting, micro>>
  <2>0. PICK o : o = Least(FreeObjs)
    OBVIOUS
  <2>1. o \in FreeObjs /\ o \in Objs /\ entry' = o /\ Spawn(FreshChild, o)
    BY <1>1, <2>0, FreeIsIn
  <2>2. Live \subseteq {FreshChild.proc}
    BY <1>0, <1>1, FitFresh DEF Known
  <2>3. \A i \in DOMAIN waiting :
            waiting[i].who = "stop" /\ waiting[i].obj # o /\ waiting[i].proc # None
    <3> SUFFICES ASSUME NEW i \in DOMAIN waiting
                 PROVE  waiting[i].who = "stop" /\ waiting[i].obj # o /\ waiting[i].proc # None
      OBVIOUS
    <3>1. waiting[i] \in Pending
      BY DEF Pending, Waits
    <3>2. waiting[i].obj # o
      BY <2>1, <3>1 DEF FreeObjs
    <3>3. ~Awaits("reconcile")
      BY <1>1 DEF Crosses
    <3>4. waiting[i].who # "reconcile"
      BY <3>3 DEF Awaits, Waits
    <3>5. waiting[i].obj # None
      BY <1>0, Numbers
    <3>6. QED
      BY <1>0, <1>1, <3>2, <3>4, <3>5 DEF WaitFits, CallFits
  <2>4. \A x \in Objs : x # o => kids[x].proc = None /\ ~kids[x].timer
    BY <1>0, <1>1, Numbers DEF Others
  <2>5. waiting' = waiting /\ micro' = <<>>
    BY <1>0, <1>1
  <2>6. QED
    BY <2>1, <2>2, <2>3, <2>4, <2>5, FitFresh, UpSpawn
<1>2. CASE /\ entry # None
           /\ \E k \in {kids[entry], ResetBackoff(kids[entry])} :
                 kids' = [kids EXCEPT ![entry] = k]
           /\ UNCHANGED <<entry, ps, owner, waiting, micro, tangled>>
  <2>1. PICK k \in {kids[entry], ResetBackoff(kids[entry])} : kids' = [kids EXCEPT ![entry] = k]
    BY <1>2
  <2>2. entry \in Objs /\ kids[entry] \in ChildState
    BY <1>0, <1>2 DEF KidsFit
  <2>3. /\ k.proc = kids[entry].proc /\ k.timer = kids[entry].timer
        /\ k.stoppedByUser = kids[entry].stoppedByUser
    BY <2>1, <2>2 DEF ResetBackoff, ChildState
  <2>4. kids'[entry] = k /\ \A x \in Objs : x # entry => kids'[x] = kids[x]
    BY <1>0, <2>1, <2>2 DEF KidsFit
  <2>5. \A x \in Objs : /\ kids'[x].proc = kids[x].proc /\ kids'[x].timer = kids[x].timer
                        /\ kids'[x].stoppedByUser = kids[x].stoppedByUser
    BY <2>3, <2>4
  <2>6. Alone' /\ Live' = Live /\ entry' = entry
    BY <1>0, <1>2 DEF Alone, Live
  <2>7. /\ \A i \in DOMAIN waiting' : \E j \in DOMAIN waiting : waiting'[i] = waiting[j]
        /\ \A i \in DOMAIN micro' : \E j \in DOMAIN micro : micro'[i] = micro[j]
    BY <1>2
  <2>8. QED
    BY <2>2, <2>5, <2>6, <2>7, UpKept
<1>3. CASE /\ entry # None
           /\ KillChild(kids[entry], entry, "reconcile") /\ Crosses(Awaits("restart"))
           /\ UNCHANGED <<entry, ps, owner>>
  <2>1. entry \in Objs /\ KidFits(kids[entry])
    BY <1>0, <1>3 DEF KidsFit
  <2>2. ~Awaits("restart")
    BY <1>3 DEF Crosses
  <2>3. QED
    BY <1>3, <2>1, <2>2, UpKill
<1>4. CASE UNCHANGED <<entry, kids, ps, owner, waiting, micro>>
  BY <1>4, UpSame
<1>5. QED
  BY <1>1, <1>2, <1>3, <1>4 DEF Reconcile

LEMMA TidyTick ==
    ASSUME LooseInv, Tidy, ReconcileTick, ~tangled'
    PROVE  Tidy'
<1>1. Idle /\ timersOn /\ Room /\ Reconcile /\ ping' = ping /\ UNCHANGED mode
  BY DEF ReconcileTick
<1>2. ~Down /\ UpFits
  BY <1>1 DEF Tidy, Down
<1>3. UpFits'
  BY <1>1, <1>2, UpReconcile
<1>4. QED
  BY <1>1, <1>2, <1>3, TidyFrom

LEMMA TidyFinish ==
    ASSUME LooseInv, Tidy, FinishStart, ~tangled'
    PROVE  Tidy'
<1>1. /\ Idle /\ phase = "starting" /\ phase' = "started" /\ running' = running
      /\ Reconcile /\ ping' = ping
  BY DEF FinishStart
<1>2. UpFits /\ running
  BY <1>1 DEF Tidy, Down
<1>3. Room
  BY <1>1, OrchestratorAssumption DEF Room, LooseInv, ModeFits
<1>4. UpFits'
  BY <1>1, <1>2, <1>3, UpReconcile
<1>5. QED
  BY <1>1, <1>2, <1>4 DEF Tidy, Down

LEMMA TidyStart ==
    ASSUME LooseInv, Tidy, Start
    PROVE  Tidy'
<1>1. /\ phase = "idle" /\ phase' = "starting" /\ running' = TRUE
      /\ UNCHANGED <<entry, kids, ps, waiting, micro, timersOn>>
  BY DEF Start
<1>2. UpFits
  BY <1>1 DEF Tidy, Down
<1>3. QED
  BY <1>1, <1>2, UpSame DEF Tidy, Down

\* stop() finds the process, if there is one, with the entry.
LEMMA TidyStop ==
    ASSUME LooseInv, Tidy, Stop, ~tangled'
    PROVE  Tidy'
<1>1. /\ running /\ running' = FALSE /\ timersOn' = FALSE /\ phase' = phase
      /\ phase = "started" /\ UNCHANGED <<entry, ps>> /\ Room
      /\ IF entry = None THEN UNCHANGED <<kids, waiting, micro>>
         ELSE KillChild(kids[entry], entry, "shutdown")
  BY DEF Stop, Crosses
<1>2. /\ KidsFit /\ CallsFit /\ waiting \in Seq(Kill) /\ Live \subseteq {Known} /\ Live' = Live
  BY <1>1 DEF LooseInv, BodyFits, CallsFit, Tidy, Down, UpFits, Live
<1>3. DownFits'
  <2> SUFFICES ASSUME NEW p \in Live
               PROVE  Live \subseteq {p} /\ \E i \in DOMAIN waiting' : waiting'[i].proc = p
    BY <1>2 DEF DownFits
  <2>1. p = Known /\ p # None /\ Live \subseteq {p}
    BY <1>2, Numbers DEF Live
  <2>2. entry # None /\ entry \in Objs /\ p = kids[entry].proc
    BY <1>2, <2>1 DEF Known, CallsFit
  <2> DEFINE w == [who |-> "shutdown", obj |-> entry, proc |-> kids[entry].proc]
  <2>3. KidFits(kids[entry]) /\ KillChild(kids[entry], entry, "shutdown")
    BY <1>1, <1>2, <2>2 DEF KidsFit
  <2>4. waiting' = Append(waiting, w)
    BY <2>1, <2>2, <2>3 DEF KillChild
  <2>5. w.proc = p /\ w \in Kill
    BY <2>2, <2>3 DEF Kill, KidFits, ChildState
  <2> HIDE DEF w, Kill
  <2>6. Len(waiting) + 1 \in DOMAIN waiting' /\ waiting'[Len(waiting) + 1] = w
    BY <1>2, <2>4, <2>5, AppendProperties, LenProperties
  <2>7. QED
    BY <2>1, <2>5, <2>6
<1>4. QED
  BY <1>1, <1>3 DEF Tidy, Down

LEMMA TidyCalls ==
    ASSUME LooseInv, Tidy, StopProcess \/ StartProcess \/ RestartProcess, ~tangled'
    PROVE  Tidy'
<1>0. /\ Idle /\ running /\ entry # None /\ UNCHANGED <<mode, entry, ping>>
  BY DEF StopProcess, StartProcess, RestartProcess, Called
<1>1. ~Down /\ UpFits
  BY <1>0 DEF Tidy, Down
<1>2. /\ KidsFit /\ CallsFit /\ micro = <<>> /\ entry \in Objs /\ KidFits(kids[entry])
      /\ Others /\ Live \subseteq {Known} /\ Alone /\ Known = kids[entry].proc
  BY <1>0, <1>1 DEF LooseInv, BodyFits, CallsFit, KidsFit, UpFits, Idle, Known
<1>3. CASE StopProcess
  <2> DEFINE k == [kids[entry] EXCEPT !.stoppedByUser = TRUE, !.timer = FALSE]
  <2>1. /\ k \in ChildState /\ k.proc = kids[entry].proc /\ ~k.timer /\ k.stoppedByUser
        /\ k.status = kids[entry].status /\ k.strikes < HungStrikesMax
    BY <1>2 DEF KidFits, ChildState
  <2>2. /\ UNCHANGED <<ps, owner>> /\ ~Awaits("restart")
        /\ \/ /\ k.proc = None /\ kids' = [kids EXCEPT ![entry] = [k EXCEPT !.status = "stopped"]]
              /\ UNCHANGED <<waiting, micro>>
           \/ KillChild(k, entry, "stop")
    BY <1>3 DEF StopProcess, Crosses
  <2> HIDE DEF k
  <2>3. KidFits(k)
    BY <1>2, <2>1, FitAs
  <2>4. CASE KillChild(k, entry, "stop")
    <3>1. UpFits'
      BY <1>0, <1>1, <1>2, <2>1, <2>2, <2>3, <2>4, UpKill
    <3>2. QED
      BY <1>0, <1>1, <3>1, TidyFrom
  <2>5. CASE k.proc = None /\ kids' = [kids EXCEPT ![entry] = [k EXCEPT !.status = "stopped"]]
             /\ UNCHANGED <<waiting, micro>>
    <3> DEFINE r == [k EXCEPT !.status = "stopped"]
    <3>1. r.proc = k.proc /\ ~r.timer /\ r.stoppedByUser
      BY <2>1 DEF ChildState
    <3> HIDE DEF r
    <3>2. kids'[entry] = r /\ \A x \in Objs : x # entry => kids'[x] = kids[x]
      BY <1>2, <2>5 DEF KidsFit, r
    <3>3. \A x \in Objs : /\ kids'[x].proc = kids[x].proc
                          /\ kids'[x].timer => kids[x].timer
                          /\ kids[x].stoppedByUser => kids'[x].stoppedByUser
      BY <2>1, <3>1, <3>2
    <3>4. Alone' /\ Live' = Live /\ entry' = entry
      BY <1>0, <1>2, <2>2, <2>5 DEF Alone, Live
    <3>5. /\ \A i \in DOMAIN waiting' : \E j \in DOMAIN waiting : waiting'[i] = waiting[j]
          /\ \A i \in DOMAIN micro' : \E j \in DOMAIN micro : micro'[i] = micro[j]
      BY <2>5
    <3>6. UpFits'
      BY <1>1, <1>2, <3>3, <3>4, <3>5, UpKept
    <3>7. QED
      BY <1>0, <1>1, <3>6, TidyFrom
  <2>6. QED
    BY <2>2, <2>4, <2>5
<1>4. CASE StartProcess \/ RestartProcess
  <2> DEFINE k == Reset(kids[entry])
  <2>1. /\ KidFits(k) /\ k.proc = kids[entry].proc /\ k.timer = kids[entry].timer
    BY <1>2, FitReset DEF Reset, KidFits, ChildState
  <2>2. waiting = <<>>
    BY <1>4 DEF StartProcess, RestartProcess, Crosses
  <2>3. \/ Spawn(k, entry) /\ UNCHANGED <<waiting, micro>>
        \/ kids' = [kids EXCEPT ![entry] = k] /\ UNCHANGED <<ps, waiting, micro>>
        \/ KillChild(k, entry, "restart") /\ ps' = ps
    BY <1>4 DEF StartProcess, RestartProcess
  <2> HIDE DEF k
  <2>4. CASE Spawn(k, entry) /\ UNCHANGED <<waiting, micro>>
    <3>1. Live \subseteq {k.proc} /\ waiting' = waiting /\ micro' = <<>> /\ entry' = entry /\ ping' = ping
      BY <1>0, <1>2, <2>1, <2>4
    <3>2. \A x \in Objs : x # entry => kids[x].proc = None /\ ~kids[x].timer
      BY <1>2 DEF Others
    <3>3. DOMAIN waiting = {}
      BY <2>2
    <3>4. UpFits'
      BY <1>2, <2>1, <2>4, <3>1, <3>2, <3>3, UpSpawn
    <3>5. QED
      BY <1>0, <1>1, <3>4, TidyFrom
  <2>5. CASE kids' = [kids EXCEPT ![entry] = k] /\ UNCHANGED <<ps, waiting, micro>>
    <3>1. kids'[entry] = k /\ \A x \in Objs : x # entry => kids'[x] = kids[x]
      BY <1>2, <2>5 DEF KidsFit
    <3>2. \A x \in Objs : kids'[x].proc = kids[x].proc /\ (kids'[x].timer => kids[x].timer)
      BY <2>1, <3>1
    <3>3. Alone' /\ Live' = Live /\ entry' = entry
      BY <1>0, <1>2, <2>5 DEF Alone, Live
    <3>4. DOMAIN waiting' = {} /\ DOMAIN micro' = {}
      BY <1>2, <2>2, <2>5
    <3>5. UpFits'
      BY <1>1, <1>2, <2>2, <3>2, <3>3, <3>4, UpKept
    <3>6. QED
      BY <1>0, <1>1, <3>5, TidyFrom
  <2>6. CASE KillChild(k, entry, "restart") /\ ps' = ps
    <3>1. UpFits'
      BY <1>0, <1>1, <1>2, <2>1, <2>2, <2>6, UpKill
    <3>2. QED
      BY <1>0, <1>1, <3>1, TidyFrom
  <2>7. QED
    BY <2>3, <2>4, <2>5, <2>6
<1>5. QED
  BY <1>3, <1>4

LEMMA TidyContinue ==
    ASSUME LooseInv, Tidy, Continue
    PROVE  Tidy'
<1>0. PICK m : m = Head(micro)
  OBVIOUS
<1>1. /\ micro # <<>> /\ UNCHANGED <<mode, waiting, ping>>
      /\ IF m.step = "killed"
         THEN /\ ForgetProc(m.w.obj)
              /\ micro' = Append(Tail(micro), [m EXCEPT !.step = "resume"])
              /\ UNCHANGED <<entry, ps, owner>>
         ELSE AfterKill(m.w) /\ micro' = Tail(micro)
  BY <1>0 DEF Continue
<1>2. /\ KidsFit /\ CallsFit /\ entry \in Objs \cup {None} /\ micro \in Seq(Going)
      /\ m = micro[1] /\ 1 \in DOMAIN micro /\ m \in Going /\ m.w \in Kill /\ m.w.obj \in Objs
      /\ m.w.who \in {"stop", "restart", "reconcile", "shutdown"} /\ m.w.obj # None
      /\ Tail(micro) \in Seq(Going) /\ Len(Tail(micro)) = Len(micro) - 1
      /\ \A i \in DOMAIN Tail(micro) : i + 1 \in DOMAIN micro /\ Tail(micro)[i] = micro[i + 1]
  BY <1>0, <1>1, HeadIs, Numbers DEF LooseInv, BodyFits, CallsFit
<1>3. phase = "started"
  BY <1>1 DEF LooseInv, ModeFits
<1>4. CASE Down
  <2>1. ps' = ps
    BY <1>1, <1>2, <1>4 DEF AfterKill, Down
  <2>2. ASSUME DownFits PROVE DownFits'
    BY <1>1, <2>1, <2>2, DownKept DEF Live
  <2>3. QED
    BY <1>1, <1>4, <2>2, TidyFrom
<1>5. CASE ~Down
  <2>1. /\ UpFits /\ running /\ GoFits(m) /\ CallFits(m.w) /\ m.w.who # "shutdown"
        /\ Alone /\ Others /\ Live \subseteq {Known}
        /\ \A i \in DOMAIN waiting : waiting[i].who # "restart"
    BY <1>1, <1>2, <1>3, <1>5 DEF Tidy, Down, UpFits, GoFits, CallFits, Alone
  <2>2. ASSUME UpFits' PROVE Tidy'
    BY <1>1, <1>5, <2>2, TidyFrom
  <2>3. CASE m.step = "killed"
    <3>0. PICK r : r = [m EXCEPT !.step = "resume"]
      OBVIOUS
    <3>1. ForgetProc(m.w.obj) /\ micro' = Append(Tail(micro), r) /\ entry' = entry /\ ps' = ps
      BY <1>1, <2>3, <3>0
    <3>2. r \in Going /\ r.step = "resume" /\ r.w = m.w
      BY <1>2, <3>0 DEF Going
    <3> HIDE DEF Going, Kill
    <3>3. /\ Len(micro) \in Nat /\ Len(micro') = Len(micro) /\ DOMAIN micro' = 1..Len(micro)
          /\ DOMAIN Tail(micro) = 1..Len(micro) - 1 /\ DOMAIN micro = 1..Len(micro)
          /\ micro'[Len(micro)] = r
          /\ \A i \in 1..Len(micro) - 1 : micro'[i] = Tail(micro)[i]
      <4>0. PICK tail : tail = Tail(micro)
        OBVIOUS
      <4>1. /\ tail \in Seq(Going) /\ Len(tail) = Len(micro) - 1 /\ Len(micro) \in Nat
            /\ DOMAIN micro = 1..Len(micro) /\ DOMAIN tail = 1..Len(tail)
        BY <1>2, <4>0, LenProperties
      <4>2. /\ Append(tail, r) \in Seq(Going) /\ Len(Append(tail, r)) = Len(tail) + 1
            /\ \A i \in 1..Len(tail) : Append(tail, r)[i] = tail[i]
            /\ Append(tail, r)[Len(tail) + 1] = r
        BY <3>2, <4>1, AppendProperties
      <4>3. micro' = Append(tail, r) /\ Len(tail) + 1 = Len(micro)
        BY <3>1, <4>0, <4>1
      <4>4. /\ micro' \in Seq(Going) /\ Len(micro') = Len(micro) /\ micro'[Len(micro)] = r
            /\ \A i \in 1..Len(micro) - 1 : micro'[i] = tail[i]
        BY <4>1, <4>2, <4>3
      <4>5. DOMAIN micro' = 1..Len(micro)
        BY <4>4, LenProperties
      <4>6. QED
        BY <4>0, <4>1, <4>4, <4>5
    <3>4. /\ kids'[m.w.obj].proc = None
          /\ \A x \in Objs : /\ kids'[x].proc \in {None, kids[x].proc}
                             /\ kids'[x].timer = kids[x].timer
                             /\ kids'[x].stoppedByUser = kids[x].stoppedByUser
                             /\ x # m.w.obj => kids'[x] = kids[x]
      BY <1>2, <3>1, Forgot
    <3>5. \A i \in DOMAIN micro' :
              \/ \E j \in DOMAIN micro : micro'[i] = micro[j]
              \/ /\ \E j \in DOMAIN micro : micro'[i].w = micro[j].w
                 /\ micro'[i].step = "resume" /\ kids'[micro'[i].w.obj].proc = None
      <4> SUFFICES ASSUME NEW i \in DOMAIN micro'
                   PROVE  \/ \E j \in DOMAIN micro : micro'[i] = micro[j]
                          \/ /\ \E j \in DOMAIN micro : micro'[i].w = micro[j].w
                             /\ micro'[i].step = "resume" /\ kids'[micro'[i].w.obj].proc = None
        OBVIOUS
      <4>1. CASE i = Len(micro)
        BY <1>2, <3>2, <3>3, <3>4, <4>1
      <4>2. CASE i # Len(micro)
        <5>1. i \in 1..Len(micro) - 1
          BY <3>3, <4>2
        <5>2. i + 1 \in DOMAIN micro /\ micro'[i] = micro[i + 1]
          BY <1>2, <3>3, <5>1
        <5>3. QED
          BY <5>2
      <4>3. QED
        BY <4>1, <4>2
    <3>6. Alone'
      <4>1. \A i \in DOMAIN waiting' : waiting'[i].who # "restart"
        BY <1>1, <2>1
      <4>2. ASSUME NEW i \in DOMAIN micro', micro'[i].w.who = "restart"
            PROVE  Len(micro') = 1 /\ waiting' = <<>>
        <5>1. PICK j \in DOMAIN micro : micro'[i].w = micro[j].w
          BY <3>5
        <5>2. Len(micro) = 1 /\ waiting = <<>>
          BY <2>1, <4>2, <5>1 DEF Alone
        <5>3. QED
          BY <1>1, <3>3, <5>2
      <4>3. QED
        BY <4>1, <4>2 DEF Alone
    <3>7. entry \in Objs => kids'[entry].proc = kids[entry].proc \/ kids[entry].proc \notin Live'
      <4> SUFFICES ASSUME entry \in Objs, m.w.obj = entry PROVE kids[entry].proc \notin Live'
        BY <3>4
      <4>1. kids[entry].proc \in {None, m.w.proc} /\ m.w.proc \notin Live /\ Live' = Live
        BY <2>1, <2>3, <3>1 DEF GoFits, CallFits, Live
      <4>2. QED
        BY <4>1, Numbers DEF Live
    <3>8. Live' \subseteq Live
      BY <3>1 DEF Live
    <3>9. \A i \in DOMAIN waiting' : \E j \in DOMAIN waiting : waiting'[i] = waiting[j]
      BY <1>1
    <3>10. \A i \in DOMAIN micro' :
               \/ \E j \in DOMAIN micro : micro'[i] = micro[j]
               \/ /\ \E j \in DOMAIN micro : micro'[i].w = micro[j].w
                  /\ IF micro'[i].step = "resume" THEN kids'[micro'[i].w.obj].proc = None
                     ELSE micro'[i].w.proc \notin Live'
      BY <3>5
    <3>11. UpFits'
      BY <2>1, <3>1, <3>4, <3>6, <3>7, <3>8, <3>9, <3>10, UpKept
    <3>12. QED
      BY <2>2, <3>11
  <2>4. CASE m.step # "killed" /\ m.w.who = "stop"
    <3>1. /\ kids' = [kids EXCEPT ![m.w.obj].status = "stopped"] /\ micro' = Tail(micro)
          /\ UNCHANGED <<entry, ps>>
      BY <1>1, <2>4 DEF AfterKill
    <3>2. \A x \in Objs : /\ kids'[x].proc = kids[x].proc /\ kids'[x].timer = kids[x].timer
                          /\ kids'[x].stoppedByUser = kids[x].stoppedByUser
      <4> SUFFICES ASSUME NEW x \in Objs
                   PROVE  /\ kids'[x].proc = kids[x].proc /\ kids'[x].timer = kids[x].timer
                          /\ kids'[x].stoppedByUser = kids[x].stoppedByUser
        OBVIOUS
      <4>1. kids[x] \in ChildState
        BY <1>2 DEF KidsFit
      <4>2. kids'[x] = IF x = m.w.obj THEN [kids[x] EXCEPT !.status = "stopped"] ELSE kids[x]
        BY <1>2, <3>1 DEF KidsFit
      <4>3. QED
        BY <4>1, <4>2 DEF ChildState
    <3>3. \A i \in DOMAIN micro' : i + 1 \in DOMAIN micro /\ micro'[i] = micro[i + 1]
      BY <1>2, <3>1
    <3>4. Alone'
      <4>1. \A i \in DOMAIN waiting' : waiting'[i].who # "restart"
        BY <1>1, <2>1
      <4>2. ASSUME NEW i \in DOMAIN micro', micro'[i].w.who = "restart" PROVE FALSE
        <5>1. Len(micro) = 1
          BY <2>1, <3>3, <4>2 DEF Alone
        <5>2. DOMAIN micro = {1} /\ i + 1 = 1 /\ 1 \in DOMAIN micro /\ micro[1].w.who = "restart"
          BY <1>2, <3>3, <4>2, <5>1, LenProperties
        <5>3. QED
          BY <1>2, <2>4, <5>2
      <4>3. QED
        BY <4>1, <4>2 DEF Alone
    <3>5. /\ \A i \in DOMAIN waiting' : \E j \in DOMAIN waiting : waiting'[i] = waiting[j]
          /\ \A i \in DOMAIN micro' : \E j \in DOMAIN micro : micro'[i] = micro[j]
          /\ Live' \subseteq Live /\ entry' = entry
      BY <1>1, <3>1, <3>3 DEF Live
    <3>6. UpFits'
      BY <2>1, <3>2, <3>4, <3>5, UpKept
    <3>7. QED
      BY <2>2, <3>6
  <2>5. CASE m.step # "killed" /\ m.w.who = "restart"
    <3> DEFINE k == [kids[m.w.obj] EXCEPT !.stoppedByUser = FALSE]
    <3>1. /\ Spawn(k, m.w.obj) /\ micro' = Tail(micro) /\ entry' = entry
      BY <1>1, <2>1, <2>5 DEF AfterKill
    <3>2. Len(micro) = 1 /\ waiting = <<>> /\ entry = m.w.obj
      BY <1>2, <2>1, <2>5 DEF Alone, CallFits
    <3>3. micro' = <<>>
      BY <1>2, <3>1, <3>2, EmptySeq
    <3>4. m.step = "resume"
      BY <1>2, <2>5 DEF Going
    <3>5. kids[entry].proc = None /\ Live \subseteq {None}
      BY <1>2, <2>1, <3>2, <3>4 DEF GoFits, Known
    <3>6. KidFits(k) /\ k.proc = None
      BY <1>2, <3>2, <3>5, FitWilling DEF KidsFit, KidFits, ChildState
    <3> HIDE DEF k
    <3>7. DOMAIN waiting = {} /\ \A x \in Objs : x # entry => kids[x].proc = None /\ ~kids[x].timer
      BY <2>1, <3>2 DEF Others
    <3>8. UpFits'
      BY <1>1, <1>2, <3>1, <3>2, <3>3, <3>5, <3>6, <3>7, UpSpawn
    <3>9. QED
      BY <2>2, <3>8
  <2>6. CASE m.step # "killed" /\ m.w.who = "reconcile"
    <3>1. /\ entry' = None /\ ps' = ps /\ micro' = Tail(micro)
          /\ kids' \in {[kids EXCEPT ![m.w.obj] = FreshChild], kids}
      BY <1>1, <2>6 DEF AfterKill
    <3>2. m.step = "resume"
      BY <1>2, <2>6 DEF Going
    <3>3. /\ entry \in {None, m.w.obj}
          /\ m.w.obj = entry => kids[entry].proc = None /\ ~kids[entry].timer
      BY <2>1, <2>6, <3>2 DEF GoFits, CallFits
    <3>4. \A x \in Objs : kids[x].proc = None /\ ~kids[x].timer
      BY <1>2, <2>1, <3>3, Numbers DEF Others
    <3>5. \A x \in Objs : kids'[x].proc = None /\ ~kids'[x].timer
      BY <1>2, <3>1, <3>4, FitFresh DEF KidsFit
    <3>6. Others' /\ Live' \subseteq {Known'}
      <4>1. Live \subseteq {None} /\ Live' = Live
        BY <1>2, <2>1, <3>1, <3>4 DEF Known, Live
      <4>2. QED
        BY <3>1, <3>5, <4>1 DEF Others, Known
    <3>7. \A i \in DOMAIN micro' : i + 1 \in DOMAIN micro /\ micro'[i] = micro[i + 1]
      BY <1>2, <3>1
    <3>8. \A i \in DOMAIN micro' : micro'[i].w.who # "restart"
      <4> SUFFICES ASSUME NEW i \in DOMAIN micro', micro'[i].w.who = "restart" PROVE FALSE
        OBVIOUS
      <4>1. Len(micro) = 1
        BY <2>1, <3>7 DEF Alone
      <4>2. DOMAIN micro = {1} /\ i + 1 = 1 /\ micro[1].w.who = "restart"
        BY <1>2, <3>7, <4>1, LenProperties
      <4>3. QED
        BY <1>2, <2>6, <4>2
    <3>9. Alone'
      BY <1>1, <2>1, <3>8 DEF Alone
    <3>10. \A i \in DOMAIN waiting' : WaitFits(waiting[i])'
      <4> SUFFICES ASSUME NEW i \in DOMAIN waiting' PROVE WaitFits(waiting[i])'
        OBVIOUS
      <4>1. WaitFits(waiting[i]) /\ waiting[i].obj # None /\ waiting' = waiting
        BY <1>1, <2>1, Kills, Numbers DEF UpFits
      <4>2. QED
        BY <2>1, <3>1, <4>1 DEF WaitFits, CallFits
    <3>11. \A i \in DOMAIN micro' : GoFits(micro[i])'
      <4> SUFFICES ASSUME NEW i \in DOMAIN micro' PROVE GoFits(micro[i])'
        OBVIOUS
      <4>1. PICK h : h = micro'[i]
        OBVIOUS
      <4>2. GoFits(h) /\ h.w.obj # None /\ h.w.who # "restart"
        BY <2>1, <3>7, <3>8, <4>1, Kills, Numbers DEF UpFits
      <4>3. Live' = Live
        BY <3>1 DEF Live
      <4>4. QED
        BY <3>1, <4>1, <4>2, <4>3 DEF GoFits, CallFits
    <3>12. UpFits'
      BY <3>6, <3>9, <3>10, <3>11 DEF UpFits
    <3>13. QED
      BY <2>2, <3>12
  <2>7. QED
    BY <1>2, <2>1, <2>3, <2>4, <2>5, <2>6
<1>6. QED
  BY <1>4, <1>5

-----------------------------------------------------------------------------
(* The invariant *)

\* Once two calls have crossed, that is remembered.
LEMMA CrossingStays == LooseInv /\ [Next]_vars /\ ~tangled' => ~tangled
<1> SUFFICES ASSUME LooseInv, [Next]_vars, ~tangled', tangled PROVE FALSE
  OBVIOUS
<1>1. \A how : Crosses(how) => FALSE
  BY DEF Crosses
<1>2. ~Reconcile
  BY <1>1 DEF Reconcile
<1>3. QED
  BY <1>1, <1>2
     DEF Next, ProcExit, ObserveExit, Pong, KillTimeout, TimerFire, PingStart, PingEvaluate, UpdateConfig,
         Start, FinishStart, Stop, ReconcileTick, StopProcess, StartProcess, RestartProcess, Continue,
         vars, hist

LEMMA TidyStep == LooseInv /\ Tidy /\ [Next]_vars /\ ~tangled' => Tidy'
<1> SUFFICES ASSUME LooseInv, Tidy, [Next]_vars, ~tangled' PROVE Tidy'
  OBVIOUS
<1>1. ASSUME NEW p \in Procs, NEW code \in {"exit0", "exit1"}, ProcExit(p, code) PROVE Tidy'
  BY <1>1, TidyExit
<1>2. ASSUME NEW p \in Procs, ObserveExit(p) \/ Pong(p) PROVE Tidy'
  BY <1>2, TidyObserve, TidyPong
<1>3. ASSUME NEW i \in DOMAIN waiting, KillTimeout(i) PROVE Tidy'
  BY <1>3, TidyTimeout
<1>4. ASSUME NEW o \in Objs, TimerFire(o) PROVE Tidy'
  BY <1>4, TidyTimer
<1>5. CASE PingStart \/ UpdateConfig \/ UNCHANGED vars
  <2>1. UNCHANGED <<mode, entry, kids, ps, waiting, micro>>
    BY <1>5 DEF PingStart, UpdateConfig, vars, mode
  <2>2. QED
    BY <2>1, Quiet DEF Live
<1>6. CASE PingEvaluate \/ Start \/ FinishStart \/ Stop \/ ReconcileTick
  BY <1>6, TidyEvaluate, TidyStart, TidyFinish, TidyStop, TidyTick
<1>7. CASE StopProcess \/ StartProcess \/ RestartProcess \/ Continue
  BY <1>7, TidyCalls, TidyContinue
<1>8. QED
  BY <1>1, <1>2, <1>3, <1>4, <1>5, <1>6, <1>7 DEF Next

LEMMA ChildInit == Init => ChildInv
<1> SUFFICES ASSUME Init PROVE ChildInv
  OBVIOUS
<1>1. LooseInv
  BY LooseInit
<1>2. /\ phase = "idle" /\ running = FALSE /\ timersOn = FALSE /\ entry = None /\ Live = {}
      /\ DOMAIN waiting = {} /\ DOMAIN micro = {} /\ \A o \in Objs : kids[o] = FreshChild
  BY DEF Init, Live
<1>3. UpFits
  BY <1>2, FitFresh DEF UpFits, Others, Alone
<1>4. QED
  BY <1>1, <1>2, <1>3 DEF ChildInv, Tidy, Down

LEMMA ChildStep == ChildInv /\ [Next]_vars => ChildInv'
  BY LooseStep, CrossingStays, TidyStep DEF ChildInv

\* A set with at most one element.
LEMMA AtMostOne ==
    ASSUME NEW S, NEW x, S \subseteq {x} PROVE Cardinality(S) <= 1
<1>1. S = {} \/ S = {x}
  OBVIOUS
<1>2. Cardinality({}) = 0 /\ Cardinality({x}) = 1
  BY FS_EmptySet, FS_Singleton
<1>3. QED
  BY <1>1, <1>2

LEMMA Implied == ChildInv => Inv /\ AtMostOneLive
<1> SUFFICES ASSUME ChildInv PROVE Inv /\ AtMostOneLive
  OBVIOUS
<1>1. LooseInv /\ (~tangled => Tidy) /\ TypeOK
  BY LooseTypes DEF ChildInv
<1>2. StoppedHasNoTimer /\ CrashLoopIsDown
  BY <1>1 DEF LooseInv, BodyFits, KidsFit, KidFits, StoppedHasNoTimer, CrashLoopIsDown
<1>3. LiveIsTracked
  <2> SUFFICES ASSUME ~tangled, NEW p \in Live
               PROVE  \/ entry # None /\ kids[entry].proc = p
                      \/ \E w \in Waits(waiting) : w.proc = p
    BY DEF LiveIsTracked, AllTracked
  <2>1. CASE Down
    BY <1>1, <2>1 DEF Tidy, DownFits, Waits
  <2>2. CASE ~Down
    <3>1. p = Known /\ p # None
      BY <1>1, <2>2, Numbers DEF Tidy, UpFits, Live
    <3>2. QED
      BY <3>1 DEF Known
  <2>3. QED
    BY <2>1, <2>2
<1>4. ShutdownLeavesNoChild
  BY <1>1 DEF ShutdownLeavesNoChild, Tidy, Down, DownFits
<1>5. AtMostOneLive
  <2> SUFFICES ASSUME ~tangled PROVE Cardinality(Live) <= 1
    BY DEF AtMostOneLive, OneLive
  <2>1. \E x : Live \subseteq {x}
    BY <1>1 DEF Tidy, DownFits, UpFits
  <2>2. QED
    BY <2>1, AtMostOne
<1>6. QED
  BY <1>1, <1>2, <1>3, <1>4, <1>5 DEF Inv

-----------------------------------------------------------------------------
(* The theorems *)

\* The hard invariant of child-lifecycle.ts:129: a child never has two live
\* processes, whatever exits, hangs, kills, respawns, calls, passes of the reconcile
\* timer and changes of the manifest come -- until two calls cross (Crosses).
THEOREM OneLiveProcess == Spec => []AtMostOneLive
<1>1. ChildInv => AtMostOneLive
  BY Implied
<1>2. QED
  BY <1>1, ChildInit, ChildStep, PTL DEF Spec

\* Until two calls cross, the orchestrator knows the live process or will kill it, and
\* a shutdown leaves none.  At all times a stopped child has no respawn armed and one
\* in crash-loop is down.
THEOREM ChildIsKnown == Spec => []Inv
<1>1. ChildInv => Inv
  BY Implied
<1>2. QED
  BY <1>1, ChildInit, ChildStep, PTL DEF Spec

\* A child that the user stopped has no respawn armed, and one in crash-loop is
\* down, even when calls cross and a signal comes before start() has returned
\* (killChild, scheduleRestart and the exit handler of child-lifecycle.ts).
THEOREM NoRespawnIsLeft == Spec => [](StoppedHasNoTimer /\ CrashLoopIsDown)
<1>1. LooseInv => StoppedHasNoTimer /\ CrashLoopIsDown
  BY DEF LooseInv, BodyFits, KidsFit, KidFits, StoppedHasNoTimer, CrashLoopIsDown
<1>2. QED
  BY <1>1, LooseInit, LooseStep, PTL DEF Spec

-----------------------------------------------------------------------------
(***************************************************************************)
(* What the processes under supervision carry: workflows, of which each    *)
(* has a row and an execution, begun in the web process and lost with it.  *)
(* For any graphs, edits of them and faults.  Its state is apart from the  *)
(* orchestrator's.                                                         *)
(***************************************************************************)
\* Where a node is taken and worked on.
Working == {"skip", "skipped", "create", "start", "work", "save", "stepfail"}

\* The sources of a node come before it.
SourcesFirst == \A e \in graph.edges : e.to \in exec.seen => e.from \in exec.seen

\* The queue holds the nodes that are freed and not seen, each once.
QueueFits ==
    /\ IsInjective(exec.queue)
    /\ ToSet(exec.queue) = Freed(exec.seen) \ exec.seen

\* The node that is worked on: its sources are behind it and its targets ahead.
NodeFits ==
    /\ exec.node \in exec.seen \ Trigger
    /\ exec.node \in exec.pruned <=> exec.at \in {"skip", "skipped"}
    /\ \A e \in graph.edges : /\ e.to = exec.node => e.from # exec.node
                              /\ e.from = exec.node => e.to \notin exec.seen

\* What is behind an edge that was not followed.
Cut == {e.to : e \in {d \in graph.edges : step[d.from] = "completed" /\ ~Taken(d)}}

\* The steps as far as the execution has come.
Past == IF exec.at \in Working THEN exec.seen \ {exec.node} ELSE exec.seen
StepsFit ==
    /\ exec.pruned = Reach(graph.edges, Cut)
    /\ \A n \in Past \ Trigger : step[n] = IF n \in exec.pruned THEN "skipped" ELSE "completed"
    /\ \A n \in Trigger \cup (Nodes \ exec.seen) : step[n] = "none"
    /\ exec.at \in {"skip", "create"} => step[exec.node] = "none"
    /\ exec.at \in {"skipped", "start"} => step[exec.node] = "pending"
    /\ exec.at \in {"work", "save", "stepfail"} => step[exec.node] = "running"

\* None is open, and one has failed at most.
StepsSettled ==
    /\ \A n \in Nodes : step[n] \notin {"pending", "running"}
    /\ \A n, m \in Nodes : step[n] = "failed" /\ step[m] = "failed" => n = m

FlowFits ==
    exec # NoExec =>
        /\ Valid
        /\ execution \in {"none", "pending", "running"}
        /\ exec.at = "insert" => execution = "none"
        /\ exec.at = "insert" => exec.seen = {} /\ exec.pruned = {}
        /\ exec.at = "begin" => exec.seen = {}
        /\ exec.at = "again" => failures >= 1
        /\ exec.at = "finish" => exec.queue = <<>>
        /\ SourcesFirst /\ QueueFits
        /\ exec.at \in Working => NodeFits
        /\ Recorded /\ exec.at \notin {"fail", "again"} => StepsFit
        /\ Recorded /\ exec.at = "fail" /\ failures = 0 => StepsSettled

\* Nothing is left of the steps of an execution that was deleted.
NothingLeft == ~Recorded => \A n \in Nodes : step[n] = "none"

EndedIsSettled == execution \in {"completed", "failed"} /\ failures = 0 => StepsSettled

EngineInv ==
    /\ FlowFits /\ NothingLeft
    /\ InputsReady /\ NoGhost /\ ExactBranches /\ EndedIsSettled

\* A failed query is one of the faults.
FaultsCount == failures <= faults

FlowInv == FlowTypeOK /\ EngineInv /\ FaultsCount

-----------------------------------------------------------------------------
(* The graph *)

LEMMA SameGraph ==
    ASSUME shape' = shape
    PROVE  graph' = graph /\ Nodes' = Nodes /\ Trigger' = Trigger /\ Exec' = Exec
BY DEF graph, Nodes, Trigger, OfType, Exec

LEMMA SameValid ==
    ASSUME shape' = shape, Valid
    PROVE  Valid'
BY SameGraph DEF Valid, Sorted, Freed, Reach, Targets

LEMMA GraphIs ==
    ASSUME FlowTypeOK
    PROVE  /\ IsFiniteSet(Nodes) /\ Trigger \subseteq Nodes
           /\ \A n \in Trigger : graph.type[n] # "condition"
<1>1. IsFiniteSet(DOMAIN Graphs[shape].type)
  BY WorkflowAssumption DEF FlowTypeOK, Shapes
<1>2. QED
  BY <1>1 DEF Nodes, graph, Trigger, OfType

\* Reach is closed, and the least that is.
LEMMA ReachIs ==
    ASSUME NEW edges, NEW X \in SUBSET Nodes, \A e \in edges : e.to \in Nodes
    PROVE  /\ Reach(edges, X) \in SUBSET Nodes
           /\ X \subseteq Reach(edges, X)
           /\ \A e \in edges : e.from \in Reach(edges, X) => e.to \in Reach(edges, X)
           /\ \A C \in SUBSET Nodes :
                  X \subseteq C /\ (\A e \in edges : e.from \in C => e.to \in C)
                      => Reach(edges, X) \subseteq C
<1> DEFINE closed == {C \in SUBSET Nodes : X \cup Targets(edges, C) \subseteq C}
<1>1. Reach(edges, X) = {n \in Nodes : \A C \in closed : n \in C}
  BY DEF Reach
<1>2. \A C \in SUBSET Nodes : C \in closed <=> X \subseteq C /\ \A e \in edges : e.from \in C => e.to \in C
  BY DEF Targets
<1> HIDE DEF closed
<1>3. \A C \in closed : C \in SUBSET Nodes
  BY DEF closed
<1>4. \A e \in edges : e.from \in Reach(edges, X) => e.to \in Reach(edges, X)
  BY <1>1, <1>2, <1>3
<1>5. QED
  BY <1>1, <1>2, <1>3, <1>4

LEMMA SortedIs ==
    ASSUME Valid, NEW C \in SUBSET Nodes, Freed(C) \subseteq C
    PROVE  C = Nodes
<1>1. Sorted = Nodes
  BY DEF Valid
<1>2. \A n \in Sorted : n \in C
  BY DEF Sorted
<1>3. QED
  BY <1>1, <1>2

LEMMA EdgesIn ==
    ASSUME Valid
    PROVE  \A e \in graph.edges : e.from \in Nodes /\ e.to \in Nodes
BY DEF Valid

\* The trigger is the one node that needs no other.
LEMMA TriggerIs ==
    ASSUME FlowTypeOK, Valid
    PROVE  /\ \E t \in Nodes : Trigger = {t}
           /\ Freed({}) = Trigger
<1>1. PICK t : Trigger = {t}
  <2>1. IsFiniteSet(Trigger) /\ Cardinality(Trigger) = 1
    BY GraphIs, FS_Subset DEF Valid
  <2>2. QED
    BY <2>1, FS_Singleton
<1>2. t \in Nodes
  BY <1>1, GraphIs
<1>3. \A e \in graph.edges : e.from \in Nodes /\ e.to \in Nodes
  BY EdgesIn
<1>4. Nodes = Reach(graph.edges, {t})
  BY <1>1 DEF Valid
\* A node that needs no other is reached from the trigger only if it is the trigger.
<1>5. ASSUME NEW m \in Freed({})
      PROVE  m = t
  <2> SUFFICES ASSUME m # t
               PROVE  FALSE
    OBVIOUS
  <2> DEFINE C == Nodes \ {m}
  <2>1. C \in SUBSET Nodes /\ {t} \subseteq C
    BY <1>2
  <2>2. m \in Nodes /\ \A e \in graph.edges : e.to # m
    BY <1>5 DEF Freed
  <2>3. \A e \in graph.edges : e.from \in C => e.to \in C
    BY <1>3, <2>2
  <2> HIDE DEF C
  <2>4. Reach(graph.edges, {t}) \subseteq C
    <3>1. {t} \in SUBSET Nodes
      BY <1>2
    <3>2. QED
      BY <1>3, <2>1, <2>3, <3>1, ReachIs
  <2> USE DEF C
  <2>5. QED
    BY <1>4, <2>2, <2>4
<1>6. Freed({}) # {}
  <2>1. Freed({}) \subseteq {} => {} = Nodes
    BY SortedIs
  <2>2. QED
    BY <1>2, <2>1
<1>7. QED
  BY <1>1, <1>2, <1>5, <1>6

\* What the condition at the node prunes: nothing that was seen, and all that is
\* behind the edges not followed so far.
Unfollowed == {e.to : e \in {d \in graph.edges : d.from = exec.node /\ ~Follows(d.handle, exec.verdict)}}

LEMMA PrunedIs ==
    ASSUME Valid, SourcesFirst, NodeFits, exec.seen \in SUBSET Nodes,
           exec.pruned = Reach(graph.edges, Cut)
    PROVE  /\ Pruned(exec.node, exec.verdict, exec.pruned) = Reach(graph.edges, Cut \cup Unfollowed)
           /\ Pruned(exec.node, exec.verdict, exec.pruned) \cap exec.seen = exec.pruned \cap exec.seen
<1> DEFINE edges == graph.edges
           S == exec.seen
           X == Cut
           p == exec.pruned
           Y == Cut \cup Unfollowed
           cut == Unfollowed
           rest == {e \in edges : e.from \notin p}
           R == Reach(rest, cut \ p)
<1>1. Pruned(exec.node, exec.verdict, p) = p \cup R
  BY DEF Pruned, Unfollowed
<1>2. /\ \A e \in edges : e.from \in Nodes /\ e.to \in Nodes
      /\ \A e \in edges : e.to \in S => e.from \in S
      /\ cut \in SUBSET Nodes /\ cut \cap S = {}
      /\ X \in SUBSET Nodes /\ Y \in SUBSET Nodes /\ Y = X \cup cut
      /\ S \in SUBSET Nodes /\ p = Reach(edges, X)
  BY EdgesIn DEF SourcesFirst, NodeFits, Unfollowed, Cut
<1> HIDE DEF edges, S, X, p, Y, cut
<1>3. /\ p \in SUBSET Nodes /\ X \subseteq p /\ \A e \in edges : e.from \in p => e.to \in p
      /\ \A C \in SUBSET Nodes :
             X \subseteq C /\ (\A e \in edges : e.from \in C => e.to \in C) => p \subseteq C
  BY <1>2, ReachIs
<1>4. /\ R \in SUBSET Nodes /\ cut \ p \subseteq R /\ \A e \in rest : e.from \in R => e.to \in R
      /\ \A C \in SUBSET Nodes :
             cut \ p \subseteq C /\ (\A e \in rest : e.from \in C => e.to \in C) => R \subseteq C
  <2>1. cut \ p \in SUBSET Nodes /\ \A e \in rest : e.to \in Nodes
    BY <1>2
  <2>2. QED
    BY <2>1, ReachIs
<1>5. /\ Reach(edges, Y) \in SUBSET Nodes /\ Y \subseteq Reach(edges, Y)
      /\ \A e \in edges : e.from \in Reach(edges, Y) => e.to \in Reach(edges, Y)
      /\ \A C \in SUBSET Nodes :
             Y \subseteq C /\ (\A e \in edges : e.from \in C => e.to \in C) => Reach(edges, Y) \subseteq C
  BY <1>2, ReachIs
<1> HIDE DEF R
<1>6. p \cup R \subseteq Reach(edges, Y)
  <2>1. p \subseteq Reach(edges, Y)
    BY <1>2, <1>3, <1>5
  <2>2. R \subseteq Reach(edges, Y)
    BY <1>2, <1>4, <1>5
  <2>3. QED
    BY <2>1, <2>2
<1>7. Reach(edges, Y) \subseteq p \cup R
  <2>1. p \cup R \in SUBSET Nodes /\ Y \subseteq p \cup R
    BY <1>2, <1>3, <1>4
  <2>2. \A e \in edges : e.from \in p \cup R => e.to \in p \cup R
    BY <1>3, <1>4
  <2>3. QED
    BY <1>5, <2>1, <2>2
<1>8. R \cap S = {}
  <2> DEFINE C == Nodes \ S
  <2>1. C \in SUBSET Nodes /\ cut \ p \subseteq C
    BY <1>2
  <2>2. \A e \in rest : e.from \in C => e.to \in C
    BY <1>2
  <2>3. R \subseteq C
    BY <1>4, <2>1, <2>2
  <2>4. QED
    BY <2>3
<1>9. QED
  BY <1>1, <1>6, <1>7, <1>8 DEF edges, S, p, Y

\* The orders in which the nodes of a set are queued.
LEMMA OrderIs ==
    ASSUME NEW F, IsFiniteSet(F), NEW more \in SetToSeqs(F)
    PROVE  /\ more \in Seq(F)
           /\ IsInjective(more)
           /\ ToSet(more) = F
<1>1. Cardinality(F) \in Nat
  BY FS_CardinalityType
<1> DEFINE D == 1..Cardinality(F)
<1>2. more \in [D -> F] /\ \A i, j \in D : i # j => more[i] # more[j]
  BY DEF SetToSeqs
<1>3. more \in Seq(F) /\ Len(more) = Cardinality(F)
  BY <1>1, <1>2
<1>4. more \in Injection(D, F)
  BY <1>2 DEF Injection, IsInjective
<1>5. IsFiniteSet(D) /\ Cardinality(D) = Cardinality(F)
  BY <1>1, FS_Interval
<1>6. more \in Surjection(D, F)
  BY <1>4, <1>5, FS_Injection
<1>7. \A n \in F : \E i \in D : more[i] = n
  BY <1>6 DEF Surjection
<1>8. DOMAIN more = D
  BY <1>2
<1>9. QED
  BY <1>2, <1>3, <1>7, <1>8 DEF ToSet, IsInjective

\* The head of q, which has L elements, is taken and the M of more are added:
\* r is left.
Joins(L, q, M, more, r) ==
    /\ \A i \in 1..L - 1 : r[i] = q[i + 1]
    /\ \A j \in 1..M : r[L - 1 + j] = more[j]
    /\ \A i, j \in 1..L : q[i] = q[j] => i = j
    /\ \A i, j \in 1..M : more[i] = more[j] => i = j
    /\ \A i \in 1..L, j \in 1..M : q[i] # more[j]

LEMMA JoinedIs ==
    ASSUME NEW L \in Nat \ {0}, NEW M \in Nat, NEW q, NEW more, NEW r, Joins(L, q, M, more, r)
    PROVE  /\ \A i, j \in 1..L - 1 + M : r[i] = r[j] => i = j
           /\ \A i \in 1..L - 1 + M : \/ \E k \in 1..L : q[k] # q[1] /\ r[i] = q[k]
                                      \/ \E k \in 1..M : r[i] = more[k]
           /\ \A k \in 1..L : q[k] # q[1] => \E i \in 1..L - 1 + M : r[i] = q[k]
           /\ \A k \in 1..M : \E i \in 1..L - 1 + M : r[i] = more[k]
<1> USE DEF Joins
<1>1. \A i \in 1..L - 1 + M : i \in 1..L - 1 \/ \E j \in 1..M : i = L - 1 + j
  <2> SUFFICES ASSUME NEW i \in 1..L - 1 + M, i \notin 1..L - 1
               PROVE  \E j \in 1..M : i = L - 1 + j
    OBVIOUS
  <2>1. i - (L - 1) \in 1..M /\ i = L - 1 + (i - (L - 1))
    OBVIOUS
  <2>2. QED
    BY <2>1
<1>2. \A i \in 1..L - 1 : i + 1 \in 1..L /\ i + 1 # 1 /\ i \in 1..L - 1 + M
  OBVIOUS
<1>3. \A j \in 1..M : L - 1 + j \in 1..L - 1 + M
  OBVIOUS
<1>4. ASSUME NEW i \in 1..L - 1 + M, NEW j \in 1..L - 1 + M, r[i] = r[j]
      PROVE  i = j
  <2>1. CASE i \in 1..L - 1 /\ j \in 1..L - 1
    <3>1. q[i + 1] = q[j + 1] /\ i + 1 \in 1..L /\ j + 1 \in 1..L
      BY <1>2, <1>4, <2>1
    <3>2. i + 1 = j + 1
      BY <3>1
    <3>3. QED
      BY <3>2
  <2>2. CASE i \in 1..L - 1 /\ \E k \in 1..M : j = L - 1 + k
    <3>1. PICK k \in 1..M : j = L - 1 + k
      BY <2>2
    <3>2. q[i + 1] = more[k] /\ i + 1 \in 1..L
      BY <1>2, <1>4, <2>2, <3>1
    <3>3. QED
      BY <3>2
  <2>3. CASE j \in 1..L - 1 /\ \E k \in 1..M : i = L - 1 + k
    <3>1. PICK k \in 1..M : i = L - 1 + k
      BY <2>3
    <3>2. q[j + 1] = more[k] /\ j + 1 \in 1..L
      BY <1>2, <1>4, <2>3, <3>1
    <3>3. QED
      BY <3>2
  <2>4. CASE (\E k \in 1..M : i = L - 1 + k) /\ \E k \in 1..M : j = L - 1 + k
    <3>1. PICK k \in 1..M, m \in 1..M : i = L - 1 + k /\ j = L - 1 + m
      BY <2>4
    <3>2. more[k] = more[m]
      BY <1>4, <3>1
    <3>3. QED
      BY <3>1, <3>2
  <2>5. QED
    BY <1>1, <2>1, <2>2, <2>3, <2>4
<1>5. ASSUME NEW i \in 1..L - 1 + M
      PROVE  \/ \E k \in 1..L : q[k] # q[1] /\ r[i] = q[k]
             \/ \E k \in 1..M : r[i] = more[k]
  <2>1. CASE i \in 1..L - 1
    <3>1. r[i] = q[i + 1] /\ i + 1 \in 1..L /\ 1 \in 1..L /\ i + 1 # 1
      BY <1>2, <2>1
    <3>2. q[i + 1] # q[1]
      BY <3>1
    <3>3. QED
      BY <3>1, <3>2
  <2>2. CASE \E k \in 1..M : i = L - 1 + k
    BY <2>2
  <2>3. QED
    BY <1>1, <2>1, <2>2
<1>6. \A k \in 1..L : q[k] # q[1] => \E i \in 1..L - 1 + M : r[i] = q[k]
  <2> SUFFICES ASSUME NEW k \in 1..L, q[k] # q[1]
               PROVE  \E i \in 1..L - 1 + M : r[i] = q[k]
    OBVIOUS
  <2>1. PICK i \in 1..L - 1 : k = i + 1
    <3>1. k # 1 /\ k - 1 \in 1..L - 1 /\ k = (k - 1) + 1
      OBVIOUS
    <3>2. QED
      BY <3>1
  <2>2. QED
    BY <1>2, <2>1
<1>7. \A k \in 1..M : \E i \in 1..L - 1 + M : r[i] = more[k]
  BY <1>3
<1>8. QED
  BY <1>4, <1>5, <1>6, <1>7

\* The queue q is followed by the nodes of F, in the order of more.
Follow(q, F, more) ==
    /\ q \in Seq(Nodes) /\ q # <<>> /\ F \in SUBSET Nodes /\ more \in Seq(F)
    /\ IsInjective(q)
    /\ IsInjective(more)
    /\ ToSet(more) = F
    /\ ToSet(q) \cap F = {}

LEMMA QueueIs ==
    ASSUME NEW q, NEW F, NEW more, Follow(q, F, more), NEW r, r = Tail(q) \o more
    PROVE  /\ r \in Seq(Nodes)
           /\ IsInjective(r)
           /\ ToSet(r) = (ToSet(q) \ {Head(q)}) \cup F
           /\ Head(q) \in ToSet(q) /\ Head(q) \in Nodes
<1> USE DEF Follow
<1>1. /\ Len(q) \in Nat \ {0} /\ Head(q) = q[1] /\ Tail(q) \in Seq(Nodes) /\ 1 \in 1..Len(q)
      /\ Len(Tail(q)) = Len(q) - 1 /\ \A i \in 1..Len(q) - 1 : Tail(q)[i] = q[i + 1]
  OBVIOUS
<1>2. more \in Seq(Nodes) /\ Len(more) \in Nat
  OBVIOUS
<1>3. r \in Seq(Nodes) /\ Len(r) = Len(q) - 1 + Len(more)
  BY <1>1, <1>2
<1>4. \A i \in 1..Len(q) - 1 : r[i] = q[i + 1]
  BY <1>1, <1>2
<1>5. \A j \in 1..Len(more) : r[Len(q) - 1 + j] = more[j]
  BY <1>1, <1>2
<1>6. \A i \in 1..Len(q), j \in 1..Len(more) : q[i] # more[j]
  <2>1. \A i \in 1..Len(q) : q[i] \in ToSet(q)
    BY DEF ToSet
  <2>2. \A j \in 1..Len(more) : more[j] \in F
    OBVIOUS
  <2>3. QED
    BY <2>1, <2>2
<1> DEFINE L == Len(q)
           M == Len(more)
<1> HIDE DEF L, M
<1>7. /\ \A i, j \in 1..L - 1 + M : r[i] = r[j] => i = j
      /\ \A i \in 1..L - 1 + M : \/ \E k \in 1..L : q[k] # q[1] /\ r[i] = q[k]
                                 \/ \E k \in 1..M : r[i] = more[k]
      /\ \A k \in 1..L : q[k] # q[1] => \E i \in 1..L - 1 + M : r[i] = q[k]
      /\ \A k \in 1..M : \E i \in 1..L - 1 + M : r[i] = more[k]
  <2>1. L \in Nat \ {0} /\ M \in Nat
    BY <1>1, <1>2 DEF L, M
  <2>2. Joins(L, q, M, more, r)
    <3>1. (\A i, j \in 1..L : q[i] = q[j] => i = j) /\ \A i, j \in 1..M : more[i] = more[j] => i = j
      BY DEF IsInjective, L, M
    <3>2. QED
      BY <1>4, <1>5, <1>6, <3>1 DEF Joins, L, M
  <2>3. QED
    BY ONLY <2>1, <2>2, JoinedIs
<1>8. Head(q) \in ToSet(q) /\ Head(q) \in Nodes
  BY <1>1 DEF ToSet
<1>9. DOMAIN r = 1..L - 1 + M /\ DOMAIN q = 1..L /\ DOMAIN more = 1..M
  BY <1>1, <1>2, <1>3 DEF L, M
<1>10. ToSet(r) = (ToSet(q) \ {q[1]}) \cup ToSet(more)
  BY ONLY <1>7, <1>9 DEF ToSet
<1>11. IsInjective(r)
  BY ONLY <1>7, <1>9 DEF IsInjective
<1>12. QED
  BY <1>1, <1>3, <1>8, <1>10, <1>11

-----------------------------------------------------------------------------
(* What a step leaves as it was *)

LEMMA QueueStays ==
    ASSUME shape' = shape, SourcesFirst, QueueFits,
           exec'.queue = exec.queue, exec'.seen = exec.seen
    PROVE  SourcesFirst' /\ QueueFits'
<1>1. graph' = graph /\ Nodes' = Nodes
  BY SameGraph
<1>2. ToSet(exec.queue)' = ToSet(exec.queue) /\ (IsInjective(exec.queue)' <=> IsInjective(exec.queue))
  BY DEF ToSet, IsInjective
<1>3. Freed(exec.seen)' = Freed(exec.seen)
  BY <1>1 DEF Freed
<1>4. QED
  BY <1>1, <1>2, <1>3 DEF SourcesFirst, QueueFits

LEMMA NodeStays ==
    ASSUME shape' = shape, NodeFits, exec'.node = exec.node, exec'.seen = exec.seen,
           exec'.pruned = exec.pruned,
           exec'.at \in {"skip", "skipped"} <=> exec.at \in {"skip", "skipped"}
    PROVE  NodeFits'
BY SameGraph DEF NodeFits

LEMMA CutStays ==
    ASSUME shape' = shape, step' = step, output' = output
    PROVE  Reach(graph.edges, Cut)' = Reach(graph.edges, Cut)
BY DEF Reach, Targets, Cut, Taken, Nodes, graph

LEMMA SameReach ==
    ASSUME shape' = shape, Cut' = Cut
    PROVE  Reach(graph.edges, Cut)' = Reach(graph.edges, Cut)
BY DEF Reach, Targets, Nodes, graph

LEMMA InputsStay ==
    ASSUME shape' = shape, step' = step, output' = output, InputsReady
    PROVE  InputsReady'
BY DEF InputsReady, Taken, Trigger, OfType, Nodes, graph

LEMMA BranchesStay ==
    ASSUME shape' = shape, step' = step, output' = output, execution' = execution, ExactBranches
    PROVE  ExactBranches'
BY DEF ExactBranches, Reach, Targets, Taken, Trigger, OfType, Nodes, graph

LEMMA EngineStays ==
    ASSUME shape' = shape, UNCHANGED engine, EngineInv
    PROVE  EngineInv'
<1>1. /\ exec' = exec /\ execution' = execution /\ step' = step /\ output' = output
      /\ crashed' = crashed /\ failures' = failures
  BY DEF engine
<1>2. InputsReady' /\ ExactBranches'
  BY <1>1, InputsStay, BranchesStay DEF EngineInv
<1>3. NothingLeft' /\ NoGhost' /\ EndedIsSettled' /\ (StepsSettled => StepsSettled')
  BY <1>1, SameGraph DEF EngineInv, NothingLeft, NoGhost, EndedIsSettled, StepsSettled, Recorded
<1>4. FlowFits'
  <2> SUFFICES ASSUME exec # NoExec
               PROVE  FlowFits'
    BY <1>1 DEF FlowFits, NoExec
  <2>1. Valid' /\ SourcesFirst' /\ QueueFits'
    BY <1>1, SameValid, QueueStays DEF EngineInv, FlowFits
  <2>2. exec.at \in Working => NodeFits'
    BY <1>1, NodeStays DEF EngineInv, FlowFits
  <2>3. StepsFit => StepsFit'
    BY <1>1, CutStays, SameGraph DEF StepsFit, Past, Working
  <2>4. QED
    BY <1>1, <1>3, <2>1, <2>2, <2>3 DEF EngineInv, FlowFits, Recorded, Working
<1>5. QED
  BY <1>2, <1>3, <1>4 DEF EngineInv

-----------------------------------------------------------------------------
(* The requests *)

LEMMA RequestKeeps ==
    ASSUME FlowInv, NEW r \in Requests, NEW row \in Shapes,
           PutReads(r, row) \/ PutWrites(r) \/ PutFails(r)
    PROVE  FlowInv'
<1>1. /\ UNCHANGED <<shape, engine>>
      /\ FlowTypeOK /\ EngineInv /\ FaultsCount
      /\ wf \in Shapes \cup {"deleted"} /\ edits \in [Requests -> Shapes \cup {"unused", "done"}]
      /\ failures \in Nat /\ faults \in 0..MaxFaults /\ MaxFaults \in Nat
  BY WorkflowAssumption DEF FlowInv, FlowTypeOK, PutReads, PutWrites, PutFails
<1>2. edits' \in [Requests -> Shapes \cup {"unused", "done"}]
  BY <1>1 DEF PutReads, PutWrites, PutFails
<1>3. wf' \in Shapes \cup {"deleted"}
  BY <1>1 DEF PutReads, PutWrites, PutFails, Open
<1>4. faults' \in 0..MaxFaults /\ faults <= faults'
  BY <1>1 DEF PutReads, PutWrites, PutFails, Fault
<1>5. failures' = failures
  BY <1>1 DEF engine
<1>6. FlowTypeOK'
  BY <1>1, <1>2, <1>3, <1>4, SameGraph DEF FlowTypeOK, engine
<1>7. FaultsCount'
  BY <1>1, <1>4, <1>5 DEF FaultsCount
<1>8. QED
  BY <1>1, <1>6, <1>7, EngineStays DEF FlowInv

-----------------------------------------------------------------------------
(* The execution *)

StepStatus == {"none", "pending", "running", "completed", "failed", "skipped"}
Execution  == {"none", "pending", "running", "completed", "failed"}

LEMMA TypeKept ==
    ASSUME FlowTypeOK, shape' = shape, UNCHANGED schedule, exec' = NoExec \/ exec' \in Exec,
           execution' \in Execution, step' \in [Nodes -> StepStatus],
           output' \in [Nodes -> {"none", "true", "false"}], crashed' \in BOOLEAN,
           failures' \in 0..MaxFaults, faults' \in 0..MaxFaults
    PROVE  FlowTypeOK'
BY SameGraph DEF FlowTypeOK, schedule, StepStatus, Execution

LEMMA TypeIs ==
    ASSUME FlowTypeOK
    PROVE  /\ exec # NoExec => exec \in Exec
           /\ execution \in Execution /\ step \in [Nodes -> StepStatus]
           /\ output \in [Nodes -> {"none", "true", "false"}] /\ crashed \in BOOLEAN
           /\ failures \in 0..MaxFaults /\ faults \in 0..MaxFaults /\ MaxFaults \in Nat
           /\ \A e \in Exec : e # NoExec
BY WorkflowAssumption DEF FlowTypeOK, StepStatus, Execution, Exec, NoExec

\* A node that is to be run has its inputs.
LEMMA NodeHasInputs ==
    ASSUME FlowTypeOK, FlowFits, exec # NoExec, Recorded, exec.at \in Working \ {"skip", "skipped"}
    PROVE  \A e \in graph.edges : e.to = exec.node =>
               e.from \in Trigger \/ (step[e.from] = "completed" /\ Taken(e))
<1>1. Valid /\ SourcesFirst /\ NodeFits /\ StepsFit
  BY DEF FlowFits, Working
<1> SUFFICES ASSUME NEW e \in graph.edges, e.to = exec.node, e.from \notin Trigger
             PROVE  step[e.from] = "completed" /\ Taken(e)
  OBVIOUS
<1>2. e.from \in Past \ Trigger /\ exec.node \notin exec.pruned
  BY <1>1 DEF SourcesFirst, NodeFits, Past
<1>3. Cut \in SUBSET Nodes /\ \A d \in graph.edges : d.from \in Nodes /\ d.to \in Nodes
  BY <1>1, EdgesIn DEF Cut
<1>4. Cut \subseteq exec.pruned /\ (e.from \in exec.pruned => e.to \in exec.pruned)
  <2>1. exec.pruned = Reach(graph.edges, Cut)
    BY <1>1 DEF StepsFit
  <2>2. QED
    BY <1>3, <2>1, ReachIs
<1>5. step[e.from] = "completed"
  BY <1>1, <1>2, <1>4 DEF StepsFit
<1>6. Taken(e)
  BY <1>2, <1>4, <1>5 DEF Cut
<1>7. QED
  BY <1>5, <1>6

\* Of the steps, between nodes, none is open and none has failed.
LEMMA PastIsSettled ==
    ASSUME FlowTypeOK, StepsFit, exec.at \notin Working
    PROVE  StepsSettled
BY DEF StepsFit, StepsSettled, Past

\* A step that moves the execution on, or the node it is at, and writes no step.
LEMMA MovesKeep ==
    ASSUME FlowTypeOK, EngineInv, shape' = shape, exec # NoExec, exec' # NoExec,
           exec'.queue = exec.queue, exec'.seen = exec.seen, exec'.node = exec.node,
           exec'.pruned = exec.pruned \/ (~Recorded /\ exec'.at = "take"),
           step' = step, output' = output,
           execution' = execution \/ (Recorded /\ execution' = "running"),
           failures' \in Nat, failures <= failures',
           exec'.at \notin {"insert", "begin"},
           exec'.at = "again" => exec.at = "again" \/ failures' >= 1,
           exec'.at = "finish" => exec.queue = <<>>,
           exec'.at \in Working => /\ exec.at \in Working
                                   /\ exec'.at \in {"skip", "skipped"} <=> exec.at \in {"skip", "skipped"},
           Recorded /\ exec'.at \notin {"fail", "again"} =>
               /\ exec.at \notin {"fail", "again"}
               /\ \/ exec'.at = exec.at
                  \/ {exec.at, exec'.at} \subseteq {"work", "save", "stepfail"}
                  \/ exec.at \notin Working /\ exec'.at \notin Working,
           Recorded /\ exec'.at = "fail" /\ failures' = 0 => StepsSettled
    PROVE  EngineInv'
<1>1. /\ Valid /\ SourcesFirst /\ QueueFits
      /\ execution \in {"none", "pending", "running"}
      /\ exec.at = "again" => failures >= 1
      /\ exec.at \in Working => NodeFits
      /\ Recorded /\ exec.at \notin {"fail", "again"} => StepsFit
  BY DEF EngineInv, FlowFits
<1>2. (Recorded' <=> Recorded) /\ execution' \in {"none", "pending", "running"}
  BY <1>1 DEF Recorded
<1>3. failures \in Nat
  BY TypeIs
<1>4. Valid' /\ SourcesFirst' /\ QueueFits'
  BY <1>1, SameValid, QueueStays
<1>5. exec'.at \in Working => NodeFits'
  <2> SUFFICES ASSUME exec'.at \in Working
               PROVE  NodeFits'
    OBVIOUS
  <2>1. exec'.pruned = exec.pruned
    BY DEF Working
  <2>2. QED
    BY <1>1, <2>1, NodeStays
<1>6. Recorded /\ exec'.at \notin {"fail", "again"} => StepsFit'
  <2> SUFFICES ASSUME Recorded, exec'.at \notin {"fail", "again"}
               PROVE  StepsFit'
    OBVIOUS
  <2>1. StepsFit /\ exec'.pruned = exec.pruned
    BY <1>1
  <2>2. Reach(graph.edges, Cut)' = exec'.pruned
    BY <2>1, CutStays DEF StepsFit
  <2>3. Past' = Past
    BY DEF Past, Working
  <2>4. QED
    BY <2>1, <2>2, <2>3, SameGraph DEF StepsFit, Working
<1>7. StepsSettled => StepsSettled'
  BY SameGraph DEF StepsSettled
<1>8. FlowFits'
  BY <1>1, <1>2, <1>3, <1>4, <1>5, <1>6, <1>7 DEF FlowFits, Working
<1>9. NothingLeft'
  BY <1>2, SameGraph DEF EngineInv, NothingLeft
<1>10. InputsReady'
  BY InputsStay DEF EngineInv
<1>11. NoGhost' /\ ExactBranches' /\ EndedIsSettled'
  BY <1>2 DEF NoGhost, ExactBranches, EndedIsSettled
<1>12. QED
  BY <1>8, <1>9, <1>10, <1>11 DEF EngineInv

\* What the next node means for the execution.
LEMMA TakeIs ==
    ASSUME TakeNode
    PROVE  /\ exec # NoExec /\ exec.at = "take"
           /\ UNCHANGED <<shape, schedule, execution, step, output, crashed, failures, faults>>
           /\ exec.queue = <<>> => exec' = [exec EXCEPT !.at = "finish"]
           /\ exec.queue # <<>> =>
                  LET n == Head(exec.queue)
                      seen == exec.seen \cup {n}
                      freed == Targets(graph.edges, {n}) \cap Freed(seen)
                  IN \E more \in SetToSeqs(freed) :
                         LET e == [exec EXCEPT !.queue = Tail(@) \o more, !.seen = seen, !.node = n] IN
                         exec' = IF n \in Trigger THEN e
                                 ELSE IF n \in exec.pruned THEN [e EXCEPT !.at = "skip"]
                                 ELSE IF exec.count >= MaxSteps \/ exec.aborted
                                      THEN [e EXCEPT !.at = "fail"]
                                 ELSE [e EXCEPT !.at = "create", !.count = @ + 1]
BY Zenon DEF TakeNode, At

\* Steps between two writes to the steps.
LEMMA MoveKeeps ==
    ASSUME FlowInv,
           \/ MarkRunning \/ NodeReturns \/ NodeThrows \/ AgentRetries \/ TimeOut
           \/ TakeNode /\ exec.queue = <<>>
           \/ (CreateStep \/ SkipStep \/ StartStep \/ FailStep) /\ ~Recorded
    PROVE  FlowTypeOK' /\ EngineInv' /\ FaultsCount' /\ UNCHANGED <<shape, schedule>>
<1> USE DEF At
<1>1. /\ exec # NoExec /\ exec \in Exec /\ failures \in Nat /\ execution \in Execution
      /\ FlowTypeOK /\ EngineInv
  <2>1. exec # NoExec /\ FlowTypeOK /\ EngineInv
    BY TakeIs DEF FlowInv, MarkRunning, NodeReturns, NodeThrows, AgentRetries, TimeOut,
       CreateStep, SkipStep, StartStep, FailStep
  <2>2. QED
    BY <2>1, TypeIs
<1>2. /\ UNCHANGED <<shape, schedule, output, crashed, failures, faults>>
      /\ step' = step /\ (execution' = execution \/ (Recorded /\ execution' = "running"))
  BY TakeIs DEF MarkRunning, NodeReturns, NodeThrows, AgentRetries, TimeOut, CreateStep,
     SkipStep, StartStep, FailStep, SetExecution, SetStep
<1>3. /\ exec' \in Exec
      /\ exec'.queue = exec.queue /\ exec'.seen = exec.seen /\ exec'.node = exec.node
      /\ exec'.pruned = exec.pruned
      /\ \/ exec.at = "begin" /\ exec'.at = "take"
         \/ exec.at = "work" /\ exec'.at \in {"work", "save", "stepfail"}
         \/ exec.at \notin {"insert", "begin", "again"} /\ exec'.at = exec.at
         \/ exec.at = "take" /\ exec'.at = "finish" /\ exec.queue = <<>>
         \/ ~Recorded /\ exec'.at \in {"fail", "take"}
         \/ ~Recorded /\ exec.at = "start" /\ exec'.at = "work"
  <2>1. CASE MarkRunning
    BY <1>1, <2>1 DEF MarkRunning, Exec
  <2>2. CASE NodeReturns
    BY <1>1, <2>2 DEF NodeReturns, Exec
  <2>3. CASE NodeThrows
    BY <1>1, <2>3 DEF NodeThrows, Exec
  <2>4. CASE AgentRetries
    <3>1. exec.attempt + 1 \in 0..MaxRetries
      BY <1>1, <2>4, WorkflowAssumption DEF AgentRetries, Exec
    <3>2. QED
      BY <1>1, <2>4, <3>1 DEF AgentRetries, Exec
  <2>5. CASE TimeOut
    BY <1>1, <2>5 DEF TimeOut, Exec
  <2>6. CASE TakeNode /\ exec.queue = <<>>
    BY <1>1, <2>6, TakeIs DEF Exec
  <2>7. CASE (CreateStep \/ SkipStep \/ StartStep \/ FailStep) /\ ~Recorded
    BY <1>1, <2>7 DEF CreateStep, SkipStep, StartStep, FailStep, Exec
  <2>8. QED
    BY <2>1, <2>2, <2>3, <2>4, <2>5, <2>6, <2>7
<1>4. exec' # NoExec
  BY <1>1, <1>3, TypeIs
<1>5. Recorded /\ exec.at = "fail" /\ failures = 0 => StepsSettled
  BY <1>1 DEF EngineInv, FlowFits
<1>6. EngineInv'
  <2>1. /\ exec'.at \notin {"insert", "begin"}
        /\ exec'.at = "again" => exec.at = "again"
        /\ exec'.at = "finish" => exec.queue = <<>>
    <3>1. exec.at = "finish" => exec.queue = <<>>
      BY <1>1 DEF EngineInv, FlowFits
    <3>2. QED
      BY <1>3, <3>1
  <2>2. exec'.at \in Working => /\ exec.at \in Working
                                /\ exec'.at \in {"skip", "skipped"} <=> exec.at \in {"skip", "skipped"}
    BY <1>3 DEF Working
  <2>3. Recorded /\ exec'.at \notin {"fail", "again"} =>
            /\ exec.at \notin {"fail", "again"}
            /\ \/ exec'.at = exec.at
               \/ {exec.at, exec'.at} \subseteq {"work", "save", "stepfail"}
               \/ exec.at \notin Working /\ exec'.at \notin Working
    BY <1>3 DEF Working
  <2>4. Recorded /\ exec'.at = "fail" /\ failures = 0 => StepsSettled
    BY <1>3, <1>5
  <2>5. /\ shape' = shape /\ output' = output /\ failures' = failures /\ failures' \in Nat
        /\ failures <= failures'
    BY <1>1, <1>2
  <2>6. QED
    BY <1>1, <1>2, <1>3, <1>4, <2>1, <2>2, <2>3, <2>4, <2>5, MovesKeep
<1>7. FlowTypeOK'
  BY <1>1, <1>2, <1>3, TypeIs, TypeKept DEF Execution
<1>8. QED
  BY <1>2, <1>6, <1>7 DEF FlowInv, FaultsCount

\* What is common to the writes to the step of the node, of an execution that is
\* still there.
LEMMA WriteIs ==
    ASSUME FlowInv, Recorded,
           \/ SkipStep \/ StartStep \/ FailStep \/ CreateStep \/ SaveStep
    PROVE  /\ exec # NoExec /\ exec \in Exec /\ failures \in Nat /\ exec.node \in Nodes
           /\ exec.at \in Working
           /\ Valid /\ SourcesFirst /\ QueueFits /\ NodeFits /\ StepsFit
           /\ execution \in {"pending", "running"} /\ step \in [Nodes -> StepStatus]
           /\ UNCHANGED <<shape, schedule, execution, crashed, failures, faults>>
           /\ step[exec.node] \in {"none", "pending", "running"}
<1>1. /\ exec # NoExec /\ exec.at \in Working
      /\ UNCHANGED <<shape, schedule, execution, crashed, failures, faults>>
  BY DEF SkipStep, StartStep, FailStep, CreateStep, SaveStep, At, Working
<1>2. /\ exec \in Exec /\ failures \in Nat /\ step \in [Nodes -> StepStatus]
  BY <1>1, TypeIs DEF FlowInv
<1>3. /\ Valid /\ SourcesFirst /\ QueueFits /\ NodeFits /\ StepsFit
      /\ execution \in {"pending", "running"}
  BY <1>1 DEF FlowInv, EngineInv, FlowFits, Working, Recorded
<1>4. step[exec.node] \in {"none", "pending", "running"}
  BY <1>1, <1>3 DEF StepsFit, Working
<1>5. QED
  BY <1>1, <1>2, <1>3, <1>4 DEF Exec

\* A write of a status that is not final.
LEMMA WriteKeeps ==
    ASSUME FlowInv, Recorded, SkipStep \/ StartStep \/ FailStep \/ CreateStep
    PROVE  FlowTypeOK' /\ EngineInv' /\ FaultsCount' /\ UNCHANGED <<shape, schedule>>
<1>1. /\ exec # NoExec /\ exec \in Exec /\ failures \in Nat /\ exec.node \in Nodes
      /\ exec.at \in Working
      /\ Valid /\ SourcesFirst /\ QueueFits /\ NodeFits /\ StepsFit
      /\ execution \in {"pending", "running"} /\ step \in [Nodes -> StepStatus]
      /\ UNCHANGED <<shape, schedule, execution, crashed, failures, faults>>
      /\ step[exec.node] \in {"none", "pending", "running"}
  BY WriteIs
<1>2. PICK s, p :
          /\ step' = [step EXCEPT ![exec.node] = s] /\ exec' = [exec EXCEPT !.at = p]
          /\ output' = output
          /\ \/ exec.at = "skip" /\ p = "skipped" /\ s = "pending"
             \/ exec.at = "create" /\ p = "start" /\ s = "pending"
             \/ exec.at = "skipped" /\ p = "take" /\ s = "skipped"
             \/ exec.at = "start" /\ p = "work" /\ s = "running"
             \/ exec.at = "stepfail" /\ p = "fail" /\ s = "failed"
  BY <1>1 DEF SkipStep, StartStep, FailStep, CreateStep, SetStep, At
<1>3. /\ step' \in [Nodes -> StepStatus] /\ step'[exec.node] = s
      /\ \A n \in Nodes : n # exec.node => step'[n] = step[n]
      /\ exec' \in Exec /\ exec'.at = p
      /\ exec'.queue = exec.queue /\ exec'.seen = exec.seen /\ exec'.node = exec.node
      /\ exec'.pruned = exec.pruned
  BY <1>1, <1>2 DEF StepStatus, Exec
<1>4. exec' # NoExec /\ graph' = graph /\ Nodes' = Nodes /\ Trigger' = Trigger
  BY <1>1, <1>3, TypeIs, SameGraph DEF FlowInv
<1>5. \A e \in graph.edges : e.from \in Nodes /\ e.to \in Nodes
  BY <1>1, EdgesIn
<1>6. \A n \in Nodes : step'[n] = "completed" <=> step[n] = "completed"
  BY <1>1, <1>2, <1>3
<1>7. Cut' = Cut
  BY <1>2, <1>4, <1>5, <1>6 DEF Cut, Taken
<1>8. Valid' /\ SourcesFirst' /\ QueueFits'
  BY <1>1, <1>3, SameValid, QueueStays
<1>9. exec'.at \in Working => NodeFits'
  BY <1>1, <1>2, <1>3, NodeStays DEF Working
<1>10. exec'.at # "fail" => StepsFit'
  <2>1. exec'.pruned = Reach(graph.edges, Cut)'
    BY <1>1, <1>3, <1>7, SameReach DEF StepsFit
  <2>2. exec.node \in exec.seen \ Trigger /\ (exec.node \in exec.pruned <=> exec.at \in {"skip", "skipped"})
    BY <1>1 DEF NodeFits
  <2>3. CASE p = "take"
    <3>1. exec.at = "skipped" /\ s = "skipped" /\ Past = exec.seen \ {exec.node} /\ Past' = exec.seen
      BY <1>1, <1>2, <1>3, <2>3 DEF Past, Working
    <3>2. \A n \in Past' \ Trigger :
              step'[n] = IF n \in exec.pruned THEN "skipped" ELSE "completed"
      <4>1. \A n \in Past \ Trigger : n \in Nodes /\ n # exec.node
        BY <1>1, <3>1 DEF Exec
      <4>2. QED
        BY <1>1, <1>3, <2>2, <3>1, <4>1 DEF StepsFit
    <3>3. \A n \in Trigger \cup (Nodes \ exec.seen) : step'[n] = "none"
      BY <1>1, <1>3, <2>2, GraphIs DEF StepsFit, FlowInv
    <3>4. QED
      BY <1>3, <1>4, <2>1, <2>3, <3>2, <3>3 DEF StepsFit
  <2>4. CASE p \in {"skipped", "start", "work"}
    <3>1. Past = exec.seen \ {exec.node} /\ Past' = Past
      BY <1>1, <1>3, <2>4 DEF Past, Working
    <3>2. QED
      BY <1>1, <1>2, <1>3, <1>4, <2>1, <2>2, <2>4, <3>1 DEF StepsFit
  <2>5. QED
    BY <1>2, <1>3, <2>3, <2>4
<1>11. exec'.at = "fail" => StepsSettled'
  <2> SUFFICES ASSUME exec'.at = "fail"
               PROVE  StepsSettled'
    OBVIOUS
  <2>1. s = "failed" /\ \A n \in Nodes : n # exec.node => step[n] \in {"none", "skipped", "completed"}
    BY <1>1, <1>2, <1>3 DEF StepsFit, Past
  <2>2. \A n \in Nodes : n # exec.node => step'[n] \in {"none", "skipped", "completed"}
    BY <1>3, <2>1
  <2>3. QED
    BY <1>3, <1>4, <2>1, <2>2 DEF StepsSettled
<1>12. InputsReady'
  <2>1. \A e \in graph.edges : e.to = exec.node /\ exec.at \in {"start", "stepfail"} =>
            e.from \in Trigger \/ (step[e.from] = "completed" /\ Taken(e))
    BY <1>1, NodeHasInputs DEF FlowInv, EngineInv, Working
  <2>2. ASSUME NEW n \in Nodes, step'[n] \in {"running", "completed", "failed"},
               NEW e \in graph.edges, e.to = n
        PROVE  e.from \in Trigger \/ (step'[e.from] = "completed" /\ Taken(e)')
    <3>1. e.from \in Trigger \/ (step[e.from] = "completed" /\ Taken(e))
      BY <1>2, <1>3, <2>1, <2>2 DEF FlowInv, EngineInv, InputsReady
    <3>2. Taken(e)' <=> Taken(e)
      BY <1>2, <1>4 DEF Taken
    <3>3. QED
      BY <1>5, <1>6, <3>1, <3>2
  <2>3. QED
    BY <1>4, <2>2 DEF InputsReady
<1>13. FlowFits'
  BY <1>1, <1>2, <1>3, <1>4, <1>8, <1>9, <1>10, <1>11 DEF FlowFits, Working
<1>14. NothingLeft' /\ NoGhost' /\ ExactBranches' /\ EndedIsSettled'
  BY <1>1, <1>4 DEF NothingLeft, NoGhost, ExactBranches, EndedIsSettled, Recorded
<1>15. FlowTypeOK'
  BY <1>1, <1>2, <1>3, TypeIs, TypeKept DEF FlowInv
<1>16. QED
  BY <1>1, <1>12, <1>13, <1>14, <1>15 DEF FlowInv, EngineInv, FaultsCount

LEMMA SavedIs ==
    ASSUME FlowInv, SaveStep
    PROVE  /\ exec # NoExec /\ exec \in Exec /\ exec.at = "save" /\ exec' \in Exec /\ exec'.at = "take"
           /\ exec'.queue = exec.queue /\ exec'.seen = exec.seen /\ exec'.node = exec.node
           /\ exec'.pruned = IF graph.type[exec.node] = "condition"
                             THEN Pruned(exec.node, exec.verdict, exec.pruned) ELSE exec.pruned
           /\ UNCHANGED <<shape, schedule, execution, crashed, failures, faults>>
<1>1. exec # NoExec /\ exec \in Exec /\ exec.at = "save"
  BY TypeIs DEF FlowInv, SaveStep, At
<1>2. Pruned(exec.node, exec.verdict, exec.pruned) \in SUBSET Nodes
  BY <1>1 DEF Pruned, Reach, Exec
<1> DEFINE p == IF graph.type[exec.node] = "condition"
                THEN Pruned(exec.node, exec.verdict, exec.pruned) ELSE exec.pruned
<1>3. p \in SUBSET Nodes
  BY <1>1, <1>2 DEF Exec
<1>4. exec' = [exec EXCEPT !.at = "take", !.verdict = "none", !.attempt = 0, !.pruned = p]
  BY DEF SaveStep
<1> HIDE DEF p
<1>5. 0 \in 0..MaxRetries
  BY WorkflowAssumption
<1>6. exec' \in Exec
  BY <1>1, <1>3, <1>4, <1>5 DEF Exec
<1>7. /\ exec'.queue = exec.queue /\ exec'.seen = exec.seen /\ exec'.node = exec.node
      /\ exec'.at = "take" /\ exec'.pruned = p
  BY <1>1, <1>4 DEF Exec
<1>8. UNCHANGED <<shape, schedule, execution, crashed, failures, faults>>
  BY DEF SaveStep
<1>9. QED
  BY <1>1, <1>6, <1>7, <1>8 DEF p

\* The output is saved and branches are pruned.
LEMMA SaveKeeps ==
    ASSUME FlowInv, SaveStep
    PROVE  FlowTypeOK' /\ EngineInv' /\ FaultsCount' /\ UNCHANGED <<shape, schedule>>
<1>1. /\ exec # NoExec /\ exec \in Exec /\ exec.at = "save" /\ exec' \in Exec /\ exec'.at = "take"
      /\ exec'.queue = exec.queue /\ exec'.seen = exec.seen /\ exec'.node = exec.node
      /\ exec'.pruned = IF graph.type[exec.node] = "condition"
                        THEN Pruned(exec.node, exec.verdict, exec.pruned) ELSE exec.pruned
      /\ UNCHANGED <<shape, schedule, execution, crashed, failures, faults>>
  BY SavedIs
<1>2. /\ FlowTypeOK /\ EngineInv /\ failures \in Nat /\ execution \in Execution
      /\ step \in [Nodes -> StepStatus] /\ output \in [Nodes -> {"none", "true", "false"}]
      /\ exec' # NoExec
  BY <1>1, TypeIs DEF FlowInv
<1>3. /\ step' = IF Recorded THEN [step EXCEPT ![exec.node] = "completed"] ELSE step
      /\ output' = IF Recorded THEN [output EXCEPT ![exec.node] = exec.verdict] ELSE output
  BY DEF SaveStep, SetStep
<1>4. FlowTypeOK'
  <2>1. step' \in [Nodes -> StepStatus] /\ output' \in [Nodes -> {"none", "true", "false"}]
    BY <1>1, <1>2, <1>3 DEF StepStatus, Exec
  <2>2. QED
    BY <1>1, <1>2, <2>1, TypeIs, TypeKept
<1>5. CASE ~Recorded
  <2>1. step' = step /\ output' = output /\ failures' \in Nat /\ failures <= failures'
    BY <1>1, <1>2, <1>3, <1>5
  <2>2. exec'.at \notin Working
    BY <1>1 DEF Working
  <2>3. EngineInv'
    BY <1>1, <1>2, <1>5, <2>1, <2>2, MovesKeep
  <2>4. QED
    BY <1>1, <1>4, <2>3 DEF FlowInv, FaultsCount
<1>6. CASE Recorded
  <2> DEFINE n == exec.node
             v == exec.verdict
             edges == graph.edges
             S == exec.seen
             Y == Cut \cup Unfollowed
  <2>1. /\ Valid /\ SourcesFirst /\ QueueFits /\ NodeFits /\ StepsFit
        /\ execution \in {"pending", "running"}
    BY <1>6, WriteIs
  <2>2. /\ step'[n] = "completed" /\ output'[n] = v
        /\ \A m \in Nodes : m # n => step'[m] = step[m] /\ output'[m] = output[m]
        /\ n \in Nodes /\ S \in SUBSET Nodes
    BY <1>1, <1>2, <1>3, <1>6 DEF Exec
  <2>3. graph' = graph /\ Nodes' = Nodes /\ Trigger' = Trigger
    BY <1>1, SameGraph
  <2>4. \A e \in edges : e.from \in Nodes /\ e.to \in Nodes
    BY <2>1, EdgesIn
  <2>5. step[n] = "running" /\ n \in S \ Trigger /\ n \notin exec.pruned
    BY <1>1, <2>1 DEF StepsFit, NodeFits
  <2>6. Cut' = IF graph.type[n] = "condition" THEN Y ELSE Cut
    <3>1. ASSUME NEW d \in edges, d.from # n
          PROVE  (step'[d.from] = "completed" /\ ~Taken(d)') <=> (step[d.from] = "completed" /\ ~Taken(d))
      BY <2>2, <2>3, <2>4, <3>1 DEF Taken
    <3>2. ASSUME NEW d \in edges, d.from = n
          PROVE  /\ (step'[d.from] = "completed" /\ ~Taken(d)')
                       <=> graph.type[n] = "condition" /\ ~Follows(d.handle, v)
                 /\ step[d.from] # "completed"
      BY <2>2, <2>3, <2>5, <3>2 DEF Taken
    <3>3. Cut' = {e.to : e \in {d \in edges : step'[d.from] = "completed" /\ ~Taken(d)'}}
      BY <2>3 DEF Cut
    <3>4. Cut = {e.to : e \in {d \in edges : step[d.from] = "completed" /\ ~Taken(d)}}
      BY DEF Cut
    <3>5. Unfollowed = {e.to : e \in {d \in edges : d.from = n /\ ~Follows(d.handle, v)}}
      BY DEF Unfollowed
    <3>6. QED
      BY <3>1, <3>2, <3>3, <3>4, <3>5
  <2>7. /\ exec'.pruned = Reach(edges, Cut')
        /\ \A m \in S : m \in exec'.pruned <=> m \in exec.pruned
    <3>1. /\ Pruned(n, v, exec.pruned) = Reach(edges, Y)
          /\ Pruned(n, v, exec.pruned) \cap S = exec.pruned \cap S
      BY <2>1, <2>2, PrunedIs DEF StepsFit
    <3>2. exec.pruned = Reach(edges, Cut)
      BY <2>1 DEF StepsFit
    <3>3. QED
      BY <1>1, <2>6, <3>1, <3>2
  <2>8. StepsFit'
    <3>1. exec'.pruned = Reach(graph.edges, Cut)'
      BY <2>3, <2>7 DEF Reach, Targets
    <3>2. Past' = S /\ Past = S \ {n}
      BY <1>1 DEF Past, Working
    <3>3. \A m \in S \ Trigger : step'[m] = IF m \in exec'.pruned THEN "skipped" ELSE "completed"
      BY <2>1, <2>2, <2>5, <2>7, <3>2 DEF StepsFit
    <3>4. \A m \in Trigger \cup (Nodes \ S) : step'[m] = "none"
      <4>1. Trigger \subseteq Nodes
        BY <1>2, GraphIs
      <4>2. QED
        BY <2>1, <2>2, <2>5, <4>1 DEF StepsFit
    <3>5. QED
      BY <1>1, <2>3, <3>1, <3>2, <3>3, <3>4 DEF StepsFit
  <2>9. InputsReady'
    <3>1. ASSUME NEW m \in Nodes, step'[m] \in {"running", "completed", "failed"},
                 NEW e \in edges, e.to = m
          PROVE  e.from \in Trigger \/ (step'[e.from] = "completed" /\ Taken(e)')
      <4>1. step[m] \in {"running", "completed", "failed"}
        BY <2>2, <2>5, <3>1
      <4>2. e.from \in Trigger \/ (step[e.from] = "completed" /\ Taken(e))
        BY <1>2, <3>1, <4>1 DEF EngineInv, InputsReady
      <4>3. CASE e.from \notin Trigger
        <5>1. e.from # n /\ e.from \in Nodes
          BY <2>4, <2>5, <4>2, <4>3
        <5>2. QED
          BY <2>2, <2>3, <4>2, <4>3, <5>1 DEF Taken
      <4>4. QED
        BY <4>3
    <3>2. QED
      BY <2>3, <3>1 DEF InputsReady
  <2>10. Valid' /\ SourcesFirst' /\ QueueFits'
    BY <1>1, <2>1, SameValid, QueueStays
  <2>11. FlowFits'
    BY <1>1, <2>1, <2>8, <2>10 DEF FlowFits, Working
  <2>12. NothingLeft' /\ NoGhost' /\ ExactBranches' /\ EndedIsSettled'
    BY <1>1, <1>2, <2>1 DEF NothingLeft, NoGhost, ExactBranches, EndedIsSettled, Recorded
  <2>13. QED
    BY <1>1, <1>4, <2>9, <2>11, <2>12 DEF FlowInv, EngineInv, FaultsCount
<1>7. QED
  BY <1>5, <1>6

\* What the queue is after the node n was taken off it: the nodes it frees are
\* those that are freed now and were not before.
LEMMA FreedIs ==
    ASSUME SourcesFirst, \A e \in graph.edges : e.from \in Nodes /\ e.to \in Nodes,
           NEW n \in Freed(exec.seen) \ exec.seen
    PROVE  LET seen  == exec.seen \cup {n}
               freed == Targets(graph.edges, {n}) \cap Freed(seen)
           IN /\ \A e \in graph.edges : e.to \in seen => e.from \in seen
              /\ \A e \in graph.edges : /\ e.to = n => e.from # n
                                        /\ e.from = n => e.to \notin seen
              /\ freed \cap (Freed(exec.seen) \ exec.seen) = {}
              /\ Freed(seen) \ seen = ((Freed(exec.seen) \ exec.seen) \ {n}) \cup freed
<1> DEFINE old == exec.seen
           seen == old \cup {n}
           freed == Targets(graph.edges, {n}) \cap Freed(seen)
           edges == graph.edges
<1>1. /\ n \in Nodes /\ n \notin old /\ \A e \in edges : e.to = n => e.from \in old
      /\ \A e \in edges : e.to \in old => e.from \in old
      /\ \A e \in edges : e.from \in Nodes /\ e.to \in Nodes
  BY DEF Freed, SourcesFirst
<1>2. \A m : m \in Targets(edges, {n}) <=> \E e \in edges : e.from = n /\ e.to = m
  BY DEF Targets
<1>3. /\ \A m : m \in Freed(seen) <=> m \in Nodes /\ \A e \in edges : e.to = m => e.from \in seen
      /\ \A m : m \in Freed(old) <=> m \in Nodes /\ \A e \in edges : e.to = m => e.from \in old
  BY DEF Freed
<1>4. \A e \in edges : e.to \in seen => e.from \in seen
  BY <1>1
<1>5. \A e \in edges : (e.to = n => e.from # n) /\ (e.from = n => e.to \notin seen)
  BY <1>1
<1>6. freed \cap (Freed(old) \ old) = {}
  <2> SUFFICES ASSUME NEW m \in freed, m \in Freed(old)
               PROVE  FALSE
    OBVIOUS
  <2>1. PICK e \in edges : e.from = n /\ e.to = m
    BY <1>2
  <2>2. QED
    BY <1>1, <1>3, <2>1
<1>7. ASSUME NEW m \in Freed(seen) \ seen
      PROVE  m \in ((Freed(old) \ old) \ {n}) \cup freed
  BY <1>2, <1>3
<1>8. ASSUME NEW m \in ((Freed(old) \ old) \ {n}) \cup freed
      PROVE  m \in Freed(seen) \ seen
  <2>1. CASE m \in freed
    <3>1. PICK e \in edges : e.from = n /\ e.to = m
      BY <1>2, <2>1
    <3>2. QED
      BY <1>5, <2>1, <3>1
  <2>2. CASE m \in (Freed(old) \ old) \ {n}
    BY <1>3, <2>2
  <2>3. QED
    BY <2>1, <2>2
<1>9. QED
  BY <1>4, <1>5, <1>6, <1>7, <1>8

\* The next node is taken.
LEMMA TakeKeeps ==
    ASSUME FlowInv, TakeNode, exec.queue # <<>>
    PROVE  FlowTypeOK' /\ EngineInv' /\ FaultsCount' /\ UNCHANGED <<shape, schedule>>
<1> DEFINE n == Head(exec.queue)
           seen == exec.seen \cup {n}
           freed == Targets(graph.edges, {n}) \cap Freed(seen)
<1>1. /\ exec # NoExec /\ exec \in Exec /\ exec.at = "take" /\ FlowTypeOK /\ EngineInv
      /\ execution \in {"none", "pending", "running"} /\ failures \in Nat
      /\ Valid /\ SourcesFirst /\ QueueFits /\ (Recorded => StepsFit)
  <2>1. exec # NoExec /\ exec.at = "take"
    BY TakeIs
  <2>2. QED
    BY <2>1, TypeIs DEF FlowInv, EngineInv, FlowFits
<1>2. PICK more \in SetToSeqs(freed) :
          LET e == [exec EXCEPT !.queue = Tail(@) \o more, !.seen = seen, !.node = n] IN
          exec' = IF n \in Trigger THEN e
                  ELSE IF n \in exec.pruned THEN [e EXCEPT !.at = "skip"]
                  ELSE IF exec.count >= MaxSteps \/ exec.aborted THEN [e EXCEPT !.at = "fail"]
                  ELSE [e EXCEPT !.at = "create", !.count = @ + 1]
  BY TakeIs
<1>3. UNCHANGED <<shape, schedule, execution, step, output, crashed, failures, faults>>
  BY TakeIs
<1> DEFINE q == exec.queue
           r == Tail(q) \o more
<1>4. /\ q \in Seq(Nodes) /\ q # <<>> /\ IsInjective(q)
      /\ ToSet(q) = Freed(exec.seen) \ exec.seen
  BY <1>1 DEF QueueFits, Exec
<1>5. freed \in SUBSET Nodes /\ IsFiniteSet(freed)
  <2>1. IsFiniteSet(Nodes)
    BY <1>1, GraphIs
  <2>2. freed \in SUBSET Nodes
    BY DEF Freed
  <2>3. QED
    BY <2>1, <2>2, FS_Subset
<1>6. /\ more \in Seq(freed) /\ IsInjective(more)
      /\ ToSet(more) = freed
  <2> HIDE DEF freed
  <2>1. QED
    BY <1>5, OrderIs
<1>7. \A e \in graph.edges : e.from \in Nodes /\ e.to \in Nodes
  BY <1>1, EdgesIn
<1>8. n \in Freed(exec.seen) \ exec.seen /\ n \in Nodes
  <2>1. q[1] = n /\ 1 \in 1..Len(q)
    BY <1>4
  <2>2. n \in ToSet(q)
    BY <2>1 DEF ToSet
  <2>3. QED
    BY <1>4, <2>2 DEF Freed
<1>9. /\ \A e \in graph.edges : e.to \in seen => e.from \in seen
      /\ \A e \in graph.edges : (e.to = n => e.from # n) /\ (e.from = n => e.to \notin seen)
      /\ freed \cap (Freed(exec.seen) \ exec.seen) = {}
      /\ Freed(seen) \ seen = ((Freed(exec.seen) \ exec.seen) \ {n}) \cup freed
  BY <1>1, <1>7, <1>8, FreedIs
<1>10. /\ r \in Seq(Nodes) /\ IsInjective(r)
       /\ ToSet(r) = Freed(seen) \ seen
  <2>1. ToSet(q) \cap freed = {} /\ n = Head(q) /\ r = Tail(q) \o more
    BY <1>4, <1>9
  <2>2. Freed(seen) \ seen = (ToSet(q) \ {n}) \cup freed
    BY <1>4, <1>9
  <2> HIDE DEF freed
  <2>3. Follow(q, freed, more)
    BY <1>4, <1>5, <1>6, <2>1 DEF Follow
  <2> HIDE DEF n, seen, q, r
  <2>4. /\ r \in Seq(Nodes) /\ IsInjective(r)
        /\ ToSet(r) = (ToSet(q) \ {Head(q)}) \cup freed
    BY ONLY <2>1, <2>3, QueueIs
  <2>5. QED
    BY <2>1, <2>2, <2>4
<1> HIDE DEF freed, r, q, n, seen
<1>11. /\ exec' \in Exec /\ exec' # NoExec
       /\ exec'.queue = r /\ exec'.seen = seen /\ exec'.node = n /\ exec'.pruned = exec.pruned
       /\ \/ n \in Trigger /\ exec'.at = "take"
          \/ n \notin Trigger /\ n \in exec.pruned /\ exec'.at = "skip"
          \/ n \notin Trigger /\ n \notin exec.pruned /\ exec'.at \in {"fail", "create"}
  <2> DEFINE e == [exec EXCEPT !.queue = r, !.seen = seen, !.node = n]
  <2>1. e \in Exec /\ e.at = "take" /\ e.queue = r /\ e.seen = seen /\ e.node = n
        /\ e.pruned = exec.pruned /\ e.count = exec.count
    BY <1>1, <1>8, <1>10 DEF Exec, seen
  <2>2. exec' = IF n \in Trigger THEN e
                ELSE IF n \in exec.pruned THEN [e EXCEPT !.at = "skip"]
                ELSE IF exec.count >= MaxSteps \/ exec.aborted THEN [e EXCEPT !.at = "fail"]
                ELSE [e EXCEPT !.at = "create", !.count = @ + 1]
    BY <1>2 DEF r, q, n, seen
  <2> HIDE DEF e
  <2>3. exec.count \in 0..MaxSteps /\ MaxSteps \in Nat
    BY <1>1, WorkflowAssumption DEF Exec
  <2>4. CASE n \in Trigger
    BY <1>1, <2>1, <2>2, <2>4, TypeIs
  <2>5. CASE n \notin Trigger /\ n \in exec.pruned
    <3>1. exec' = [e EXCEPT !.at = "skip"]
      BY <2>2, <2>5
    <3>2. exec' \in Exec
      BY <2>1, <3>1 DEF Exec
    <3>3. QED
      BY <1>1, <2>1, <2>5, <3>1, <3>2, TypeIs DEF Exec
  <2>6. CASE n \notin Trigger /\ n \notin exec.pruned /\ (exec.count >= MaxSteps \/ exec.aborted)
    <3>1. exec' = [e EXCEPT !.at = "fail"]
      BY <2>2, <2>6
    <3>2. exec' \in Exec
      BY <2>1, <3>1 DEF Exec
    <3>3. QED
      BY <1>1, <2>1, <2>6, <3>1, <3>2, TypeIs DEF Exec
  <2>7. CASE n \notin Trigger /\ n \notin exec.pruned /\ ~(exec.count >= MaxSteps \/ exec.aborted)
    <3>1. exec' = [e EXCEPT !.at = "create", !.count = @ + 1]
      BY <2>2, <2>7
    <3>2. e.count + 1 \in 0..MaxSteps
      BY <2>1, <2>3, <2>7
    <3>3. exec' \in Exec
      BY <2>1, <3>1, <3>2 DEF Exec
    <3>4. QED
      BY <1>1, <2>1, <2>7, <3>1, <3>3, TypeIs DEF Exec
  <2>8. QED
    BY <2>4, <2>5, <2>6, <2>7
<1>12. graph' = graph /\ Nodes' = Nodes /\ Trigger' = Trigger
  BY <1>3, SameGraph
<1>13. SourcesFirst' /\ QueueFits'
  <2>1. Freed(exec.seen)' = Freed(seen)
    BY <1>11, <1>12 DEF Freed
  <2>2. IsInjective(exec'.queue) /\ ToSet(exec'.queue) = Freed(seen) \ seen
    BY <1>10, <1>11
  <2>3. QED
    BY <1>9, <1>10, <1>11, <1>12, <2>1, <2>2 DEF SourcesFirst, QueueFits
<1>14. exec'.at \in Working => NodeFits'
  BY <1>9, <1>11, <1>12 DEF NodeFits, Working, seen
<1>15. Recorded /\ exec'.at # "fail" => StepsFit'
  <2> SUFFICES ASSUME Recorded, exec'.at # "fail"
               PROVE  StepsFit'
    OBVIOUS
  <2>1. exec'.pruned = Reach(graph.edges, Cut)'
    BY <1>1, <1>3, <1>11, CutStays DEF StepsFit
  <2>2. Past = exec.seen /\ n \notin exec.seen
    BY <1>1, <1>8 DEF Past, Working
  <2>3. step[n] = "none"
    BY <1>1, <1>8, <2>2 DEF StepsFit
  <2>4. Past' \ Trigger = Past \ Trigger
    BY <1>11, <2>2 DEF Past, Working, seen
  <2>5. \A m \in Past' \ Trigger : step'[m] = IF m \in exec'.pruned THEN "skipped" ELSE "completed"
    BY <1>1, <1>3, <1>11, <2>4 DEF StepsFit
  <2>6. \A m \in Trigger \cup (Nodes \ exec'.seen) : step'[m] = "none"
    BY <1>1, <1>3, <1>11 DEF StepsFit, seen
  <2>7. QED
    BY <1>11, <1>12, <1>3, <2>1, <2>3, <2>5, <2>6 DEF StepsFit
<1>16. Recorded => StepsSettled'
  <2>1. Recorded => StepsSettled
    BY <1>1, PastIsSettled DEF Working
  <2>2. QED
    BY <1>3, <1>12, <2>1 DEF StepsSettled
<1>17. FlowFits'
  <2>1. Valid' /\ (Recorded' <=> Recorded)
    BY <1>1, <1>3, SameValid DEF Recorded
  <2>2. exec'.at \in {"take", "skip", "fail", "create"}
    BY <1>11
  <2>3. QED
    BY <1>1, <1>3, <1>13, <1>14, <1>15, <1>16, <2>1, <2>2 DEF FlowFits
<1>18. InputsReady'
  BY <1>1, <1>3, InputsStay DEF EngineInv
<1>19. NothingLeft' /\ NoGhost' /\ ExactBranches' /\ EndedIsSettled'
  BY <1>1, <1>3, <1>11, <1>12 DEF EngineInv, NothingLeft, NoGhost, ExactBranches, EndedIsSettled, Recorded
<1>20. FlowTypeOK'
  BY <1>1, <1>3, <1>11, TypeIs, TypeKept
<1>21. QED
  BY <1>3, <1>17, <1>18, <1>19, <1>20 DEF FlowInv, EngineInv, FaultsCount

\* A step after which nobody executes: nothing is lost of the steps, and an
\* execution that has not ended is excused.
LEMMA IdleKeeps ==
    ASSUME FlowInv, shape' = shape, exec' = NoExec, step' = step, output' = output,
           execution' \in {"pending", "running"} => crashed' \/ failures' >= 2,
           failures' = 0 => failures = 0,
           Recorded' <=> Recorded, ExactBranches', EndedIsSettled'
    PROVE  EngineInv'
<1>1. FlowFits'
  BY DEF FlowFits
<1>2. NothingLeft'
  BY SameGraph DEF FlowInv, EngineInv, NothingLeft
<1>3. InputsReady'
  BY InputsStay DEF FlowInv, EngineInv
<1>4. NoGhost'
  BY DEF NoGhost
<1>5. QED
  BY <1>1, <1>2, <1>3, <1>4 DEF EngineInv

LEMMA FailureKeeps ==
    ASSUME FlowInv, QueryFails
    PROVE  FlowTypeOK' /\ EngineInv' /\ FaultsCount' /\ UNCHANGED <<shape, schedule>>
<1>1. /\ exec # NoExec /\ exec \in Exec /\ failures \in 0..MaxFaults /\ faults \in 0..MaxFaults
      /\ MaxFaults \in Nat /\ failures <= faults /\ FlowTypeOK /\ EngineInv
  <2>1. exec # NoExec /\ FlowTypeOK /\ EngineInv /\ failures <= faults
    BY DEF FlowInv, FaultsCount, QueryFails
  <2>2. QED
    BY <2>1, TypeIs
<1>2. /\ UNCHANGED <<shape, schedule, execution, step, output, crashed>>
      /\ failures' = failures + 1 /\ faults' = faults + 1 /\ faults < MaxFaults
  BY DEF QueryFails, Fault
<1>3. failures' \in 0..MaxFaults /\ faults' \in 0..MaxFaults /\ failures' <= faults' /\ failures' >= 1
  BY <1>1, <1>2
<1>4. \/ exec.at \in {"insert", "again"} /\ exec' = NoExec
      \/ /\ exec' = [exec EXCEPT !.at = "stepfail"] /\ exec.at = "save"
      \/ /\ exec' = [exec EXCEPT !.at = "again"]
      \/ /\ exec' = [exec EXCEPT !.at = "fail"]
  BY DEF QueryFails, AfterError
<1>5. CASE exec' = NoExec
  <2>1. exec.at \in {"insert", "again"}
    <3>1. \A p : [exec EXCEPT !.at = p] # NoExec
      BY <1>1 DEF Exec, NoExec
    <3>2. QED
      BY <1>4, <1>5, <3>1
  <2>2. execution \in {"pending", "running"} => failures' >= 2
    <3>1. CASE exec.at = "insert"
      BY <1>1, <3>1 DEF EngineInv, FlowFits
    <3>2. CASE exec.at = "again"
      BY <1>1, <1>2, <3>2 DEF EngineInv, FlowFits
    <3>3. QED
      BY <2>1, <3>1, <3>2
  <2>3. ExactBranches'
    BY <1>1, <1>2, BranchesStay DEF EngineInv
  <2>4. EndedIsSettled'
    BY <1>3 DEF EndedIsSettled
  <2>5. EngineInv'
    BY <1>2, <1>3, <1>5, <2>2, <2>3, <2>4, IdleKeeps DEF Recorded
  <2>6. FlowTypeOK'
    BY <1>1, <1>2, <1>3, <1>5, TypeIs, TypeKept
  <2>7. QED
    BY <1>2, <1>3, <2>5, <2>6 DEF FaultsCount
<1>6. CASE exec' # NoExec
  <2>1. /\ exec' \in Exec /\ exec'.queue = exec.queue /\ exec'.seen = exec.seen
        /\ exec'.node = exec.node /\ exec'.pruned = exec.pruned
        /\ \/ exec.at = "save" /\ exec'.at = "stepfail"
           \/ exec'.at \in {"again", "fail"}
    BY <1>1, <1>4, <1>6 DEF Exec
  <2>2. failures' \in Nat /\ failures <= failures' /\ failures' # 0
    BY <1>1, <1>2, <1>3
  <2>3. EngineInv'
    BY <1>1, <1>2, <1>3, <1>6, <2>1, <2>2, MovesKeep DEF Working
  <2>4. FlowTypeOK'
    BY <1>1, <1>2, <1>3, <2>1, TypeIs, TypeKept
  <2>5. QED
    BY <1>2, <1>3, <2>3, <2>4 DEF FaultsCount
<1>7. QED
  BY <1>5, <1>6

LEMMA FinishKeeps ==
    ASSUME FlowInv, FinishExecution
    PROVE  FlowTypeOK' /\ EngineInv' /\ FaultsCount' /\ UNCHANGED <<shape, schedule>>
<1>1. /\ exec # NoExec /\ FlowTypeOK /\ EngineInv /\ exec' = NoExec
      /\ UNCHANGED <<shape, schedule, step, output, crashed, failures, faults>>
      /\ exec.at \in {"finish", "fail", "again"}
      /\ execution' = IF Recorded THEN (IF exec.at = "finish" THEN "completed" ELSE "failed") ELSE execution
  BY DEF FlowInv, FinishExecution, SetExecution
<1>2. exec \in Exec /\ failures \in Nat
  BY <1>1, TypeIs
<1>3. /\ Valid /\ QueueFits
      /\ exec.at = "finish" => exec.queue = <<>>
      /\ Recorded /\ exec.at = "finish" => StepsFit
      /\ Recorded /\ exec.at = "fail" /\ failures = 0 => StepsSettled
      /\ exec.at = "again" => failures >= 1
  BY <1>1 DEF EngineInv, FlowFits
<1>4. graph' = graph /\ Nodes' = Nodes /\ Trigger' = Trigger
  BY <1>1, SameGraph
<1>5. ExactBranches'
  <2> SUFFICES ASSUME Recorded, exec.at = "finish"
               PROVE  ExactBranches'
    BY <1>1 DEF ExactBranches, Recorded
  <2>1. exec.seen = Nodes
    <3>1. ToSet(exec.queue) = {}
      <4>1. exec.queue = <<>>
        BY <1>3
      <4>2. QED
        BY <4>1 DEF ToSet
    <3>2. Freed(exec.seen) \subseteq exec.seen /\ exec.seen \in SUBSET Nodes
      BY <1>2, <1>3, <3>1 DEF QueueFits, Exec
    <3>3. QED
      BY <1>3, <3>2, SortedIs
  <2>2. /\ exec.pruned = Reach(graph.edges, Cut)
        /\ \A n \in Nodes \ Trigger : step[n] = IF n \in exec.pruned THEN "skipped" ELSE "completed"
    BY <1>3, <2>1 DEF StepsFit, Past, Working
  <2>3. exec.pruned = Reach(graph.edges, Cut)'
    BY <1>1, <2>2, CutStays
  <2>4. Reach(graph.edges, Cut)' =
            Reach(graph.edges, {e.to : e \in {d \in graph.edges : step[d.from] = "completed" /\ ~Taken(d)}})'
    BY DEF Cut
  <2>5. QED
    BY <1>1, <1>4, <2>2, <2>3, <2>4 DEF ExactBranches
<1>6. EndedIsSettled'
  <2>1. failures = 0 /\ Recorded => StepsSettled
    BY <1>1, <1>3, PastIsSettled DEF Working
  <2>2. StepsSettled => StepsSettled'
    BY <1>1, <1>4 DEF StepsSettled
  <2>3. ~Recorded => execution' = "none"
    BY <1>1 DEF Recorded
  <2>4. QED
    BY <1>1, <2>1, <2>2, <2>3 DEF EndedIsSettled
<1>7. EngineInv'
  BY <1>1, <1>5, <1>6, IdleKeeps DEF Recorded
<1>8. FlowTypeOK'
  <2>1. execution' \in Execution
    BY <1>1, TypeIs DEF Execution
  <2>2. QED
    BY <1>1, <2>1, TypeIs, TypeKept
<1>9. QED
  BY <1>1, <1>7, <1>8 DEF FlowInv, FaultsCount

LEMMA InsertKeeps ==
    ASSUME FlowInv, InsertExecution
    PROVE  FlowTypeOK' /\ EngineInv' /\ FaultsCount' /\ UNCHANGED <<shape, schedule>>
<1>1. /\ exec # NoExec /\ exec.at = "insert" /\ FlowTypeOK /\ EngineInv
      /\ UNCHANGED <<shape, schedule, step, output, crashed, failures, faults>>
  BY DEF FlowInv, InsertExecution, At
<1>2. /\ exec \in Exec /\ execution = "none" /\ exec.seen = {} /\ exec.pruned = {}
      /\ Valid /\ SourcesFirst /\ QueueFits /\ \A n \in Nodes : step[n] = "none"
  BY <1>1, TypeIs DEF EngineInv, FlowFits, NothingLeft, Recorded
<1>3. CASE ~Present
  <2>1. exec' = NoExec /\ execution' = execution
    BY <1>3 DEF InsertExecution
  <2>2. ExactBranches' /\ EndedIsSettled'
    BY <1>2, <2>1 DEF ExactBranches, EndedIsSettled
  <2>3. EngineInv'
    BY <1>1, <1>2, <2>1, <2>2, IdleKeeps DEF Recorded
  <2>4. FlowTypeOK'
    BY <1>1, <2>1, TypeIs, TypeKept
  <2>5. QED
    BY <1>1, <2>3, <2>4 DEF FlowInv, FaultsCount
<1>4. CASE Present
  <2>1. execution' = "pending" /\ exec' = [exec EXCEPT !.at = "begin"]
    BY <1>4 DEF InsertExecution
  <2>2. /\ exec' \in Exec /\ exec' # NoExec /\ exec'.at = "begin"
        /\ exec'.queue = exec.queue /\ exec'.seen = {} /\ exec'.pruned = {}
    BY <1>1, <1>2, <2>1, TypeIs DEF Exec
  <2>3. Valid' /\ SourcesFirst' /\ QueueFits'
    BY <1>1, <1>2, <2>2, SameValid, QueueStays
  <2>4. Reach(graph.edges, Cut) = {}
    <3>1. \A e \in graph.edges : e.from \in Nodes /\ e.to \in Nodes
      BY <1>2, EdgesIn
    <3>2. Cut = {}
      BY <1>2, <3>1 DEF Cut
    <3>3. {} \in SUBSET Nodes /\ Cut \subseteq {} /\ \A e \in graph.edges : e.from \in {} => e.to \in {}
      BY <3>2
    <3>4. QED
      BY <3>1, <3>2, <3>3, ReachIs
  <2>5. StepsFit'
    <3>1. exec'.pruned = Reach(graph.edges, Cut)'
      BY <1>1, <2>2, <2>4, CutStays
    <3>2. Past' = {} /\ Trigger' \subseteq Nodes'
      BY <1>1, <2>2, GraphIs, SameGraph DEF Past
    <3>3. \A n \in Nodes' : step'[n] = "none"
      BY <1>1, <1>2, SameGraph
    <3>4. QED
      BY <2>2, <3>1, <3>2, <3>3 DEF StepsFit
  <2>6. FlowFits'
    BY <2>1, <2>2, <2>3, <2>5 DEF FlowFits, Working
  <2>7. InputsReady'
    BY <1>1, InputsStay DEF EngineInv
  <2>8. NothingLeft' /\ NoGhost' /\ ExactBranches' /\ EndedIsSettled'
    BY <2>1, <2>2 DEF NothingLeft, NoGhost, ExactBranches, EndedIsSettled, Recorded
  <2>9. FlowTypeOK'
    BY <1>1, <2>1, <2>2, TypeIs, TypeKept DEF Execution
  <2>10. QED
    BY <1>1, <2>6, <2>7, <2>8, <2>9 DEF FlowInv, EngineInv, FaultsCount
<1>5. QED
  BY <1>3, <1>4

\* There is one trigger, and it is what topologicalSort begins with.
TriggerLeads == (\E t \in Nodes : Trigger = {t}) /\ Freed({}) = Trigger

LEMMA TriggerFits ==
    FlowTypeOK /\ Valid => TriggerLeads
BY TriggerIs DEF TriggerLeads

LEMMA BeginKeeps ==
    ASSUME FlowInv, Begin
    PROVE  FlowInv'
<1>1. /\ execution' = "none" /\ shape' \in Shapes /\ Valid'
      /\ step' = [n \in Nodes' |-> "none"] /\ output' = [n \in Nodes' |-> "none"]
      /\ UNCHANGED <<schedule, crashed, failures, faults>>
      /\ FlowTypeOK /\ FaultsCount
  BY DEF FlowInv, Begin, Present
<1>2. PICK t \in Trigger' :
          exec' = [at |-> "insert", queue |-> <<t>>, seen |-> {}, node |-> t, pruned |-> {},
                   count |-> 0, attempt |-> 0, verdict |-> "none", aborted |-> FALSE]
  BY DEF Begin
<1>3. t \in Nodes'
  BY DEF Trigger, OfType
<1>4. exec' \in Exec'
  <2>1. 0 \in 0..MaxSteps /\ 0 \in 0..MaxRetries /\ <<t>> \in Seq(Nodes')
    BY <1>3, WorkflowAssumption
  <2>2. QED
    BY <1>2, <1>3, <2>1 DEF Exec
<1>5. FlowTypeOK'
  BY <1>1, <1>4 DEF FlowTypeOK, schedule
<1>6. Freed({})' = {t}
  <2>1. FlowTypeOK' /\ Valid' => TriggerLeads'
    BY TriggerFits, PTL
  <2>2. QED
    BY <1>1, <1>2, <1>5, <2>1 DEF TriggerLeads
<1>7. QueueFits'
  <2>1. IsInjective(exec'.queue) /\ ToSet(exec'.queue) = {t}
    BY <1>2 DEF IsInjective, ToSet
  <2>2. Freed(exec.seen)' = {t}
    BY <1>2, <1>6 DEF Freed
  <2>3. QED
    BY <1>2, <2>1, <2>2 DEF QueueFits
<1>8. FlowFits'
  BY <1>1, <1>2, <1>7 DEF FlowFits, SourcesFirst, Working, Recorded
<1>9. InputsReady' /\ NothingLeft' /\ NoGhost' /\ ExactBranches' /\ EndedIsSettled'
  BY <1>1 DEF InputsReady, NothingLeft, NoGhost, ExactBranches, EndedIsSettled, Recorded
<1>10. QED
  BY <1>1, <1>5, <1>8, <1>9 DEF FlowInv, EngineInv, FaultsCount

\* The workflow is deleted, with the execution and its steps.
LEMMA DeleteKeeps ==
    ASSUME FlowInv, Delete
    PROVE  FlowInv'
<1>1. /\ wf' = "deleted" /\ execution' = "none"
      /\ step' = [n \in Nodes |-> "none"] /\ output' = [n \in Nodes |-> "none"]
      /\ UNCHANGED <<shape, edits, exec, crashed, failures, faults>>
      /\ FlowTypeOK /\ EngineInv /\ FaultsCount
  BY DEF Delete, FlowInv
<1>2. graph' = graph /\ Nodes' = Nodes /\ Trigger' = Trigger /\ Exec' = Exec
  BY <1>1, SameGraph
<1>3. FlowTypeOK'
  BY <1>1, <1>2 DEF FlowTypeOK
<1>4. FlowFits'
  <2> SUFFICES ASSUME exec # NoExec
               PROVE  FlowFits'
    BY <1>1 DEF FlowFits, NoExec
  <2>1. Valid' /\ SourcesFirst' /\ QueueFits'
    BY <1>1, SameValid, QueueStays DEF EngineInv, FlowFits
  <2>2. exec.at \in Working => NodeFits'
    BY <1>1, NodeStays DEF EngineInv, FlowFits
  <2>3. QED
    BY <1>1, <2>1, <2>2 DEF EngineInv, FlowFits, Recorded, Working
<1>5. NothingLeft' /\ InputsReady' /\ NoGhost' /\ ExactBranches' /\ EndedIsSettled'
  BY <1>1, <1>2 DEF NothingLeft, InputsReady, NoGhost, ExactBranches, EndedIsSettled
<1>6. QED
  BY <1>1, <1>3, <1>4, <1>5 DEF FlowInv, EngineInv, FaultsCount

\* The web process dies, with its requests and its execution.
LEMMA CrashKeeps ==
    ASSUME FlowInv, Crash
    PROVE  FlowInv'
<1>1. /\ UNCHANGED <<shape, wf, execution, step, output, failures>>
      /\ edits' = [r \in Requests |-> IF r \in Open THEN "done" ELSE edits[r]]
      /\ exec' = NoExec /\ crashed' = (crashed \/ exec # NoExec)
      /\ faults < MaxFaults /\ faults' = faults + 1
      /\ FlowTypeOK /\ EngineInv /\ FaultsCount
  BY DEF Crash, Fault, FlowInv
<1>2. faults' \in 0..MaxFaults /\ FaultsCount'
  BY <1>1, TypeIs DEF FaultsCount
<1>3. ExactBranches' /\ EndedIsSettled' /\ InputsReady' /\ NothingLeft' /\ FlowFits'
  <2>1. ExactBranches' /\ InputsReady'
    BY <1>1, BranchesStay, InputsStay DEF EngineInv
  <2>2. EndedIsSettled' /\ NothingLeft' /\ FlowFits'
    BY <1>1, SameGraph DEF EngineInv, EndedIsSettled, StepsSettled, NothingLeft, Recorded, FlowFits
  <2>3. QED
    BY <2>1, <2>2
<1>4. NoGhost'
  BY <1>1, Zenon DEF EngineInv, NoGhost
<1>5. FlowTypeOK'
  <2>1. edits' \in [Requests -> Shapes \cup {"unused", "done"}]
    BY <1>1 DEF FlowTypeOK
  <2>2. crashed' \in BOOLEAN
    BY <1>1, Zenon DEF FlowTypeOK
  <2>3. QED
    BY <1>1, <1>2, <2>1, <2>2, SameGraph DEF FlowTypeOK
<1>6. QED
  BY <1>2, <1>3, <1>4, <1>5 DEF FlowInv, EngineInv

LEMMA InitIsSound ==
    ASSUME FlowInit
    PROVE  FlowInv
<1>1. /\ exec = NoExec /\ execution = "none" /\ step = [n \in Nodes |-> "none"]
      /\ output = [n \in Nodes |-> "none"] /\ failures = 0 /\ faults = 0 /\ crashed = FALSE
      /\ wf \in Shapes /\ shape = wf /\ edits = [r \in Requests |-> "unused"]
  BY DEF FlowInit
<1>2. FlowTypeOK
  <2>1. 0 \in 0..MaxFaults
    BY WorkflowAssumption
  <2>2. edits \in [Requests -> Shapes \cup {"unused", "done"}]
    BY <1>1
  <2>3. QED
    BY <1>1, <2>1, <2>2 DEF FlowTypeOK
<1>3. EngineInv
  BY <1>1 DEF EngineInv, FlowFits, NothingLeft, InputsReady, NoGhost, ExactBranches, EndedIsSettled
<1>4. QED
  BY <1>1, <1>2, <1>3 DEF FlowInv, FaultsCount

LEMMA StepsKeep ==
    ASSUME FlowInv, [FlowNext]_flowVars
    PROVE  FlowInv'
<1>1. ASSUME FlowTypeOK', EngineInv', FaultsCount'
      PROVE  FlowInv'
  BY <1>1 DEF FlowInv
<1>2. CASE \E r \in Requests : \/ \E row \in Rows \cup {wf} : PutReads(r, row)
                               \/ PutWrites(r) \/ PutFails(r)
  <2>1. shape \in Shapes /\ Rows \subseteq Shapes
    BY WorkflowAssumption DEF FlowInv, FlowTypeOK, Shapes
  <2>2. \A r \in Requests : PutReads(r, wf) => wf \in Shapes
    BY DEF PutReads, Present
  <2>3. QED
    BY <1>2, <2>1, <2>2, RequestKeeps
<1>3. CASE Delete
  BY <1>3, DeleteKeeps
<1>4. CASE Begin \/ Crash
  BY <1>4, BeginKeeps, CrashKeeps
<1>5. CASE InsertExecution
  BY <1>1, <1>5, InsertKeeps
<1>6. CASE MarkRunning \/ NodeReturns \/ NodeThrows \/ AgentRetries \/ TimeOut
  BY <1>1, <1>6, MoveKeeps
<1>7. CASE TakeNode
  BY <1>1, <1>7, MoveKeeps, TakeKeeps
<1>8. CASE CreateStep \/ SkipStep \/ StartStep \/ FailStep
  BY <1>1, <1>8, MoveKeeps, WriteKeeps
<1>9. CASE SaveStep
  BY <1>1, <1>9, SaveKeeps
<1>10. CASE FinishExecution
  BY <1>1, <1>10, FinishKeeps
<1>11. CASE QueryFails
  BY <1>1, <1>11, FailureKeeps
<1>12. CASE UNCHANGED flowVars
  <2>1. UNCHANGED <<shape, schedule, engine, faults>>
    BY <1>12 DEF flowVars
  <2>2. EngineInv'
    BY <2>1, EngineStays DEF FlowInv
  <2>3. FlowTypeOK' /\ FaultsCount'
    BY <2>1, SameGraph DEF FlowInv, FlowTypeOK, FaultsCount, schedule, engine
  <2>4. QED
    BY <2>2, <2>3 DEF FlowInv
<1>13. QED
  BY <1>2, <1>3, <1>4, <1>5, <1>6, <1>7, <1>8, <1>9, <1>10, <1>11, <1>12 DEF FlowNext

LEMMA FlowIsInv ==
    FlowSpec => []FlowInv
<1>1. FlowInit => FlowInv
  BY InitIsSound
<1>2. FlowInv /\ [FlowNext]_flowVars => FlowInv'
  BY StepsKeep
<1>3. QED
  BY <1>1, <1>2, PTL DEF FlowSpec

\* What the runs check: a node that is run has its inputs, an execution that has
\* ended leaves no step open, and one without an executor is excused, however the
\* workflow is edited or deleted meanwhile (engine.ts).
THEOREM FlowsAreSound ==
    FlowSpec => []FlowsSound
<1>1. ASSUME FlowInv
      PROVE  StepsClosed
  <2> SUFFICES ASSUME execution \in {"completed", "failed"}, failures = 0
               PROVE  /\ \A n \in Nodes : step[n] \notin {"pending", "running"}
                      /\ Cardinality({n \in Nodes : step[n] = "failed"}) <= 1
    BY DEF StepsClosed
  <2> DEFINE F == {n \in Nodes : step[n] = "failed"}
  <2>1. StepsSettled
    BY <1>1 DEF FlowInv, EngineInv, EndedIsSettled
  <2>2. Cardinality(F) <= 1
    <3>1. CASE F = {}
      BY <3>1, FS_EmptySet
    <3>2. CASE F # {}
      <4>1. PICK n : n \in F
        BY <3>2
      <4>2. F = {n}
        BY <2>1, <4>1 DEF StepsSettled
      <4>3. Cardinality({n}) = 1
        BY FS_Singleton
      <4> HIDE DEF F
      <4>4. QED
        BY <4>2, <4>3
    <3>3. QED
      BY <3>1, <3>2
  <2>3. QED
    BY <2>1, <2>2 DEF StepsSettled
<1>2. FlowInv => FlowsSound
  BY <1>1 DEF FlowInv, EngineInv, FlowsSound
<1>3. QED
  BY <1>2, FlowIsInv, PTL

\* In a completed execution what is behind an edge that was not followed is
\* skipped, and all else has been run (markSubtreeUnreachable and topologicalSort).
THEOREM BranchesAreExact ==
    FlowSpec => []ExactBranches
<1>1. FlowInv => ExactBranches
  BY DEF FlowInv, EngineInv
<1>2. QED
  BY <1>1, FlowIsInv, PTL
=============================================================================
