------------------------ MODULE AgentInstances_proofs ------------------------
(***************************************************************************)
(* The safety of the outbox of the channel, for any instances, overlapping *)
(* polls, messages and faults: marks are true, and what is posted twice    *)
(* had its sending or its marking cut short, or was held by two polls.     *)
(***************************************************************************)
EXTENDS AgentInstances, FiniteSetTheorems, WellFoundedInduction, TLAPS

PollType == [at : {"send", "mark"}, todo : SUBSET Messages]
PollShape == poll \in [Instances -> [Polls -> {NoPoll} \cup PollType]]

\* What a poll has fetched and not finished with; the message it is at; whether
\* that one is sent and not marked yet.
Held(i, n)  == IF poll[i][n] = NoPoll THEN {} ELSE poll[i][n].todo
First(i, n) == Min(poll[i][n].todo)
Marks(i, n) == poll[i][n] # NoPoll /\ poll[i][n].at = "mark"

\* A poll in flight holds messages that were queued, and marks what was posted.
PollsHold ==
    \A i \in Instances, n \in Polls :
        /\ poll[i][n] # NoPoll => poll[i][n].todo # {}
        /\ \A m \in Held(i, n) : delivery[m] # "new"
        /\ Marks(i, n) => posts[First(i, n)] > 0

NewIsUnposted == \A m \in Messages : delivery[m] = "new" => posts[m] = 0

\* Two polls hold a message only with an excuse.
HeldOnce ==
    \A i, j \in Instances, n, k \in Polls :
        <<i, n>> # <<j, k>> => Held(i, n) \cap Held(j, k) \subseteq excused

\* What one poll holds alone is pending, and not posted before the poll is at its
\* mark.
HeldIsDue ==
    \A i \in Instances, n \in Polls : \A m \in Held(i, n) \ excused :
        /\ delivery[m] = "pending"
        /\ posts[m] > 0 => Marks(i, n) /\ m = First(i, n)

\* What is posted and still pending is about to be marked, or has an excuse.
PostedIsMarked ==
    \A m \in Messages \ excused : posts[m] > 0 /\ delivery[m] = "pending" =>
        \E i \in Instances, n \in Polls : Marks(i, n) /\ m = First(i, n)

\* The part of TypeOK about the registry, and the one about the queue.
RegistryType ==
    /\ inst \in [Instances -> {Off, Gone} \cup
           [at : {"guard", "wait", "register", "live", "drain", "leave", "stuck"},
            pid : Pids, mode : Modes, link : Links]]
    /\ victim \in [Instances -> SUBSET Pids]
    /\ term \subseteq Pids /\ strangers \subseteq Pids
    /\ row = NoRow \/ row \in [owner : Instances, pid : Pids, stale : BOOLEAN]
    /\ struck \in BOOLEAN

QueueType ==
    /\ PollShape
    /\ delivery \in [Messages -> {"new", "pending", "delivered"}]
    /\ posts \in [Messages -> 0..2] /\ excused \subseteq Messages

QueueInv ==
    /\ QueueType
    /\ PollsHold /\ NewIsUnposted /\ HeldOnce /\ HeldIsDue /\ PostedIsMarked
    /\ DeliveredWasPosted /\ TwiceIsExcused

AgentInv == RegistryType /\ QueueInv /\ faults \in 0..MaxFaults

-----------------------------------------------------------------------------
(* Sets of messages *)

\* A set of numbers that is not empty has a least one.
LEMMA LeastNat ==
    ASSUME NEW T \in SUBSET Nat, T # {}
    PROVE  \E x \in T : \A y \in T : x <= y
<1> DEFINE R == OpToRel(<, Nat)
<1>1. IsWellFoundedOn(R, Nat)
  BY NatLessThanWellFounded
<1> HIDE DEF R
<1>2. PICK x \in T : \A y \in T : ~(<<y, x>> \in R)
  BY <1>1, WFMin
<1>3. \A y \in T : y < x => <<y, x>> \in R
  BY DEF R, OpToRel
<1>4. \A y \in T : ~(y < x)
  BY <1>2, <1>3, Zenon
<1>5. x \in Nat /\ \A y \in T : y \in Nat
  OBVIOUS
<1>6. QED
  BY <1>4, <1>5

LEMMA MinIn ==
    ASSUME NEW T \in SUBSET Nat, T # {}
    PROVE  Min(T) \in T /\ \A y \in T : Min(T) <= y
  BY LeastNat DEF Min

\* The count of posts saturates, and grows.
LEMMA Saturates ==
    ASSUME NEW x \in 0..2, NEW k \in 0..2
    PROVE  /\ Min({2, x + k}) \in 0..2
           /\ k > 0 => Min({2, x + k}) > 0
           /\ Min({2, x + k}) > 1 => x + k > 1
           /\ x > 0 => Min({2, x + k}) > 0
<1>1. {2, x + k} \in SUBSET Nat /\ {2, x + k} # {}
  OBVIOUS
<1>2. Min({2, x + k}) \in {2, x + k} /\ Min({2, x + k}) <= 2 /\ Min({2, x + k}) <= x + k
  BY <1>1, MinIn
<1>3. QED
  BY <1>2

\* The message a poll in flight is at is one it holds.
LEMMA FirstHeld ==
    ASSUME QueueType, PollsHold, NEW i \in Instances, NEW n \in Polls, poll[i][n] # NoPoll
    PROVE  /\ poll[i][n] \in PollType
           /\ Held(i, n) = poll[i][n].todo
           /\ First(i, n) \in Held(i, n) /\ First(i, n) \in Messages
           /\ \A m \in Held(i, n) : First(i, n) <= m
<1>1. poll[i][n] \in PollType
  BY DEF QueueType, PollShape
<1>2. poll[i][n].todo \subseteq Messages /\ poll[i][n].todo # {}
  BY <1>1 DEF PollType, PollsHold
<1>3. poll[i][n].todo \in SUBSET Nat
  BY <1>2, AgentsAssumption
<1>4. First(i, n) \in poll[i][n].todo /\ \A m \in poll[i][n].todo : First(i, n) <= m
  BY <1>2, <1>3, MinIn DEF First
<1>5. QED
  BY <1>1, <1>2, <1>4 DEF Held

\* One poll changes, and the others do not.
OnlyPoll(i, n, X) ==
    /\ PollShape'
    /\ poll'[i][n] = X
    /\ \A j \in Instances, k \in Polls : <<j, k>> # <<i, n>> => poll'[j][k] = poll[j][k]

LEMMA PollSet ==
    ASSUME PollShape, NEW i \in Instances, NEW n \in Polls, NEW X \in {NoPoll} \cup PollType,
           poll' = [poll EXCEPT ![i][n] = X]
    PROVE  OnlyPoll(i, n, X)
<1>1. PollShape'
  BY DEF PollShape
<1>2. poll'[i][n] = X
  BY DEF PollShape
<1>3. ASSUME NEW j \in Instances, NEW k \in Polls, <<j, k>> # <<i, n>>
      PROVE  poll'[j][k] = poll[j][k]
  <2>1. CASE j # i
    BY <2>1 DEF PollShape
  <2>2. CASE j = i /\ k # n
    BY <2>2 DEF PollShape
  <2>3. QED
    BY <1>3, <2>1, <2>2
<1>4. QED
  BY <1>1, <1>2, <1>3 DEF OnlyPoll

-----------------------------------------------------------------------------
(* The steps of the queue *)

LEMMA QueueKept == QueueInv /\ UNCHANGED queue => QueueInv'
<1> SUFFICES ASSUME QueueInv, UNCHANGED queue PROVE QueueInv'
  OBVIOUS
<1>1. poll' = poll /\ delivery' = delivery /\ posts' = posts /\ excused' = excused
  BY DEF queue
<1>2. QueueType' /\ NewIsUnposted' /\ DeliveredWasPosted' /\ TwiceIsExcused'
  BY <1>1 DEF QueueInv, QueueType, PollShape, NewIsUnposted, DeliveredWasPosted, TwiceIsExcused
<1>3. PollsHold'
  BY <1>1 DEF QueueInv, PollsHold, Held, Marks, First
<1>4. HeldOnce' /\ HeldIsDue'
  BY <1>1 DEF QueueInv, HeldOnce, HeldIsDue, Held, Marks, First
<1>5. PostedIsMarked'
  BY <1>1 DEF QueueInv, PostedIsMarked, Marks, First
<1>6. QED
  BY <1>2, <1>3, <1>4, <1>5 DEF QueueInv

\* Instances die: the messages they had posted and not marked are excused.
LEMMA QueueDies ==
    ASSUME QueueInv, NEW D \in SUBSET Instances, NEW states, Die(D, states),
           UNCHANGED <<delivery, posts>>
    PROVE  QueueInv'
<1>1. /\ delivery' = delivery /\ posts' = posts
      /\ QueueType /\ PollsHold /\ HeldOnce /\ HeldIsDue /\ PostedIsMarked
  BY DEF QueueInv
<1>2. poll' = [i \in Instances |-> IF i \in D THEN [n \in Polls |-> NoPoll] ELSE poll[i]]
  BY DEF Die
<1>3. /\ \A i \in Instances, n \in Polls :
             poll'[i][n] = IF i \in D THEN NoPoll ELSE poll[i][n]
      /\ PollShape'
  BY <1>1, <1>2 DEF QueueType, PollShape
<1>4. \A i \in Instances, n \in Polls :
         /\ Held(i, n)' = IF i \in D THEN {} ELSE Held(i, n)
         /\ Marks(i, n)' <=> i \notin D /\ Marks(i, n)
         /\ i \notin D => First(i, n)' = First(i, n)
         /\ poll'[i][n] # NoPoll => i \notin D /\ poll'[i][n] = poll[i][n]
  BY <1>3 DEF Held, Marks, First
<1> DEFINE Lost == {q \in D \X Polls : poll[q[1]][q[2]].at = "mark"}
<1>5. excused' = excused \cup {Min(poll[p[1]][p[2]].todo) : p \in Lost}
  BY DEF Die
<1>6. ASSUME NEW i \in D, NEW n \in Polls, Marks(i, n)
      PROVE  First(i, n) \in excused'
  <2>1. <<i, n>> \in Lost
    BY <1>6 DEF Marks
  <2>2. First(i, n) \in {Min(poll[p[1]][p[2]].todo) : p \in Lost}
    <3>1. First(i, n) = Min(poll[<<i, n>>[1]][<<i, n>>[2]].todo)
      BY DEF First
    <3>2. QED
      BY <2>1, <3>1
  <2>3. QED
    BY <1>5, <2>2
<1>7. excused \subseteq excused' /\ excused' \subseteq Messages
  <2>1. ASSUME NEW p \in Lost PROVE Min(poll[p[1]][p[2]].todo) \in Messages
    <3>1. PICK i \in D, n \in Polls : p = <<i, n>>
      OBVIOUS
    <3>2. poll[i][n].at = "mark" /\ p[1] = i /\ p[2] = n
      BY <3>1
    <3>3. poll[i][n] # NoPoll
      BY <3>2 DEF NoPoll
    <3>4. First(i, n) \in Messages
      BY <1>1, <3>3, FirstHeld
    <3>5. QED
      BY <3>2, <3>4 DEF First
  <2>2. QED
    BY <1>1, <1>5, <2>1 DEF QueueType
<1> HIDE DEF Lost
<1>8. QueueType' /\ NewIsUnposted' /\ DeliveredWasPosted' /\ TwiceIsExcused'
  BY <1>1, <1>3, <1>7
  DEF QueueInv, QueueType, NewIsUnposted, DeliveredWasPosted, TwiceIsExcused
<1>9. PollsHold'
  <2> SUFFICES ASSUME NEW i \in Instances, NEW n \in Polls
               PROVE  /\ poll'[i][n] # NoPoll => poll'[i][n].todo # {}
                      /\ \A m \in Held(i, n)' : delivery'[m] # "new"
                      /\ Marks(i, n)' => posts'[First(i, n)'] > 0
    BY DEF PollsHold
  <2>1. poll'[i][n] # NoPoll => poll'[i][n].todo # {}
    BY <1>1, <1>4 DEF PollsHold
  <2>2. \A m \in Held(i, n)' : delivery'[m] # "new"
    BY <1>1, <1>4 DEF PollsHold
  <2>3. Marks(i, n)' => posts'[First(i, n)'] > 0
    BY <1>1, <1>4 DEF PollsHold
  <2>4. QED
    BY <2>1, <2>2, <2>3
<1>10. HeldOnce'
  BY <1>1, <1>4, <1>7 DEF HeldOnce
<1>11. HeldIsDue'
  BY <1>1, <1>4, <1>7 DEF HeldIsDue
<1>12. PostedIsMarked'
  <2> SUFFICES ASSUME NEW m \in Messages \ excused', posts[m] > 0, delivery[m] = "pending"
               PROVE  \E i \in Instances, n \in Polls : Marks(i, n)' /\ m = First(i, n)'
    BY <1>1 DEF PostedIsMarked
  <2>1. PICK i \in Instances, n \in Polls : Marks(i, n) /\ m = First(i, n)
    BY <1>1, <1>7 DEF PostedIsMarked
  <2>2. i \notin D
    BY <1>6, <2>1
  <2>3. QED
    BY <1>4, <2>1, <2>2
<1>13. QED
  BY <1>8, <1>9, <1>10, <1>11, <1>12 DEF QueueInv

LEMMA QueueGrows ==
    ASSUME QueueInv, NEW m \in Messages, Enqueue(m)
    PROVE  QueueInv'
<1>1. /\ poll' = poll /\ posts' = posts /\ excused' = excused
      /\ delivery[m] = "new"
      /\ QueueType /\ PollsHold /\ NewIsUnposted /\ HeldOnce /\ HeldIsDue /\ PostedIsMarked
  BY DEF Enqueue, QueueInv
<1>2. /\ delivery' \in [Messages -> {"new", "pending", "delivered"}]
      /\ \A l \in Messages : delivery'[l] = IF l = m THEN "pending" ELSE delivery[l]
  BY <1>1 DEF Enqueue, QueueType
<1>3. posts[m] = 0
  BY <1>1 DEF NewIsUnposted
<1>4. QueueType' /\ NewIsUnposted' /\ DeliveredWasPosted' /\ TwiceIsExcused'
  BY <1>1, <1>2
  DEF QueueInv, QueueType, PollShape, NewIsUnposted, DeliveredWasPosted, TwiceIsExcused
<1>5. \A i \in Instances, n \in Polls :
         /\ Held(i, n)' = Held(i, n) /\ First(i, n)' = First(i, n)
         /\ Marks(i, n)' = Marks(i, n)
  BY <1>1 DEF Held, Marks, First
<1>6. PollsHold'
  <2> SUFFICES ASSUME NEW i \in Instances, NEW n \in Polls
               PROVE  /\ poll[i][n] # NoPoll => poll[i][n].todo # {}
                      /\ \A l \in Held(i, n) : delivery'[l] # "new"
                      /\ Marks(i, n) => posts[First(i, n)] > 0
    BY <1>1, <1>5 DEF PollsHold
  <2>1. \A l \in Held(i, n) : l \in Messages
    BY <1>1 DEF QueueType, PollShape, PollType, Held
  <2>2. \A l \in Held(i, n) : delivery'[l] # "new"
    BY <1>1, <1>2, <2>1 DEF PollsHold
  <2>3. QED
    BY <1>1, <2>2 DEF PollsHold
<1>7. HeldOnce'
  BY <1>1, <1>5 DEF HeldOnce
<1>8. HeldIsDue'
  <2> SUFFICES ASSUME NEW i \in Instances, NEW n \in Polls, NEW l \in Held(i, n) \ excused
               PROVE  /\ delivery'[l] = "pending"
                      /\ posts[l] > 0 => Marks(i, n) /\ l = First(i, n)
    BY <1>1, <1>5 DEF HeldIsDue
  <2>1. l \in Messages
    BY <1>1 DEF QueueType, PollShape, PollType, Held
  <2>2. QED
    BY <1>1, <1>2, <2>1 DEF HeldIsDue
<1>9. PostedIsMarked'
  BY <1>1, <1>2, <1>3, <1>5 DEF PostedIsMarked
<1>10. QED
  BY <1>4, <1>6, <1>7, <1>8, <1>9 DEF QueueInv
\* A poll begins: what it fetches from another poll is excused, and what is pending
\* and posted is held by one.
LEMMA QueueFetched ==
    ASSUME QueueInv, NEW i \in Instances, NEW n \in Polls, PollBegins(i, n)
    PROVE  QueueInv'
<1>1. /\ delivery' = delivery /\ posts' = posts /\ poll[i][n] = NoPoll
      /\ QueueType /\ PollsHold /\ HeldOnce /\ HeldIsDue /\ PostedIsMarked
  BY DEF PollBegins, QueueInv
<1> DEFINE X == [at |-> "send", todo |-> Pending]
<1>2. X \in {NoPoll} \cup PollType /\ X # NoPoll /\ Pending # {}
  BY DEF PollType, Pending, NoPoll, PollBegins, Fetched
<1>3. poll' = [poll EXCEPT ![i][n] = X]
  BY DEF PollBegins, Fetched
<1>4. X.at = "send" /\ X.todo = Pending
  OBVIOUS
<1> HIDE DEF X
<1>5. /\ PollShape' /\ poll'[i][n] = X
      /\ \A j \in Instances, k \in Polls : <<j, k>> # <<i, n>> => poll'[j][k] = poll[j][k]
  <2>1. OnlyPoll(i, n, X)
    BY <1>1, <1>2, <1>3, PollSet DEF QueueType
  <2>2. QED
    BY <2>1 DEF OnlyPoll
<1>6. Held(i, n)' = Pending /\ ~Marks(i, n)' /\ ~Marks(i, n) /\ Held(i, n) = {}
  BY <1>1, <1>2, <1>4, <1>5 DEF Held, Marks
<1>7. \A j \in Instances, k \in Polls : <<j, k>> # <<i, n>> =>
         /\ Held(j, k)' = Held(j, k) /\ First(j, k)' = First(j, k)
         /\ Marks(j, k)' = Marks(j, k)
  BY <1>5 DEF Held, Marks, First
<1>8. /\ excused \subseteq excused' /\ excused' \subseteq Messages
      /\ \A j \in Instances, k \in Polls : Pending \cap Held(j, k) \subseteq excused'
  <2>1. excused' = excused \cup UNION {Pending \cap poll[p[1]][p[2]].todo : p \in InFlight}
    BY DEF PollBegins, Fetched
  <2>2. ASSUME NEW j \in Instances, NEW k \in Polls PROVE Pending \cap Held(j, k) \subseteq excused'
    <3>1. CASE poll[j][k] = NoPoll
      BY <3>1 DEF Held
    <3>2. CASE poll[j][k] # NoPoll
      <4>1. <<j, k>> \in InFlight
        BY <3>2 DEF InFlight
      <4>2. Pending \cap poll[j][k].todo \in {Pending \cap poll[p[1]][p[2]].todo : p \in InFlight}
        <5>1. Pending \cap poll[j][k].todo
                  = Pending \cap poll[<<j, k>>[1]][<<j, k>>[2]].todo
          OBVIOUS
        <5>2. QED
          BY <4>1, <5>1
      <4>3. QED
        BY <2>1, <3>2, <4>2 DEF Held
    <3>3. QED
      BY <3>1, <3>2
  <2>3. excused' \subseteq Messages
    BY <1>1, <2>1 DEF QueueType, Pending
  <2>4. QED
    BY <2>1, <2>2, <2>3
<1>9. \A m \in Pending : m \in Messages /\ delivery[m] = "pending"
  BY DEF Pending
<1>10. ASSUME NEW m \in Pending \ excused' PROVE posts[m] = 0
  <2>1. posts[m] \in 0..2
    BY <1>1, <1>9 DEF QueueType
  <2>2. CASE posts[m] > 0
    <3>1. PICK j \in Instances, k \in Polls : Marks(j, k) /\ m = First(j, k)
      BY <1>1, <1>8, <1>9, <2>2 DEF PostedIsMarked
    <3>2. m \in Held(j, k)
      BY <1>1, <3>1, FirstHeld DEF Marks
    <3>3. QED
      BY <1>8, <3>2
  <2>3. QED
    BY <2>1, <2>2
<1>11. QueueType' /\ NewIsUnposted' /\ DeliveredWasPosted' /\ TwiceIsExcused'
  BY <1>1, <1>5, <1>8
  DEF QueueInv, QueueType, NewIsUnposted, DeliveredWasPosted, TwiceIsExcused
<1>12. PollsHold'
  <2> SUFFICES ASSUME NEW j \in Instances, NEW k \in Polls
               PROVE  /\ poll'[j][k] # NoPoll => poll'[j][k].todo # {}
                      /\ \A m \in Held(j, k)' : delivery[m] # "new"
                      /\ Marks(j, k)' => posts[First(j, k)'] > 0
    BY <1>1 DEF PollsHold
  <2>1. CASE <<j, k>> = <<i, n>>
    <3>1. j = i /\ k = n
      BY <2>1
    <3>2. QED
      BY <1>2, <1>4, <1>5, <1>6, <1>9, <3>1
  <2>2. CASE <<j, k>> # <<i, n>>
    BY <1>1, <1>5, <1>7, <2>2 DEF PollsHold
  <2>3. QED
    BY <2>1, <2>2
<1>13. HeldOnce'
  <2> SUFFICES ASSUME NEW j \in Instances, NEW l \in Instances, NEW k \in Polls, NEW o \in Polls,
                      <<j, k>> # <<l, o>>
               PROVE  Held(j, k)' \cap Held(l, o)' \subseteq excused'
    BY DEF HeldOnce
  <2>1. CASE <<j, k>> = <<i, n>>
    BY <1>6, <1>7, <1>8, <2>1
  <2>2. CASE <<l, o>> = <<i, n>>
    BY <1>6, <1>7, <1>8, <2>2
  <2>3. CASE <<j, k>> # <<i, n>> /\ <<l, o>> # <<i, n>>
    BY <1>1, <1>7, <1>8, <2>3 DEF HeldOnce
  <2>4. QED
    BY <2>1, <2>2, <2>3
<1>14. HeldIsDue'
  <2> SUFFICES ASSUME NEW j \in Instances, NEW k \in Polls, NEW m \in Held(j, k)' \ excused'
               PROVE  /\ delivery[m] = "pending"
                      /\ posts[m] > 0 => Marks(j, k)' /\ m = First(j, k)'
    BY <1>1 DEF HeldIsDue
  <2>1. CASE <<j, k>> = <<i, n>>
    BY <1>6, <1>9, <1>10, <2>1
  <2>2. CASE <<j, k>> # <<i, n>>
    BY <1>1, <1>7, <1>8, <2>2 DEF HeldIsDue
  <2>3. QED
    BY <2>1, <2>2
<1>15. PostedIsMarked'
  <2> SUFFICES ASSUME NEW m \in Messages \ excused', posts[m] > 0, delivery[m] = "pending"
               PROVE  \E j \in Instances, k \in Polls : Marks(j, k)' /\ m = First(j, k)'
    BY <1>1 DEF PostedIsMarked
  <2>1. PICK j \in Instances, k \in Polls : Marks(j, k) /\ m = First(j, k)
    BY <1>1, <1>8 DEF PostedIsMarked
  <2>2. <<j, k>> # <<i, n>>
    BY <1>6, <2>1
  <2>3. QED
    BY <1>7, <2>1, <2>2
<1>16. QED
  BY <1>11, <1>12, <1>13, <1>14, <1>15 DEF QueueInv
\* A poll that is done with its first message no longer holds it.
LEMMA DoneMoves ==
    ASSUME QueueType, PollsHold, NEW i \in Instances, NEW n \in Polls, poll[i][n] # NoPoll,
           Done(i, n)
    PROVE  /\ PollShape'
           /\ Held(i, n)' = Held(i, n) \ {First(i, n)} /\ ~Marks(i, n)'
           /\ poll'[i][n] # NoPoll => poll'[i][n].todo # {}
           /\ \A j \in Instances, k \in Polls : <<j, k>> # <<i, n>> =>
                  /\ poll'[j][k] = poll[j][k]
                  /\ Held(j, k)' = Held(j, k) /\ First(j, k)' = First(j, k)
                  /\ Marks(j, k)' = Marks(j, k)
<1> DEFINE rest == poll[i][n].todo \ {Min(poll[i][n].todo)}
           X == IF rest = {} THEN NoPoll ELSE [at |-> "send", todo |-> rest]
<1>1. poll[i][n] \in PollType /\ Held(i, n) = poll[i][n].todo
  BY FirstHeld
<1>2. rest \subseteq Messages /\ rest = Held(i, n) \ {First(i, n)}
  BY <1>1 DEF PollType, First
<1>3. poll' = [poll EXCEPT ![i][n] = X]
  BY DEF Done
<1>4. CASE rest = {}
  <2>1. poll' = [poll EXCEPT ![i][n] = NoPoll]
    BY <1>3, <1>4
  <2>2. /\ PollShape' /\ poll'[i][n] = NoPoll
        /\ \A j \in Instances, k \in Polls : <<j, k>> # <<i, n>> => poll'[j][k] = poll[j][k]
    <3>1. OnlyPoll(i, n, NoPoll)
      BY <2>1, PollSet DEF QueueType
    <3>2. QED
      BY <3>1 DEF OnlyPoll
  <2>3. QED
    BY <1>2, <1>4, <2>2 DEF Held, Marks, First
<1>5. CASE rest # {}
  <2> DEFINE Y == [at |-> "send", todo |-> rest]
  <2>1. poll' = [poll EXCEPT ![i][n] = Y]
    BY <1>3, <1>5
  <2>2. Y \in {NoPoll} \cup PollType /\ Y # NoPoll /\ Y.at = "send" /\ Y.todo = rest
    BY <1>2 DEF PollType, NoPoll
  <2> HIDE DEF Y
  <2>3. /\ PollShape' /\ poll'[i][n] = Y
        /\ \A j \in Instances, k \in Polls : <<j, k>> # <<i, n>> => poll'[j][k] = poll[j][k]
    <3>1. OnlyPoll(i, n, Y)
      BY <2>1, <2>2, PollSet DEF QueueType
    <3>2. QED
      BY <3>1 DEF OnlyPoll
  <2>4. Held(i, n)' = rest /\ ~Marks(i, n)' /\ poll'[i][n].todo # {}
    BY <1>5, <2>2, <2>3 DEF Held, Marks
  <2> HIDE DEF rest
  <2>5. QED
    BY <1>2, <2>3, <2>4 DEF Held, Marks, First
<1>6. QED
  BY <1>4, <1>5

\* It is done with it without a mark: the message has an excuse.
LEMMA QueueGivesUp ==
    ASSUME QueueInv, NEW i \in Instances, NEW n \in Polls, poll[i][n] # NoPoll, Done(i, n),
           delivery' = delivery, excused' = excused \cup {First(i, n)},
           posts' \in [Messages -> 0..2],
           \A m \in Messages : m # First(i, n) => posts'[m] = posts[m],
           \A m \in Messages : posts[m] > 0 => posts'[m] > 0
    PROVE  QueueInv'
<1> DEFINE first == First(i, n)
<1>1. /\ QueueType /\ PollsHold /\ NewIsUnposted /\ HeldOnce /\ HeldIsDue /\ PostedIsMarked
      /\ DeliveredWasPosted /\ TwiceIsExcused
  BY DEF QueueInv
<1>2. /\ first \in Held(i, n) /\ first \in Messages /\ delivery[first] # "new"
      /\ \A j \in Instances, k \in Polls : Held(j, k) \subseteq Messages
  <2>1. first \in Held(i, n) /\ first \in Messages
    BY <1>1, FirstHeld
  <2>2. \A j \in Instances, k \in Polls : Held(j, k) \subseteq Messages
    BY <1>1 DEF QueueType, PollShape, PollType, Held
  <2>3. QED
    BY <1>1, <2>1, <2>2 DEF PollsHold
<1>3. /\ PollShape'
      /\ Held(i, n)' = Held(i, n) \ {first} /\ ~Marks(i, n)'
      /\ poll'[i][n] # NoPoll => poll'[i][n].todo # {}
      /\ \A j \in Instances, k \in Polls : <<j, k>> # <<i, n>> =>
             /\ poll'[j][k] = poll[j][k]
             /\ Held(j, k)' = Held(j, k) /\ First(j, k)' = First(j, k)
             /\ Marks(j, k)' = Marks(j, k)
  BY <1>1, DoneMoves
<1>4. /\ excused' = excused \cup {first}
      /\ \A m \in Messages : m # first => posts'[m] = posts[m]
      /\ \A m \in Messages : posts[m] > 0 => posts'[m] > 0
  OBVIOUS
<1>5. \A j \in Instances, k \in Polls : Marks(j, k) => First(j, k) \in Messages
  BY <1>1, FirstHeld DEF Marks
<1> HIDE DEF first
<1>6. QueueType' /\ NewIsUnposted' /\ DeliveredWasPosted' /\ TwiceIsExcused'
  <2>1. QueueType'
    <3>1. delivery' \in [Messages -> {"new", "pending", "delivered"}]
      BY <1>1 DEF QueueType
    <3>2. excused' \subseteq Messages
      BY <1>1, <1>2, <1>4 DEF QueueType
    <3>3. QED
      BY <1>3, <3>1, <3>2 DEF QueueType
  <2>2. NewIsUnposted'
    <3> SUFFICES ASSUME NEW m \in Messages, delivery[m] = "new" PROVE posts'[m] = 0
      BY DEF NewIsUnposted
    <3>1. m # first
      BY <1>2
    <3>2. posts[m] = 0
      BY <1>1 DEF NewIsUnposted
    <3>3. posts'[m] = posts[m]
      BY <1>4, <3>1, Zenon
    <3>4. QED
      BY <3>2, <3>3
  <2>3. DeliveredWasPosted' /\ TwiceIsExcused'
    BY <1>1, <1>4 DEF DeliveredWasPosted, TwiceIsExcused
  <2>4. QED
    BY <2>1, <2>2, <2>3
<1>7. PollsHold'
  <2> SUFFICES ASSUME NEW j \in Instances, NEW k \in Polls
               PROVE  /\ poll'[j][k] # NoPoll => poll'[j][k].todo # {}
                      /\ \A m \in Held(j, k)' : delivery[m] # "new"
                      /\ Marks(j, k)' => posts'[First(j, k)'] > 0
    BY DEF PollsHold
  <2>1. CASE <<j, k>> = <<i, n>>
    <3>1. j = i /\ k = n
      BY <2>1
    <3>2. QED
      BY <1>1, <1>3, <3>1 DEF PollsHold
  <2>2. CASE <<j, k>> # <<i, n>>
    BY <1>1, <1>3, <1>4, <1>5, <2>2 DEF PollsHold
  <2>3. QED
    BY <2>1, <2>2
<1>8. \A j \in Instances, k \in Polls : Held(j, k)' \subseteq Held(j, k)
  <2> TAKE j \in Instances, k \in Polls
  <2>1. CASE <<j, k>> = <<i, n>>
    BY <1>3, <2>1
  <2>2. CASE <<j, k>> # <<i, n>>
    BY <1>3, <2>2
  <2>3. QED
    BY <2>1, <2>2
<1>9. HeldOnce'
  BY <1>1, <1>4, <1>8 DEF HeldOnce
<1>10. HeldIsDue'
  <2> SUFFICES ASSUME NEW j \in Instances, NEW k \in Polls, NEW m \in Held(j, k)' \ excused'
               PROVE  /\ delivery[m] = "pending"
                      /\ posts'[m] > 0 => Marks(j, k)' /\ m = First(j, k)'
    BY DEF HeldIsDue
  <2>1. m \in Held(j, k) \ excused /\ m # first /\ m \in Messages
    BY <1>2, <1>4, <1>8
  <2>2. delivery[m] = "pending" /\ (posts'[m] > 0 => Marks(j, k) /\ m = First(j, k))
    BY <1>1, <1>4, <2>1 DEF HeldIsDue
  <2>3. CASE <<j, k>> = <<i, n>>
    BY <2>1, <2>2, <2>3 DEF first
  <2>4. CASE <<j, k>> # <<i, n>>
    BY <1>3, <2>2, <2>4
  <2>5. QED
    BY <2>3, <2>4
<1>11. PostedIsMarked'
  <2> SUFFICES ASSUME NEW m \in Messages \ excused', posts'[m] > 0, delivery[m] = "pending"
               PROVE  \E j \in Instances, k \in Polls : Marks(j, k)' /\ m = First(j, k)'
    BY DEF PostedIsMarked
  <2>1. m \in Messages \ excused /\ m # first
    BY <1>4
  <2>2. PICK j \in Instances, k \in Polls : Marks(j, k) /\ m = First(j, k)
    BY <1>1, <1>4, <2>1 DEF PostedIsMarked
  <2>3. <<j, k>> # <<i, n>>
    BY <2>1, <2>2 DEF first
  <2>4. QED
    BY <1>3, <2>2, <2>3
<1>12. QED
  BY <1>6, <1>7, <1>9, <1>10, <1>11 DEF QueueInv
\* It is done with it and has marked it.
LEMMA QueueMarked ==
    ASSUME QueueInv, NEW i \in Instances, NEW n \in Polls, Marked(i, n)
    PROVE  QueueInv'
<1> DEFINE first == First(i, n)
<1>1. /\ QueueType /\ PollsHold /\ NewIsUnposted /\ HeldOnce /\ HeldIsDue /\ PostedIsMarked
      /\ DeliveredWasPosted /\ TwiceIsExcused
  BY DEF QueueInv
<1>2. Marks(i, n) /\ poll[i][n] # NoPoll
  BY DEF Marked, Marks, NoPoll
<1>3. /\ first \in Held(i, n) /\ first \in Messages /\ posts[first] > 0
      /\ \A j \in Instances, k \in Polls : Held(j, k) \subseteq Messages
  <2>1. first \in Held(i, n) /\ first \in Messages
    BY <1>1, <1>2, FirstHeld
  <2>2. \A j \in Instances, k \in Polls : Held(j, k) \subseteq Messages
    BY <1>1 DEF QueueType, PollShape, PollType, Held
  <2>3. QED
    BY <1>1, <1>2, <2>1, <2>2 DEF PollsHold
<1>4. /\ PollShape'
      /\ Held(i, n)' = Held(i, n) \ {first} /\ ~Marks(i, n)'
      /\ poll'[i][n] # NoPoll => poll'[i][n].todo # {}
      /\ \A j \in Instances, k \in Polls : <<j, k>> # <<i, n>> =>
             /\ poll'[j][k] = poll[j][k]
             /\ Held(j, k)' = Held(j, k) /\ First(j, k)' = First(j, k)
             /\ Marks(j, k)' = Marks(j, k)
  BY <1>1, <1>2, DoneMoves DEF Marked
<1>5. /\ excused' = excused /\ posts' = posts
      /\ delivery' \in [Messages -> {"new", "pending", "delivered"}]
      /\ \A m \in Messages : delivery'[m] = IF m = first THEN "delivered" ELSE delivery[m]
  BY <1>1, <1>3 DEF Marked, First, QueueType
<1> HIDE DEF first
<1>6. QueueType' /\ NewIsUnposted' /\ DeliveredWasPosted' /\ TwiceIsExcused'
  <2>1. QueueType'
    BY <1>1, <1>4, <1>5 DEF QueueType
  <2>2. NewIsUnposted' /\ TwiceIsExcused'
    BY <1>1, <1>5 DEF NewIsUnposted, TwiceIsExcused
  <2>3. DeliveredWasPosted'
    BY <1>1, <1>3, <1>5 DEF DeliveredWasPosted
  <2>4. QED
    BY <2>1, <2>2, <2>3
<1>7. \A j \in Instances, k \in Polls : Held(j, k)' \subseteq Held(j, k)
  <2> TAKE j \in Instances, k \in Polls
  <2>1. CASE <<j, k>> = <<i, n>>
    BY <1>4, <2>1
  <2>2. CASE <<j, k>> # <<i, n>>
    BY <1>4, <2>2
  <2>3. QED
    BY <2>1, <2>2
<1>8. PollsHold'
  <2> SUFFICES ASSUME NEW j \in Instances, NEW k \in Polls
               PROVE  /\ poll'[j][k] # NoPoll => poll'[j][k].todo # {}
                      /\ \A m \in Held(j, k)' : delivery'[m] # "new"
                      /\ Marks(j, k)' => posts[First(j, k)'] > 0
    BY <1>5 DEF PollsHold
  <2>1. \A m \in Held(j, k)' : delivery'[m] # "new"
    <3> TAKE m \in Held(j, k)'
    <3>1. m \in Held(j, k) /\ m \in Messages
      BY <1>3, <1>7
    <3>2. delivery[m] # "new"
      BY <1>1, <3>1 DEF PollsHold
    <3>3. QED
      BY <1>5, <3>1, <3>2
  <2>2. CASE <<j, k>> = <<i, n>>
    <3>1. j = i /\ k = n
      BY <2>2
    <3>2. QED
      BY <1>4, <2>1, <3>1
  <2>3. CASE <<j, k>> # <<i, n>>
    BY <1>1, <1>4, <2>1, <2>3 DEF PollsHold
  <2>4. QED
    BY <2>2, <2>3
<1>9. HeldOnce'
  BY <1>1, <1>5, <1>7 DEF HeldOnce
<1>10. HeldIsDue'
  <2> SUFFICES ASSUME NEW j \in Instances, NEW k \in Polls, NEW m \in Held(j, k)' \ excused
               PROVE  /\ delivery'[m] = "pending"
                      /\ posts[m] > 0 => Marks(j, k)' /\ m = First(j, k)'
    BY <1>5 DEF HeldIsDue
  <2>1. m \in Held(j, k) \ excused /\ m \in Messages
    BY <1>3, <1>7
  <2>2. delivery[m] = "pending" /\ (posts[m] > 0 => Marks(j, k) /\ m = First(j, k))
    BY <1>1, <2>1 DEF HeldIsDue
  <2>3. m # first
    <3>1. CASE <<j, k>> = <<i, n>>
      BY <1>4, <3>1
    <3>2. CASE <<j, k>> # <<i, n>>
      <4>1. Held(j, k) \cap Held(i, n) \subseteq excused
        BY <1>1, <3>2 DEF HeldOnce
      <4>2. QED
        BY <1>3, <2>1, <4>1
    <3>3. QED
      BY <3>1, <3>2
  <2>4. CASE <<j, k>> = <<i, n>>
    BY <1>5, <2>1, <2>2, <2>3, <2>4 DEF first
  <2>5. CASE <<j, k>> # <<i, n>>
    BY <1>4, <1>5, <2>1, <2>2, <2>3, <2>5
  <2>6. QED
    BY <2>4, <2>5
<1>11. PostedIsMarked'
  <2> SUFFICES ASSUME NEW m \in Messages \ excused, posts[m] > 0, delivery'[m] = "pending"
               PROVE  \E j \in Instances, k \in Polls : Marks(j, k)' /\ m = First(j, k)'
    BY <1>5 DEF PostedIsMarked
  <2>1. m # first /\ delivery[m] = "pending"
    BY <1>5
  <2>2. PICK j \in Instances, k \in Polls : Marks(j, k) /\ m = First(j, k)
    BY <1>1, <2>1 DEF PostedIsMarked
  <2>3. <<j, k>> # <<i, n>>
    BY <2>1, <2>2 DEF first
  <2>4. QED
    BY <1>4, <2>2, <2>3
<1>12. QED
  BY <1>6, <1>8, <1>9, <1>10, <1>11 DEF QueueInv

\* A message is sent: only its own count changes, and when it was posted before,
\* or twice, it has an excuse.
LEMMA QueueSent ==
    ASSUME QueueInv, NEW i \in Instances, NEW n \in Polls, NEW c \in 1..2, Sent(i, n, c)
    PROVE  QueueInv'
<1> DEFINE first == First(i, n)
<1>1. /\ QueueType /\ PollsHold /\ NewIsUnposted /\ HeldOnce /\ HeldIsDue /\ PostedIsMarked
      /\ DeliveredWasPosted /\ TwiceIsExcused
  BY DEF QueueInv
<1>2. ~Marks(i, n) /\ poll[i][n] # NoPoll /\ poll[i][n].at = "send"
  BY DEF Sent, Marks, NoPoll
<1>3. /\ poll[i][n] \in PollType /\ Held(i, n) = poll[i][n].todo
      /\ first \in Held(i, n) /\ first \in Messages /\ delivery[first] # "new"
      /\ \A j \in Instances, k \in Polls : Held(j, k) \subseteq Messages
  <2>1. /\ poll[i][n] \in PollType /\ Held(i, n) = poll[i][n].todo
        /\ first \in Held(i, n) /\ first \in Messages
    BY <1>1, <1>2, FirstHeld
  <2>2. \A j \in Instances, k \in Polls : Held(j, k) \subseteq Messages
    BY <1>1 DEF QueueType, PollShape, PollType, Held
  <2>3. QED
    BY <1>1, <2>1, <2>2 DEF PollsHold
<1> DEFINE X == [at |-> "mark", todo |-> poll[i][n].todo]
<1>4. poll' = [poll EXCEPT ![i][n] = X]
  <2>1. poll' = [poll EXCEPT ![i][n].at = "mark"]
    BY DEF Sent
  <2>2. [poll[i][n] EXCEPT !.at = "mark"] = X
    BY <1>3 DEF PollType
  <2>3. QED
    BY <2>1, <2>2
<1>5. X \in {NoPoll} \cup PollType /\ X # NoPoll /\ X.at = "mark" /\ X.todo = poll[i][n].todo
  BY <1>3 DEF PollType, NoPoll
<1> HIDE DEF X
<1>6. OnlyPoll(i, n, X)
  BY <1>1, <1>4, <1>5, PollSet DEF QueueType
<1>7. /\ PollShape' /\ poll'[i][n] = X
      /\ Held(i, n)' = Held(i, n) /\ Marks(i, n)' /\ First(i, n)' = first
  BY <1>3, <1>5, <1>6 DEF OnlyPoll, Held, Marks, First
<1>8. \A j \in Instances, k \in Polls : <<j, k>> # <<i, n>> =>
         /\ poll'[j][k] = poll[j][k]
         /\ Held(j, k)' = Held(j, k) /\ First(j, k)' = First(j, k)
         /\ Marks(j, k)' = Marks(j, k)
  BY <1>6 DEF OnlyPoll, Held, Marks, First
<1>9. /\ delivery' = delivery
      /\ excused \subseteq excused' /\ excused' \subseteq excused \cup {first}
      /\ c # 1 => first \in excused'
  BY DEF Sent, First
<1>10. /\ posts' \in [Messages -> 0..2]
       /\ \A m \in Messages : m # first => posts'[m] = posts[m]
       /\ posts'[first] > 0 /\ (posts'[first] > 1 => posts[first] + c > 1)
       /\ posts[first] \in 0..2
  <2>1. posts \in [Messages -> 0..2] /\ posts[first] \in 0..2
    BY <1>1, <1>3 DEF QueueType
  <2>2. posts' = [posts EXCEPT ![first] = Min({2, posts[first] + c})]
    BY DEF Sent, First
  <2>3. /\ Min({2, posts[first] + c}) \in 0..2
        /\ Min({2, posts[first] + c}) > 0
        /\ Min({2, posts[first] + c}) > 1 => posts[first] + c > 1
    BY <2>1, Saturates
  <2>4. posts'[first] = Min({2, posts[first] + c})
    BY <1>3, <2>1, <2>2
  <2> HIDE DEF first
  <2>5. posts' \in [Messages -> 0..2] /\ \A m \in Messages : m # first => posts'[m] = posts[m]
    BY <2>1, <2>2, <2>3
  <2>6. QED
    BY <2>1, <2>3, <2>4, <2>5
<1>11. posts'[first] > 1 => first \in excused'
  <2> SUFFICES ASSUME first \notin excused' PROVE ~(posts'[first] > 1)
    OBVIOUS
  <2>1. posts[first] = 0
    BY <1>1, <1>2, <1>3, <1>9, <1>10 DEF HeldIsDue
  <2>2. c = 1
    BY <1>9
  <2>3. QED
    BY <1>10, <2>1, <2>2
<1> HIDE DEF first
<1>12. QueueType' /\ NewIsUnposted' /\ DeliveredWasPosted' /\ TwiceIsExcused'
  <2>1. QueueType'
    <3>1. excused' \subseteq Messages
      BY <1>1, <1>3, <1>9 DEF QueueType
    <3>2. delivery' \in [Messages -> {"new", "pending", "delivered"}]
      BY <1>1, <1>9 DEF QueueType
    <3>3. QED
      BY <1>7, <1>10, <3>1, <3>2 DEF QueueType
  <2>2. NewIsUnposted'
    BY <1>1, <1>3, <1>9, <1>10 DEF NewIsUnposted
  <2>3. DeliveredWasPosted'
    BY <1>1, <1>9, <1>10 DEF DeliveredWasPosted
  <2>4. TwiceIsExcused'
    BY <1>1, <1>9, <1>10, <1>11 DEF TwiceIsExcused
  <2>5. QED
    BY <2>1, <2>2, <2>3, <2>4
<1>13. \A j \in Instances, k \in Polls :
          /\ Held(j, k)' = Held(j, k)
          /\ poll'[j][k] # NoPoll => poll[j][k] # NoPoll /\ poll'[j][k].todo = poll[j][k].todo
  <2> TAKE j \in Instances, k \in Polls
  <2>1. CASE <<j, k>> = <<i, n>>
    BY <1>2, <1>5, <1>7, <2>1
  <2>2. CASE <<j, k>> # <<i, n>>
    BY <1>8, <2>2
  <2>3. QED
    BY <2>1, <2>2
<1>14. PollsHold'
  <2> SUFFICES ASSUME NEW j \in Instances, NEW k \in Polls
               PROVE  /\ poll'[j][k] # NoPoll => poll'[j][k].todo # {}
                      /\ \A m \in Held(j, k)' : delivery[m] # "new"
                      /\ Marks(j, k)' => posts'[First(j, k)'] > 0
    BY <1>9 DEF PollsHold
  <2>1. /\ poll'[j][k] # NoPoll => poll'[j][k].todo # {}
        /\ \A m \in Held(j, k)' : delivery[m] # "new"
    BY <1>1, <1>13 DEF PollsHold
  <2>2. Marks(j, k)' => posts'[First(j, k)'] > 0
    <3>1. CASE <<j, k>> = <<i, n>>
      <4>1. j = i /\ k = n
        BY <3>1
      <4>2. QED
        BY <1>7, <1>10, <4>1
    <3>2. CASE <<j, k>> # <<i, n>> /\ Marks(j, k)
      <4>1. First(j, k)' = First(j, k) /\ posts[First(j, k)] > 0
        BY <1>1, <1>8, <3>2 DEF PollsHold
      <4>2. First(j, k) \in Messages
        BY <1>1, <3>2, FirstHeld DEF Marks
      <4>3. QED
        BY <1>10, <4>1, <4>2
    <3>3. QED
      BY <1>8, <3>1, <3>2
  <2>3. QED
    BY <2>1, <2>2
<1>15. HeldOnce'
  BY <1>1, <1>9, <1>13 DEF HeldOnce
<1>16. HeldIsDue'
  <2> SUFFICES ASSUME NEW j \in Instances, NEW k \in Polls, NEW m \in Held(j, k)' \ excused'
               PROVE  /\ delivery[m] = "pending"
                      /\ posts'[m] > 0 => Marks(j, k)' /\ m = First(j, k)'
    BY <1>9 DEF HeldIsDue
  <2>1. m \in Held(j, k) \ excused /\ m \in Messages
    BY <1>3, <1>9, <1>13
  <2>2. delivery[m] = "pending" /\ (posts[m] > 0 => Marks(j, k) /\ m = First(j, k))
    BY <1>1, <2>1 DEF HeldIsDue
  <2>3. CASE <<j, k>> = <<i, n>>
    <3>1. j = i /\ k = n
      BY <2>3
    <3>2. CASE m = first
      BY <1>7, <2>2, <3>1, <3>2
    <3>3. CASE m # first
      BY <1>2, <1>10, <2>1, <2>2, <3>1, <3>3
    <3>4. QED
      BY <3>2, <3>3
  <2>4. CASE <<j, k>> # <<i, n>>
    <3>1. m # first
      <4>1. Held(j, k) \cap Held(i, n) \subseteq excused
        BY <1>1, <2>4 DEF HeldOnce
      <4>2. QED
        BY <1>3, <2>1, <4>1
    <3>2. QED
      BY <1>8, <1>10, <2>1, <2>2, <2>4, <3>1
  <2>5. QED
    BY <2>3, <2>4
<1>17. PostedIsMarked'
  <2> SUFFICES ASSUME NEW m \in Messages \ excused', posts'[m] > 0, delivery[m] = "pending"
               PROVE  \E j \in Instances, k \in Polls : Marks(j, k)' /\ m = First(j, k)'
    BY <1>9 DEF PostedIsMarked
  <2>1. CASE m = first
    BY <1>7, <2>1
  <2>2. CASE m # first
    <3>1. posts[m] > 0 /\ m \notin excused
      BY <1>9, <1>10, <2>2
    <3>2. PICK j \in Instances, k \in Polls : Marks(j, k) /\ m = First(j, k)
      BY <1>1, <3>1 DEF PostedIsMarked
    <3>3. <<j, k>> # <<i, n>>
      BY <1>2, <3>2
    <3>4. QED
      BY <1>8, <3>2, <3>3
  <2>3. QED
    BY <2>1, <2>2
<1>18. QED
  BY <1>12, <1>14, <1>15, <1>16, <1>17 DEF QueueInv
-----------------------------------------------------------------------------
(* The registry, and the steps of the whole *)

InstType ==
    {Off, Gone} \cup [at : {"guard", "wait", "register", "live", "drain", "leave", "stuck"},
                     pid : Pids, mode : Modes, link : Links]

LEMMA UpType ==
    ASSUME RegistryType, NEW i \in Instances, inst[i].at \notin {"off", "gone"}
    PROVE  /\ inst[i] \in [at : {"guard", "wait", "register", "live", "drain", "leave", "stuck"},
                           pid : Pids, mode : Modes, link : Links]
           /\ inst[i].pid \in Pids
<1>1. inst[i] \in InstType
  BY DEF RegistryType, InstType
<1>2. inst[i] # Off /\ inst[i] # Gone
  BY DEF Off, Gone
<1>3. QED
  BY <1>1, <1>2 DEF InstType

\* An instance that is up moves on.
LEMMA ToType ==
    ASSUME RegistryType, NEW i \in Instances, inst[i].at \notin {"off", "gone"},
           NEW p \in {"wait", "register", "live", "drain", "leave", "stuck"}
    PROVE  [inst EXCEPT ![i].at = p] \in [Instances -> InstType]
<1>1. inst[i] \in [at : {"guard", "wait", "register", "live", "drain", "leave", "stuck"},
                  pid : Pids, mode : Modes, link : Links]
  BY UpType
<1>2. [inst[i] EXCEPT !.at = p] \in InstType
  BY <1>1 DEF InstType
<1>3. [inst EXCEPT ![i].at = p] = [inst EXCEPT ![i] = [inst[i] EXCEPT !.at = p]]
  OBVIOUS
<1>4. inst \in [Instances -> InstType]
  BY DEF RegistryType, InstType
<1>5. QED
  BY <1>2, <1>3, <1>4

\* Its channel is lost, found again or given up.
LEMMA LinkType ==
    ASSUME RegistryType, NEW i \in Instances, inst[i].at \notin {"off", "gone"},
           NEW l \in Links
    PROVE  [inst EXCEPT ![i].link = l] \in [Instances -> InstType]
<1>1. inst[i] \in [at : {"guard", "wait", "register", "live", "drain", "leave", "stuck"},
                  pid : Pids, mode : Modes, link : Links]
  BY UpType
<1>2. [inst[i] EXCEPT !.link = l] \in InstType
  BY <1>1 DEF InstType
<1>3. [inst EXCEPT ![i].link = l] = [inst EXCEPT ![i] = [inst[i] EXCEPT !.link = l]]
  OBVIOUS
<1>4. inst \in [Instances -> InstType]
  BY DEF RegistryType, InstType
<1>5. QED
  BY <1>2, <1>3, <1>4

LEMMA DieType ==
    ASSUME RegistryType, NEW D \in SUBSET Instances, NEW states \in [Instances -> InstType],
           Die(D, states)
    PROVE  inst' \in [Instances -> InstType] /\ victim' \in [Instances -> SUBSET Pids]
<1>1. inst' \in [Instances -> InstType]
  BY DEF Die, InstType
<1>2. victim' \in [Instances -> SUBSET Pids]
  BY DEF Die, RegistryType
<1>3. QED
  BY <1>1, <1>2

LEMMA RowTyped ==
    ASSUME RegistryType, row # NoRow
    PROVE  /\ row \in [owner : Instances, pid : Pids, stale : BOOLEAN]
           /\ row.pid \in Pids
  BY DEF RegistryType

LEMMA AgentInit == Init => AgentInv
<1> SUFFICES ASSUME Init PROVE AgentInv
  OBVIOUS
<1>1. RegistryType /\ faults \in 0..MaxFaults
  <2>1. /\ inst = [i \in Instances |-> Off] /\ victim = [i \in Instances |-> {}]
        /\ term = {} /\ strangers = {} /\ struck = FALSE /\ row = NoRow /\ faults = 0
    BY DEF Init
  <2>2. struck \in BOOLEAN
    BY <2>1, Zenon
  <2>3. faults \in 0..MaxFaults
    BY <2>1, AgentsAssumption
  <2>4. QED
    BY <2>1, <2>2, <2>3 DEF RegistryType
<1>2. QueueType
  BY DEF Init, QueueType, PollShape
<1>3. \A i \in Instances, n \in Polls :
         poll[i][n] = NoPoll /\ Held(i, n) = {} /\ ~Marks(i, n)
  BY DEF Init, Held, Marks
<1>4. PollsHold /\ HeldOnce /\ HeldIsDue
  BY <1>3 DEF PollsHold, HeldOnce, HeldIsDue
<1>5. NewIsUnposted /\ PostedIsMarked /\ DeliveredWasPosted /\ TwiceIsExcused
  BY DEF Init, NewIsUnposted, PostedIsMarked, DeliveredWasPosted, TwiceIsExcused
<1>6. QED
  BY <1>1, <1>2, <1>4, <1>5 DEF AgentInv, QueueInv

LEMMA FaultType ==
    ASSUME faults \in 0..MaxFaults, Fault \/ UNCHANGED faults
    PROVE  faults' \in 0..MaxFaults
  BY AgentsAssumption DEF Fault

\* The steps that move instances and their row leave the queue alone, or kill.
LEMMA RegistryStep ==
    ASSUME AgentInv, NEW i \in Instances, NEW p \in Pids,
           \/ \E mode \in Modes : Boot(i, p, mode)
           \/ VictimKilled(i, p)
           \/ GuardKills(i) \/ GuardPasses(i) \/ VictimLeft(i) \/ Register(i)
           \/ Heartbeat(i) \/ Stop(i) \/ Terminated(i) \/ Unregister(i)
           \/ UnregisterFails(i) \/ Exit(i) \/ Crash(i)
           \/ LinkDrops(i) \/ Reconnects(i) \/ LinkGivesUp(i)
    PROVE  AgentInv'
<1>1. RegistryType /\ QueueInv /\ faults \in 0..MaxFaults
  BY DEF AgentInv
<1> DEFINE IType == inst' \in [Instances -> InstType] /\ victim' \in [Instances -> SUBSET Pids]
           PType == term' \subseteq Pids /\ strangers' \subseteq Pids /\ struck' \in BOOLEAN
           RType == row' = NoRow \/ row' \in [owner : Instances, pid : Pids, stale : BOOLEAN]
<1>2. ASSUME IType, PType, RType, QueueInv', Fault \/ UNCHANGED faults PROVE AgentInv'
  <2>1. RegistryType'
    BY <1>2 DEF RegistryType, InstType
  <2>2. faults' \in 0..MaxFaults
    BY <1>1, <1>2, FaultType
  <2>3. QED
    BY <1>2, <2>1, <2>2 DEF AgentInv
<1>3. /\ inst \in [Instances -> InstType] /\ victim \in [Instances -> SUBSET Pids]
      /\ term \subseteq Pids /\ strangers \subseteq Pids /\ struck \in BOOLEAN
      /\ row = NoRow \/ row \in [owner : Instances, pid : Pids, stale : BOOLEAN]
  BY <1>1 DEF RegistryType, InstType
<1>4. UNCHANGED queue => QueueInv'
  BY <1>1, QueueKept
<1>5. Beats(i) => Mine(i) \in [owner : Instances, pid : Pids, stale : BOOLEAN]
  BY <1>1, UpType DEF Mine, Beats
<1>6. Up \subseteq Instances
  BY DEF Up
<1>7. ASSUME NEW mode \in Modes, Boot(i, p, mode) PROVE AgentInv'
  <2>1. UNCHANGED <<victim, term, strangers, row, struck, queue, faults>>
    BY <1>7 DEF Boot
  <2>2. inst' = [inst EXCEPT ![i] = [at |-> IF mode = "host" THEN "guard" ELSE "register",
                                     pid |-> p, mode |-> mode, link |-> "up"]]
    BY <1>7 DEF Boot
  <2>3. [at |-> IF mode = "host" THEN "guard" ELSE "register", pid |-> p, mode |-> mode,
         link |-> "up"] \in InstType
    BY DEF InstType, Links
  <2>4. inst' \in [Instances -> InstType]
    BY <1>3, <2>2, <2>3
  <2>5. QED
    BY <1>2, <1>3, <1>4, <2>1, <2>4
<1>8. CASE VictimKilled(i, p)
  <2> DEFINE D == {j \in Up : inst[j].pid = p}
             states == [inst EXCEPT ![i].at = "register"]
  <2>1. Die(D, states) /\ UNCHANGED <<delivery, posts>> /\ UNCHANGED <<row, faults>>
    BY <1>8 DEF VictimKilled
  <2>2. D \in SUBSET Instances /\ states \in [Instances -> InstType]
    BY <1>1, <1>6, <1>8, ToType DEF VictimKilled, At
  <2>3. term' \subseteq Pids /\ strangers' \subseteq Pids
    BY <1>3, <1>8 DEF VictimKilled
  <2>4. struck' \in BOOLEAN
    <3>1. struck' = (struck \/ p \in strangers)
      BY <1>8 DEF VictimKilled
    <3>2. QED
      BY <1>3, <3>1, Zenon
  <2> HIDE DEF D, states
  <2>5. QueueInv'
    BY <1>1, <2>1, <2>2, QueueDies
  <2>6. IType
    BY <1>1, <2>1, <2>2, DieType
  <2>7. QED
    BY <1>2, <1>3, <2>1, <2>3, <2>4, <2>5, <2>6
<1>9. CASE GuardKills(i)
  <2>1. UNCHANGED <<strangers, row, struck, queue, faults>> /\ row # NoRow
    BY <1>9 DEF GuardKills, Kills
  <2>2. inst' \in [Instances -> InstType]
    BY <1>1, <1>9, ToType DEF GuardKills, At, To
  <2>3. row.pid \in Pids
    BY <1>1, <2>1, RowTyped
  <2>4. term' \subseteq Pids /\ victim' \in [Instances -> SUBSET Pids]
    BY <1>3, <1>9, <2>3 DEF GuardKills
  <2>5. QED
    BY <1>2, <1>3, <1>4, <2>1, <2>2, <2>4
<1>10. CASE GuardPasses(i)
  <2>1. UNCHANGED <<victim, term, strangers, row, struck, queue, faults>>
    BY <1>10 DEF GuardPasses
  <2>2. inst' \in [Instances -> InstType]
    BY <1>1, <1>10, ToType DEF GuardPasses, At, To
  <2>3. QED
    BY <1>2, <1>3, <1>4, <2>1, <2>2
<1>11. CASE VictimLeft(i)
  <2>1. UNCHANGED <<term, strangers, row, struck, queue, faults>>
    BY <1>11 DEF VictimLeft
  <2>2. inst' \in [Instances -> InstType]
    BY <1>1, <1>11, ToType DEF VictimLeft, At, To
  <2>3. victim' \in [Instances -> SUBSET Pids]
    BY <1>3, <1>11 DEF VictimLeft
  <2>4. QED
    BY <1>2, <1>3, <1>4, <2>1, <2>2, <2>3
<1>12. CASE Register(i)
  <2>1. UNCHANGED <<victim, term, strangers, struck, queue, faults>> /\ row' = Mine(i)
    BY <1>12 DEF Register
  <2>2. inst' \in [Instances -> InstType]
    BY <1>1, <1>12, ToType DEF Register, At, To
  <2>3. Mine(i) \in [owner : Instances, pid : Pids, stale : BOOLEAN]
    BY <1>1, <1>12, UpType DEF Mine, Register, At
  <2>4. QED
    BY <1>2, <1>3, <1>4, <2>1, <2>2, <2>3
<1>13. CASE Heartbeat(i)
  <2>1. UNCHANGED <<inst, victim, term, strangers, struck, queue, faults>> /\ row' = Mine(i)
    BY <1>13 DEF Heartbeat
  <2>2. RType
    BY <1>5, <1>13, <2>1 DEF Heartbeat
  <2>3. QED
    BY <1>2, <1>3, <1>4, <2>1, <2>2
<1>14. CASE Stop(i)
  <2>1. UNCHANGED <<inst, victim, strangers, row, struck, queue, faults>>
    BY <1>14 DEF Stop
  <2>2. inst[i].pid \in Pids
    BY <1>1, <1>14, UpType DEF Stop, At
  <2>3. term' \subseteq Pids
    BY <1>3, <1>14, <2>2 DEF Stop
  <2>4. QED
    BY <1>2, <1>3, <1>4, <2>1, <2>3
<1>15. CASE Terminated(i)
  <2>1. UNCHANGED <<strangers, row, struck>> /\ UNCHANGED <<delivery, posts>> /\ UNCHANGED faults
    BY <1>15 DEF Terminated
  <2>2. term' \subseteq Pids
    BY <1>3, <1>15 DEF Terminated
  <2>3. CASE At(i, "live")
    <3>1. To(i, "drain") /\ UNCHANGED <<victim, poll, excused>>
      BY <1>15, <2>3 DEF Terminated, At
    <3>2. inst' \in [Instances -> InstType]
      BY <1>1, <2>3, <3>1, ToType DEF At, To
    <3>3. UNCHANGED queue
      BY <2>1, <3>1 DEF queue
    <3>4. QED
      BY <1>2, <1>3, <1>4, <2>1, <2>2, <3>1, <3>2, <3>3
  <2>4. CASE inst[i].at \in {"guard", "wait", "register"}
    <3>1. Die({i}, inst)
      BY <1>15, <2>4 DEF Terminated, At
    <3>2. IType
      BY <1>1, <1>3, <3>1, DieType
    <3>3. QueueInv'
      BY <1>1, <2>1, <3>1, QueueDies
    <3>4. QED
      BY <1>2, <1>3, <2>1, <2>2, <3>2, <3>3
  <2>5. CASE ~At(i, "live") /\ inst[i].at \notin {"guard", "wait", "register"}
    <3>1. UNCHANGED <<inst, victim, poll, excused>>
      BY <1>15, <2>5 DEF Terminated, At
    <3>2. UNCHANGED queue
      BY <2>1, <3>1 DEF queue
    <3>3. QED
      BY <1>2, <1>3, <1>4, <2>1, <2>2, <3>1, <3>2
  <2>6. QED
    BY <2>3, <2>4, <2>5
<1>16. CASE Unregister(i)
  <2>1. UNCHANGED <<victim, term, strangers, struck, queue, faults>> /\ row' = NoRow
    BY <1>16 DEF Unregister
  <2>2. inst' \in [Instances -> InstType]
    BY <1>1, <1>16, ToType DEF Unregister, At, To
  <2>3. QED
    BY <1>2, <1>3, <1>4, <2>1, <2>2
<1>17. CASE UnregisterFails(i)
  <2>1. UNCHANGED <<victim, term, strangers, row, struck, queue>> /\ Fault
    BY <1>17 DEF UnregisterFails
  <2>2. inst' \in [Instances -> InstType]
    BY <1>1, <1>17, ToType DEF UnregisterFails, At, To
  <2>3. QED
    BY <1>2, <1>3, <1>4, <2>1, <2>2
<1>18. CASE Exit(i) \/ Crash(i)
  <2>1. /\ UNCHANGED <<strangers, row, struck>> /\ UNCHANGED <<delivery, posts>>
        /\ Fault \/ UNCHANGED faults
        /\ Die({i}, inst) /\ term' \subseteq term
    BY <1>18 DEF Exit, Crash
  <2>2. IType
    BY <1>1, <1>3, <2>1, DieType
  <2>3. QueueInv'
    BY <1>1, <2>1, QueueDies
  <2>4. QED
    BY <1>2, <1>3, <2>1, <2>2, <2>3
<1>19. CASE LinkDrops(i) \/ Reconnects(i) \/ LinkGivesUp(i)
  <2>1. PICK l \in Links : Link(i, l) /\ i \in Up /\ (Fault \/ UNCHANGED faults)
    BY <1>19 DEF LinkDrops, Reconnects, LinkGivesUp, Links
  <2>2. inst' \in [Instances -> InstType]
    BY <1>1, <2>1, LinkType DEF Link, Up
  <2>3. UNCHANGED <<victim, term, strangers, row, struck, queue>>
    BY <2>1 DEF Link
  <2>4. QED
    BY <1>2, <1>3, <1>4, <2>1, <2>2, <2>3
<1>20. QED
  BY <1>7, <1>8, <1>9, <1>10, <1>11, <1>12, <1>13, <1>14, <1>15, <1>16, <1>17, <1>18, <1>19

LEMMA PollerStep ==
    ASSUME AgentInv, NEW i \in Instances, NEW n \in Polls,
           \/ PollBegins(i, n) \/ Marked(i, n) \/ MarkFails(i, n)
           \/ \E k \in 0..2 : SendFails(i, n, k) \/ (k # 0 /\ Sent(i, n, k))
    PROVE  AgentInv'
<1>1. RegistryType /\ QueueInv /\ faults \in 0..MaxFaults
  BY DEF AgentInv
<1>2. ASSUME UNCHANGED registry, QueueInv', Fault \/ UNCHANGED faults PROVE AgentInv'
  <2>1. RegistryType'
    BY <1>1, <1>2 DEF RegistryType, registry
  <2>2. faults' \in 0..MaxFaults
    BY <1>1, <1>2, FaultType
  <2>3. QED
    BY <1>2, <2>1, <2>2 DEF AgentInv
<1>3. CASE PollBegins(i, n)
  <2>1. UNCHANGED registry /\ (Fault \/ UNCHANGED faults)
    BY <1>3 DEF PollBegins
  <2>2. QED
    BY <1>1, <1>2, <1>3, <2>1, QueueFetched
<1>4. CASE Marked(i, n)
  <2>1. UNCHANGED registry /\ UNCHANGED faults
    BY <1>4 DEF Marked
  <2>2. QED
    BY <1>1, <1>2, <1>4, <2>1, QueueMarked
<1>5. CASE MarkFails(i, n)
  <2>1. UNCHANGED registry /\ Fault /\ Done(i, n) /\ delivery' = delivery /\ posts' = posts
    BY <1>5 DEF MarkFails
  <2>2. poll[i][n] # NoPoll /\ excused' = excused \cup {First(i, n)}
    BY <1>5 DEF MarkFails, NoPoll, First
  <2>3. posts' \in [Messages -> 0..2]
    BY <1>1, <2>1 DEF QueueInv, QueueType
  <2>4. QueueInv'
    BY <1>1, <2>1, <2>2, <2>3, QueueGivesUp
  <2>5. QED
    BY <1>2, <2>1, <2>4
<1>6. ASSUME NEW k \in 0..2, SendFails(i, n, k) PROVE AgentInv'
  <2>1. UNCHANGED registry /\ Fault /\ Done(i, n) /\ delivery' = delivery
    BY <1>6 DEF SendFails
  <2>2. poll[i][n] # NoPoll /\ excused' = excused \cup {First(i, n)}
    BY <1>6 DEF SendFails, NoPoll, First
  <2> DEFINE first == First(i, n)
  <2>3. posts' = [posts EXCEPT ![first] = Min({2, posts[first] + k})]
    BY <1>6 DEF SendFails, First
  <2>4. first \in Messages
    BY <1>1, <2>2, FirstHeld DEF QueueInv
  <2>5. posts \in [Messages -> 0..2] /\ posts[first] \in 0..2
    BY <1>1, <2>4 DEF QueueInv, QueueType
  <2>6. /\ Min({2, posts[first] + k}) \in 0..2
        /\ posts[first] > 0 => Min({2, posts[first] + k}) > 0
    BY <2>5, Saturates
  <2> HIDE DEF first
  <2>7. /\ posts' \in [Messages -> 0..2]
        /\ \A m \in Messages : m # first => posts'[m] = posts[m]
        /\ \A m \in Messages : posts[m] > 0 => posts'[m] > 0
    BY <2>3, <2>4, <2>5, <2>6
  <2>8. \A m \in Messages : m # First(i, n) => posts'[m] = posts[m]
    BY <2>7 DEF first
  <2>9. QueueInv'
    BY <1>1, <2>1, <2>2, <2>7, <2>8, QueueGivesUp
  <2>10. QED
    BY <1>2, <2>1, <2>9
<1>7. ASSUME NEW k \in 0..2, k # 0, Sent(i, n, k) PROVE AgentInv'
  <2>1. UNCHANGED registry /\ (Fault \/ UNCHANGED faults)
    BY <1>7 DEF Sent
  <2>2. k \in 1..2
    BY <1>7
  <2>3. QED
    BY <1>1, <1>2, <1>7, <2>1, <2>2, QueueSent
<1>8. QED
  BY <1>3, <1>4, <1>5, <1>6, <1>7

LEMMA AgentStep == AgentInv /\ [Next]_vars => AgentInv'
<1> SUFFICES ASSUME AgentInv, [Next]_vars PROVE AgentInv'
  OBVIOUS
<1>1. RegistryType /\ QueueInv /\ faults \in 0..MaxFaults
  BY DEF AgentInv
<1>2. UNCHANGED queue => QueueInv'
  BY <1>1, QueueKept
<1>3. ASSUME RegistryType', UNCHANGED queue, Fault \/ UNCHANGED faults PROVE AgentInv'
  BY <1>1, <1>2, <1>3, FaultType DEF AgentInv
<1>4. ASSUME NEW i \in Instances, NEW p \in Pids,
             (\E mode \in Modes : Boot(i, p, mode)) \/ VictimKilled(i, p)
      PROVE  AgentInv'
  BY <1>4, RegistryStep
<1>5. ASSUME NEW i \in Instances,
             \/ GuardKills(i) \/ GuardPasses(i) \/ VictimLeft(i) \/ Register(i)
             \/ Heartbeat(i) \/ Stop(i) \/ Terminated(i) \/ Unregister(i)
             \/ UnregisterFails(i) \/ Exit(i) \/ Crash(i)
             \/ LinkDrops(i) \/ Reconnects(i) \/ LinkGivesUp(i)
      PROVE  AgentInv'
  <2>1. i \in Pids
    BY DEF Pids
  <2>2. QED
    BY <1>5, <2>1, RegistryStep
<1>6. ASSUME NEW i \in Instances, NEW n \in Polls,
             \/ PollBegins(i, n) \/ Marked(i, n) \/ MarkFails(i, n)
             \/ \E k \in 0..2 : SendFails(i, n, k) \/ (k # 0 /\ Sent(i, n, k))
      PROVE  AgentInv'
  BY <1>6, PollerStep
<1>7. ASSUME NEW p \in Pids, StrangerTerminated(p) PROVE AgentInv'
  <2>1. UNCHANGED <<inst, victim, row, queue, faults>>
    BY <1>7 DEF StrangerTerminated
  <2>2. term' \subseteq term /\ strangers' \subseteq strangers /\ struck' = TRUE
    BY <1>7 DEF StrangerTerminated
  <2>3. RegistryType'
    BY <1>1, <2>1, <2>2 DEF RegistryType
  <2>4. QED
    BY <1>3, <2>1, <2>3
<1>8. CASE RowAges
  <2>1. UNCHANGED <<inst, victim, term, strangers, struck, queue>>
        /\ (Fault \/ UNCHANGED faults) /\ row # NoRow
    BY <1>8 DEF RowAges
  <2>2. row \in [owner : Instances, pid : Pids, stale : BOOLEAN]
    BY <1>1, <2>1, RowTyped
  <2>3. row' \in [owner : Instances, pid : Pids, stale : BOOLEAN]
    BY <1>8, <2>2 DEF RowAges
  <2>4. RegistryType'
    BY <1>1, <2>1, <2>3 DEF RegistryType
  <2>5. QED
    BY <1>3, <2>1, <2>4
<1>9. CASE Sweep
  <2>1. UNCHANGED <<inst, victim, strangers, row, struck, queue, faults>> /\ row # NoRow
        /\ term' = term \cup {row.pid}
    BY <1>9 DEF Sweep
  <2>2. row.pid \in Pids
    BY <1>1, <2>1, RowTyped
  <2>3. RegistryType'
    BY <1>1, <2>1, <2>2 DEF RegistryType
  <2>4. QED
    BY <1>3, <2>1, <2>3
<1>10. CASE PidReused
  <2>1. UNCHANGED <<inst, victim, term, row, struck, queue>> /\ row # NoRow /\ Fault
        /\ strangers' = strangers \cup {row.pid}
    BY <1>10 DEF PidReused
  <2>2. row.pid \in Pids
    BY <1>1, <2>1, RowTyped
  <2>3. RegistryType'
    BY <1>1, <2>1, <2>2 DEF RegistryType
  <2>4. QED
    BY <1>3, <2>1, <2>3
<1>11. ASSUME NEW m \in Messages, Enqueue(m) PROVE AgentInv'
  <2>1. UNCHANGED <<registry, faults>>
    BY <1>11 DEF Enqueue
  <2>2. RegistryType' /\ faults' \in 0..MaxFaults
    BY <1>1, <2>1 DEF RegistryType, registry
  <2>3. QueueInv'
    BY <1>1, <1>11, QueueGrows
  <2>4. QED
    BY <2>2, <2>3 DEF AgentInv
<1>12. CASE UNCHANGED vars
  <2>1. UNCHANGED registry /\ UNCHANGED queue /\ UNCHANGED faults
    BY <1>12 DEF vars
  <2>2. RegistryType'
    BY <1>1, <2>1 DEF RegistryType, registry
  <2>3. QED
    BY <1>3, <2>1, <2>2
<1>13. QED
  BY <1>4, <1>5, <1>6, <1>7, <1>8, <1>9, <1>10, <1>11, <1>12 DEF Next

\* What the inductive invariant says of the states.
LEMMA AgentInvImplies == AgentInv => Inv
<1> SUFFICES ASSUME AgentInv PROVE Inv
  OBVIOUS
<1>1. RegistryType /\ QueueInv /\ faults \in 0..MaxFaults
  BY DEF AgentInv
<1>2. \A i \in Instances, n \in Polls :
         poll[i][n] = NoPoll \/ poll[i][n] \in [at : {"send", "mark"}, todo : SUBSET Messages]
  BY <1>1 DEF QueueInv, QueueType, PollShape, PollType
<1>3. TypeOK
  BY <1>1, <1>2 DEF TypeOK, RegistryType, QueueInv, QueueType
<1>4. QED
  BY <1>1, <1>3 DEF Inv, QueueInv

-----------------------------------------------------------------------------
(* Theorems *)

\* For any instances, polls, messages and faults: a message is marked only after it
\* was posted, and posted twice only with an excuse.
THEOREM OutboxIsTrue == Spec => []Inv
<1>1. Init => AgentInv
  BY AgentInit
<1>2. AgentInv /\ [Next]_vars => AgentInv'
  BY AgentStep
<1>3. AgentInv => Inv
  BY AgentInvImplies
<1>4. QED
  BY <1>1, <1>2, <1>3, PTL DEF Spec
=============================================================================
