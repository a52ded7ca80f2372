----------------------- MODULE ProcessCommands_proofs -----------------------
(***************************************************************************)
(* Safety of the command channel for any number of commands and instances. *)
(***************************************************************************)
EXTENDS ProcessCommands, TLAPS

\* A row nobody has claimed has left no trace.
Untouched ==
    \A c \in Commands :
        table[c] \in {"unsent", "pending"} =>
            handedOut[c] = 0 /\ ran[c] = {} /\ c \notin skipped

\* A tick that has not claimed yet belongs to the scheduler and holds nothing.
TicksHoldNothing ==
    \A h \in handlers : h.step = "tick" => h.who = "scheduler" /\ h.todo = {}

IInv == /\ TypeOK /\ HandedOutOnce /\ HeldByOneHandler /\ RunsOnceWhereAddressed
        /\ Untouched /\ TicksHoldNothing

LEMMA InstanceNames == \A i \in Instances : NameOf(i) \in Names
  BY DEF Instances, NameOf, Names

LEMMA CommandFields ==
    ASSUME NEW m \in Command PROVE m.target \in Names /\ m.action \in Actions
  BY DEF Command, Names, Actions

-----------------------------------------------------------------------------
(* The type invariant *)

LEMMA ClaimType ==
    ASSUME TypeOK, NEW i \in Instances, NEW who \in {"supervisor", "scheduler"},
           Claim(i, who)
    PROVE  /\ table' \in [Commands -> {"unsent", "pending", "claimed", "deleted"}]
           /\ handedOut' \in [Commands -> Nat]
           /\ skipped' \subseteq Commands
           /\ ran' = ran
  BY DEF TypeOK, Claim, Claimable

LEMMA AdvanceType ==
    ASSUME TypeOK, NEW h \in handlers,
           NEW s \in {"tick", "loop", "drain", "unregister"},
           NEW rest \in SUBSET Commands
    PROVE  Advance(h, s, rest) \subseteq Handler
  BY DEF TypeOK, Advance, Handler

LEMMA TypeStep == TypeOK /\ [Next]_vars => TypeOK'
<1> SUFFICES ASSUME TypeOK, [Next]_vars PROVE TypeOK'
  OBVIOUS
<1>1. ASSUME NEW c \in Commands, SendCommand(c) PROVE TypeOK'
  BY <1>1 DEF TypeOK, SendCommand, instVars, history
<1>2. ASSUME NEW i \in Instances, NEW old \in SUBSET Commands, CleanupOldCommands(i, old)
      PROVE TypeOK'
  BY <1>2 DEF TypeOK, CleanupOldCommands, instVars, history
<1>3. ASSUME NEW i \in Instances, SupervisorPoll(i) PROVE TypeOK'
  <2>1. handlers' \subseteq Handler
    BY <1>3 DEF TypeOK, SupervisorPoll, Handler, Mine, Claimable
  <2>2. QED
    BY <1>3, <2>1, ClaimType DEF TypeOK, SupervisorPoll, instVars
<1>4. ASSUME NEW i \in Instances, Shutdown(i) PROVE TypeOK'
  BY <1>4 DEF TypeOK, Shutdown, Handler, history
<1>5. ASSUME NEW i \in Instances, TickStart(i) PROVE TypeOK'
  BY <1>5 DEF TypeOK, TickStart, Handler, history, instVars
<1>6. ASSUME NEW i \in Instances, Crash(i) \/ Boot(i) PROVE TypeOK'
  BY <1>6 DEF TypeOK, Crash, Gone, Boot, history, Instances
<1>7. ASSUME NEW h \in handlers, HandlerStep(h) PROVE TypeOK'
  <2> h \in Handler /\ h.inst \in Instances /\ h.todo \in SUBSET Commands
    BY DEF TypeOK, Handler
  <2>1. ASSUME NEW c \in Commands, HandleProcessCommand(h, c) PROVE TypeOK'
    <3>1. handlers' \subseteq Handler
      BY <2>1, AdvanceType DEF HandleProcessCommand
    <3>2. QED
      BY <2>1, <3>1 DEF TypeOK, HandleProcessCommand
  <2>2. CASE DrainHooks(h)
    <3>1. handlers' \subseteq Handler
      BY <2>2, AdvanceType DEF DrainHooks
    <3>2. QED
      BY <2>2, <3>1 DEF TypeOK, DrainHooks, instVars, history
  <2>3. CASE ExitProcess(h)
    BY <2>3 DEF TypeOK, ExitProcess, Gone, history
  <2>4. CASE SchedulerPoll(h)
    <3>1. handlers' \subseteq Handler
      BY <2>4, AdvanceType DEF SchedulerPoll, Mine, Claimable
    <3>2. QED
      BY <2>4, <3>1, ClaimType DEF TypeOK, SchedulerPoll, instVars
  <2>5. ASSUME NEW c \in Commands, NEW known \in BOOLEAN, RunJobCommand(h, c, known)
        PROVE TypeOK'
    <3>1. handlers' \subseteq Handler
      BY <2>5, AdvanceType DEF RunJobCommand
    <3>2. QED
      BY <2>5, <3>1 DEF TypeOK, RunJobCommand, instVars
  <2>6. CASE TickEnd(h) \/ DbError(h)
    BY <2>6 DEF TypeOK, TickEnd, DbError, instVars, history
  <2>7. QED
    BY <1>7, <2>1, <2>2, <2>3, <2>4, <2>5, <2>6 DEF HandlerStep
<1>8. CASE UNCHANGED vars
  BY <1>8 DEF TypeOK, vars
<1>9. QED
  BY <1>1, <1>2, <1>3, <1>4, <1>5, <1>6, <1>7, <1>8 DEF Next

\* Every variable keeps its type (all of ProcessCommands).
THEOREM TypeCorrect == Spec => []TypeOK
<1>1. Init => TypeOK
  BY CommandsAssumption DEF Init, TypeOK
<1>2. QED
  BY <1>1, TypeStep, PTL DEF Spec

-----------------------------------------------------------------------------
(* At most once *)

\* A claim takes only untouched rows, hands each out once and leaves every
\* other row as it was.
LEMMA ClaimStep ==
    ASSUME IInv, NEW i \in Instances, NEW who \in {"supervisor", "scheduler"},
           Claim(i, who)
    PROVE  /\ HandedOutOnce' /\ Untouched' /\ ran' = ran
           /\ \A c \in Mine(i, who) :
                 /\ c \in Commands /\ table[c] = "pending" /\ table'[c] = "claimed"
                 /\ ran[c] = {} /\ c \notin skipped'
                 /\ cmd[c].target = NameOf(i) /\ cmd[c].action \in Handles(who)
           /\ \A c \in Commands : table[c] \in {"claimed", "deleted"} =>
                 table'[c] = table[c] /\ (c \in skipped' <=> c \in skipped)
<1> DEFINE rows == Claimable(NameOf(i))
<1>1. \A c \in rows : c \in Commands /\ table[c] = "pending" /\ cmd[c].target = NameOf(i)
  BY DEF Claimable
<1>2. /\ table' = [c \in Commands |-> IF c \in rows THEN "claimed" ELSE table[c]]
      /\ handedOut' = [c \in Commands |-> handedOut[c] + (IF c \in rows THEN 1 ELSE 0)]
      /\ skipped' = skipped \cup {c \in rows : cmd[c].action \notin Handles(who)}
      /\ ran' = ran
  BY DEF Claim
<1>3. Mine(i, who) = {c \in rows : cmd[c].action \in Handles(who)}
  BY DEF Mine
<1> HIDE DEF rows
<1>4. HandedOutOnce'
  BY <1>1, <1>2 DEF IInv, HandedOutOnce, Untouched, TypeOK
<1>5. Untouched'
  BY <1>1, <1>2 DEF IInv, Untouched, TypeOK
<1>6. QED
  BY <1>1, <1>2, <1>3, <1>4, <1>5 DEF IInv, Untouched, TypeOK

\* Replacing a handler by itself with fewer commands to do keeps batches
\* disjoint.
LEMMA AdvanceHeld ==
    ASSUME HeldByOneHandler, handlers \subseteq Handler, NEW h \in handlers,
           NEW s \in {"tick", "loop", "drain", "unregister"},
           NEW rest \in SUBSET h.todo
    PROVE  \A g \in Advance(h, s, rest) : \A c \in g.todo :
              /\ \A f \in Advance(h, s, rest) : c \in f.todo => f = g
              /\ \E o \in handlers : c \in o.todo /\ o.inst = g.inst /\ o.who = g.who
              /\ c \in rest \/ c \notin h.todo
<1> DEFINE new == [h EXCEPT !.step = s, !.todo = rest]
<1>1. new.inst = h.inst /\ new.who = h.who /\ new.todo = rest
  BY DEF Handler
<1>2. Advance(h, s, rest) = (handlers \ {h}) \cup {new}
  BY DEF Advance
<1> HIDE DEF new
<1>3. QED
  BY <1>1, <1>2 DEF HeldByOneHandler

LEMMA TicksStep == TypeOK /\ TicksHoldNothing /\ [Next]_vars => TicksHoldNothing'
<1> SUFFICES ASSUME TypeOK, TicksHoldNothing, [Next]_vars PROVE TicksHoldNothing'
  OBVIOUS
<1> USE DEF TicksHoldNothing
<1>1. ASSUME NEW c \in Commands, SendCommand(c) PROVE TicksHoldNothing'
  BY <1>1 DEF SendCommand
<1>2. ASSUME NEW i \in Instances, NEW old \in SUBSET Commands, CleanupOldCommands(i, old)
      PROVE TicksHoldNothing'
  BY <1>2 DEF CleanupOldCommands
<1>3. ASSUME NEW i \in Instances,
             \/ SupervisorPoll(i) \/ Shutdown(i) \/ TickStart(i) \/ Crash(i) \/ Boot(i)
      PROVE TicksHoldNothing'
  BY <1>3 DEF SupervisorPoll, Shutdown, TickStart, Crash, Gone, Boot
<1>4. ASSUME NEW h \in handlers, HandlerStep(h) PROVE TicksHoldNothing'
  <2>1. \/ handlers' \subseteq handlers
        \/ \E s \in {"drain", "unregister", "loop"}, rest \in SUBSET Commands :
               handlers' = Advance(h, s, rest)
    BY <1>4 DEF HandlerStep, HandleProcessCommand, DrainHooks, ExitProcess, Gone,
       SchedulerPoll, Mine, Claimable, RunJobCommand, TickEnd, DbError, TypeOK, Handler
  <2>2. ASSUME NEW s \in {"drain", "unregister", "loop"}, NEW rest \in SUBSET Commands
        PROVE  [h EXCEPT !.step = s, !.todo = rest].step # "tick"
    BY DEF TypeOK, Handler
  <2>3. QED
    BY <2>1, <2>2 DEF Advance
<1>5. CASE UNCHANGED vars
  BY <1>5 DEF vars
<1>6. QED
  BY <1>1, <1>2, <1>3, <1>4, <1>5 DEF Next

LEMMA InvStep == IInv /\ [Next]_vars => IInv'
<1> SUFFICES ASSUME IInv, [Next]_vars PROVE IInv'
  OBVIOUS
<1> USE DEF IInv
<1>0. TypeOK' /\ TicksHoldNothing'
  BY TypeStep, TicksStep
<1>1. ASSUME NEW c \in Commands, SendCommand(c) PROVE IInv'
  <2>1. HeldByOneHandler'
    BY <1>1 DEF SendCommand, HeldByOneHandler, TypeOK, Handler, history
  <2>2. QED
    BY <1>0, <1>1, <2>1 DEF SendCommand, HandedOutOnce, RunsOnceWhereAddressed,
       Untouched, TypeOK, history
<1>2. ASSUME NEW i \in Instances, NEW old \in SUBSET Commands, CleanupOldCommands(i, old)
      PROVE IInv'
  <2>1. HeldByOneHandler'
    BY <1>2 DEF CleanupOldCommands, HeldByOneHandler, TypeOK, Handler, history
  <2>2. QED
    BY <1>0, <1>2, <2>1 DEF CleanupOldCommands, HandedOutOnce, RunsOnceWhereAddressed,
       Untouched, TypeOK, history
<1>3. ASSUME NEW i \in Instances, SupervisorPoll(i) PROVE IInv'
  <2> DEFINE mine == Mine(i, "supervisor")
             new  == [inst |-> i, who |-> "supervisor", step |-> "loop", todo |-> mine]
  <2>1. Claim(i, "supervisor") /\ cmd' = cmd
    BY <1>3 DEF SupervisorPoll
  <2>2. handlers' = handlers \/ handlers' = handlers \cup {new}
    BY <1>3 DEF SupervisorPoll
  <2>3. /\ HandedOutOnce' /\ Untouched' /\ ran' = ran
        /\ \A c \in mine :
              /\ c \in Commands /\ table[c] = "pending" /\ table'[c] = "claimed"
              /\ ran[c] = {} /\ c \notin skipped'
              /\ cmd[c].target = NameOf(i) /\ cmd[c].action \in Handles("supervisor")
        /\ \A c \in Commands : table[c] \in {"claimed", "deleted"} =>
              table'[c] = table[c] /\ (c \in skipped' <=> c \in skipped)
    BY <2>1, ClaimStep
  <2>4. new.inst = i /\ new.who = "supervisor" /\ new.todo = mine
    OBVIOUS
  <2> HIDE DEF mine, new
  <2>5. HeldByOneHandler'
    BY <2>1, <2>2, <2>3, <2>4 DEF HeldByOneHandler, TypeOK, Handler
  <2>6. QED
    BY <1>0, <2>1, <2>3, <2>5 DEF RunsOnceWhereAddressed
<1>4. ASSUME NEW i \in Instances, Shutdown(i) \/ TickStart(i) PROVE IInv'
  <2>1. \A g \in handlers' : g \in handlers \/ g.todo = {}
    BY <1>4 DEF Shutdown, TickStart
  <2>2. UNCHANGED <<cmd, table, ran, skipped>>
    BY <1>4 DEF Shutdown, TickStart, history
  <2>3. HeldByOneHandler'
    BY <2>1, <2>2 DEF HeldByOneHandler
  <2>4. QED
    BY <1>0, <1>4, <2>3 DEF Shutdown, TickStart, HandedOutOnce,
       RunsOnceWhereAddressed, Untouched, history
<1>5. ASSUME NEW i \in Instances, Crash(i) \/ Boot(i) PROVE IInv'
  <2>1. handlers' \subseteq handlers
    BY <1>5 DEF Crash, Gone, Boot
  <2>2. QED
    BY <1>0, <1>5, <2>1 DEF Crash, Boot, HeldByOneHandler, HandedOutOnce,
       RunsOnceWhereAddressed, Untouched, history
<1>6. ASSUME NEW h \in handlers, HandlerStep(h) PROVE IInv'
  <2> h \in Handler /\ h.inst \in Instances /\ h.todo \in SUBSET Commands
    BY DEF TypeOK, Handler
  <2>1. ASSUME NEW c \in Commands,
               HandleProcessCommand(h, c) \/ RunJobCommand(h, c, TRUE)
        PROVE IInv'
    <3>1. c \in h.todo /\ (\E s \in {"drain", "loop"} : handlers' = Advance(h, s, h.todo \ {c}))
      BY <2>1 DEF HandleProcessCommand, RunJobCommand
    <3>2. /\ ran' = [ran EXCEPT ![c] = @ \cup {h.inst}]
          /\ cmd' = cmd /\ table' = table /\ handedOut' = handedOut /\ skipped' = skipped
      BY <2>1 DEF HandleProcessCommand, RunJobCommand
    <3>3. /\ table[c] \in {"claimed", "deleted"} /\ ran[c] = {}
          /\ cmd[c].target = NameOf(h.inst)
      BY <3>1 DEF HeldByOneHandler
    <3>4. \A g \in handlers' : \A d \in g.todo :
              /\ \A f \in handlers' : d \in f.todo => f = g
              /\ \E o \in handlers : d \in o.todo /\ o.inst = g.inst /\ o.who = g.who
              /\ d # c
      <4>1. h.todo \ {c} \in SUBSET h.todo /\ handlers \subseteq Handler
        BY DEF TypeOK
      <4>2. PICK s \in {"drain", "loop"} : handlers' = Advance(h, s, h.todo \ {c})
        BY <3>1
      <4>3. QED
        BY <3>1, <4>1, <4>2, AdvanceHeld
    <3>5. HeldByOneHandler'
      BY <3>2, <3>4 DEF HeldByOneHandler, TypeOK, Handler
    <3>6. RunsOnceWhereAddressed' /\ Untouched' /\ HandedOutOnce'
      BY <3>2, <3>3 DEF RunsOnceWhereAddressed, Untouched, HandedOutOnce, TypeOK
    <3>7. QED
      BY <1>0, <3>5, <3>6
  <2>2. ASSUME \/ DrainHooks(h)
               \/ \E c \in Commands : RunJobCommand(h, c, FALSE)
        PROVE IInv'
    <3>1. \E s \in {"unregister", "loop"} : \E rest \in SUBSET h.todo :
              handlers' = Advance(h, s, rest)
      BY <2>2 DEF DrainHooks, RunJobCommand
    <3>2. UNCHANGED <<cmd, table, handedOut, ran, skipped>>
      BY <2>2 DEF DrainHooks, RunJobCommand, history
    <3>3. handlers \subseteq Handler
      BY DEF TypeOK
    <3>4. PICK s \in {"unregister", "loop"}, rest \in SUBSET h.todo :
              handlers' = Advance(h, s, rest)
      BY <3>1
    <3>5. \A g \in handlers' : \A d \in g.todo :
              /\ \A f \in handlers' : d \in f.todo => f = g
              /\ \E o \in handlers : d \in o.todo /\ o.inst = g.inst /\ o.who = g.who
      BY <3>3, <3>4, AdvanceHeld
    <3>6. HeldByOneHandler'
      BY <3>2, <3>5 DEF HeldByOneHandler
    <3>7. QED
      BY <1>0, <3>2, <3>6 DEF HandedOutOnce, RunsOnceWhereAddressed, Untouched
  <2>3. CASE ExitProcess(h) \/ TickEnd(h) \/ DbError(h)
    <3>1. handlers' \subseteq handlers /\ UNCHANGED <<cmd, table, handedOut, ran, skipped>>
      BY <2>3 DEF ExitProcess, Gone, TickEnd, DbError, history
    <3>2. QED
      BY <1>0, <3>1 DEF HeldByOneHandler, HandedOutOnce, RunsOnceWhereAddressed, Untouched
  <2>4. CASE SchedulerPoll(h)
    <3> DEFINE mine == Mine(h.inst, "scheduler")
               new  == [h EXCEPT !.step = "loop", !.todo = mine]
    <3>1. Claim(h.inst, "scheduler") /\ cmd' = cmd
      BY <2>4 DEF SchedulerPoll
    <3>2. h.who = "scheduler" /\ handlers' = (handlers \ {h}) \cup {new}
      BY <2>4 DEF SchedulerPoll, TicksHoldNothing, Advance
    <3>3. /\ HandedOutOnce' /\ Untouched' /\ ran' = ran
          /\ \A c \in mine :
                /\ c \in Commands /\ table[c] = "pending" /\ table'[c] = "claimed"
                /\ ran[c] = {} /\ c \notin skipped'
                /\ cmd[c].target = NameOf(h.inst) /\ cmd[c].action \in Handles("scheduler")
          /\ \A c \in Commands : table[c] \in {"claimed", "deleted"} =>
                table'[c] = table[c] /\ (c \in skipped' <=> c \in skipped)
      BY <3>1, ClaimStep
    <3>4. new.inst = h.inst /\ new.who = "scheduler" /\ new.todo = mine
      BY <3>2 DEF Handler
    <3> HIDE DEF mine, new
    <3>5. HeldByOneHandler'
      BY <3>1, <3>2, <3>3, <3>4 DEF HeldByOneHandler, TypeOK, Handler
    <3>6. QED
      BY <1>0, <3>1, <3>3, <3>5 DEF RunsOnceWhereAddressed
  <2>5. QED
    BY <1>6, <2>1, <2>2, <2>3, <2>4 DEF HandlerStep
<1>7. CASE UNCHANGED vars
  BY <1>7 DEF vars, TypeOK, HandedOutOnce, HeldByOneHandler, RunsOnceWhereAddressed, Untouched,
     TicksHoldNothing
<1>8. QED
  BY <1>1, <1>2, <1>3, <1>4, <1>5, <1>6, <1>7 DEF Next

LEMMA Invariance == Spec => []IInv
<1>1. Init => IInv
  BY CommandsAssumption DEF Init, IInv, TypeOK, HandedOutOnce, HeldByOneHandler,
     RunsOnceWhereAddressed, Untouched, TicksHoldNothing
<1>2. QED
  BY <1>1, InvStep, PTL DEF Spec

\* No command is handed to two polls (consumePendingCommands).
THEOREM ClaimedOnce == Spec => []HandedOutOnce
<1>1. IInv => HandedOutOnce
  BY DEF IInv
<1>2. QED
  BY <1>1, Invariance, PTL

\* Batches in flight are disjoint and hold only commands their handler may run.
THEOREM BatchesDisjoint == Spec => []HeldByOneHandler
<1>1. IInv => HeldByOneHandler
  BY DEF IInv
<1>2. QED
  BY <1>1, Invariance, PTL

\* A command takes effect in one instance at most, one of its target process.
THEOREM RunsOnce == Spec => []RunsOnceWhereAddressed
<1>1. IInv => RunsOnceWhereAddressed
  BY DEF IInv
<1>2. QED
  BY <1>1, Invariance, PTL

-----------------------------------------------------------------------------
(* The table implements the at-most-once channel *)

Held(c) == \E h \in handlers : c \in h.todo

\* What one step may do to the row, the effect and the holder of a command.
MayDo(c) ==
    /\ table[c] = "unsent" => table'[c] \in {"unsent", "pending"}
    /\ table[c] = "pending" => table'[c] # "unsent"
    /\ table[c] \in {"claimed", "deleted"} => table'[c] \in {"claimed", "deleted"}
    /\ ran'[c] # ran[c] => Held(c)
    /\ ran[c] # {} => ran'[c] # {}
    /\ table[c] \in {"claimed", "deleted"} /\ ~Held(c) => ~Held(c)'

LEMMA CommandStep == ASSUME IInv, [Next]_vars, NEW c \in Commands PROVE MayDo(c)
<1> USE DEF IInv, TypeOK, MayDo, Held
<1>1. ASSUME NEW d \in Commands, SendCommand(d) PROVE MayDo(c)
  BY <1>1 DEF SendCommand, history
<1>2. ASSUME NEW i \in Instances, NEW old \in SUBSET Commands, CleanupOldCommands(i, old)
      PROVE MayDo(c)
  BY <1>2 DEF CleanupOldCommands, history
<1>3. ASSUME NEW i \in Instances, SupervisorPoll(i) PROVE MayDo(c)
  <2> DEFINE mine == Mine(i, "supervisor")
             new  == [inst |-> i, who |-> "supervisor", step |-> "loop", todo |-> mine]
  <2>1. new.todo = mine /\ (\A d \in mine : table[d] = "pending")
    BY DEF Mine, Claimable
  <2>2. handlers' = handlers \/ handlers' = handlers \cup {new}
    BY <1>3 DEF SupervisorPoll
  <2> HIDE DEF mine, new
  <2>3. QED
    BY <1>3, <2>1, <2>2 DEF SupervisorPoll, Claim, Claimable
<1>4. ASSUME NEW i \in Instances, Shutdown(i) \/ TickStart(i) PROVE MayDo(c)
  <2>1. \A g \in handlers' : g \in handlers \/ g.todo = {}
    BY <1>4 DEF Shutdown, TickStart
  <2>2. UNCHANGED <<table, ran>>
    BY <1>4 DEF Shutdown, TickStart, history
  <2>3. QED
    BY <2>1, <2>2
<1>5. ASSUME NEW i \in Instances, Crash(i) \/ Boot(i) PROVE MayDo(c)
  BY <1>5 DEF Crash, Gone, Boot, history
<1>6. ASSUME NEW h \in handlers, HandlerStep(h) PROVE MayDo(c)
  <2> h \in Handler
    OBVIOUS
  <2>1. ASSUME \/ \E d \in Commands : HandleProcessCommand(h, d)
               \/ \E d \in Commands, known \in BOOLEAN : RunJobCommand(h, d, known)
               \/ DrainHooks(h)
        PROVE  MayDo(c)
    <3>1. PICK s \in {"drain", "unregister", "loop"}, rest \in SUBSET h.todo :
              handlers' = Advance(h, s, rest)
      BY <2>1 DEF HandleProcessCommand, RunJobCommand, DrainHooks
    <3>2. [h EXCEPT !.step = s, !.todo = rest].todo = rest
      BY DEF Handler
    <3>3. \A g \in handlers' : g \in handlers \/ g.todo \subseteq h.todo
      BY <3>1, <3>2 DEF Advance
    <3>4. table' = table /\ (ran'[c] # ran[c] => c \in h.todo) /\ ran[c] \subseteq ran'[c]
      BY <2>1 DEF HandleProcessCommand, RunJobCommand, DrainHooks, history
    <3>5. QED
      BY <3>3, <3>4
  <2>2. CASE ExitProcess(h) \/ TickEnd(h) \/ DbError(h)
    BY <2>2 DEF ExitProcess, Gone, TickEnd, DbError, history
  <2>3. CASE SchedulerPoll(h)
    <3>1. \A d \in Mine(h.inst, "scheduler") : table[d] = "pending"
      BY DEF Mine, Claimable
    <3>2. [h EXCEPT !.step = "loop", !.todo = Mine(h.inst, "scheduler")].todo
              = Mine(h.inst, "scheduler")
      BY DEF Handler
    <3>3. \A g \in handlers' : g \in handlers \/ g.todo = Mine(h.inst, "scheduler")
      BY <2>3, <3>2 DEF SchedulerPoll, Advance
    <3>4. QED
      BY <2>3, <3>1, <3>3 DEF SchedulerPoll, Claim, Claimable
  <2>4. QED
    BY <1>6, <2>1, <2>2, <2>3 DEF HandlerStep
<1>7. CASE UNCHANGED vars
  BY <1>7 DEF vars
<1>8. QED
  BY <1>1, <1>2, <1>3, <1>4, <1>5, <1>6, <1>7 DEF Next

LEMMA PhaseStep ==
    ASSUME IInv, IInv', [Next]_vars, NEW c \in Commands
    PROVE  PhaseOf(c)' # PhaseOf(c) => <<PhaseOf(c), PhaseOf(c)'>> \in Channel!Move
<1>1. MayDo(c)
  BY CommandStep
<1>2. table[c] \in {"unsent", "pending", "claimed", "deleted"}
  BY DEF IInv, TypeOK
<1>3. table'[c] \in {"unsent", "pending", "claimed", "deleted"}
  BY DEF IInv, TypeOK
<1>4. Held(c) => table[c] \in {"claimed", "deleted"} /\ ran[c] = {}
  BY DEF IInv, HeldByOneHandler, Held
<1>5. table[c] \in {"unsent", "pending"} => ran[c] = {}
  BY DEF IInv, Untouched
<1>6. CASE table[c] = "unsent"
  BY <1>1, <1>6 DEF MayDo, PhaseOf, Channel!Move
<1>7. CASE table[c] = "pending"
  BY <1>1, <1>3, <1>4, <1>5, <1>7 DEF MayDo, PhaseOf, Channel!Move
<1>8. CASE table[c] \in {"claimed", "deleted"}
  <2>1. table'[c] \in {"claimed", "deleted"}
    BY <1>1, <1>8 DEF MayDo
  <2>2. QED
    BY <1>1, <1>4, <1>8, <2>1 DEF MayDo, PhaseOf, Channel!Move, Held
<1>9. QED
  BY <1>2, <1>6, <1>7, <1>8

\* The table with its pollers, crashes and sweeps is an at-most-once channel.
THEOREM ImplementsChannel == Spec => AtMostOnceChannel
<1>1. Init => Channel!Init
  BY DEF Init, Channel!Init, PhaseOf
<1>2. IInv /\ IInv' /\ [Next]_vars => [Channel!Next]_([c \in Commands |-> PhaseOf(c)])
  <2> SUFFICES ASSUME IInv, IInv', [Next]_vars PROVE Channel!Next
    OBVIOUS
  <2>1. \A c \in Commands : PhaseOf(c)' \in Channel!Phases
    BY DEF PhaseOf, Channel!Phases
  <2>2. \A c \in Commands :
            PhaseOf(c)' # PhaseOf(c) => <<PhaseOf(c), PhaseOf(c)'>> \in Channel!Move
    BY PhaseStep
  <2>3. QED
    BY <2>1, <2>2 DEF Channel!Next
<1>3. QED
  BY <1>1, <1>2, Invariance, PTL DEF Spec, AtMostOnceChannel, Channel!Spec
=============================================================================
