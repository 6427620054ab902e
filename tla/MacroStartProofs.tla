------------------------- MODULE MacroStartProofs -------------------------
(***************************************************************************)
(* Theorems about the start gate, for every number of callers, runs and    *)
(* triggers, every use and fault set and every journal length.             *)
(***************************************************************************)
EXTENDS MacroStart, TLAPS

\* The phases only an admission goes through, and what an operation's use says
\* about its trigger.
GatePhases == {"unclaimed", "undeduping", "deduped", "conflict", "unconflicted"}

Pinned(o) ==
  /\ o \in Operation
  /\ o.phase \in GatePhases => o.use = "admit"
  /\ o.use = "admit" /\ o.phase # "idle" => o.trigger \in Trigger /\ o.run \in RunId
  /\ o.use # "admit" => o.trigger = NoTrigger /\ o.run \in RunId

OpInv == \A c \in Callers : Pinned(op[c])

StartTypeInv == StartTypeOK /\ OpInv

\* What o holds, p held: o's claims are among those of p.
HoldsNoMore(o, p) ==
  /\ HoldsTrigger(o) => HoldsTrigger(p) /\ p.trigger = o.trigger
  /\ HoldsRun(o) => HoldsRun(p) /\ p.run = o.run

-----------------------------------------------------------------------------
(* Updates of one operation.                                               *)

LEMMA IdlePinned == Pinned(IdleOperation)
  BY DEF Pinned, GatePhases, IdleOperation, Operation, UseKinds, Phases, Reasons

LEMMA OpUpdate ==
  ASSUME StartTypeInv, NEW c \in Callers, NEW o, Pinned(o),
         op' = [op EXCEPT ![c] = o]
  PROVE  /\ op' \in [Callers -> Operation]
         /\ OpInv'
         /\ \A d \in Callers : op'[d] = IF d = c THEN o ELSE op[d]
  <1>1. op \in [Callers -> Operation] /\ o \in Operation /\ OpInv
    BY DEF StartTypeInv, StartTypeOK, Pinned
  <1>2. \A d \in Callers : op'[d] = IF d = c THEN o ELSE op[d]
    BY <1>1
  <1> QED
    BY <1>1, <1>2 DEF OpInv

\* c's operation is in phase p, with the use, run and trigger it had.
StepTo(c, p) ==
  /\ op' \in [Callers -> Operation]
  /\ OpInv'
  /\ \A d \in Callers : d # c => op'[d] = op[d]
  /\ op'[c].phase = p
  /\ op'[c].use = op[c].use
  /\ op'[c].run = op[c].run
  /\ op'[c].trigger = op[c].trigger

LEMMA Advanced ==
  ASSUME StartTypeInv, NEW c \in Callers, NEW o \in Operation,
         op[c].phase # "idle", o.phase # "idle", o.use = op[c].use,
         o.run = op[c].run, o.trigger = op[c].trigger,
         o.phase \in GatePhases => o.use = "admit",
         op' = [op EXCEPT ![c] = o]
  PROVE  StepTo(c, o.phase)
  <1>1. Pinned(o)
    BY DEF StartTypeInv, OpInv, Pinned
  <1> QED
    BY <1>1, OpUpdate DEF StepTo

LEMMA Went ==
  ASSUME StartTypeInv, NEW c \in Callers, NEW p \in Phases \ {"idle"},
         op[c].phase # "idle", p \in GatePhases => op[c].use = "admit",
         Goto(c, p)
  PROVE  StepTo(c, p)
  <1> DEFINE o == [op[c] EXCEPT !.phase = p]
  <1>1. o \in Operation /\ o.phase = p /\ o.use = op[c].use
        /\ o.run = op[c].run /\ o.trigger = op[c].trigger
    BY DEF StartTypeInv, StartTypeOK, Operation
  <1>2. op' = [op EXCEPT ![c] = o]
    BY DEF Goto
  <1> HIDE DEF o
  <1> QED
    BY <1>1, <1>2, Advanced

LEMMA Raised ==
  ASSUME StartTypeInv, NEW c \in Callers, op[c].phase # "idle", Raise(c)
  PROVE  StepTo(c, "raised")
  BY Went DEF Raise, Phases, GatePhases

LEMMA Concluded ==
  ASSUME StartTypeInv, NEW c \in Callers, op[c].phase # "idle",
         NEW reason \in Reasons, Conclude(c, reason)
  PROVE  StepTo(c, "recording")
  <1> DEFINE o == [op[c] EXCEPT !.phase = "recording", !.reason = reason]
  <1>1. o \in Operation /\ o.phase = "recording" /\ o.use = op[c].use
        /\ o.run = op[c].run /\ o.trigger = op[c].trigger
    BY DEF StartTypeInv, StartTypeOK, Operation, Phases
  <1>2. op' = [op EXCEPT ![c] = o]
    BY DEF Conclude
  <1>3. o.phase \notin GatePhases
    BY DEF GatePhases
  <1> HIDE DEF o
  <1> QED
    BY <1>1, <1>2, <1>3, Advanced

LEMMA Returned ==
  ASSUME StartTypeInv, NEW c \in Callers, op[c].phase # "idle", StartReturn(c)
  PROVE  StepTo(c, "recording") \/ StepTo(c, "answered")
  BY Concluded, Went DEF StartReturn, Reasons, Phases, GatePhases

-----------------------------------------------------------------------------
(* Steps that claim, release and write nothing.                            *)

\* An operation that keeps at most what it held disturbs no reservation.
LEMMA NothingTaken ==
  ASSUME Reservations, NEW c \in Callers,
         UNCHANGED <<triggerClaims, runClaims, journal>>,
         \A d \in Callers : d # c => op'[d] = op[d],
         HoldsNoMore(op'[c], op[c])
  PROVE  Reservations'
  <1>1. \A d \in Callers :
          /\ HoldsTrigger(op'[d]) => HoldsTrigger(op[d]) /\ op'[d].trigger = op[d].trigger
          /\ HoldsRun(op'[d]) => HoldsRun(op[d]) /\ op'[d].run = op[d].run
    BY DEF HoldsNoMore, HoldsTrigger, HoldsRun
  <1> QED
    BY <1>1 DEF Reservations, TriggersHeld, RunsHeld, HoldersDiffer,
       StartedStayClaimed, Starts

\* A step between phases of which the later holds no more.
LEMMA QuietStep ==
  ASSUME StartTypeInv, Reservations, NEW c \in Callers, NEW p \in Phases,
         UNCHANGED <<triggerClaims, runClaims, journal>>, StepTo(c, p),
         p \in TriggerHeldPhases => op[c].phase \in TriggerHeldPhases,
         p \in RunHeldPhases => op[c].phase \in RunHeldPhases
  PROVE  (StartTypeInv /\ Reservations)'
  <1>1. HoldsNoMore(op'[c], op[c])
    BY DEF HoldsNoMore, HoldsTrigger, HoldsRun, StepTo
  <1>2. Reservations'
    BY <1>1, NothingTaken DEF StepTo
  <1> QED
    BY <1>2 DEF StartTypeInv, StartTypeOK, StepTo

\* A new operation, or none, holds nothing.
LEMMA FreshStep ==
  ASSUME StartTypeInv, Reservations, NEW c \in Callers, NEW o, Pinned(o),
         UNCHANGED <<triggerClaims, runClaims, journal>>,
         op' = [op EXCEPT ![c] = o],
         o.use = "admit" => o.phase \notin TriggerHeldPhases \union RunHeldPhases
  PROVE  (StartTypeInv /\ Reservations)'
  <1>1. /\ op' \in [Callers -> Operation] /\ OpInv'
        /\ \A d \in Callers : op'[d] = IF d = c THEN o ELSE op[d]
    BY OpUpdate
  <1>2. HoldsNoMore(op'[c], op[c])
    BY <1>1 DEF HoldsNoMore, HoldsTrigger, HoldsRun
  <1>3. Reservations'
    BY <1>1, <1>2, NothingTaken
  <1> QED
    BY <1>1, <1>3 DEF StartTypeInv, StartTypeOK

-----------------------------------------------------------------------------
(* The steps of an admission, one lemma each.                              *)

StartInv == StartTypeInv /\ Reservations

LEMMA StartInvInit == StartInit => StartInv
  <1> SUFFICES ASSUME StartInit PROVE StartInv
    OBVIOUS
  <1>1. StartTypeInv
    BY IdlePinned DEF StartInit, StartTypeInv, StartTypeOK, OpInv, Pinned
  <1>2. Reservations
    BY DEF StartInit, IdleOperation, Reservations, TriggersHeld, RunsHeld,
       HoldersDiffer, StartedStayClaimed, Starts, HoldsTrigger,
           HoldsRun, TriggerHeldPhases, RunHeldPhases
  <1> QED
    BY <1>1, <1>2 DEF StartInv

LEMMA AdmitPreserves ==
  ASSUME StartInv, NEW c \in Callers, NEW request \in Requests,
         NEW verdict, Admit(c, request, verdict)
  PROVE  StartInv'
  <1> DEFINE asked(phase, reason) ==
        [use |-> "admit", phase |-> phase, run |-> request.run,
         trigger |-> request.trigger, seen |-> 0, terminal |-> FALSE,
         reason |-> reason]
  <1>1. request.run \in RunId /\ request.trigger \in Trigger
    BY RequestAssumption
  <1>2. PICK phase \in {"recording", "raised", "unclaimed"}, reason \in Reasons :
          op' = [op EXCEPT ![c] = asked(phase, reason)]
    BY DEF Admit, Reasons
  <1>3. Pinned(asked(phase, reason))
    BY <1>1 DEF Pinned, Operation, UseKinds, Phases, GatePhases
  <1>4. asked(phase, reason).phase \notin TriggerHeldPhases \union RunHeldPhases
    BY DEF TriggerHeldPhases, RunHeldPhases
  <1>5. UNCHANGED <<triggerClaims, runClaims, journal>>
    BY DEF Admit
  <1> QED
    BY <1>2, <1>3, <1>4, <1>5, FreshStep DEF StartInv

LEMMA ClaimTriggerPreserves ==
  ASSUME StartInv, NEW c \in Callers, ClaimTrigger(c)
  PROVE  StartInv'
  <1>1. op[c].phase = "unclaimed" /\ UNCHANGED <<runClaims, journal>>
    BY DEF ClaimTrigger
  <1>2. CASE op[c].trigger \in triggerClaims
    <2>1. StepTo(c, "recording") /\ UNCHANGED triggerClaims
      BY <1>1, <1>2, Concluded DEF ClaimTrigger, StartInv, Reasons
    <2> QED
      BY <1>1, <2>1, QuietStep
         DEF StartInv, TriggerHeldPhases, RunHeldPhases, Phases
  <1>3. CASE op[c].trigger \notin triggerClaims
    <2>1. op[c].use = "admit" /\ op[c].trigger \in Trigger
      BY <1>1 DEF StartInv, StartTypeInv, OpInv, Pinned, GatePhases
    <2>2. triggerClaims' = triggerClaims \union {op[c].trigger}
      BY <1>3 DEF ClaimTrigger
    <2>3. PICK p \in {"deduped", "raised"} : StepTo(c, p)
      BY <1>1, <1>3, <2>1, Went, Raised DEF ClaimTrigger, StartInv, Phases
    <2>4. StartTypeInv'
      BY <1>1, <2>1, <2>2, <2>3 DEF StartInv, StartTypeInv, StartTypeOK, StepTo
    <2>5. \A d \in Callers :
            /\ d # c => (HoldsTrigger(op'[d]) <=> HoldsTrigger(op[d]))
            /\ op'[d].trigger = op[d].trigger /\ op'[d].run = op[d].run
            /\ HoldsRun(op'[d]) => HoldsRun(op[d])
      BY <1>1, <2>3 DEF HoldsTrigger, HoldsRun, StepTo, RunHeldPhases
    <2>6. \A r \in RunId : Starts(op[c].trigger, journal[r]) = {}
      BY <1>3, <2>1 DEF StartInv, Reservations, TriggersHeld, RunsHeld,
         HoldersDiffer, StartedStayClaimed
    <2>7. Reservations'
      BY <1>1, <1>3, <2>2, <2>5, <2>6 DEF StartInv, Reservations, TriggersHeld,
         RunsHeld, HoldersDiffer, StartedStayClaimed, Starts
    <2> QED
      BY <2>4, <2>7 DEF StartInv
  <1> QED
    BY <1>2, <1>3

\* The claim of the run: nobody holds it, and no admission has started it.
LEMMA ClaimRunPreserves ==
  ASSUME StartInv, NEW c \in Callers, ClaimRun(c)
  PROVE  StartInv'
  <1>1. /\ op[c].phase = "deduped" /\ UNCHANGED <<triggerClaims, journal>>
        /\ op[c].use = "admit" /\ op[c].run \in RunId
    BY DEF ClaimRun, StartInv, StartTypeInv, OpInv, Pinned, GatePhases
  <1>2. CASE op[c].run \in runClaims
    <2>1. StepTo(c, "undeduping") /\ UNCHANGED runClaims
      BY <1>1, <1>2, Went DEF ClaimRun, StartInv, Phases
    <2> QED
      BY <1>1, <2>1, QuietStep
         DEF StartInv, TriggerHeldPhases, RunHeldPhases, Phases
  <1>3. CASE op[c].run \notin runClaims
    <2>1. runClaims' = runClaims \union {op[c].run}
      BY <1>3 DEF ClaimRun
    <2>2. PICK p \in {"claimed", "raised"} : StepTo(c, p)
      BY <1>1, <1>3, Went, Raised DEF ClaimRun, StartInv, Phases, GatePhases
    <2>3. StartTypeInv'
      BY <1>1, <2>1, <2>2 DEF StartInv, StartTypeInv, StartTypeOK, StepTo
    <2>4. \A d \in Callers :
            /\ HoldsTrigger(op'[d]) => HoldsTrigger(op[d])
            /\ op'[d].trigger = op[d].trigger /\ op'[d].run = op[d].run
            /\ d # c => (HoldsRun(op'[d]) <=> HoldsRun(op[d]))
      BY <1>1, <2>2 DEF HoldsTrigger, HoldsRun, StepTo, TriggerHeldPhases
    <2>5. \A t \in Trigger : Starts(t, journal[op[c].run]) = {}
      BY <1>1, <1>3 DEF StartInv, Reservations, TriggersHeld, RunsHeld,
         HoldersDiffer, StartedStayClaimed
    <2>6. Reservations'
      BY <1>1, <1>3, <2>1, <2>4, <2>5 DEF StartInv, Reservations, TriggersHeld,
         RunsHeld, HoldersDiffer, StartedStayClaimed, Starts
    <2> QED
      BY <2>3, <2>6 DEF StartInv
  <1> QED
    BY <1>2, <1>3

\* A release by an admission that holds the trigger and ends holding nothing.
LEMMA TriggerReleased ==
  ASSUME StartInv, NEW c \in Callers, NEW p \in {"recording", "raised"},
         op[c].use = "admit", op[c].phase \in {"undeduping", "unconflicted"},
         triggerClaims' = triggerClaims \ {op[c].trigger},
         StepTo(c, p), UNCHANGED <<runClaims, journal>>
  PROVE  StartInv'
  <1>1. HoldsTrigger(op[c])
    BY DEF HoldsTrigger, TriggerHeldPhases
  <1>2. StartTypeInv'
    BY DEF StartInv, StartTypeInv, StartTypeOK, StepTo
  <1>3. \A d \in Callers :
          /\ HoldsTrigger(op'[d]) => HoldsTrigger(op[d]) /\ d # c
          /\ HoldsRun(op'[d]) => HoldsRun(op[d])
          /\ op'[d].trigger = op[d].trigger /\ op'[d].run = op[d].run
    BY DEF HoldsTrigger, HoldsRun, StepTo, TriggerHeldPhases, RunHeldPhases
  <1>4. Reservations'
    BY <1>1, <1>3 DEF StartInv, Reservations, TriggersHeld, RunsHeld,
       HoldersDiffer, StartedStayClaimed, Starts
  <1> QED
    BY <1>2, <1>4 DEF StartInv

LEMMA ReleaseTriggerPreserves ==
  ASSUME StartInv, NEW c \in Callers, ReleaseTrigger(c)
  PROVE  StartInv'
  <1>1. /\ op[c].phase = "undeduping" /\ UNCHANGED <<runClaims, journal>>
        /\ op[c].use = "admit"
    BY DEF ReleaseTrigger, StartInv, StartTypeInv, OpInv, Pinned, GatePhases
  <1>2. CASE Conclude(c, "run_id_claimed")
             /\ triggerClaims' = triggerClaims \ {op[c].trigger}
    <2>1. StepTo(c, "recording")
      BY <1>1, <1>2, Concluded DEF StartInv, Reasons
    <2> QED
      BY <1>1, <1>2, <2>1, TriggerReleased
  <1>3. CASE Raise(c) /\ UNCHANGED triggerClaims
    <2>1. StepTo(c, "raised")
      BY <1>1, <1>3, Raised DEF StartInv
    <2> QED
      BY <1>1, <1>3, <2>1, QuietStep
         DEF StartInv, TriggerHeldPhases, RunHeldPhases, Phases
  <1> QED
    BY <1>2, <1>3 DEF ReleaseTrigger

\* The steps that only read the journal and move on.
LEMMA ReadersPreserve ==
  ASSUME StartInv, NEW c \in Callers,
         StartCheck(c) \/ StartLoad(c) \/ FirstAdvance(c) \/ MoveLoad(c) \/ Record(c)
  PROVE  StartInv'
  <1>1. UNCHANGED <<triggerClaims, runClaims, journal>>
    BY DEF StartCheck, StartLoad, FirstAdvance, MoveLoad, Record
  <1> USE DEF TriggerHeldPhases, RunHeldPhases, Phases, GatePhases
  <1>2. CASE StartCheck(c)
    <2>1. op[c].phase = "claimed"
      BY <1>2 DEF StartCheck
    <2>2. PICK p \in {"raised", "conflict", "checked"} : StepTo(c, p)
      BY <1>2, <2>1, Went, Raised DEF StartCheck, StartInv
    <2> QED
      BY <1>1, <2>1, <2>2, QuietStep DEF StartInv
  <1>3. CASE StartLoad(c)
    <2>1. op[c].phase = "checked"
      BY <1>3 DEF StartLoad
    <2>2. PICK p \in {"raised", "starting"} : StepTo(c, p)
      BY <1>3, <2>1, Went, Raised DEF StartLoad, StartInv
    <2> QED
      BY <1>1, <2>1, <2>2, QuietStep DEF StartInv
  <1>4. CASE FirstAdvance(c)
    <2>1. op[c].phase = "started"
      BY <1>4 DEF FirstAdvance
    <2>2. CASE StartReturn(c)
      <3>1. PICK p \in {"recording", "answered"} : StepTo(c, p)
        BY <2>1, <2>2, Returned DEF StartInv
      <3> QED
        BY <1>1, <2>1, <3>1, QuietStep DEF StartInv
    <2>3. ASSUME NEW terminal \in BOOLEAN,
                 op' = [op EXCEPT ![c].phase = "moving", ![c].terminal = terminal]
          PROVE  StartInv'
      <3> DEFINE o == [op[c] EXCEPT !.phase = "moving", !.terminal = terminal]
      <3>1. o \in Operation /\ o.phase = "moving" /\ o.use = op[c].use
            /\ o.run = op[c].run /\ o.trigger = op[c].trigger
        BY DEF StartInv, StartTypeInv, StartTypeOK, Operation
      <3>2. op' = [op EXCEPT ![c] = o]
        BY <2>3
      <3>3. op[c].phase # "idle" /\ o.phase # "idle" /\ o.phase \notin GatePhases
        BY <2>1
      <3> HIDE DEF o
      <3>4. StepTo(c, "moving")
        BY <3>1, <3>2, <3>3, Advanced DEF StartInv
      <3> QED
        BY <1>1, <2>1, <3>4, QuietStep DEF StartInv
    <2> QED
      BY <1>4, <2>2, <2>3 DEF FirstAdvance
  <1>5. CASE MoveLoad(c)
    <2>1. op[c].phase = "moving"
      BY <1>5 DEF MoveLoad
    <2>2. PICK p \in {"raised", "appending"} : StepTo(c, p)
      BY <1>5, <2>1, Went, Raised DEF MoveLoad, StartInv
    <2> QED
      BY <1>1, <2>1, <2>2, QuietStep DEF StartInv
  <1>6. CASE Record(c)
    <2>1. op[c].phase = "recording"
      BY <1>6 DEF Record
    <2>2. PICK p \in {"raised", "answered"} : StepTo(c, p)
      BY <1>6, <2>1, Went, Raised DEF Record, StartInv
    <2> QED
      BY <1>1, <2>1, <2>2, QuietStep DEF StartInv
  <1> QED
    BY <1>2, <1>3, <1>4, <1>5, <1>6

\* The operations that begin without the gate, and those that end.
LEMMA OthersPreserve ==
  ASSUME StartInv, NEW c \in Callers,
         \/ \E r \in RunId : StartDirectly(c, r)
         \/ \E r \in RunId, terminal \in BOOLEAN : Reconstruct(c, r, terminal)
         \/ Collect(c) \/ Crash(c)
  PROVE  StartInv'
  <1> USE DEF TriggerHeldPhases, RunHeldPhases
  <1>1. ASSUME NEW r \in RunId, StartDirectly(c, r) PROVE StartInv'
    <2> DEFINE o == [use |-> "start", phase |-> "claimed", run |-> r,
                     trigger |-> NoTrigger, seen |-> 0, terminal |-> FALSE,
                     reason |-> "rejected"]
    <2>1. Pinned(o) /\ o.use # "admit"
      BY DEF Pinned, Operation, UseKinds, Phases, Reasons, GatePhases
    <2>2. op' = [op EXCEPT ![c] = o] /\ UNCHANGED <<triggerClaims, runClaims, journal>>
      BY <1>1 DEF StartDirectly
    <2> HIDE DEF o
    <2> QED
      BY <2>1, <2>2, FreshStep DEF StartInv
  <1>2. ASSUME NEW r \in RunId, NEW terminal \in BOOLEAN, Reconstruct(c, r, terminal)
        PROVE  StartInv'
    <2> DEFINE o == [use |-> "advance", phase |-> "moving", run |-> r,
                     trigger |-> NoTrigger, seen |-> Rows(r),
                     terminal |-> terminal, reason |-> "rejected"]
    <2>1. Rows(r) \in Nat
      BY DEF StartInv, StartTypeInv, StartTypeOK, Rows
    <2>2. Pinned(o) /\ o.use # "admit"
      BY <2>1 DEF Pinned, Operation, UseKinds, Phases, Reasons, GatePhases
    <2>3. op' = [op EXCEPT ![c] = o] /\ UNCHANGED <<triggerClaims, runClaims, journal>>
      BY <1>2 DEF Reconstruct
    <2> HIDE DEF o
    <2> QED
      BY <2>2, <2>3, FreshStep DEF StartInv
  <1>3. CASE Collect(c) \/ Crash(c)
    <2>1. op' = [op EXCEPT ![c] = IdleOperation]
          /\ UNCHANGED <<triggerClaims, runClaims, journal>>
      BY <1>3 DEF Collect, Crash, KillOperation
    <2>2. IdleOperation.phase \notin TriggerHeldPhases \union RunHeldPhases
      BY DEF IdleOperation
    <2> QED
      BY <2>1, <2>2, IdlePinned, FreshStep DEF StartInv
  <1> QED
    BY <1>1, <1>2, <1>3

-----------------------------------------------------------------------------
(* The steps that write the journal.                                       *)

AppendRow(r, row) == journal' = [journal EXCEPT ![r] = Append(@, row)]

\* What one appended row adds to the rows of a trigger.
LEMMA RowAppended ==
  ASSUME StartTypeOK, NEW r \in RunId, NEW row \in Row, AppendRow(r, row)
  PROVE  /\ journal' \in [RunId -> Seq(Row)]
         /\ \A t \in Trigger, s \in RunId :
              Starts(t, journal'[s]) = IF s = r /\ row.trigger = t
                                 THEN Starts(t, journal[s]) \union {Rows(r) + 1}
                                 ELSE Starts(t, journal[s])
         /\ \A t \in Trigger : Rows(r) + 1 \notin Starts(t, journal[r])
  <1>1. journal \in [RunId -> Seq(Row)] /\ journal[r] \in Seq(Row)
    BY DEF StartTypeOK
  <1>2. /\ journal'[r] = Append(journal[r], row)
        /\ \A s \in RunId : s # r => journal'[s] = journal[s]
    BY <1>1 DEF AppendRow
  <1>3. /\ DOMAIN journal'[r] = DOMAIN journal[r] \union {Rows(r) + 1}
        /\ \A i \in DOMAIN journal[r] : journal'[r][i] = journal[r][i]
        /\ journal'[r][Rows(r) + 1] = row
        /\ Rows(r) + 1 \notin DOMAIN journal[r]
    BY <1>1, <1>2 DEF Rows
  <1> QED
    BY <1>1, <1>2, <1>3 DEF Starts, AppendRow

\* An append that fails leaves everything as it was.
LEMMA AppendRaised ==
  ASSUME StartInv, NEW c \in Callers, op[c].phase # "idle", Raise(c),
         UNCHANGED <<triggerClaims, runClaims, journal>>
  PROVE  StartInv'
  BY Raised, QuietStep DEF StartInv, TriggerHeldPhases, RunHeldPhases, Phases

\* The row that starts a run: an admission's trigger and run pass from its
\* hands to the journal.
LEMMA StartAppendPreserves ==
  ASSUME StartInv, NEW c \in Callers, StartAppend(c)
  PROVE  StartInv'
  <1> DEFINE row == [sequence |-> 0, terminal |-> FALSE, trigger |-> op[c].trigger]
  <1>1. /\ op[c].phase = "starting" /\ UNCHANGED <<triggerClaims, runClaims>>
        /\ op[c].run \in RunId /\ row \in Row
        /\ op[c].trigger \in Trigger => op[c].use = "admit"
    BY RequestAssumption
       DEF StartAppend, StartInv, StartTypeInv, OpInv, Pinned, Row, Operation
  <1>2. CASE Raise(c) /\ UNCHANGED journal
    BY <1>1, <1>2, AppendRaised
  <1>3. ASSUME journal' = [journal EXCEPT ![op[c].run] = Append(@, row)],
               op' = [op EXCEPT ![c].phase = "started", ![c].seen = 1]
        PROVE  StartInv'
    <2> DEFINE o == [op[c] EXCEPT !.phase = "started", !.seen = 1]
    <2>1. o \in Operation /\ o.phase = "started" /\ o.use = op[c].use
          /\ o.run = op[c].run /\ o.trigger = op[c].trigger
      BY DEF StartInv, StartTypeInv, StartTypeOK, Operation, Phases
    <2>2. op' = [op EXCEPT ![c] = o]
      BY <1>3
    <2> HIDE DEF o
    <2>3. StepTo(c, "started")
      BY <1>1, <2>1, <2>2, Advanced DEF StartInv, GatePhases
    <2>r. row.trigger = op[c].trigger /\ AppendRow(op[c].run, row)
      BY <1>3 DEF AppendRow
    <2> HIDE DEF row
    <2>s. /\ journal' \in [RunId -> Seq(Row)]
          /\ \A t \in Trigger, s \in RunId :
               Starts(t, journal'[s]) = IF s = op[c].run /\ row.trigger = t
                                        THEN Starts(t, journal[s]) \union {Rows(op[c].run) + 1}
                                        ELSE Starts(t, journal[s])
      BY <1>1, <2>r, RowAppended DEF StartInv, StartTypeInv
    <2>4. /\ journal' \in [RunId -> Seq(Row)]
          /\ \A t \in Trigger, s \in RunId :
               Starts(t, journal'[s]) # {} =>
                 \/ Starts(t, journal[s]) # {}
                 \/ s = op[c].run /\ t = op[c].trigger
      <3>1. ASSUME NEW t \in Trigger, NEW s \in RunId,
                   ~(s = op[c].run /\ t = op[c].trigger)
            PROVE  Starts(t, journal'[s]) = Starts(t, journal[s])
        BY <2>r, <2>s, <3>1
      <3>2. journal' \in [RunId -> Seq(Row)]
        BY <2>s
      <3> QED
        BY <3>1, <3>2
    <2>5. StartTypeInv'
      BY <1>1, <2>3, <2>4 DEF StartInv, StartTypeInv, StartTypeOK, StepTo
    <2>6. \A d \in Callers :
            /\ HoldsTrigger(op'[d]) => HoldsTrigger(op[d]) /\ d # c
            /\ HoldsRun(op'[d]) => HoldsRun(op[d]) /\ d # c
            /\ op'[d].trigger = op[d].trigger /\ op'[d].run = op[d].run
            /\ op[d].use = "admit" /\ op[d].phase # "idle" =>
                 op[d].trigger \in Trigger /\ op[d].run \in RunId
      BY <2>3 DEF HoldsTrigger, HoldsRun, StepTo, TriggerHeldPhases, RunHeldPhases,
                  StartInv, StartTypeInv, OpInv, Pinned
    <2>7. op[c].trigger \in Trigger => HoldsTrigger(op[c]) /\ HoldsRun(op[c])
      BY <1>1, RequestAssumption
         DEF HoldsTrigger, HoldsRun, TriggerHeldPhases, RunHeldPhases
    <2>8. Reservations
      BY DEF StartInv
    <2>9. \A d \in Callers : HoldsTrigger(op'[d]) =>
            /\ op'[d].trigger \in triggerClaims'
            /\ \A r \in RunId : Starts(op'[d].trigger, journal'[r]) = {}
      <3> SUFFICES ASSUME NEW d \in Callers, HoldsTrigger(op'[d])
                   PROVE  /\ op[d].trigger \in triggerClaims
                          /\ \A r \in RunId : Starts(op[d].trigger, journal'[r]) = {}
        BY <1>1, <2>6
      <3>1. HoldsTrigger(op[d]) /\ d # c /\ op[d].trigger \in Trigger
        BY <2>6 DEF HoldsTrigger, TriggerHeldPhases
      <3>2. op[c].trigger \in Trigger => op[d].trigger # op[c].trigger
        BY <2>7, <2>8, <3>1 DEF Reservations, TriggersHeld, RunsHeld,
           HoldersDiffer, StartedStayClaimed
      <3> QED
        BY <2>4, <2>8, <3>1, <3>2 DEF Reservations, TriggersHeld, RunsHeld,
           HoldersDiffer, StartedStayClaimed
    <2>10. \A d \in Callers : HoldsRun(op'[d]) =>
            /\ op'[d].run \in runClaims'
            /\ \A t \in Trigger : Starts(t, journal'[op'[d].run]) = {}
      <3> SUFFICES ASSUME NEW d \in Callers, HoldsRun(op'[d])
                   PROVE  /\ op[d].run \in runClaims
                          /\ \A t \in Trigger : Starts(t, journal'[op[d].run]) = {}
        BY <1>1, <2>6
      <3>1. HoldsRun(op[d]) /\ d # c /\ op[d].run \in RunId
        BY <2>6 DEF HoldsRun, RunHeldPhases
      <3>2. op[c].trigger \in Trigger => op[d].run # op[c].run
        BY <2>7, <2>8, <3>1 DEF Reservations, TriggersHeld, RunsHeld,
           HoldersDiffer, StartedStayClaimed
      <3> QED
        BY <2>4, <2>8, <3>1, <3>2 DEF Reservations, TriggersHeld, RunsHeld,
           HoldersDiffer, StartedStayClaimed
    <2>11. HoldersDiffer'
      BY <2>6, <2>8 DEF Reservations, HoldersDiffer
    <2>12. StartedStayClaimed'
      <3> SUFFICES ASSUME NEW t \in Trigger, NEW s \in RunId,
                          Starts(t, journal'[s]) # {}
                   PROVE  t \in triggerClaims /\ s \in runClaims
        BY <1>1 DEF StartedStayClaimed
      <3>1. CASE Starts(t, journal[s]) # {}
        BY <2>8, <3>1 DEF Reservations, StartedStayClaimed
      <3>2. CASE s = op[c].run /\ t = op[c].trigger
        BY <2>7, <2>8, <3>2 DEF Reservations, TriggersHeld, RunsHeld
      <3> QED
        BY <2>4, <3>1, <3>2
    <2>13. Reservations'
      BY <2>9, <2>10, <2>11, <2>12 DEF Reservations, TriggersHeld, RunsHeld
    <2> QED
      BY <2>5, <2>13 DEF StartInv
  <1> QED
    BY <1>2, <1>3 DEF StartAppend

\* A transition's row has no trigger.
LEMMA MoveAppendPreserves ==
  ASSUME StartInv, NEW c \in Callers, MoveAppend(c)
  PROVE  StartInv'
  <1> DEFINE row == [sequence |-> op[c].seen, terminal |-> op[c].terminal,
                     trigger |-> NoTrigger]
  <1>1. /\ op[c].phase = "appending" /\ UNCHANGED <<triggerClaims, runClaims>>
        /\ op[c].run \in RunId /\ row \in Row
    BY DEF MoveAppend, StartInv, StartTypeInv, OpInv, Pinned, Row, Operation
  <1>2. CASE Raise(c) /\ UNCHANGED journal
    BY <1>1, <1>2, AppendRaised
  <1>3. ASSUME journal' = [journal EXCEPT ![op[c].run] = Append(@, row)],
               StartReturn(c)
        PROVE  StartInv'
    <2>1. row.trigger = NoTrigger /\ AppendRow(op[c].run, row)
      BY <1>3 DEF AppendRow
    <2> HIDE DEF row
    <2>2. PICK p \in {"recording", "answered"} : StepTo(c, p)
      BY <1>1, <1>3, Returned DEF StartInv
    <2>r. /\ journal' \in [RunId -> Seq(Row)]
          /\ \A t \in Trigger, s \in RunId :
               Starts(t, journal'[s]) = IF s = op[c].run /\ row.trigger = t
                                        THEN Starts(t, journal[s]) \union {Rows(op[c].run) + 1}
                                        ELSE Starts(t, journal[s])
      BY <1>1, <2>1, RowAppended DEF StartInv, StartTypeInv
    <2>3. /\ journal' \in [RunId -> Seq(Row)]
          /\ \A t \in Trigger, s \in RunId : Starts(t, journal'[s]) = Starts(t, journal[s])
      BY <2>1, <2>r, RequestAssumption
    <2>4. StartTypeInv'
      BY <1>1, <2>2, <2>3 DEF StartInv, StartTypeInv, StartTypeOK, StepTo
    <2>5. \A d \in Callers :
            /\ HoldsTrigger(op'[d]) => HoldsTrigger(op[d]) /\ op[d].trigger \in Trigger
            /\ HoldsRun(op'[d]) => HoldsRun(op[d]) /\ op[d].run \in RunId
            /\ op'[d].trigger = op[d].trigger /\ op'[d].run = op[d].run
      BY <2>2 DEF HoldsTrigger, HoldsRun, StepTo, TriggerHeldPhases,
                  RunHeldPhases, StartInv, StartTypeInv, OpInv, Pinned
    <2>6. Reservations
      BY DEF StartInv
    <2>7. TriggersHeld'
      <3> SUFFICES ASSUME NEW d \in Callers, HoldsTrigger(op'[d])
                   PROVE  /\ op[d].trigger \in triggerClaims
                          /\ \A r \in RunId : Starts(op[d].trigger, journal'[r]) = {}
        BY <1>1, <2>5 DEF TriggersHeld
      <3> QED
        BY <2>3, <2>5, <2>6 DEF Reservations, TriggersHeld
    <2>8. RunsHeld'
      <3> SUFFICES ASSUME NEW d \in Callers, HoldsRun(op'[d])
                   PROVE  /\ op[d].run \in runClaims
                          /\ \A t \in Trigger : Starts(t, journal'[op[d].run]) = {}
        BY <1>1, <2>5 DEF RunsHeld
      <3> QED
        BY <2>3, <2>5, <2>6 DEF Reservations, RunsHeld
    <2>9. HoldersDiffer'
      BY <2>5, <2>6 DEF Reservations, HoldersDiffer
    <2>10. StartedStayClaimed'
      BY <1>1, <2>3, <2>6 DEF Reservations, StartedStayClaimed
    <2> QED
      BY <2>4, <2>7, <2>8, <2>9, <2>10 DEF StartInv, Reservations
  <1> QED
    BY <1>2, <1>3 DEF MoveAppend

-----------------------------------------------------------------------------
(* The conflict path.                                                      *)

LEMMA ReleaseRunPreserves ==
  ASSUME StartInv, NEW c \in Callers, ReleaseRun(c)
  PROVE  StartInv'
  <1>1. /\ op[c].phase = "conflict" /\ UNCHANGED <<triggerClaims, journal>>
        /\ op[c].use = "admit" /\ HoldsRun(op[c])
    BY DEF ReleaseRun, StartInv, StartTypeInv, OpInv, Pinned, GatePhases,
           HoldsRun, RunHeldPhases
  <1>2. CASE Raise(c) /\ UNCHANGED runClaims
    BY <1>1, <1>2, AppendRaised
  <1>3. CASE Goto(c, "unconflicted") /\ runClaims' = runClaims \ {op[c].run}
    <2>1. StepTo(c, "unconflicted")
      BY <1>1, <1>3, Went DEF StartInv, Phases
    <2>2. StartTypeInv'
      BY <1>1, <1>3, <2>1 DEF StartInv, StartTypeInv, StartTypeOK, StepTo
    <2>3. \A d \in Callers :
            /\ HoldsTrigger(op'[d]) => HoldsTrigger(op[d])
            /\ HoldsRun(op'[d]) => HoldsRun(op[d]) /\ d # c
            /\ op'[d].trigger = op[d].trigger /\ op'[d].run = op[d].run
      BY <1>1, <2>1 DEF HoldsTrigger, HoldsRun, StepTo, TriggerHeldPhases,
         RunHeldPhases
    <2>4. Reservations
      BY DEF StartInv
    <2>5. TriggersHeld'
      BY <1>1, <2>3, <2>4 DEF Reservations, TriggersHeld
    <2>6. RunsHeld'
      BY <1>1, <1>3, <2>3, <2>4 DEF Reservations, RunsHeld, HoldersDiffer
    <2>7. HoldersDiffer'
      BY <2>3, <2>4 DEF Reservations, HoldersDiffer
    <2>8. StartedStayClaimed'
      BY <1>1, <1>3, <2>4 DEF Reservations, RunsHeld, StartedStayClaimed
    <2> QED
      BY <2>2, <2>5, <2>6, <2>7, <2>8 DEF StartInv, Reservations
  <1> QED
    BY <1>2, <1>3 DEF ReleaseRun

LEMMA ReleaseConflictPreserves ==
  ASSUME StartInv, NEW c \in Callers, ReleaseConflict(c)
  PROVE  StartInv'
  <1>1. /\ op[c].phase = "unconflicted" /\ UNCHANGED <<runClaims, journal>>
        /\ op[c].use = "admit"
    BY DEF ReleaseConflict, StartInv, StartTypeInv, OpInv, Pinned, GatePhases
  <1>2. CASE Raise(c) /\ UNCHANGED triggerClaims
    BY <1>1, <1>2, AppendRaised
  <1>3. CASE /\ triggerClaims' = triggerClaims \ {op[c].trigger}
             /\ Raise(c) \/ Conclude(c, "run_id_exists")
    <2>1. PICK p \in {"recording", "raised"} : StepTo(c, p)
      BY <1>1, <1>3, Raised, Concluded DEF StartInv, Reasons
    <2> QED
      BY <1>1, <1>3, <2>1, TriggerReleased
  <1> QED
    BY <1>2, <1>3 DEF ReleaseConflict

-----------------------------------------------------------------------------
(* The theorems.                                                           *)

LEMMA StartInvNext == StartInv /\ [StartNext]_startVars => StartInv'
  <1> SUFFICES ASSUME StartInv, [StartNext]_startVars PROVE StartInv'
    OBVIOUS
  <1>1. CASE UNCHANGED startVars
    BY <1>1 DEF startVars, StartInv, StartTypeInv, StartTypeOK, OpInv, Reservations,
                TriggersHeld, RunsHeld, HoldersDiffer, StartedStayClaimed
  <1>2. ASSUME NEW c \in Callers, StartCaller(c) PROVE StartInv'
    <2>1. CASE \E request \in Requests, verdict \in Verdicts : Admit(c, request, verdict)
      BY <2>1, AdmitPreserves
    <2>2. CASE Proceed(c)
      BY <2>2, ClaimTriggerPreserves, ClaimRunPreserves, ReleaseTriggerPreserves,
         ReadersPreserve, StartAppendPreserves, MoveAppendPreserves,
         ReleaseRunPreserves, ReleaseConflictPreserves DEF Proceed
    <2> QED
      BY <1>2, <2>1, <2>2, OthersPreserve DEF StartCaller
  <1> QED
    BY <1>1, <1>2 DEF StartNext

THEOREM StartInvariant == StartSpec => []StartInv
  BY StartInvInit, StartInvNext, PTL DEF StartSpec

\* Every variable of the gate, the coordinator and the journal keeps its type.
THEOREM StartTypeCorrect == StartSpec => []StartTypeOK
  <1>1. StartInv => StartTypeOK
    BY DEF StartInv, StartTypeInv
  <1> QED
    BY <1>1, StartInvariant, PTL

\* Claims, operations and journals agree in every reachable state, however
\* many callers start, advance and abort runs, fail or are killed.
THEOREM ReservationsHold == StartSpec => []Reservations
  <1>1. StartInv => Reservations
    BY DEF StartInv
  <1> QED
    BY <1>1, StartInvariant, PTL

\* A trigger starts one run: the only step that writes a trigger's row is the
\* START of the admission that holds it, and until then it has none.
LEMMA OnceNext ==
  StartInv /\ TriggerStartsOnce /\ [StartNext]_startVars => TriggerStartsOnce'
  <1> SUFFICES ASSUME StartInv, TriggerStartsOnce, [StartNext]_startVars
               PROVE  TriggerStartsOnce'
    OBVIOUS
  <1>1. CASE UNCHANGED journal
    BY <1>1 DEF TriggerStartsOnce
  <1>2. ASSUME NEW c \in Callers, NEW row \in Row, op[c].run \in RunId,
               AppendRow(op[c].run, row),
               row.trigger = NoTrigger
               \/ \A r \in RunId : Starts(row.trigger, journal[r]) = {}
        PROVE  TriggerStartsOnce'
    <2>1. \A t \in Trigger, s \in RunId :
            Starts(t, journal'[s]) = IF s = op[c].run /\ row.trigger = t
                                     THEN Starts(t, journal[s]) \union {Rows(op[c].run) + 1}
                                     ELSE Starts(t, journal[s])
      BY <1>2, RowAppended DEF StartInv, StartTypeInv
    <2>2. ASSUME NEW t \in Trigger, row.trigger # t, NEW s \in RunId
          PROVE  Starts(t, journal'[s]) = Starts(t, journal[s])
      BY <2>1, <2>2
    <2>3. ASSUME NEW t \in Trigger, row.trigger = t, NEW s \in RunId,
                 NEW i \in Starts(t, journal'[s])
          PROVE  s = op[c].run /\ i = Rows(op[c].run) + 1
      <3>1. Starts(t, journal[s]) = {}
        BY <1>2, <2>3, RequestAssumption
      <3> QED
        BY <2>1, <2>3, <3>1
    <2> SUFFICES ASSUME NEW t \in Trigger, NEW r \in RunId, NEW s \in RunId,
                        NEW i \in Starts(t, journal'[r]),
                        NEW j \in Starts(t, journal'[s])
                 PROVE  r = s /\ i = j
      BY DEF TriggerStartsOnce
    <2>4. CASE row.trigger = t
      BY <2>3, <2>4
    <2>5. CASE row.trigger # t
      BY <2>2, <2>5 DEF TriggerStartsOnce
    <2> QED
      BY <2>4, <2>5
  <1>3. ASSUME NEW c \in Callers, StartAppend(c), ~UNCHANGED journal
        PROVE  TriggerStartsOnce'
    <2> DEFINE row == [sequence |-> 0, terminal |-> FALSE, trigger |-> op[c].trigger]
    <2>1. op[c].phase = "starting" /\ AppendRow(op[c].run, row)
      BY <1>3 DEF StartAppend, AppendRow
    <2>2. op[c].run \in RunId /\ row \in Row
      BY <2>1 DEF StartInv, StartTypeInv, OpInv, Pinned, Row, Operation
    <2>3. row.trigger = NoTrigger
          \/ \A r \in RunId : Starts(row.trigger, journal[r]) = {}
      BY <2>1 DEF StartInv, StartTypeInv, OpInv, Pinned, Reservations, TriggersHeld,
                  HoldsTrigger, TriggerHeldPhases
    <2> QED
      BY <1>2, <2>1, <2>2, <2>3
  <1>4. ASSUME NEW c \in Callers, MoveAppend(c), ~UNCHANGED journal
        PROVE  TriggerStartsOnce'
    <2> DEFINE row == [sequence |-> op[c].seen, terminal |-> op[c].terminal,
                       trigger |-> NoTrigger]
    <2>1. op[c].phase = "appending" /\ AppendRow(op[c].run, row)
      BY <1>4 DEF MoveAppend, AppendRow
    <2>2. op[c].run \in RunId /\ row \in Row
      BY <2>1 DEF StartInv, StartTypeInv, OpInv, Pinned, Row, Operation
    <2> QED
      BY <1>2, <2>1, <2>2
  <1>5. ASSUME NEW c \in Callers, StartCaller(c)
        PROVE  UNCHANGED journal \/ StartAppend(c) \/ MoveAppend(c)
    BY <1>5 DEF StartCaller, Proceed, Admit, StartDirectly, Reconstruct, Collect,
                Crash, KillOperation, ClaimTrigger, ClaimRun, ReleaseTrigger,
                StartCheck, StartLoad, FirstAdvance, MoveLoad, ReleaseRun,
                ReleaseConflict, Record
  <1> QED
    BY <1>1, <1>3, <1>4, <1>5 DEF StartNext, startVars

\* The same observed event never starts a pinned plan twice.
THEOREM TriggerStartsOnceHolds == StartSpec => []TriggerStartsOnce
  <1>1. StartInit => TriggerStartsOnce
    BY DEF StartInit, TriggerStartsOnce, Starts
  <1> QED
    BY <1>1, OnceNext, StartInvariant, PTL DEF StartSpec

\* No step of anybody but its holder gives up a reservation.
THEOREM OnlyHoldersGiveUpHolds == StartSpec => OnlyHoldersGiveUp
  <1> DEFINE A ==
        /\ \A t \in triggerClaims \ triggerClaims' :
             \E c \in Callers : HoldsTrigger(op[c]) /\ op[c].trigger = t
        /\ \A r \in runClaims \ runClaims' :
             \E c \in Callers : HoldsRun(op[c]) /\ op[c].run = r
  <1>1. StartInv /\ [StartNext]_startVars => [A]_startVars
    <2> SUFFICES ASSUME StartInv, NEW c \in Callers, StartCaller(c) PROVE A
      BY DEF StartNext
    <2>1. op[c].phase \in GatePhases => op[c].use = "admit"
      BY DEF StartInv, StartTypeInv, OpInv, Pinned
    <2>2. CASE ReleaseTrigger(c) \/ ReleaseConflict(c)
      <3>1. UNCHANGED runClaims /\ triggerClaims \ triggerClaims' \subseteq {op[c].trigger}
        BY <2>2 DEF ReleaseTrigger, ReleaseConflict
      <3>2. HoldsTrigger(op[c])
        BY <2>1, <2>2 DEF ReleaseTrigger, ReleaseConflict, HoldsTrigger,
                          TriggerHeldPhases, GatePhases
      <3> QED
        BY <3>1, <3>2
    <2>3. CASE ReleaseRun(c)
      <3>1. UNCHANGED triggerClaims /\ runClaims \ runClaims' \subseteq {op[c].run}
        BY <2>3 DEF ReleaseRun
      <3>2. HoldsRun(op[c])
        BY <2>1, <2>3 DEF ReleaseRun, HoldsRun, RunHeldPhases, GatePhases
      <3> QED
        BY <3>1, <3>2
    <2>4. CASE ~(ReleaseTrigger(c) \/ ReleaseConflict(c) \/ ReleaseRun(c))
      <3>1. triggerClaims \subseteq triggerClaims' /\ runClaims \subseteq runClaims'
        BY <2>4 DEF StartCaller, Proceed, Admit, StartDirectly, Reconstruct,
           Collect,
                    Crash, KillOperation, ClaimTrigger, ClaimRun, StartCheck,
                    StartLoad, StartAppend, FirstAdvance, MoveLoad, MoveAppend, Record
      <3> QED
        BY <3>1
    <2> QED
      BY <2>2, <2>3, <2>4
  <1> QED
    BY <1>1, StartInvariant, PTL DEF StartSpec, OnlyHoldersGiveUp

-----------------------------------------------------------------------------
(* Runs that every caller reaches through the gate.                        *)

WritingPhases == {"started", "moving", "appending"}

\* An operation on such a run.
Gated(o) == o.phase # "idle" /\ o.run \in RunId \ DirectRuns

\* The operations that may write the journal of their run.
Owns(o) == Gated(o) /\ o.phase \in RunHeldPhases \union WritingPhases

AdmitsOnly ==
  \A c \in Callers : Gated(op[c]) =>
    op[c].use = "admit" /\ op[c].phase \notin {"conflict", "unconflicted"}

OwnersAlone ==
  /\ \A c \in Callers : Owns(op[c]) => op[c].run \in runClaims
  /\ \A c, d \in Callers :
       c # d /\ Owns(op[c]) /\ Owns(op[d]) => op[c].run # op[d].run

OwnedRows ==
  \A c \in Callers : Gated(op[c]) =>
    /\ op[c].phase \in RunHeldPhases => Rows(op[c].run) = 0
    /\ op[c].phase \in WritingPhases =>
         /\ Rows(op[c].run) = 1
         /\ journal[op[c].run][1].terminal = FALSE
         /\ op[c].seen = 1

WrittenClaimed == \A r \in RunId \ DirectRuns : Rows(r) > 0 => r \in runClaims

GateInv ==
  AdmitsOnly /\ OwnersAlone /\ OwnedRows /\ WrittenClaimed /\ JournalsReadable

\* A step that keeps the journal and the runs' claims, and whose operation
\* owns no run it did not own in the same stage.
LEMMA GateQuiet ==
  ASSUME GateInv, NEW c \in Callers, UNCHANGED <<runClaims, journal>>,
         \A d \in Callers : d # c => op'[d] = op[d],
         Gated(op'[c]) =>
           /\ op'[c].use = "admit" /\ op'[c].phase \notin {"conflict", "unconflicted"}
           /\ op'[c].phase \in RunHeldPhases =>
                /\ op[c].phase \in RunHeldPhases
                /\ op'[c].run = op[c].run
           /\ op'[c].phase \in WritingPhases =>
                /\ op[c].phase \in WritingPhases
                /\ op'[c].run = op[c].run /\ op'[c].seen = op[c].seen
  PROVE  GateInv'
  <1>1. \A d \in Callers : Owns(op'[d]) => Owns(op[d]) /\ op'[d].run = op[d].run
    BY DEF Owns, Gated, RunHeldPhases, WritingPhases
  <1>2. AdmitsOnly'
    BY DEF GateInv, AdmitsOnly
  <1>3. OwnersAlone'
    BY <1>1 DEF GateInv, OwnersAlone
  <1>4. OwnedRows'
    <2>1. \A d \in Callers :
            Gated(op'[d]) /\ op'[d].phase \in RunHeldPhases \union WritingPhases =>
              Gated(op[d])
      BY <1>1 DEF Owns
    <2> QED
      BY <2>1 DEF GateInv, OwnedRows, Rows
  <1>5. WrittenClaimed' /\ JournalsReadable'
    BY DEF GateInv, WrittenClaimed, JournalsReadable, Broken, Rows
  <1> QED
    BY <1>2, <1>3, <1>4, <1>5 DEF GateInv

\* A step of an operation on another run leaves the gated runs alone.
LEMMA GateForeign ==
  ASSUME GateInv, NEW c \in Callers, ~Gated(op'[c]),
         \A d \in Callers : d # c => op'[d] = op[d],
         \A r \in RunId \ DirectRuns :
           journal'[r] = journal[r] /\ (r \in runClaims <=> r \in runClaims')
  PROVE  GateInv'
  <1>1. \A d \in Callers : Gated(op'[d]) => op'[d] = op[d]
    OBVIOUS
  <1>2. AdmitsOnly'
    BY <1>1 DEF GateInv, AdmitsOnly
  <1>3. OwnersAlone'
    <2>1. \A d \in Callers : Owns(op'[d]) => op'[d] = op[d] /\ op[d].run \in RunId \ DirectRuns
      BY <1>1 DEF Owns, Gated
    <2> QED
      BY <2>1 DEF GateInv, OwnersAlone
  <1>4. OwnedRows'
    <2>1. \A d \in Callers : Gated(op'[d]) => op'[d] = op[d] /\ op[d].run \in RunId \ DirectRuns
      BY <1>1 DEF Gated
    <2> QED
      BY <2>1 DEF GateInv, OwnedRows, Rows
  <1>5. WrittenClaimed' /\ JournalsReadable'
    BY DEF GateInv, WrittenClaimed, JournalsReadable, Broken, Rows
  <1> QED
    BY <1>2, <1>3, <1>4, <1>5 DEF GateInv

\* A row appended to a readable journal of at most one row.
LEMMA GateAppended ==
  ASSUME StartTypeInv, GateInv, NEW c \in Callers, NEW row \in Row,
         AppendRow(op[c].run, row), UNCHANGED runClaims,
         Owns(op[c]),
         row.sequence = Rows(op[c].run),
         Rows(op[c].run) = 0 \/
           (Rows(op[c].run) = 1 /\ journal[op[c].run][1].terminal = FALSE)
  PROVE  /\ \A s \in RunId : s # op[c].run => journal'[s] = journal[s]
         /\ Len(journal'[op[c].run]) = Rows(op[c].run) + 1
         /\ journal'[op[c].run][Rows(op[c].run) + 1] = row
         /\ WrittenClaimed' /\ JournalsReadable'
  <1> DEFINE r == op[c].run
  <1>0. r \in RunId \ DirectRuns
    BY DEF Owns, Gated
  <1>1. journal \in [RunId -> Seq(Row)] /\ journal[r] \in Seq(Row)
    BY <1>0 DEF StartTypeInv, StartTypeOK
  <1>2. /\ journal'[r] = Append(journal[r], row)
        /\ \A s \in RunId : s # r => journal'[s] = journal[s]
    BY <1>0, <1>1 DEF AppendRow
  <1>3. /\ Len(journal'[r]) = Len(journal[r]) + 1
        /\ journal'[r][Len(journal[r]) + 1] = row
        /\ \A i \in 1..Len(journal[r]) : journal'[r][i] = journal[r][i]
        /\ Len(journal[r]) \in Nat
        /\ DOMAIN journal'[r] = 1..(Len(journal[r]) + 1)
        /\ DOMAIN journal[r] = 1..Len(journal[r])
    BY <1>1, <1>2
  <1>4. WrittenClaimed'
    BY <1>2 DEF GateInv, WrittenClaimed, OwnersAlone, Rows
  <1>5. \A s \in RunId \ DirectRuns : s # r =>
          \A i \in DOMAIN journal'[s] :
            /\ journal'[s][i].sequence = i - 1
            /\ i > 1 => ~journal'[s][i - 1].terminal
    BY <1>2 DEF GateInv, JournalsReadable, Broken
  <1>6. \A i \in DOMAIN journal'[r] :
          /\ journal'[r][i].sequence = i - 1
          /\ i > 1 => ~journal'[r][i - 1].terminal
    <2> SUFFICES ASSUME NEW i \in DOMAIN journal'[r]
                 PROVE  /\ journal'[r][i].sequence = i - 1
                        /\ i > 1 => ~journal'[r][i - 1].terminal
      OBVIOUS
    <2>1. CASE i = Len(journal[r]) + 1
      <3>1. PICK n \in Nat : n = Len(journal[r]) /\ row.sequence = n /\ (n = 0 \/ n = 1)
        BY <1>3 DEF Rows
      <3>2. journal'[r][i] = row /\ i - 1 = n
        BY <1>3, <2>1, <3>1
      <3>3. i > 1 => n = 1 /\ journal'[r][1] = journal[r][1] /\ journal[r][1].terminal = FALSE
        BY <1>3, <2>1, <3>1 DEF Rows
      <3>4. i > 1 => i - 1 = 1
        BY <3>2, <3>3
      <3> QED
        BY <3>1, <3>2, <3>3, <3>4
    <2>2. CASE i # Len(journal[r]) + 1
      <3>1. i = 1 /\ i \in DOMAIN journal[r]
        BY <1>3, <2>2 DEF Rows
      <3>2. journal'[r][i] = journal[r][i] /\ ~(i > 1)
        BY <1>3, <3>1
      <3>3. ~Broken(r)
        BY <1>0 DEF GateInv, JournalsReadable
      <3>4. journal[r][i].sequence = i - 1
        BY <3>1, <3>3 DEF Broken
      <3> QED
        BY <3>2, <3>4
    <2> QED
      BY <2>1, <2>2
  <1>7. JournalsReadable'
    BY <1>5, <1>6 DEF JournalsReadable, Broken
  <1> QED
    BY <1>2, <1>3, <1>4, <1>7 DEF Rows

LEMMA GateInvInit == StartInit => GateInv
  BY DEF StartInit, GateInv, AdmitsOnly, OwnersAlone, OwnedRows, WrittenClaimed,
         JournalsReadable, Broken, Rows, Owns, Gated, IdleOperation,
         RunHeldPhases, WritingPhases

\* Only c's operation moves, to phase p, and it keeps its use, run and locals.
Keeps(c, p) ==
  /\ \A d \in Callers : d # c => op'[d] = op[d]
  /\ op'[c].phase = p /\ op'[c].use = op[c].use
  /\ op'[c].run = op[c].run /\ op'[c].seen = op[c].seen

LEMMA Kept ==
  ASSUME op \in [Callers -> Operation], NEW c \in Callers
  PROVE  /\ \A p \in Phases : Goto(c, p) => Keeps(c, p)
         /\ Raise(c) => Keeps(c, "raised")
         /\ \A reason \in Reasons : Conclude(c, reason) => Keeps(c, "recording")
         /\ StartReturn(c) => Keeps(c, "recording") \/ Keeps(c, "answered")
  <1>1. op[c] \in Operation
    OBVIOUS
  <1>2. ASSUME NEW p \in Phases, Goto(c, p) PROVE Keeps(c, p)
    BY <1>1, <1>2 DEF Goto, Keeps, Operation
  <1>3. ASSUME NEW reason \in Reasons, Conclude(c, reason) PROVE Keeps(c, "recording")
    BY <1>1, <1>3 DEF Conclude, Keeps, Operation
  <1>4. Raise(c) => Keeps(c, "raised")
    BY <1>2 DEF Raise, Phases
  <1>5. StartReturn(c) => Keeps(c, "recording") \/ Keeps(c, "answered")
    BY <1>2, <1>3 DEF StartReturn, Phases, Reasons
  <1> QED
    BY <1>2, <1>3, <1>4, <1>5

LEMMA GateInvNext ==
  ASSUME StartInv, GateInv, [StartNext]_startVars
  PROVE  GateInv'
  <1>1. CASE UNCHANGED startVars
    BY <1>1 DEF startVars, GateInv, AdmitsOnly, OwnersAlone, OwnedRows,
                WrittenClaimed, JournalsReadable, Broken, Rows
  <1>2. ASSUME NEW c \in Callers, StartCaller(c) PROVE GateInv'
    <2>2. op \in [Callers -> Operation] /\ op[c] \in Operation
      BY DEF StartInv, StartTypeInv, StartTypeOK
    <2> USE DEF RunHeldPhases, WritingPhases
    <2>3. CASE \E request \in Requests, verdict \in Verdicts : Admit(c, request, verdict)
      <3>1. /\ op'[c].use = "admit" /\ \A d \in Callers : d # c => op'[d] = op[d]
            /\ op'[c].phase \in {"recording", "raised", "unclaimed"}
            /\ UNCHANGED <<runClaims, journal>>
        BY <2>2, <2>3 DEF Admit
      <3> QED
        BY <3>1, GateQuiet
    <2>13. CASE StartCaller(c) /\ ~Gated(op[c])
      <3>1. CASE Proceed(c)
        <4>1. op[c].phase # "idle"
          BY <3>1 DEF Proceed, ClaimTrigger, ClaimRun, ReleaseTrigger, StartCheck,
             StartLoad, StartAppend, FirstAdvance, MoveLoad, MoveAppend, ReleaseRun,
             ReleaseConflict, Record
        <4>2. op[c].run \notin RunId \ DirectRuns
          BY <2>13, <4>1 DEF Gated
        <4>3. /\ op'[c].run = op[c].run
              /\ \A d \in Callers : d # c => op'[d] = op[d]
          <5>1. CASE StartAppend(c) \/ FirstAdvance(c) \/ MoveAppend(c)
            BY <2>2, <5>1 DEF StartAppend, FirstAdvance, MoveAppend, Conclude, Goto,
               Raise, StartReturn, Operation
          <5>2. CASE ClaimTrigger(c) \/ ClaimRun(c) \/ ReleaseTrigger(c)
            BY <2>2, <5>2 DEF ClaimTrigger, ClaimRun, ReleaseTrigger, Conclude, Goto,
               Raise, Operation
          <5>3. CASE \/ StartCheck(c) \/ StartLoad(c) \/ MoveLoad(c)
                     \/ ReleaseRun(c) \/ ReleaseConflict(c) \/ Record(c)
            BY <2>2, <5>3 DEF StartCheck, StartLoad, MoveLoad, ReleaseRun,
               ReleaseConflict, Record, Conclude, Goto, Raise, Operation
          <5> QED
            BY <3>1, <5>1, <5>2, <5>3 DEF Proceed
        <4>4. /\ UNCHANGED journal \/ \E row : AppendRow(op[c].run, row)
              /\ \/ UNCHANGED runClaims
                 \/ runClaims' = runClaims \union {op[c].run}
                 \/ runClaims' = runClaims \ {op[c].run}
          BY <3>1 DEF Proceed, ClaimTrigger, ClaimRun, ReleaseTrigger, StartCheck,
             StartLoad, StartAppend, FirstAdvance, MoveLoad, MoveAppend, ReleaseRun,
             ReleaseConflict, Record, AppendRow
        <4>5. journal \in [RunId -> Seq(Row)]
          BY DEF StartInv, StartTypeInv, StartTypeOK
        <4>6. \A r \in RunId \ DirectRuns :
                journal'[r] = journal[r] /\ (r \in runClaims <=> r \in runClaims')
          BY <4>2, <4>4, <4>5 DEF AppendRow
        <4>7. ~Gated(op'[c])
          BY <4>2, <4>3 DEF Gated
        <4> QED
          BY <4>3, <4>6, <4>7, GateForeign
      <3>2. CASE Collect(c) \/ Crash(c)
        <4>1. /\ op'[c] = IdleOperation /\ \A d \in Callers : d # c => op'[d] = op[d]
              /\ UNCHANGED <<runClaims, journal>>
          BY <2>2, <3>2 DEF Collect, Crash, KillOperation
        <4> QED
          BY <4>1, GateForeign DEF IdleOperation, Gated
      <3>3. CASE \/ \E r \in RunId : StartDirectly(c, r)
                 \/ \E r \in RunId, terminal \in BOOLEAN : Reconstruct(c, r, terminal)
        <4>1. /\ op'[c].run \in DirectRuns /\ \A d \in Callers : d # c => op'[d] = op[d]
              /\ UNCHANGED <<runClaims, journal>>
          BY <2>2, <3>3 DEF StartDirectly, Reconstruct
        <4> QED
          BY <4>1, GateForeign DEF Gated
      <3> QED
        BY <2>3, <2>13, <3>1, <3>2, <3>3 DEF StartCaller
    <2> SUFFICES ASSUME Gated(op[c]) PROVE GateInv'
      BY <1>2, <2>13
    <2>1. op[c].use = "admit" /\ op[c].phase \notin {"conflict", "unconflicted"}
      BY DEF GateInv, AdmitsOnly
    <2>14. op[c].run \in RunId \ DirectRuns /\ op[c].phase # "idle"
      BY DEF Gated
    <2>4. CASE ClaimTrigger(c) \/ ReleaseTrigger(c) \/ Record(c)
      <3>1. PICK p \in {"recording", "raised", "deduped", "answered"} : Keeps(c, p)
        BY <2>2, <2>4, Kept DEF ClaimTrigger, ReleaseTrigger, Record, Phases,
           Reasons
      <3>2. UNCHANGED <<runClaims, journal>>
        BY <2>4 DEF ClaimTrigger, ReleaseTrigger, Record
      <3> QED
        BY <2>1, <3>1, <3>2, GateQuiet DEF Keeps
    <2>5. CASE ClaimRun(c)
      <3>1. UNCHANGED journal /\ op[c].phase = "deduped"
        BY <2>5 DEF ClaimRun
      <3>2. CASE UNCHANGED runClaims /\ Goto(c, "undeduping")
        <4>1. Keeps(c, "undeduping")
          BY <2>2, <3>2, Kept DEF Phases
        <4> QED
          BY <2>1, <3>1, <3>2, <4>1, GateQuiet DEF Keeps
      <3>3. CASE /\ op[c].run \notin runClaims /\ runClaims' = runClaims \union {op[c].run}
                 /\ Goto(c, "claimed") \/ Raise(c)
        <4>0. PICK p \in {"claimed", "raised"} : Keeps(c, p)
          BY <2>2, <3>3, Kept DEF Phases
        <4>2. Rows(op[c].run) = 0
          BY <2>14, <3>3 DEF GateInv, WrittenClaimed, Rows, StartInv, StartTypeInv,
                             StartTypeOK
        <4>3. AdmitsOnly'
          BY <4>0 DEF GateInv, AdmitsOnly, Keeps
        <4>4. OwnersAlone'
          <5>1. \A d \in Callers : /\ op'[d].run = op[d].run
                                   /\ d # c => (Owns(op'[d]) <=> Owns(op[d]))
            BY <4>0 DEF Keeps
          <5> QED
            BY <3>3, <5>1 DEF GateInv, OwnersAlone, WrittenClaimed
        <4>5. OwnedRows'
          <5>1. op'[c].run = op[c].run /\ op'[c].phase \notin WritingPhases
            BY <4>0 DEF Keeps
          <5>2. \A d \in Callers : d # c => op'[d] = op[d]
            BY <4>0 DEF Keeps
          <5> QED
            BY <3>1, <4>2, <5>1, <5>2 DEF GateInv, OwnedRows, Rows
        <4>6. WrittenClaimed' /\ JournalsReadable'
          BY <3>1, <3>3 DEF GateInv, WrittenClaimed, JournalsReadable, Broken, Rows
        <4> QED
          BY <4>3, <4>4, <4>5, <4>6 DEF GateInv
      <3> QED
        BY <2>5, <3>2, <3>3 DEF ClaimRun
    <2>6. CASE StartCheck(c)
      <3>1. Rows(op[c].run) = 0
        BY <2>6 DEF StartCheck, GateInv, OwnedRows
      <3>2. PICK p \in {"raised", "checked"} : Keeps(c, p)
        BY <2>2, <2>6, <3>1, Kept DEF StartCheck, Phases
      <3>3. op[c].phase = "claimed" /\ UNCHANGED <<runClaims, journal>>
        BY <2>6 DEF StartCheck
      <3> QED
        BY <2>1, <3>2, <3>3, GateQuiet DEF Keeps
    <2>7. CASE StartLoad(c)
      <3>1. PICK p \in {"raised", "starting"} : Keeps(c, p)
        BY <2>2, <2>7, Kept DEF StartLoad, Phases
      <3>2. op[c].phase = "checked" /\ UNCHANGED <<runClaims, journal>>
        BY <2>7 DEF StartLoad
      <3> QED
        BY <2>1, <3>1, <3>2, GateQuiet DEF Keeps
    <2>8. CASE FirstAdvance(c) \/ MoveLoad(c)
      <3>1. ASSUME NEW terminal \in BOOLEAN,
                   op' = [op EXCEPT ![c].phase = "moving", ![c].terminal = terminal]
            PROVE  Keeps(c, "moving")
        BY <2>2, <3>1 DEF Keeps, Operation
      <3>2. PICK p \in {"recording", "answered", "moving", "raised", "appending"} :
              Keeps(c, p)
        BY <2>2, <2>8, <3>1, Kept DEF FirstAdvance, MoveLoad, Phases
      <3>3. op[c].phase \in WritingPhases /\ UNCHANGED <<runClaims, journal>>
        BY <2>8 DEF FirstAdvance, MoveLoad
      <3> QED
        BY <2>1, <3>2, <3>3, GateQuiet DEF Keeps
    <2>9. CASE StartAppend(c)
      <3> DEFINE row == [sequence |-> 0, terminal |-> FALSE, trigger |-> op[c].trigger]
      <3>1. /\ op[c].phase = "starting" /\ Rows(op[c].run) = 0 /\ Owns(op[c])
            /\ op[c].run \in RunId \ DirectRuns /\ row \in Row /\ UNCHANGED runClaims
        BY <2>1, <2>2, <2>9, <2>14
           DEF StartAppend, GateInv, OwnedRows, Owns, Gated, Row, Operation, StartInv,
               StartTypeInv, OpInv, Pinned
      <3>2. CASE Raise(c) /\ UNCHANGED journal
        <4>1. /\ op'[c].use = "admit" /\ op'[c].phase = "raised"
              /\ \A d \in Callers : d # c => op'[d] = op[d]
          BY <2>1, <2>2, <3>2 DEF Raise, Goto
        <4> QED
          BY <3>1, <3>2, <4>1, GateQuiet
      <3>3. ASSUME AppendRow(op[c].run, row),
                   op' = [op EXCEPT ![c].phase = "started", ![c].seen = 1]
            PROVE  GateInv'
        <4>1. /\ op'[c].use = "admit" /\ op'[c].run = op[c].run
              /\ op'[c].phase = "started" /\ op'[c].seen = 1
              /\ \A d \in Callers : d # c => op'[d] = op[d]
          BY <2>1, <2>2, <3>3
        <4>2. row.sequence = Rows(op[c].run) /\ row.terminal = FALSE
          BY <3>1
        <4> HIDE DEF row
        <4>3. /\ \A s \in RunId : s # op[c].run => journal'[s] = journal[s]
              /\ Len(journal'[op[c].run]) = 1 /\ journal'[op[c].run][1] = row
              /\ WrittenClaimed' /\ JournalsReadable'
          <5>1. /\ \A s \in RunId : s # op[c].run => journal'[s] = journal[s]
                /\ Len(journal'[op[c].run]) = Rows(op[c].run) + 1
                /\ journal'[op[c].run][Rows(op[c].run) + 1] = row
                /\ WrittenClaimed' /\ JournalsReadable'
            BY <3>1, <3>3, <4>2, GateAppended DEF StartInv
          <5> QED
            BY <3>1, <5>1
        <4>4. AdmitsOnly' /\ OwnersAlone'
          BY <3>1, <4>1 DEF GateInv, AdmitsOnly, OwnersAlone, Owns, Gated
        <4>5. \A d \in Callers : d # c /\ Owns(op[d]) => op[d].run # op[c].run
          BY <3>1 DEF GateInv, OwnersAlone
        <4>6. \A d \in Callers : Gated(op[d]) => op[d].run \in RunId
          BY DEF Gated
        <4>7. OwnedRows'
          BY <4>1, <4>2, <4>3, <4>5, <4>6 DEF GateInv, OwnedRows, Rows, Owns
        <4> QED
          BY <4>3, <4>4, <4>7 DEF GateInv
      <3> QED
        BY <2>9, <3>2, <3>3 DEF StartAppend, AppendRow
    <2>10. CASE MoveAppend(c)
      <3> DEFINE row == [sequence |-> op[c].seen, terminal |-> op[c].terminal,
                         trigger |-> NoTrigger]
      <3>1. /\ op[c].phase = "appending" /\ Rows(op[c].run) = 1 /\ Owns(op[c])
            /\ op[c].seen = 1 /\ journal[op[c].run][1].terminal = FALSE
            /\ op[c].run \in RunId \ DirectRuns /\ row \in Row /\ UNCHANGED runClaims
        BY <2>1, <2>2, <2>10, <2>14
           DEF MoveAppend, GateInv, OwnedRows, Owns, Gated, Row, Operation, StartInv,
               StartTypeInv, OpInv, Pinned
      <3>0. PICK p \in {"raised", "recording", "answered"} : Keeps(c, p)
        BY <2>2, <2>10, Kept DEF MoveAppend
      <3>2. /\ op'[c].use = "admit" /\ op'[c].phase \in {"raised", "recording", "answered"}
            /\ \A d \in Callers : d # c => op'[d] = op[d]
        BY <2>1, <3>0 DEF Keeps
      <3>3. CASE UNCHANGED journal
        BY <3>1, <3>2, <3>3, GateQuiet
      <3>4. CASE AppendRow(op[c].run, row)
        <4>1. row.sequence = Rows(op[c].run)
          BY <3>1
        <4> HIDE DEF row
        <4>2. /\ \A s \in RunId : s # op[c].run => journal'[s] = journal[s]
              /\ WrittenClaimed' /\ JournalsReadable'
          BY <3>1, <3>4, <4>1, GateAppended DEF StartInv
        <4>3. AdmitsOnly' /\ OwnersAlone'
          BY <3>1, <3>2 DEF GateInv, AdmitsOnly, OwnersAlone, Owns, Gated
        <4>4. \A d \in Callers : d # c /\ Owns(op[d]) => op[d].run # op[c].run
          BY <3>1 DEF GateInv, OwnersAlone
        <4>5. \A d \in Callers : Gated(op[d]) => op[d].run \in RunId
          BY DEF Gated
        <4>6. OwnedRows'
          BY <3>2, <4>2, <4>4, <4>5 DEF GateInv, OwnedRows, Rows, Owns
        <4> QED
          BY <4>2, <4>3, <4>6 DEF GateInv
      <3> QED
        BY <2>10, <3>3, <3>4 DEF MoveAppend, AppendRow
    <2>11. CASE Collect(c) \/ Crash(c)
      <3>1. /\ op'[c] = IdleOperation /\ \A d \in Callers : d # c => op'[d] = op[d]
            /\ UNCHANGED <<runClaims, journal>>
        BY <2>2, <2>11 DEF Collect, Crash, KillOperation
      <3> QED
        BY <3>1, GateQuiet DEF IdleOperation
    <2>12. /\ \A r \in RunId : ~StartDirectly(c, r)
           /\ \A r \in RunId, terminal \in BOOLEAN : ~Reconstruct(c, r, terminal)
           /\ ~ReleaseRun(c) /\ ~ReleaseConflict(c)
      BY <2>1, <2>14 DEF StartDirectly, Reconstruct, ReleaseRun, ReleaseConflict
    <2> QED
      BY <1>2, <2>3, <2>4, <2>5, <2>6, <2>7, <2>8, <2>9, <2>10, <2>11, <2>12
         DEF StartCaller, Proceed
  <1> QED
    BY <1>1, <1>2 DEF StartNext

\* The gate's claims exclude concurrent writers: the journal of a run that is
\* only started through the gate is never forked, though its appends take no
\* lock.
THEOREM JournalsReadableHolds == StartSpec => []JournalsReadable
  <1>1. StartInit => GateInv
    BY GateInvInit
  <1>2. StartInv /\ GateInv /\ [StartNext]_startVars => GateInv'
    BY GateInvNext
  <1>3. GateInv => JournalsReadable
    BY DEF GateInv
  <1> QED
    BY <1>1, <1>2, <1>3, StartInvariant, PTL DEF StartSpec

-----------------------------------------------------------------------------
(* Answers.                                                                *)

\* From its START on, an admission under way has a row; its answer is true.
AnswerSound(c) ==
  op[c].use = "admit" =>
    /\ op[c].phase \in WritingPhases => Starts(op[c].trigger, journal[op[c].run]) # {}
    /\ op[c].phase \in {"recording", "answered"} =>
         /\ op[c].reason = "start_request_admitted" =>
              Starts(op[c].trigger, journal[op[c].run]) # {}
         /\ op[c].reason = "run_id_exists" => Rows(op[c].run) > 0

AnswersSound == \A c \in Callers : AnswerSound(c)

\* Rows are never taken out of a journal.
JournalGrows ==
  \A r \in RunId :
    /\ Rows(r) > 0 => Rows(r)' > 0
    /\ \A t \in Trigger : Starts(t, journal[r]) \subseteq Starts(t, journal'[r])

\* An appended row: the journal grows, and a START row starts its trigger.
LEMMA AppendGrows ==
  ASSUME StartTypeOK, NEW r \in RunId, NEW row \in Row, AppendRow(r, row)
  PROVE  /\ JournalGrows
         /\ row.trigger \in Trigger => Starts(row.trigger, journal'[r]) # {}
  <1>1. \A t \in Trigger, s \in RunId :
          Starts(t, journal'[s]) = IF s = r /\ row.trigger = t
                                   THEN Starts(t, journal[s]) \union {Rows(r) + 1}
                                   ELSE Starts(t, journal[s])
    BY RowAppended
  <1>2. \A s \in RunId : Rows(s) > 0 => Rows(s)' > 0
    BY DEF AppendRow, StartTypeOK, Rows
  <1> QED BY <1>1, <1>2 DEF JournalGrows

\* What the steps of an operation do to the journal.
LEMMA JournalSteps ==
  ASSUME StartInv, NEW c \in Callers, Proceed(c)
  PROVE  /\ JournalGrows
         /\ ~StartAppend(c) /\ ~MoveAppend(c) => UNCHANGED journal
         /\ op[c].phase = "starting" /\ op'[c].phase = "started" /\ op[c].use = "admit" =>
              Starts(op[c].trigger, journal'[op[c].run]) # {}
  <1>1. /\ StartTypeOK /\ Pinned(op[c]) /\ op[c] \in Operation
        /\ op \in [Callers -> Operation]
    BY DEF StartInv, StartTypeInv, OpInv, Pinned, StartTypeOK
  <1>2. ASSUME UNCHANGED journal PROVE JournalGrows
    BY <1>2 DEF JournalGrows, Rows
  <1>3. ASSUME op[c].phase = "starting", UNCHANGED journal, Raise(c)
        PROVE  op'[c].phase = "raised"
    BY <1>1, <1>3 DEF Raise, Goto
  <1>4. CASE StartAppend(c)
    <2> DEFINE row == [sequence |-> 0, terminal |-> FALSE, trigger |-> op[c].trigger]
    <2>1. row \in Row /\ op[c].run \in RunId /\ op[c].phase = "starting"
          /\ (op[c].use = "admit" => op[c].trigger \in Trigger)
      BY <1>1, <1>4 DEF StartAppend, Pinned, Row, Operation
    <2>2. CASE AppendRow(op[c].run, row)
      <3> HIDE DEF row
      <3>1. JournalGrows /\ (row.trigger \in Trigger => Starts(row.trigger, journal'[op[c].run]) # {})
        BY <1>1, <2>1, <2>2, AppendGrows
      <3>2. row.trigger = op[c].trigger
        BY DEF row
      <3> QED BY <1>4, <2>1, <3>1, <3>2
    <2>3. CASE Raise(c) /\ UNCHANGED journal
      BY <1>2, <1>3, <2>1, <2>3
    <2> QED BY <1>4, <2>2, <2>3 DEF StartAppend, AppendRow
  <1>5. CASE MoveAppend(c)
    <2> DEFINE row == [sequence |-> op[c].seen, terminal |-> op[c].terminal,
                       trigger |-> NoTrigger]
    <2>1. row \in Row /\ op[c].run \in RunId /\ op[c].phase = "appending"
      BY <1>1, <1>5 DEF MoveAppend, Pinned, Row, Operation
    <2>2. CASE AppendRow(op[c].run, row)
      <3> HIDE DEF row
      <3> QED BY <1>1, <1>5, <2>1, <2>2, AppendGrows
    <2> QED BY <1>2, <1>5, <2>1, <2>2 DEF MoveAppend, AppendRow
  <1>6. CASE ~StartAppend(c) /\ ~MoveAppend(c)
    <2>1. UNCHANGED journal
      BY <1>6 DEF Proceed, ClaimTrigger, ClaimRun, ReleaseTrigger, StartCheck, StartLoad,
                  FirstAdvance, MoveLoad, ReleaseRun, ReleaseConflict, Record
    <2>2. ~(op[c].phase = "starting")
      BY <1>6 DEF Proceed, ClaimTrigger, ClaimRun, ReleaseTrigger, StartCheck, StartLoad,
                  FirstAdvance, MoveLoad, ReleaseRun, ReleaseConflict, Record
    <2> QED BY <1>2, <2>1, <2>2
  <1> QED BY <1>4, <1>5, <1>6

\* The answers of the others stand while the journal grows.
LEMMA OthersAnswers ==
  ASSUME StartInv, AnswersSound, NEW d \in Callers, op'[d] = op[d], JournalGrows
  PROVE  AnswerSound(d)'
  <1>1. Pinned(op[d])
    BY DEF StartInv, StartTypeInv, OpInv
  <1>2. op[d].use = "admit" /\ op[d].phase # "idle" =>
          op[d].trigger \in Trigger /\ op[d].run \in RunId
    BY <1>1 DEF Pinned
  <1>3. op[d].phase \in WritingPhases \union {"recording", "answered"} => op[d].phase # "idle"
    BY DEF WritingPhases
  <1> QED BY <1>2, <1>3 DEF AnswersSound, AnswerSound, JournalGrows

\* The phases and answers that a step of an admission leads to.
LEMMA ProceedsTo ==
  ASSUME StartInv, NEW c \in Callers, Proceed(c), op[c].use = "admit"
  PROVE  /\ op[c].phase # "idle"
         /\ \A d \in Callers : d # c => op'[d] = op[d]
         /\ op'[c].use = op[c].use /\ op'[c].run = op[c].run /\ op'[c].trigger = op[c].trigger
         /\ op'[c].phase \in WritingPhases =>
              op[c].phase \in WritingPhases \/ (op[c].phase = "starting" /\ op'[c].phase = "started")
         /\ op'[c].phase \in {"recording", "answered"} =>
              \/ op[c].phase = "recording" /\ op'[c].reason = op[c].reason
              \/ op[c].phase \in WritingPhases /\ op'[c].reason = "start_request_admitted"
              \/ op[c].phase = "unclaimed" /\ op'[c].reason = "trigger_already_admitted"
              \/ op[c].phase = "undeduping" /\ op'[c].reason = "run_id_claimed"
              \/ op[c].phase = "unconflicted" /\ op'[c].reason = "run_id_exists"
                 /\ Rows(op[c].run) # 0
  <1>1. op \in [Callers -> Operation] /\ op[c] \in Operation
    BY DEF StartInv, StartTypeInv, StartTypeOK
  <1> USE <1>1 DEF Goto, Raise, Conclude, WritingPhases
  <1>2. CASE ClaimTrigger(c) \/ ClaimRun(c) \/ ReleaseTrigger(c)
    BY <1>2 DEF ClaimTrigger, ClaimRun, ReleaseTrigger, Operation
  <1>3. CASE StartCheck(c) \/ StartLoad(c) \/ StartAppend(c)
    BY <1>3 DEF StartCheck, StartLoad, StartAppend, Operation
  <1>4. CASE FirstAdvance(c) \/ MoveLoad(c) \/ MoveAppend(c)
    BY <1>4 DEF FirstAdvance, MoveLoad, MoveAppend, StartReturn, Operation
  <1>5. CASE ReleaseRun(c) \/ ReleaseConflict(c) \/ Record(c)
    BY <1>5 DEF ReleaseRun, ReleaseConflict, Record, Operation
  <1> QED BY <1>2, <1>3, <1>4, <1>5 DEF Proceed

\* An admission answers what it found: its steps keep every answer true.
LEMMA ProceedAnswers ==
  ASSUME StartInv, AnswersSound, NEW c \in Callers, Proceed(c)
  PROVE  AnswersSound'
  <1>1. /\ Pinned(op[c]) /\ op[c] \in Operation
        /\ op \in [Callers -> Operation]
    BY DEF StartInv, StartTypeInv, OpInv, Pinned, StartTypeOK
  <1>2. JournalGrows
    BY JournalSteps
  <1>3. CASE op[c].use = "admit"
    <2>1. op[c].phase # "idle" /\ op[c].trigger \in Trigger /\ op[c].run \in RunId
      BY <1>1, <1>3, ProceedsTo DEF Pinned
    <2>2. /\ op'[c].run = op[c].run /\ op'[c].trigger = op[c].trigger
          /\ \A d \in Callers : d # c => op'[d] = op[d]
      BY <1>3, ProceedsTo
    <2>3. ASSUME op[c].phase \in WritingPhases
          PROVE  Starts(op[c].trigger, journal'[op[c].run]) # {}
      <3>1. Starts(op[c].trigger, journal[op[c].run]) # {}
        BY <1>3, <2>3 DEF AnswersSound, AnswerSound
      <3> QED BY <1>2, <2>1, <3>1 DEF JournalGrows
    <2>4. ASSUME op'[c].phase \in WritingPhases
          PROVE  Starts(op[c].trigger, journal'[op[c].run]) # {}
      BY <1>3, <2>3, <2>4, ProceedsTo, JournalSteps
    <2>5. ASSUME op'[c].phase \in {"recording", "answered"}
          PROVE  /\ op'[c].reason = "start_request_admitted" =>
                      Starts(op[c].trigger, journal'[op[c].run]) # {}
                 /\ op'[c].reason = "run_id_exists" => Len(journal'[op[c].run]) > 0
      <3>1. CASE op[c].phase = "recording" /\ op'[c].reason = op[c].reason
        <4>1. /\ op[c].reason = "start_request_admitted" =>
                   Starts(op[c].trigger, journal[op[c].run]) # {}
              /\ op[c].reason = "run_id_exists" => Rows(op[c].run) > 0
          BY <1>3, <3>1 DEF AnswersSound, AnswerSound
        <4> QED BY <1>2, <2>1, <3>1, <4>1 DEF JournalGrows, Rows
      <3>2. CASE op[c].phase \in WritingPhases /\ op'[c].reason = "start_request_admitted"
        BY <2>3, <3>2
      <3>3. CASE op[c].phase = "unconflicted" /\ op'[c].reason = "run_id_exists"
                 /\ Rows(op[c].run) # 0
        <4>1. Rows(op[c].run) \in Nat
          BY <2>1 DEF Rows, StartInv, StartTypeInv, StartTypeOK
        <4> QED BY <1>2, <2>1, <3>3, <4>1 DEF JournalGrows, Rows
      <3> QED BY <1>3, <2>5, <3>1, <3>2, <3>3, ProceedsTo
    <2>6. AnswerSound(c)'
      BY <2>2, <2>4, <2>5 DEF AnswerSound, Rows
    <2> QED BY <1>2, <2>2, <2>6, OthersAnswers DEF AnswersSound
  <1>4. CASE op[c].use # "admit"
    <2>1. op'[c].use = op[c].use /\ \A d \in Callers : d # c => op'[d] = op[d]
      BY <1>1 DEF Proceed, ClaimTrigger, ClaimRun, ReleaseTrigger, StartCheck, StartLoad,
         StartAppend, FirstAdvance, MoveLoad, MoveAppend, ReleaseRun, ReleaseConflict,
         Record, StartReturn, Goto, Raise, Conclude, Operation
    <2>2. AnswerSound(c)'
      BY <1>4, <2>1 DEF AnswerSound
    <2> QED BY <1>2, <2>1, <2>2, OthersAnswers DEF AnswersSound
  <1> QED BY <1>3, <1>4

\* A fresh admission answers only for a run that it found; an idle caller has
\* no answer.
LEMMA FreshAnswers ==
  ASSUME StartInv, AnswersSound, NEW c \in Callers, UNCHANGED journal, NEW o,
         op' = [op EXCEPT ![c] = o],
         o.use = "admit" =>
           /\ o.phase \notin WritingPhases
           /\ o.phase \in {"recording", "answered"} =>
                /\ o.reason # "start_request_admitted"
                /\ o.reason = "run_id_exists" => Rows(o.run) > 0
  PROVE  AnswersSound'
  <1>1. op \in [Callers -> Operation]
    BY DEF StartInv, StartTypeInv, StartTypeOK
  <1>2. op'[c] = o /\ \A d \in Callers : d # c => op'[d] = op[d]
    BY <1>1
  <1>3. JournalGrows
    BY DEF JournalGrows, Rows
  <1>4. AnswerSound(c)'
    BY <1>2 DEF AnswerSound, Rows
  <1> QED BY <1>2, <1>3, <1>4, OthersAnswers DEF AnswersSound

\* What admit answers before it claims anything is true.
LEMMA AdmitAnswers ==
  ASSUME StartInv, AnswersSound, NEW c \in Callers, NEW request \in Requests,
         NEW verdict, Admit(c, request, verdict)
  PROVE  AnswersSound'
  <1> DEFINE asked(phase, reason) ==
        [use |-> "admit", phase |-> phase, run |-> request.run,
         trigger |-> request.trigger, seen |-> 0, terminal |-> FALSE,
         reason |-> reason]
  <1>1. UNCHANGED journal
    BY DEF Admit
  <1>2. PICK phase \in {"recording", "raised", "unclaimed"},
             reason \in {"rejected", "start_policy_disabled", "run_id_exists"} :
          /\ op' = [op EXCEPT ![c] = asked(phase, reason)]
          /\ reason = "run_id_exists" => Rows(request.run) > 0
    BY DEF Admit
  <1>3. asked(phase, reason).phase = phase /\ asked(phase, reason).run = request.run
        /\ asked(phase, reason).reason = reason
    OBVIOUS
  <1> HIDE DEF asked
  <1> QED BY <1>1, <1>2, <1>3, FreshAnswers DEF WritingPhases

LEMMA AnswersNext == StartInv /\ AnswersSound /\ [StartNext]_startVars => AnswersSound'
  <1> SUFFICES ASSUME StartInv, AnswersSound, [StartNext]_startVars PROVE AnswersSound'
    OBVIOUS
  <1>1. CASE UNCHANGED startVars
    BY <1>1 DEF startVars, AnswersSound, AnswerSound, Rows
  <1>2. ASSUME NEW c \in Callers, StartCaller(c) PROVE AnswersSound'
    <2>1. CASE \E request \in Requests, verdict \in Verdicts : Admit(c, request, verdict)
      BY <2>1, AdmitAnswers
    <2>2. CASE Proceed(c)
      BY <2>2, ProceedAnswers
    <2>3. CASE Collect(c) \/ Crash(c)
      <3>1. UNCHANGED journal /\ op' = [op EXCEPT ![c] = IdleOperation]
        BY <2>3 DEF Collect, Crash, KillOperation
      <3>2. IdleOperation.phase = "idle"
        BY DEF IdleOperation
      <3> QED BY <3>1, <3>2, FreshAnswers DEF WritingPhases
    <2>4. CASE (\E r \in RunId : StartDirectly(c, r))
               \/ \E r \in RunId, terminal \in BOOLEAN : Reconstruct(c, r, terminal)
      <3>1. \E o : op' = [op EXCEPT ![c] = o] /\ o.use # "admit"
        <4>1. ASSUME NEW r \in RunId, StartDirectly(c, r)
              PROVE  \E o : op' = [op EXCEPT ![c] = o] /\ o.use # "admit"
          <5> DEFINE o == [use |-> "start", phase |-> "claimed", run |-> r,
                           trigger |-> NoTrigger, seen |-> 0,
                           terminal |-> FALSE, reason |-> "rejected"]
          <5>1. op' = [op EXCEPT ![c] = o] /\ o.use # "admit"
            BY <4>1 DEF StartDirectly
          <5> QED BY <5>1
        <4>2. ASSUME NEW r \in RunId, NEW terminal \in BOOLEAN, Reconstruct(c, r, terminal)
              PROVE  \E o : op' = [op EXCEPT ![c] = o] /\ o.use # "admit"
          <5> DEFINE o == [use |-> "advance", phase |-> "moving", run |-> r,
                           trigger |-> NoTrigger, seen |-> Rows(r),
                           terminal |-> terminal, reason |-> "rejected"]
          <5>1. op' = [op EXCEPT ![c] = o] /\ o.use # "admit"
            BY <4>2 DEF Reconstruct
          <5> QED BY <5>1
        <4> QED BY <2>4, <4>1, <4>2
      <3>2. UNCHANGED journal
        BY <2>4 DEF StartDirectly, Reconstruct
      <3> QED BY <3>1, <3>2, FreshAnswers
    <2> QED BY <1>2, <2>1, <2>2, <2>3, <2>4 DEF StartCaller
  <1> QED BY <1>1, <1>2 DEF StartNext

\* STARTED is answered about a run that the trigger's START began, and
\* run_id_exists about a run that exists: no claim that is released, no failure
\* and no direct caller makes an answer false.
THEOREM AnswersMatchRunsHolds == StartSpec => []AnswersMatchRuns
  <1>1. StartInit => AnswersSound
    BY DEF StartInit, AnswersSound, AnswerSound, IdleOperation, WritingPhases
  <1>2. AnswersSound => AnswersMatchRuns
    BY DEF AnswersSound, AnswerSound, AnswersMatchRuns
  <1> QED BY <1>1, <1>2, AnswersNext, StartInvariant, PTL DEF StartSpec

=============================================================================
