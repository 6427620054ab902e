------------------------ MODULE MacroScheduleProofs ------------------------
(***************************************************************************)
(* One schedule, any workers: the ledgers of the service and its workers   *)
(* stay one history, and no occurrence the cursor has passed is skipped,   *)
(* for any workers, occurrences, policies, failures and kills.  The flock  *)
(* makes the locals of one worker's tick as good as shared state; the gate *)
(* keeps every claim, because every request pairs one run with one         *)
(* trigger.                                                                *)
(***************************************************************************)
EXTENDS MacroSchedule, MacroStartProofs, FirstElement

(***************************************************************************)
(* The gate, used by the schedule only.                                    *)
(***************************************************************************)

\* Every operation is an admission of one occurrence.
Paired ==
  \A c \in Callers :
    /\ op[c].use = "admit"
    /\ op[c].phase # "idle" => op[c].run = op[c].trigger

\* No admission gives a claim up: a run is never found claimed by another
\* trigger.
NothingGivenUp ==
  /\ \A c \in Callers : op[c].phase \notin {"undeduping", "conflict", "unconflicted"}
  /\ \A c \in Callers : op[c].phase = "deduped" => op[c].run \notin runClaims
  /\ runClaims \subseteq triggerClaims

\* A journal begins with the START of its occurrence.
RowsStarted == \A r \in RunId : Rows(r) > 0 => Starts(r, journal[r]) # {}

\* An occurrence that was admitted before is claimed.
AdmittedClaimed ==
  \A c \in Callers :
    /\ op[c].phase \in {"recording", "answered"}
    /\ op[c].reason = "trigger_already_admitted"
    => op[c].trigger \in triggerClaims

GateSound ==
  StartInv /\ AnswersSound /\ Paired /\ NothingGivenUp /\ RowsStarted /\ AdmittedClaimed

\* The steps of an admission, phase by phase.
LEMMA AdmissionSteps ==
  ASSUME StartInv, Paired, NEW c \in Callers, Proceed(c)
  PROVE  /\ \A d \in Callers : d # c => op'[d] = op[d]
         /\ op[c].phase # "idle" /\ op'[c].phase # "idle"
         /\ op'[c].use = op[c].use /\ op'[c].run = op[c].run /\ op'[c].trigger = op[c].trigger
         /\ op'[c].phase = "undeduping" =>
              op[c].phase = "deduped" /\ op[c].run \in runClaims
         /\ op'[c].phase = "conflict" => op[c].phase = "claimed" /\ Rows(op[c].run) > 0
         /\ op'[c].phase = "unconflicted" => op[c].phase = "conflict"
         /\ op'[c].phase = "deduped" =>
              /\ op[c].phase = "unclaimed" /\ op[c].trigger \notin triggerClaims
              /\ UNCHANGED runClaims
         /\ op[c].phase \notin {"undeduping", "unconflicted"} =>
              triggerClaims \subseteq triggerClaims'
         /\ triggerClaims' \subseteq triggerClaims \union {op[c].trigger}
         /\ triggerClaims' # triggerClaims /\ op[c].phase \notin {"undeduping", "unconflicted"}
              => op[c].phase = "unclaimed"
         /\ runClaims' \subseteq runClaims \union {op[c].run}
         /\ ~(runClaims' \subseteq runClaims) => op[c].phase = "deduped"
         /\ op'[c].phase \in {"recording", "answered"}
              /\ op'[c].reason = "trigger_already_admitted" =>
              \/ op[c].phase = "unclaimed" /\ op[c].trigger \in triggerClaims
              \/ op[c].phase = "recording" /\ op[c].reason = "trigger_already_admitted"
              \/ op[c].phase \in WritingPhases
  <1>1. /\ op \in [Callers -> Operation] /\ op[c] \in Operation /\ op[c].use = "admit"
        /\ op[c].run \in RunId
        /\ triggerClaims \subseteq Trigger /\ runClaims \subseteq RunId
    <2>1. op[c].phase # "idle" /\ op[c].use = "admit"
      BY ProceedsTo DEF Paired
    <2> QED BY <2>1 DEF StartInv, StartTypeInv, StartTypeOK, OpInv, Pinned
  <1> USE <1>1 DEF Goto, Raise, Conclude, WritingPhases
  <1>2. CASE ClaimTrigger(c) \/ ClaimRun(c) \/ ReleaseTrigger(c)
    BY <1>2 DEF ClaimTrigger, ClaimRun, ReleaseTrigger, Operation
  <1>3. CASE StartCheck(c) \/ StartLoad(c) \/ StartAppend(c)
    BY <1>3 DEF StartCheck, StartLoad, StartAppend, Operation
  <1>4. CASE FirstAdvance(c) \/ MoveLoad(c) \/ MoveAppend(c)
    BY <1>4 DEF FirstAdvance, MoveLoad, MoveAppend, StartReturn, Operation
  <1>5. CASE ReleaseRun(c) \/ ReleaseConflict(c) \/ Record(c)
    BY <1>5 DEF ReleaseRun, ReleaseConflict, Record, Operation
  <1> QED BY <1>2, <1>3, <1>4, <1>5 DEF Proceed

\* Each row goes to the journal of the admission's run.
LEMMA RowsOfRun ==
  ASSUME StartInv, NEW c \in Callers, Proceed(c), NEW r \in RunId, r # op[c].run
  PROVE  journal'[r] = journal[r]
  BY DEF StartInv, StartTypeInv, StartTypeOK, Proceed, ClaimTrigger, ClaimRun,
         ReleaseTrigger, StartCheck, StartLoad, StartAppend, FirstAdvance, MoveLoad,
         MoveAppend, ReleaseRun, ReleaseConflict, Record

\* An occurrence under way keeps every claim, and its rows begin with its START.
LEMMA ProceedKeepsGate ==
  ASSUME GateSound, NEW c \in Callers, Proceed(c)
  PROVE  GateSound' /\ triggerClaims \subseteq triggerClaims'
  <1> USE DEF GateSound
  <1>1. StartInv' /\ AnswersSound'
    <2>1. StartNext
      BY DEF StartNext, StartCaller
    <2> QED BY <2>1, StartInvNext, ProceedAnswers
  <1>2. /\ op[c].phase # "idle" /\ op[c].use = "admit" /\ op[c].run = op[c].trigger
        /\ op[c].run \in RunId /\ op[c].trigger \in Trigger
        /\ op[c].phase \notin {"undeduping", "conflict", "unconflicted"}
    <2>1. op[c].phase # "idle" /\ op[c].use = "admit"
      BY AdmissionSteps DEF Paired
    <2> QED BY <2>1 DEF Paired, NothingGivenUp, StartInv, StartTypeInv, OpInv, Pinned
  <1>3. Paired'
    BY AdmissionSteps DEF Paired
  <1>4. triggerClaims \subseteq triggerClaims'
    BY <1>2, AdmissionSteps
  <1>5. ASSUME op[c].phase = "claimed" PROVE Rows(op[c].run) = 0
    <2>1. HoldsRun(op[c])
      BY <1>2, <1>5 DEF HoldsRun, RunHeldPhases
    <2>2. Starts(op[c].run, journal[op[c].run]) = {}
      BY <1>2, <2>1 DEF StartInv, Reservations, RunsHeld
    <2>3. Rows(op[c].run) \in Nat
      BY <1>2 DEF Rows, StartInv, StartTypeInv, StartTypeOK
    <2> QED BY <1>2, <2>2, <2>3 DEF RowsStarted
  <1>6. ASSUME NEW d \in Callers, op[d].phase = "deduped", d # c, op[c].phase = "deduped"
        PROVE  op[d].run # op[c].run
    <2>1. HoldsTrigger(op[c]) /\ HoldsTrigger(op[d])
      BY <1>2, <1>6 DEF HoldsTrigger, TriggerHeldPhases, Paired
    <2> QED BY <1>2, <1>6, <2>1 DEF StartInv, Reservations, HoldersDiffer, Paired
  <1>7. NothingGivenUp'
    <2>1. op'[c].phase \notin {"undeduping", "conflict", "unconflicted"}
      BY <1>2, <1>5, AdmissionSteps DEF NothingGivenUp
    <2>2. op'[c].phase = "deduped" => op'[c].run \notin runClaims'
      BY <1>2, AdmissionSteps DEF NothingGivenUp
    <2>3. \A d \in Callers : d # c /\ op[d].phase = "deduped" => op[d].run \notin runClaims'
      BY <1>6, AdmissionSteps DEF NothingGivenUp
    <2>4. runClaims' \subseteq triggerClaims'
      <3>1. ASSUME op[c].phase = "deduped" PROVE op[c].run \in triggerClaims
        <4>1. HoldsTrigger(op[c])
          BY <1>2, <3>1 DEF HoldsTrigger, TriggerHeldPhases
        <4> QED BY <1>2, <4>1 DEF StartInv, Reservations, TriggersHeld
      <3> QED BY <1>4, <3>1, AdmissionSteps DEF NothingGivenUp
    <2> QED BY <2>1, <2>2, <2>3, <2>4, AdmissionSteps DEF NothingGivenUp
  <1>8. RowsStarted'
    <2> SUFFICES ASSUME NEW r \in RunId, Len(journal'[r]) > 0
                 PROVE  Starts(r, journal'[r]) # {}
      BY DEF RowsStarted, Rows
    <2>1. CASE Rows(r) > 0
      <3>1. Starts(r, journal[r]) # {}
        BY <2>1 DEF RowsStarted
      <3> QED BY <3>1, JournalSteps, OccurrenceAssumption DEF JournalGrows
    <2>2. CASE journal'[r] # journal[r] /\ ~(Rows(r) > 0)
      <3>1. r = op[c].run
        BY <2>2, RowsOfRun
      <3>2. op[c].phase \notin WritingPhases
        <4>1. op[c].phase \in WritingPhases => Starts(op[c].trigger, journal[r]) # {}
          BY <1>2, <3>1 DEF AnswersSound, AnswerSound
        <4>2. Starts(op[c].trigger, journal[r]) # {} => Rows(r) > 0
          BY DEF Starts, Rows, StartInv, StartTypeInv, StartTypeOK
        <4> QED BY <2>2, <4>1, <4>2
      <3>3. StartAppend(c)
        BY <2>2, <3>2, JournalSteps DEF MoveAppend, WritingPhases
      <3>4. op[c].phase = "starting" /\ op'[c].phase = "started"
        BY <2>2, <3>3 DEF StartAppend, StartInv, StartTypeInv, StartTypeOK, Operation
      <3> QED BY <1>2, <3>1, <3>4, JournalSteps
    <2> QED BY <2>1, <2>2 DEF Rows
  <1>9. AdmittedClaimed'
    <2>1. ASSUME op'[c].phase \in {"recording", "answered"},
                 op'[c].reason = "trigger_already_admitted"
          PROVE  op[c].trigger \in triggerClaims
      <3>1. \/ op[c].phase = "unclaimed" /\ op[c].trigger \in triggerClaims
            \/ op[c].phase = "recording" /\ op[c].reason = "trigger_already_admitted"
            \/ op[c].phase \in WritingPhases
        BY <2>1, AdmissionSteps
      <3>2. CASE op[c].phase \in WritingPhases
        <4>1. op'[c].reason = "start_request_admitted"
          BY <1>2, <2>1, <3>2, ProceedsTo DEF WritingPhases
        <4> QED BY <2>1, <4>1
      <3> QED BY <3>1, <3>2 DEF AdmittedClaimed
    <2> QED BY <1>4, <2>1, AdmissionSteps DEF AdmittedClaimed
  <1> QED BY <1>1, <1>3, <1>4, <1>7, <1>8, <1>9

\* An operation begins with the admission of an occurrence or ends with nobody
\* in it: what is claimed and written stays.
LEMMA FreshKeepsGate ==
  ASSUME GateSound, NEW c \in Callers, NEW o,
         StartInv', AnswersSound', UNCHANGED <<triggerClaims, runClaims, journal>>,
         op' = [op EXCEPT ![c] = o],
         o.use = "admit", o.phase # "idle" => o.run = o.trigger,
         o.phase \notin {"undeduping", "conflict", "unconflicted", "deduped"},
         o.reason # "trigger_already_admitted"
  PROVE  GateSound'
  <1>1. op'[c] = o /\ \A d \in Callers : d # c => op'[d] = op[d]
    BY DEF GateSound, StartInv, StartTypeInv, StartTypeOK
  <1>2. Paired'
    BY <1>1 DEF GateSound, Paired
  <1>3. NothingGivenUp'
    BY <1>1 DEF GateSound, NothingGivenUp
  <1>4. RowsStarted'
    BY DEF GateSound, RowsStarted, Rows
  <1>5. AdmittedClaimed'
    BY <1>1 DEF GateSound, AdmittedClaimed
  <1> QED BY <1>2, <1>3, <1>4, <1>5 DEF GateSound

\* The admission of an occurrence.
LEMMA AdmitKeepsGate ==
  ASSUME GateSound, NEW c \in Callers, NEW o \in Due, NEW verdict,
         Admit(c, [run |-> o, trigger |-> o], verdict)
  PROVE  GateSound'
  <1> DEFINE request == [run |-> o, trigger |-> o]
             asked(phase, reason) ==
               [use |-> "admit", phase |-> phase, run |-> o, trigger |-> o, seen |-> 0,
                terminal |-> FALSE, reason |-> reason]
  <1>1. request \in Requests /\ request.run = o /\ request.trigger = o
    BY OccurrenceAssumption
  <1>2. StartInv' /\ AnswersSound'
    <2> HIDE DEF request
    <2>1. Admit(c, request, verdict)
      BY DEF request
    <2> QED BY <1>1, <2>1, AdmitPreserves, AdmitAnswers DEF GateSound
  <1>3. UNCHANGED <<triggerClaims, runClaims, journal>>
    BY DEF Admit
  <1>4. PICK phase \in {"recording", "raised", "unclaimed"},
             reason \in {"rejected", "start_policy_disabled", "run_id_exists"} :
          op' = [op EXCEPT ![c] = asked(phase, reason)]
    BY DEF Admit
  <1>5. LET a == asked(phase, reason)
        IN  a.use = "admit" /\ a.phase = phase /\ a.run = a.trigger /\ a.reason = reason
    OBVIOUS
  <1> HIDE DEF asked
  <1> QED BY <1>2, <1>3, <1>4, <1>5, FreshKeepsGate

\* The answer is collected, or the process is killed.
LEMMA EndKeepsGate ==
  ASSUME GateSound, NEW c \in Callers, Collect(c) \/ KillOperation(c)
  PROVE  GateSound'
  <1>1. /\ op' = [op EXCEPT ![c] = IdleOperation]
        /\ UNCHANGED <<triggerClaims, runClaims, journal>>
    BY DEF Collect, KillOperation
  <1>2. /\ IdleOperation.use = "admit" /\ IdleOperation.phase = "idle"
        /\ IdleOperation.reason = "rejected"
    BY DEF IdleOperation
  <1>3. StartInv'
    BY <1>1, <1>2, IdlePinned, FreshStep
       DEF GateSound, StartInv, TriggerHeldPhases, RunHeldPhases
  <1>4. AnswersSound'
    BY <1>1, <1>2, FreshAnswers DEF GateSound, WritingPhases
  <1> QED BY <1>1, <1>2, <1>3, <1>4, FreshKeepsGate

\* Nobody has claimed or written anything at first.
LEMMA GateBegins ==
  ASSUME StartInit
  PROVE  GateSound
  <1>1. StartInv
    BY StartInvInit
  <1>2. AnswersSound /\ Paired /\ NothingGivenUp /\ RowsStarted /\ AdmittedClaimed
    BY DEF StartInit, AnswersSound, AnswerSound, Paired, NothingGivenUp, RowsStarted, Rows,
           AdmittedClaimed, IdleOperation, WritingPhases
  <1> QED BY <1>1, <1>2 DEF GateSound

\* A step that leaves the gate alone.
LEMMA GateStays ==
  ASSUME GateSound, UNCHANGED startVars
  PROVE  GateSound'
  BY StartInvNext, AnswersNext
     DEF GateSound, startVars, Paired, NothingGivenUp, RowsStarted, Rows, AdmittedClaimed

(***************************************************************************)
(* The workers.                                                            *)
(***************************************************************************)

OutPhases == {"out", "refused"}
TickPhases == {"ticking", "polling", "reporting"}

\* What a worker in a tick remembers is so: nobody else has moved the ledgers,
\* and of the occurrences of its window it has still to admit those that are
\* neither claimed nor refused.
TickSound(x) ==
  x.phase \in TickPhases =>
    /\ states # <<>>
    /\ x.index = Len(ticks)
    /\ \A i \in DOMAIN ticks : ticks[i].after <= x.before
    /\ x.phase = "ticking" => x.before = Len(states) /\ Cursor <= x.through
    /\ x.phase = "polling" =>
         /\ x.before = Len(states) /\ x.seen = Len(states) /\ Cursor <= x.through
         /\ \A o \in x.todo : o <= x.through
         /\ x.blocked \/ Selected(Cursor, x.through) \subseteq x.todo \union triggerClaims \union rejected
    /\ x.phase = "reporting" =>
         \/ x.seen = 0 /\ x.before = Len(states)
         \/ x.seen = x.before /\ Len(states) = x.before + 1

LocalsSound == \A w \in Callers : TickSound(worker[w])

\* An admission is under way only in the poll of its worker.
OpsIdle == \A w \in Callers : worker[w].phase # "polling" => op[w].phase = "idle"

\* No tick reports a state that is not there.
TicksReach == \A i \in DOMAIN ticks : ticks[i].after <= Len(states)

HistoriesSound ==
  OneHistory /\ TicksBindStates /\ TicksReach /\ NothingSkipped

\* A worker that owns the service has a lease on record.
LeasesRecorded ==
  leases = <<>> => \A w \in Callers : worker[w].phase \in OutPhases \union {"locked"}

SInv == GateSound /\ ScheduleTypeOK /\ OwnerIsRecorded /\ LeasesRecorded /\ LocalsSound
          /\ OpsIdle /\ HistoriesSound /\ OrphansReported

\* One worker at a time stands between acquire and release.
LEMMA OneOwner ==
  ASSUME OwnerIsRecorded, NEW w \in Callers, worker[w].phase \notin OutPhases
  PROVE  /\ lock = w
         /\ \A v \in Callers : v # w => worker[v].phase \in OutPhases
  BY DEF OwnerIsRecorded, OutPhases

\* Nobody does while the lock is free.
LEMMA NoOwner ==
  ASSUME OwnerIsRecorded, lock = NoWorker
  PROVE  \A v \in Callers : worker[v].phase \in OutPhases
  BY OccurrenceAssumption DEF OwnerIsRecorded, OutPhases

\* The histories stand while the ledgers do and claims are only added.
LEMMA HistoriesStay ==
  ASSUME HistoriesSound, UNCHANGED <<latestOnly, states, ticks>>,
         triggerClaims \subseteq triggerClaims', rejected \subseteq rejected'
  PROVE  HistoriesSound'
  <1>1. OneHistory' /\ TicksBindStates' /\ TicksReach'
    BY DEF HistoriesSound, OneHistory, Readable, TicksBindStates, TicksReach
  <1>2. Passed' = Passed
    BY DEF Passed, Selected
  <1>3. NothingSkipped'
    BY <1>2 DEF HistoriesSound, NothingSkipped
  <1> QED BY <1>1, <1>3 DEF HistoriesSound

\* The record of a worker that is out.
LEMMA OutWorkerRecord ==
  NoLease \in LeaseRow /\ OutWorker \in Worker /\ OutWorker.phase = "out"
  <1>1. NoLease \in LeaseRow
    BY DEF NoLease, LeaseRow
  <1> QED BY <1>1 DEF OutWorker, Worker, WorkerPhases, Verdicts

\* A call that raised leaves the worker its policy and its lease.
LEMMA RaisedToOwner ==
  ASSUME NEW w \in Callers, worker[w] \in Worker, RaiseToOwner(w)
  PROVE  \E x \in Worker :
           /\ worker' = [worker EXCEPT ![w] = x]
           /\ x.phase = "owner" /\ x.lease = worker[w].lease
  <1> DEFINE x == [OutWorker EXCEPT !.phase = "owner", !.policy = worker[w].policy,
                                    !.lease = worker[w].lease]
  <1>1. x \in Worker /\ x.phase = "owner" /\ x.lease = worker[w].lease
    BY OutWorkerRecord DEF OutWorker, Worker, WorkerPhases, Verdicts
  <1>2. worker' = [worker EXCEPT ![w] = x]
    BY DEF RaiseToOwner
  <1> HIDE DEF x
  <1> QED BY <1>1, <1>2

\* An appended event: ACQUIRED only after a release.
LEMMA EventAppended ==
  ASSUME events \in Seq(EventKinds), OrphansReported, NEW k \in EventKinds,
         k = "ACQUIRED" => ~PriorOpen, events' = Append(events, k)
  PROVE  events' \in Seq(EventKinds) /\ OrphansReported'
  <1>1. PICK n \in Nat : n = Len(events)
    OBVIOUS
  <1>2. /\ events' \in Seq(EventKinds)
        /\ \A i \in 1..n : events'[i] = events[i]
        /\ events'[n + 1] = k
        /\ DOMAIN events' = 1..(n + 1) /\ DOMAIN events = 1..n
    BY <1>1
  <1>3. ASSUME NEW i \in 1..n, events'[i] = "ACQUIRED" PROVE ~FollowsOpenOwner(i)'
    <2>1. ~FollowsOpenOwner(i)
      BY <1>2, <1>3 DEF OrphansReported
    <2>2. \A j \in 1..(i - 1) : j \in 1..n /\ \A l \in (j + 1)..(i - 1) : l \in 1..n
      BY <1>1
    <2> QED BY <1>2, <2>1, <2>2 DEF FollowsOpenOwner
  <1>4. ASSUME k = "ACQUIRED", NEW j \in 1..n, events[j] \in Ownership
        PROVE  \E l \in (j + 1)..n : events[l] = "RELEASED"
    <2>1. n \in 1..n /\ events # <<>>
      BY <1>1, <1>4
    <2>2. events[n] = "RELEASED"
      BY <1>1, <1>4, <2>1 DEF PriorOpen, Last
    <2>3. j # n
      BY <1>4, <2>2 DEF Ownership
    <2>4. n \in (j + 1)..n
      BY <2>3
    <2> QED BY <2>2, <2>4
  <1>5. ASSUME k = "ACQUIRED" PROVE ~FollowsOpenOwner(n + 1)'
    <2>1. (n + 1) - 1 = n /\ \A j \in 1..n : \A l \in (j + 1)..n : l \in 1..n
      BY <1>1
    <2> QED BY <1>2, <1>4, <1>5, <2>1 DEF FollowsOpenOwner
  <1>6. \A i \in 1..(n + 1) : i \in 1..n \/ i = n + 1
    BY <1>1
  <1> QED BY <1>2, <1>3, <1>5, <1>6 DEF OrphansReported

\* A step of the worker that owns the service, outside its poll.
LEMMA QuietOwner ==
  ASSUME SInv, NEW w \in Callers, worker[w].phase \notin OutPhases,
         op[w].phase = "idle", NEW x \in Worker, worker' = [worker EXCEPT ![w] = x],
         UNCHANGED <<startVars, latestOnly, clock, policy, states, ticks, rejected>>,
         leases' \in Seq(LeaseRow), events' \in Seq(EventKinds), OrphansReported',
         TickSound(x), leases' = <<>> => x.phase \in OutPhases \union {"locked"},
         \/ x.phase \in OutPhases /\ lock' \in {lock, NoWorker}
         \/ /\ lock' = lock
            /\ x.phase # "locked" => Last(leases').generation = x.lease.generation
  PROVE  SInv'
  <1> USE DEF SInv
  <1>1. GateSound' /\ StartTypeOK'
    BY GateStays DEF GateSound, StartInv, StartTypeInv
  <1>2. /\ worker' \in [Callers -> Worker] /\ worker'[w] = x
        /\ \A v \in Callers : v # w => worker'[v] = worker[v]
    BY DEF ScheduleTypeOK
  <1>3. lock = w /\ \A v \in Callers : v # w => worker[v].phase \in OutPhases
    BY OneOwner
  <1>4. ScheduleTypeOK'
    BY <1>1, <1>2 DEF ScheduleTypeOK
  <1>5. OwnerIsRecorded'
    BY <1>2, <1>3 DEF OwnerIsRecorded, OutPhases
  <1>6. LocalsSound'
    <2>1. TickSound(x)'
      BY DEF TickSound, Cursor, Last, Selected, startVars
    <2>2. \A v \in Callers : v # w => worker'[v].phase \notin TickPhases
      BY <1>2, <1>3 DEF TickPhases, OutPhases
    <2> QED BY <1>2, <2>1, <2>2 DEF LocalsSound, TickSound
  <1>7. OpsIdle'
    BY <1>2 DEF OpsIdle, startVars
  <1>8. HistoriesSound'
    BY HistoriesStay DEF startVars
  <1>9. LeasesRecorded'
    BY <1>2, <1>3 DEF LeasesRecorded
  <1> QED BY <1>1, <1>4, <1>5, <1>6, <1>7, <1>8, <1>9

\* The phases in which a worker is idle at the gate.
LEMMA IdleAtGate ==
  ASSUME SInv, NEW w \in Callers
  PROVE  /\ worker[w] \in Worker
         /\ worker[w].phase # "polling" => op[w].phase = "idle"
  BY DEF SInv, OpsIdle, ScheduleTypeOK

\* The worker's record with another phase.
LEMMA Becomes ==
  ASSUME NEW x \in Worker, NEW p \in WorkerPhases
  PROVE  LET y == [x EXCEPT !.phase = p]
         IN  y \in Worker /\ y.phase = p /\ y.lease = x.lease
  BY DEF Worker

\* acquire takes the free flock, or is refused and records that.
LEMMA AcquireKeeps ==
  ASSUME SInv, NEW w \in Callers, Acquire(w) \/ RecordRefusal(w)
  PROVE  SInv'
  <1> USE DEF SInv
  <1>1. PICK x \in Worker :
          /\ worker' = [worker EXCEPT ![w] = x]
          /\ \/ x.phase \in OutPhases /\ lock' = lock
             \/ x.phase = "locked" /\ lock = NoWorker /\ lock' = w
    <2>1. CASE Acquire(w) /\ lock = NoWorker
      <3> DEFINE x == [worker[w] EXCEPT !.phase = "locked", !.policy = policy, !.at = clock]
      <3>1. x \in Worker /\ x.phase = "locked"
        BY IdleAtGate DEF Worker, WorkerPhases, ScheduleTypeOK
      <3>2. worker' = [worker EXCEPT ![w] = x] /\ lock' = w
        BY <2>1 DEF Acquire
      <3> HIDE DEF x
      <3> QED BY <2>1, <3>1, <3>2
    <2>2. CASE Acquire(w) /\ lock # NoWorker
      <3> DEFINE x == [worker[w] EXCEPT !.phase = "refused"]
      <3>1. x \in Worker /\ x.phase = "refused"
        BY IdleAtGate DEF Worker, WorkerPhases
      <3>2. worker' = [worker EXCEPT ![w] = x] /\ lock' = lock
        BY <2>2 DEF Acquire, Become
      <3>3. x.phase \in OutPhases
        BY <3>1 DEF OutPhases
      <3> HIDE DEF x
      <3> QED BY <3>1, <3>2, <3>3
    <2>3. CASE RecordRefusal(w)
      <3>1. worker' = [worker EXCEPT ![w] = OutWorker] /\ lock' = lock
        BY <2>3 DEF RecordRefusal
      <3>2. OutWorker \in Worker /\ OutWorker.phase \in OutPhases
        BY OutWorkerRecord DEF OutPhases
      <3> QED BY <3>1, <3>2
    <2> QED BY <2>1, <2>2, <2>3
  <1>2. /\ worker[w].phase \in OutPhases
        /\ UNCHANGED <<startVars, latestOnly, clock, policy, states, leases, ticks, rejected>>
    BY DEF Acquire, RecordRefusal, OutPhases
  <1>3. events' \in Seq(EventKinds) /\ OrphansReported'
    <2>1. CASE UNCHANGED events
      BY <2>1 DEF ScheduleTypeOK, OrphansReported, FollowsOpenOwner
    <2>2. CASE events' = Append(events, "ACQUIRE_HELD")
      BY <2>2, EventAppended DEF ScheduleTypeOK, EventKinds
    <2> QED BY <2>1, <2>2 DEF Acquire, RecordRefusal
  <1>4. GateSound' /\ StartTypeOK'
    BY <1>2, GateStays DEF GateSound, StartInv, StartTypeInv
  <1>5. /\ worker' \in [Callers -> Worker] /\ worker'[w] = x
        /\ \A v \in Callers : v # w => worker'[v] = worker[v]
    BY <1>1 DEF ScheduleTypeOK
  <1>6. ScheduleTypeOK'
    BY <1>1, <1>2, <1>3, <1>4, <1>5 DEF ScheduleTypeOK
  <1>7. OwnerIsRecorded'
    BY <1>1, <1>2, <1>5, NoOwner DEF OwnerIsRecorded, OutPhases
  <1>8. LocalsSound'
    <2>1. ASSUME NEW v \in Callers, v # w PROVE TickSound(worker[v])'
      <3>1. TickSound(worker[v]) /\ worker'[v] = worker[v]
        BY <1>5, <2>1 DEF LocalsSound
      <3> QED BY <1>2, <3>1 DEF TickSound, Cursor, Last, Selected, startVars
    <2>2. worker'[w].phase \notin TickPhases
      BY <1>1, <1>5 DEF OutPhases, TickPhases
    <2>3. TickSound(worker[w])'
      BY <2>2 DEF TickSound
    <2> QED BY <2>1, <2>3 DEF LocalsSound
  <1>9. OpsIdle'
    BY <1>1, <1>2, <1>5 DEF OpsIdle, OutPhases, startVars
  <1>10. HistoriesSound'
    BY <1>2, HistoriesStay DEF startVars
  <1>11. LeasesRecorded'
    BY <1>1, <1>2, <1>5 DEF LeasesRecorded
  <1> QED BY <1>3, <1>4, <1>6, <1>7, <1>8, <1>9, <1>10, <1>11

\* The lease and the ownership of a worker that has the flock are recorded.
LEMMA OwnershipKeeps ==
  ASSUME SInv, NEW w \in Callers, RecordLease(w) \/ RecordOwnership(w)
  PROVE  SInv'
  <1> USE DEF SInv
  <1>1. /\ worker[w] \in Worker /\ worker[w].phase \in {"locked", "leased"}
        /\ worker[w].phase \notin OutPhases /\ op[w].phase = "idle"
        /\ UNCHANGED <<startVars, latestOnly, clock, policy, states, ticks, rejected>>
    BY IdleAtGate DEF RecordLease, RecordOwnership, OutPhases
  <1>2. leases \in Seq(LeaseRow) /\ events \in Seq(EventKinds)
    BY DEF ScheduleTypeOK
  <1>3. ASSUME UNCHANGED events PROVE OrphansReported'
    BY <1>3 DEF OrphansReported, FollowsOpenOwner
  <1>4. CASE RaiseFromAcquire(w) /\ UNCHANGED <<leases, events>>
    <2>1. TickSound(OutWorker) /\ OutWorker \in Worker /\ OutWorker.phase \in OutPhases
      BY OutWorkerRecord DEF TickSound, TickPhases, OutPhases
    <2>2. worker' = [worker EXCEPT ![w] = OutWorker] /\ lock' = NoWorker
      BY <1>4 DEF RaiseFromAcquire
    <2> HIDE DEF SInv
    <2> QED BY <1>1, <1>2, <1>3, <1>4, <2>1, <2>2, QuietOwner
  <1>5. CASE RecordLease(w) /\ ~(RaiseFromAcquire(w) /\ UNCHANGED leases)
    <2> DEFINE previous == IF leases = <<>> THEN NoLease ELSE Last(leases)
    <2>1. previous \in LeaseRow
      <3>1. leases # <<>> => Last(leases) \in LeaseRow
        BY <1>2 DEF Last
      <3> QED BY <3>1, OutWorkerRecord
    <2>2. PICK lease \in LeaseRow :
            /\ leases' = Append(leases, lease)
            /\ worker' = [worker EXCEPT ![w].phase = "leased", ![w].lease = lease]
            /\ UNCHANGED <<lock, events>>
      <3> DEFINE l == [generation |-> previous.generation + 1, renewal |-> 0,
                       until |-> worker[w].at + LeaseTime]
      <3>1. l \in LeaseRow
        <4>1. worker[w].at \in Nat
          BY <1>1 DEF Worker
        <4>2. previous.generation \in Nat
          BY <2>1 DEF LeaseRow
        <4>3. LeaseTime \in Nat
          BY ScheduleAssumption
        <4> HIDE DEF previous
        <4> QED BY <4>1, <4>2, <4>3 DEF LeaseRow
      <3>2. /\ leases' = Append(leases, l) /\ UNCHANGED <<lock, events>>
            /\ worker' = [worker EXCEPT ![w].phase = "leased", ![w].lease = l]
        BY <1>5 DEF RecordLease
      <3> HIDE DEF l
      <3> QED BY <3>1, <3>2
    <2>3. leases' \in Seq(LeaseRow) /\ leases' # <<>> /\ Last(leases') = lease
      BY <1>2, <2>2 DEF Last
    <2>4. PICK x \in Worker : /\ x.phase = "leased" /\ x.lease = lease
                              /\ worker' = [worker EXCEPT ![w] = x]
      <3> DEFINE y == [worker[w] EXCEPT !.phase = "leased", !.lease = lease]
      <3>1. y \in Worker /\ y.phase = "leased" /\ y.lease = lease
        BY <1>1 DEF Worker, WorkerPhases
      <3>2. worker' = [worker EXCEPT ![w] = y]
        BY <2>2
      <3> HIDE DEF y
      <3> QED BY <3>1, <3>2
    <2>5. TickSound(x)
      BY <2>4 DEF TickSound, TickPhases
    <2> HIDE DEF SInv
    <2> QED BY <1>1, <1>2, <1>3, <2>2, <2>3, <2>4, <2>5, QuietOwner
  <1>6. CASE RecordOwnership(w) /\ ~(RaiseFromAcquire(w) /\ UNCHANGED events)
    <2>1. PICK k \in EventKinds : events' = Append(events, k) /\ (k = "ACQUIRED" => ~PriorOpen)
      BY <1>6 DEF RecordOwnership, EventKinds
    <2>2. events' \in Seq(EventKinds) /\ OrphansReported'
      BY <1>2, <2>1, EventAppended
    <2>3. PICK x \in Worker : /\ x.phase = "owner" /\ x.lease = worker[w].lease
                              /\ worker' = [worker EXCEPT ![w] = x]
      BY <1>1, <1>6, RaisedToOwner DEF RecordOwnership
    <2>4. TickSound(x)
      BY <2>3 DEF TickSound, TickPhases
    <2>5. Last(leases').generation = x.lease.generation
      BY <1>6, <2>3 DEF RecordOwnership, OwnerIsRecorded
    <2>6. leases' \in Seq(LeaseRow) /\ leases' # <<>> /\ lock' = lock
      BY <1>2, <1>6 DEF RecordOwnership, LeasesRecorded, OutPhases
    <2> HIDE DEF SInv
    <2>7. \/ x.phase \in OutPhases /\ lock' \in {lock, NoWorker}
          \/ /\ lock' = lock
             /\ x.phase # "locked" => Last(leases').generation = x.lease.generation
      BY <2>5, <2>6
    <2> QED BY <1>1, <2>2, <2>3, <2>4, <2>6, <2>7, QuietOwner
  <1> QED BY <1>4, <1>5, <1>6 DEF RecordLease, RecordOwnership

\* release records, and the unlock ends the worker.
LEMMA ReleaseKeeps ==
  ASSUME SInv, NEW w \in Callers, Release(w) \/ Unlock(w)
  PROVE  SInv'
  <1>1. /\ worker[w] \in Worker /\ worker[w].phase \notin OutPhases /\ op[w].phase = "idle"
        /\ UNCHANGED <<startVars, latestOnly, clock, policy, states, ticks, rejected>>
        /\ leases' = leases
    BY IdleAtGate DEF Release, Unlock, OutPhases
  <1>2. /\ leases' \in Seq(LeaseRow) /\ events \in Seq(EventKinds) /\ OrphansReported
        /\ worker[w].phase # "locked" => Last(leases').generation = worker[w].lease.generation
    BY <1>1 DEF SInv, ScheduleTypeOK, OwnerIsRecorded, OutPhases
  <1>3. CASE Release(w)
    <2>1. PICK x \in Worker : /\ x.phase = "releasing" /\ x.lease = worker[w].lease
                              /\ worker' = [worker EXCEPT ![w] = x]
      <3> DEFINE y == [worker[w] EXCEPT !.phase = "releasing"]
      <3>1. y \in Worker /\ y.phase = "releasing" /\ y.lease = worker[w].lease
        BY <1>1, Becomes DEF WorkerPhases
      <3>2. worker' = [worker EXCEPT ![w] = y]
        BY <1>3 DEF Release, Become
      <3> HIDE DEF y
      <3> QED BY <3>1, <3>2
    <2>2. events' \in Seq(EventKinds) /\ OrphansReported'
      <3>1. "RELEASED" \in EventKinds /\ events' = Append(events, "RELEASED")
        BY <1>3 DEF Release, EventKinds
      <3> QED BY <1>2, <3>1, EventAppended
    <2>3. TickSound(x)
      BY <2>1 DEF TickSound, TickPhases
    <2>4. /\ lock' = lock /\ Last(leases').generation = x.lease.generation
          /\ leases' # <<>>
      BY <1>1, <1>2, <1>3, <2>1 DEF Release, SInv, LeasesRecorded, OutPhases
    <2> QED BY <1>1, <1>2, <2>1, <2>2, <2>3, <2>4, QuietOwner
  <1>4. CASE Unlock(w)
    <2>1. worker' = [worker EXCEPT ![w] = OutWorker] /\ lock' = NoWorker /\ events' = events
      BY <1>4 DEF Unlock
    <2>2. TickSound(OutWorker) /\ OutWorker \in Worker /\ OutWorker.phase \in OutPhases
      BY OutWorkerRecord DEF TickSound, TickPhases, OutPhases
    <2>3. events' \in Seq(EventKinds) /\ OrphansReported'
      BY <1>2, <2>1 DEF OrphansReported, FollowsOpenOwner
    <2> QED BY <1>1, <1>2, <2>1, <2>2, <2>3, QuietOwner
  <1> QED BY <1>3, <1>4

\* A renewed row of a lease has its generation.
LEMMA RenewedRow ==
  ASSUME NEW l \in LeaseRow, NEW t \in Nat
  PROVE  LET r == [l EXCEPT !.renewal = @ + 1, !.until = t]
         IN  r \in LeaseRow /\ r.generation = l.generation
  <1> DEFINE q == [l EXCEPT !.renewal = @ + 1]
  <1>1. q \in LeaseRow /\ q.generation = l.generation
    BY DEF LeaseRow
  <1>2. [l EXCEPT !.renewal = @ + 1, !.until = t] = [q EXCEPT !.until = t]
    OBVIOUS
  <1>3. \A r \in LeaseRow : /\ [r EXCEPT !.until = t] \in LeaseRow
                           /\ [r EXCEPT !.until = t].generation = r.generation
    BY DEF LeaseRow
  <1> HIDE DEF q
  <1> QED BY <1>1, <1>2, <1>3

\* renew continues the lease of the same generation.
LEMMA RenewKeeps ==
  ASSUME SInv, NEW w \in Callers, RenewLease(w) \/ RecordRenewal(w)
  PROVE  SInv'
  <1>1. /\ worker[w] \in Worker /\ worker[w].phase \in {"owner", "renewing"}
        /\ worker[w].phase \notin OutPhases /\ op[w].phase = "idle"
        /\ UNCHANGED <<startVars, latestOnly, clock, policy, states, ticks, rejected>>
        /\ lock' = lock
    BY IdleAtGate DEF RenewLease, RecordRenewal, OutPhases
  <1>2. /\ leases \in Seq(LeaseRow) /\ events \in Seq(EventKinds) /\ OrphansReported
        /\ Last(leases).generation = worker[w].lease.generation
        /\ worker[w].lease \in LeaseRow /\ clock \in Nat /\ leases # <<>>
    BY <1>1 DEF SInv, ScheduleTypeOK, OwnerIsRecorded, LeasesRecorded, OutPhases, Worker
  <1>3. ASSUME UNCHANGED events PROVE events' \in Seq(EventKinds) /\ OrphansReported'
    BY <1>2, <1>3 DEF OrphansReported, FollowsOpenOwner
  <1>4. CASE RenewLease(w)
    <2>1. PICK lease \in LeaseRow : /\ lease.generation = worker[w].lease.generation
                                    /\ leases' = Append(leases, lease)
      <3> DEFINE l == [worker[w].lease EXCEPT !.renewal = @ + 1, !.until = clock + LeaseTime]
      <3>1. LeaseTime \in Nat
        BY ScheduleAssumption
      <3>2. l \in LeaseRow /\ l.generation = worker[w].lease.generation
        <4>1. worker[w].lease \in LeaseRow /\ clock + LeaseTime \in Nat
          BY <1>2, <3>1
        <4> QED BY <4>1, RenewedRow
      <3>3. leases' = Append(leases, l)
        BY <1>4 DEF RenewLease
      <3> HIDE DEF l
      <3> QED BY <3>2, <3>3
    <2>2. leases' \in Seq(LeaseRow) /\ leases' # <<>> /\ Last(leases') = lease
      BY <1>2, <2>1 DEF Last
    <2>3. PICK x \in Worker : /\ x.phase = "renewing" /\ x.lease = worker[w].lease
                              /\ worker' = [worker EXCEPT ![w] = x]
      <3> DEFINE y == [worker[w] EXCEPT !.phase = "renewing"]
      <3>1. y \in Worker /\ y.phase = "renewing" /\ y.lease = worker[w].lease
        BY <1>1, Becomes DEF WorkerPhases
      <3>2. worker' = [worker EXCEPT ![w] = y]
        BY <1>4 DEF RenewLease, Become
      <3> HIDE DEF y
      <3> QED BY <3>1, <3>2
    <2>4. events' \in Seq(EventKinds) /\ OrphansReported'
      BY <1>3, <1>4 DEF RenewLease
    <2>5. TickSound(x) /\ Last(leases').generation = x.lease.generation
      BY <2>1, <2>2, <2>3 DEF TickSound, TickPhases
    <2> QED BY <1>1, <2>2, <2>3, <2>4, <2>5, QuietOwner
  <1>5. CASE RecordRenewal(w)
    <2>1. leases' = leases
      BY <1>5 DEF RecordRenewal
    <2>2. PICK x \in Worker : /\ x.phase = "owner"
                              /\ x.lease \in {worker[w].lease, Last(leases)}
                              /\ worker' = [worker EXCEPT ![w] = x]
      <3>1. CASE RaiseToOwner(w)
        BY <1>1, <3>1, RaisedToOwner
      <3>2. CASE worker' = [worker EXCEPT ![w].phase = "owner", ![w].lease = Last(leases)]
        <4> DEFINE y == [worker[w] EXCEPT !.phase = "owner", !.lease = Last(leases)]
        <4>1. Last(leases) \in LeaseRow
          BY <1>2 DEF Last
        <4>2. y \in Worker /\ y.phase = "owner" /\ y.lease = Last(leases)
          BY <1>1, <4>1 DEF Worker, WorkerPhases
        <4>3. worker' = [worker EXCEPT ![w] = y]
          BY <3>2
        <4> HIDE DEF y
        <4> QED BY <4>2, <4>3
      <3> QED BY <1>5, <3>1, <3>2 DEF RecordRenewal
    <2>3. events' \in Seq(EventKinds) /\ OrphansReported'
      <3>1. CASE events' = Append(events, "RENEWED")
        BY <1>2, <3>1, EventAppended DEF EventKinds
      <3> QED BY <1>3, <1>5, <3>1 DEF RecordRenewal
    <2>4. TickSound(x) /\ Last(leases').generation = x.lease.generation
      BY <1>2, <2>1, <2>2 DEF TickSound, TickPhases
    <2> QED BY <1>1, <1>2, <2>1, <2>2, <2>3, <2>4, QuietOwner
  <1> QED BY <1>4, <1>5

\* The cursor of a service that was started.
LEMMA CursorType ==
  ASSUME ScheduleTypeOK, states # <<>>
  PROVE  Cursor \in Nat /\ Len(states) \in Nat /\ Len(states) > 0
  <1>1. states \in Seq(StateRow) /\ Len(states) \in Nat /\ Len(states) > 0
    BY DEF ScheduleTypeOK
  <1>2. states[Len(states)] \in StateRow
    BY <1>1
  <1> QED BY <1>1, <1>2 DEF Cursor, Last, StateRow

\* tick remembers the ledgers as they are.
LEMMA TickKeeps ==
  ASSUME SInv, NEW w \in Callers, Tick(w)
  PROVE  SInv'
  <1>1. /\ worker[w] \in Worker /\ worker[w].phase = "owner" /\ op[w].phase = "idle"
        /\ worker[w].phase \notin OutPhases /\ states # <<>>
        /\ UNCHANGED <<startVars, latestOnly, clock, policy, states, lock, leases, events,
                       ticks, rejected>>
    BY IdleAtGate DEF Tick, Readable, OutPhases
  <1>2. /\ leases \in Seq(LeaseRow) /\ events \in Seq(EventKinds) /\ OrphansReported
        /\ Last(leases).generation = worker[w].lease.generation /\ leases # <<>>
        /\ clock \in Nat /\ ticks \in Seq(TickRow)
    BY <1>1 DEF SInv, ScheduleTypeOK, OwnerIsRecorded, LeasesRecorded, OutPhases
  <1>3. Cursor \in Nat /\ Len(states) \in Nat /\ Len(ticks) \in Nat /\ MaxTick \in Nat
    BY <1>1, <1>2, CursorType, ScheduleAssumption DEF SInv
  <1>4. \A i \in DOMAIN ticks : ticks[i].after <= Len(states)
    BY DEF SInv, HistoriesSound, TicksReach
  <1>5. PICK x \in Worker :
          /\ worker' = [worker EXCEPT ![w] = x]
          /\ x.lease = worker[w].lease
          /\ x.index = Len(ticks) /\ x.before = Len(states)
          /\ \/ x.phase = "reporting" /\ x.seen = 0
             \/ x.phase = "ticking" /\ Cursor <= x.through
    <2> DEFINE begun == [worker[w] EXCEPT !.index = Len(ticks), !.before = Len(states)]
    <2>1. /\ begun \in Worker /\ begun.lease = worker[w].lease
          /\ begun.index = Len(ticks) /\ begun.before = Len(states)
      BY <1>1, <1>3 DEF Worker
    <2>2. CASE clock <= Cursor
      <3> DEFINE x == [begun EXCEPT !.phase = "reporting", !.seen = 0]
      <3>1. worker' = [worker EXCEPT ![w] = x]
        BY <2>2 DEF Tick
      <3> HIDE DEF begun
      <3>2. /\ x \in Worker /\ x.lease = begun.lease /\ x.index = begun.index
            /\ x.before = begun.before /\ x.phase = "reporting" /\ x.seen = 0
        BY <2>1 DEF Worker, WorkerPhases
      <3> HIDE DEF x
      <3> QED BY <2>1, <3>1, <3>2
    <2>3. CASE ~(clock <= Cursor)
      <3>1. PICK t \in Nat : t = (IF clock < Cursor + MaxTick THEN clock ELSE Cursor + MaxTick)
        BY <1>2, <1>3
      <3>2. Cursor <= t
        BY <1>2, <1>3, <2>3, <3>1
      <3> DEFINE x == [begun EXCEPT !.phase = "ticking", !.through = t]
      <3>3. worker' = [worker EXCEPT ![w] = x]
        BY <2>3, <3>1 DEF Tick
      <3> HIDE DEF begun
      <3>4. /\ x \in Worker /\ x.lease = begun.lease /\ x.index = begun.index
            /\ x.before = begun.before /\ x.phase = "ticking" /\ x.through = t
        BY <2>1, <3>1 DEF Worker, WorkerPhases
      <3> HIDE DEF x
      <3> QED BY <2>1, <3>2, <3>3, <3>4
    <2> QED BY <2>2, <2>3
  <1>6. TickSound(x)
    BY <1>1, <1>4, <1>5 DEF TickSound, TickPhases
  <1>7. leases' \in Seq(LeaseRow) /\ events' \in Seq(EventKinds) /\ OrphansReported'
    BY <1>1, <1>2 DEF OrphansReported, FollowsOpenOwner
  <1>8. /\ lock' = lock /\ Last(leases').generation = x.lease.generation /\ leases' # <<>>
    BY <1>1, <1>2, <1>5
  <1> QED BY <1>1, <1>5, <1>6, <1>7, <1>8, QuietOwner

\* poll selects the occurrences of the window.
LEMMA PollKeeps ==
  ASSUME SInv, NEW w \in Callers, Poll(w)
  PROVE  SInv'
  <1>1. /\ worker[w] \in Worker /\ worker[w].phase = "ticking" /\ op[w].phase = "idle"
        /\ worker[w].phase \notin OutPhases
        /\ UNCHANGED <<startVars, latestOnly, clock, policy, states, lock, leases, events,
                       ticks, rejected>>
    BY IdleAtGate DEF Poll, OutPhases
  <1>2. /\ leases \in Seq(LeaseRow) /\ events \in Seq(EventKinds) /\ OrphansReported
        /\ Last(leases).generation = worker[w].lease.generation /\ leases # <<>>
    BY <1>1 DEF SInv, ScheduleTypeOK, OwnerIsRecorded, LeasesRecorded, OutPhases
  <1>3. /\ states # <<>> /\ worker[w].index = Len(ticks) /\ worker[w].before = Len(states)
        /\ Cursor <= worker[w].through
        /\ \A i \in DOMAIN ticks : ticks[i].after <= worker[w].before
    BY <1>1 DEF SInv, LocalsSound, TickSound, TickPhases
  <1>4. Len(states) \in Nat
    BY <1>3, CursorType DEF SInv
  <1>5. /\ Selected(Cursor, worker[w].through) \subseteq Due
        /\ \A o \in Selected(Cursor, worker[w].through) : o <= worker[w].through
    BY DEF Selected
  <1>6. PICK x \in Worker :
          /\ worker' = [worker EXCEPT ![w] = x]
          /\ x.lease = worker[w].lease
          /\ \/ x.phase = "owner"
             \/ /\ x.phase = "polling" /\ x.index = worker[w].index
                /\ x.before = worker[w].before /\ x.through = worker[w].through
                /\ x.seen = Len(states) /\ x.todo = Selected(Cursor, worker[w].through)
    <2>1. CASE RaiseToOwner(w)
      BY <1>1, <2>1, RaisedToOwner
    <2>2. CASE ~RaiseToOwner(w)
      <3>1. PICK due \in SUBSET Due : due = Selected(Cursor, worker[w].through)
        BY <1>5
      <3> DEFINE x == [worker[w] EXCEPT !.phase = "polling", !.seen = Len(states), !.todo = due]
      <3>2. worker' = [worker EXCEPT ![w] = x]
        BY <2>2, <3>1 DEF Poll
      <3>3. /\ x \in Worker /\ x.lease = worker[w].lease /\ x.phase = "polling"
            /\ x.index = worker[w].index /\ x.before = worker[w].before
            /\ x.through = worker[w].through /\ x.seen = Len(states) /\ x.todo = due
        BY <1>1, <1>4, <3>1 DEF Worker, WorkerPhases
      <3> HIDE DEF x
      <3> QED BY <3>1, <3>2, <3>3
    <2> QED BY <2>1, <2>2
  <1>7. TickSound(x)
    BY <1>3, <1>5, <1>6 DEF TickSound, TickPhases
  <1>8. leases' \in Seq(LeaseRow) /\ events' \in Seq(EventKinds) /\ OrphansReported'
    BY <1>1, <1>2 DEF OrphansReported, FollowsOpenOwner
  <1>9. /\ lock' = lock /\ Last(leases').generation = x.lease.generation /\ leases' # <<>>
    BY <1>1, <1>2, <1>6
  <1> QED BY <1>1, <1>6, <1>7, <1>8, <1>9, QuietOwner

\* A step of the owner's tick: the ledgers move, and nobody else is inside.
LEMMA TickStep ==
  ASSUME SInv, NEW w \in Callers, worker[w].phase \in TickPhases,
         NEW x \in Worker, worker' = [worker EXCEPT ![w] = x],
         x.phase \in TickPhases \union {"owner"}, x.lease = worker[w].lease,
         GateSound', HistoriesSound', states' \in Seq(StateRow),
         ticks' \in Seq(TickRow), rejected' \subseteq Due,
         UNCHANGED <<latestOnly, clock, policy, lock, leases, events>>,
         TickSound(x)',
         \A v \in Callers : v # w => op'[v] = op[v],
         x.phase # "polling" => op'[w].phase = "idle"
  PROVE  SInv'
  <1> USE DEF SInv
  <1>1. worker[w].phase \notin OutPhases \union {"locked"} /\ x.phase \notin OutPhases \union {"locked"}
    BY DEF OutPhases, TickPhases
  <1>2. /\ worker' \in [Callers -> Worker] /\ worker'[w] = x
        /\ \A v \in Callers : v # w => worker'[v] = worker[v]
    BY DEF ScheduleTypeOK
  <1>3. lock = w /\ \A v \in Callers : v # w => worker[v].phase \in OutPhases
    BY <1>1, OneOwner
  <1>4. ScheduleTypeOK'
    BY <1>2 DEF ScheduleTypeOK, GateSound, StartInv, StartTypeInv
  <1>5. OwnerIsRecorded'
    BY <1>1, <1>2, <1>3 DEF OwnerIsRecorded, OutPhases, Last
  <1>6. LocalsSound'
    <2>1. \A v \in Callers : v # w => worker'[v].phase \notin TickPhases
      BY <1>2, <1>3 DEF TickPhases, OutPhases
    <2>2. TickSound(worker[w])'
      BY <1>2 DEF TickSound
    <2>3. \A v \in Callers : v # w => TickSound(worker[v])'
      BY <2>1 DEF TickSound
    <2> QED BY <2>2, <2>3 DEF LocalsSound
  <1>7. OpsIdle'
    BY <1>2, <1>3 DEF OpsIdle, OutPhases
  <1>8. LeasesRecorded'
    BY <1>1, <1>2, <1>3 DEF LeasesRecorded
  <1>9. OrphansReported'
    BY DEF OrphansReported, FollowsOpenOwner
  <1> QED BY <1>4, <1>5, <1>6, <1>7, <1>8, <1>9

\* The occurrence admitted next is one of the window.
LEMMA EarliestLeft ==
  ASSUME NEW todo \in SUBSET Due, todo # {}, NEW n \in Nat, \A o \in todo : o <= n
  PROVE  Earliest(todo) \in todo
  <1>1. todo \in SUBSET (0..n)
    BY OccurrenceAssumption
  <1>2. \E o \in todo : \A p \in todo : o <= p
    BY <1>1, FirstInstant
  <1> QED BY <1>2 DEF Earliest

\* What a poll knows stands while claims are only added.
LEMMA PollSoundStays ==
  ASSUME NEW x, x.phase = "polling", TickSound(x), UNCHANGED <<latestOnly, states, ticks, rejected>>,
         triggerClaims \subseteq triggerClaims'
  PROVE  TickSound(x)'
  BY DEF TickSound, TickPhases, Cursor, Last, Selected

\* The admission of the next occurrence, and each of its steps at the gate.
LEMMA AdmissionKeeps ==
  ASSUME SInv, NEW w \in Callers, AdmitNext(w) \/ AdmissionStep(w)
  PROVE  SInv'
  <1>1. /\ worker[w] \in Worker
        /\ UNCHANGED scheduleVars
    BY IdleAtGate DEF AdmitNext, AdmissionStep
  <1>2. GateSound
    BY DEF SInv
  <1>3. /\ worker[w].phase = "polling" /\ TickSound(worker[w])
        /\ worker' = [worker EXCEPT ![w] = worker[w]]
    <2>1. AdmissionStep(w) => op[w].phase # "idle"
      BY <1>2, AdmissionSteps DEF AdmissionStep, GateSound
    <2> QED BY <1>1, <2>1 DEF SInv, OpsIdle, LocalsSound, AdmitNext, scheduleVars, ScheduleTypeOK
  <1>4. /\ GateSound' /\ triggerClaims \subseteq triggerClaims'
        /\ \A v \in Callers : v # w => op'[v] = op[v]
    <2>1. CASE AdmitNext(w)
      <3> DEFINE o == Earliest(worker[w].todo)
      <3>1. o \in Due
        <4>1. /\ worker[w].todo \in SUBSET Due /\ worker[w].todo # {}
              /\ worker[w].through \in Nat
              /\ \A p \in worker[w].todo : p <= worker[w].through
          BY <1>1, <1>3, <2>1 DEF AdmitNext, Worker, TickSound, TickPhases
        <4> QED BY <4>1, EarliestLeft
      <3>2. Admit(w, [run |-> o, trigger |-> o], worker[w].policy)
        BY <2>1 DEF AdmitNext
      <3> HIDE DEF o
      <3>3. GateSound'
        BY <1>2, <3>1, <3>2, AdmitKeepsGate
      <3>4. UNCHANGED triggerClaims /\ \A v \in Callers : v # w => op'[v] = op[v]
        BY <1>2, <3>2 DEF Admit, GateSound, StartInv, StartTypeInv, StartTypeOK
      <3> QED BY <3>3, <3>4
    <2>2. CASE AdmissionStep(w)
      <3>1. Proceed(w)
        BY <2>2 DEF AdmissionStep
      <3> QED BY <1>2, <3>1, ProceedKeepsGate, AdmissionSteps DEF GateSound
    <2> QED BY <2>1, <2>2
  <1>5. TickSound(worker[w])'
    <2>1. ASSUME NEW x, x = worker[w] PROVE TickSound(x)'
      BY <1>1, <1>3, <1>4, <2>1, PollSoundStays DEF scheduleVars
    <2>2. worker'[w] = worker[w]
      BY <1>1 DEF scheduleVars
    <2> QED BY <2>1, <2>2
  <1>6. HistoriesSound'
    BY <1>1, <1>4, HistoriesStay DEF SInv, scheduleVars
  <1>7. PICK x \in Worker : x = worker[w]
    BY <1>1
  <1>8. /\ states' \in Seq(StateRow) /\ ticks' \in Seq(TickRow) /\ rejected' \subseteq Due
        /\ UNCHANGED <<latestOnly, clock, policy, lock, leases, events>>
    BY <1>1 DEF SInv, ScheduleTypeOK, scheduleVars
  <1>9. worker' = [worker EXCEPT ![w] = x] /\ x.phase = "polling" /\ TickSound(x)'
    <2>1. worker'[w] = x
      BY <1>1, <1>7 DEF scheduleVars
    <2> QED BY <1>3, <1>5, <1>7, <2>1
  <1> QED BY <1>3, <1>4, <1>6, <1>7, <1>8, <1>9, TickStep DEF TickPhases

\* An occurrence whose admission was answered is refused, kept for a retry or
\* claimed.
LEMMA AnsweredSettled ==
  ASSUME GateSound, NEW w \in Callers, op[w].phase = "answered"
  PROVE  /\ op[w].run \in Due
         /\ \/ op[w].reason = "rejected"
            \/ op[w].reason \in Retryable
            \/ op[w].run \in triggerClaims
  <1>1. /\ op[w] \in Operation /\ op[w].use = "admit" /\ op[w].run = op[w].trigger
        /\ op[w].run \in RunId /\ op[w].trigger \in Trigger
    BY DEF GateSound, Paired, StartInv, StartTypeInv, OpInv, Pinned
  <1>2. op[w].reason \in Reasons
    BY <1>1 DEF Operation
  <1>3. ASSUME op[w].reason \in {"start_request_admitted", "run_id_exists"}
        PROVE  \E t \in Trigger : Starts(t, journal[op[w].run]) # {} /\ t = op[w].run
    BY <1>1, <1>3, OccurrenceAssumption DEF GateSound, AnswersSound, AnswerSound, RowsStarted
  <1>4. ASSUME op[w].reason \in {"start_request_admitted", "run_id_exists"}
        PROVE  op[w].run \in triggerClaims
    BY <1>1, <1>3, <1>4 DEF GateSound, StartInv, Reservations, StartedStayClaimed
  <1>5. op[w].reason = "trigger_already_admitted" => op[w].run \in triggerClaims
    BY <1>1 DEF GateSound, AdmittedClaimed
  <1> QED BY <1>1, <1>2, <1>4, <1>5, OccurrenceAssumption DEF Reasons, Retryable

\* The record of a worker that collected the answer for occurrence o.
CollectedFrom(y, o, b) == [y EXCEPT !.todo = @ \ {o}, !.blocked = @ \/ b]

LEMMA CollectedWorker ==
  ASSUME NEW y \in Worker, NEW o, NEW b \in BOOLEAN, NEW x, x = CollectedFrom(y, o, b)
  PROVE  /\ x \in Worker /\ x.phase = y.phase /\ x.lease = y.lease
         /\ x.index = y.index /\ x.before = y.before /\ x.seen = y.seen
         /\ x.through = y.through /\ x.todo = y.todo \ {o}
         /\ x.blocked = (y.blocked \/ b)
  <1> DEFINE z == [y EXCEPT !.todo = @ \ {o}]
  <1>1. /\ z \in Worker /\ z.phase = y.phase /\ z.lease = y.lease
        /\ z.index = y.index /\ z.before = y.before /\ z.seen = y.seen
        /\ z.through = y.through /\ z.todo = y.todo \ {o} /\ z.blocked = y.blocked
    BY DEF Worker
  <1>2. PICK c \in BOOLEAN : c = (y.blocked \/ b)
    OBVIOUS
  <1>4. x = [z EXCEPT !.blocked = c]
    BY <1>2 DEF CollectedFrom
  <1> HIDE DEF z
  <1>5. /\ x \in Worker /\ x.phase = z.phase /\ x.lease = z.lease
        /\ x.index = z.index /\ x.before = z.before /\ x.seen = z.seen
        /\ x.through = z.through /\ x.todo = z.todo /\ x.blocked = c
    BY <1>1, <1>4 DEF Worker
  <1> QED BY <1>1, <1>2, <1>5

\* The answer of an admission is taken into the poll, or ends it.
LEMMA CollectKeeps ==
  ASSUME SInv, NEW w \in Callers, CollectAdmission(w)
  PROVE  SInv'
  <1>1. /\ worker[w] \in Worker /\ op[w].phase # "idle"
        /\ Collect(w) /\ UNCHANGED <<triggerClaims, latestOnly, clock, policy, states, lock,
                                     leases, events, ticks>>
    BY IdleAtGate DEF CollectAdmission, Collect
  <1>2. GateSound /\ GateSound'
    BY <1>1, EndKeepsGate DEF SInv
  <1>3. worker[w].phase = "polling" /\ TickSound(worker[w])
    BY <1>1 DEF SInv, OpsIdle, LocalsSound
  <1>4. op' = [op EXCEPT ![w] = IdleOperation] /\ op \in [Callers -> Operation]
    BY <1>1, <1>2 DEF Collect, GateSound, StartInv, StartTypeInv, StartTypeOK
  <1>5. /\ op'[w].phase = "idle"
        /\ \A v \in Callers : v # w => op'[v] = op[v]
    BY <1>4 DEF IdleOperation
  <1>6. rejected \subseteq rejected' /\ rejected' \subseteq Due
    BY <1>2, AnsweredSettled DEF CollectAdmission, Collected, SInv, ScheduleTypeOK
  <1>7. PICK x \in Worker :
          /\ worker' = [worker EXCEPT ![w] = x]
          /\ x.phase \in TickPhases \union {"owner"} /\ x.lease = worker[w].lease
          /\ TickSound(x)'
    <2>1. CASE RaiseToOwner(w)
      <3>1. PICK x \in Worker : /\ worker' = [worker EXCEPT ![w] = x]
                                /\ x.phase = "owner" /\ x.lease = worker[w].lease
        BY <1>1, <2>1, RaisedToOwner
      <3>2. TickSound(x)'
        BY <3>1 DEF TickSound, TickPhases
      <3> QED BY <3>1, <3>2
    <2>2. CASE Collected(w)
      <3>1. PICK y \in Worker, o \in Due, b \in BOOLEAN :
              y = worker[w] /\ o = op[w].run /\ b = (op[w].reason \in Retryable)
        <4>1. op[w].run \in Due
          BY <1>2, <2>2, AnsweredSettled DEF Collected
        <4>2. (op[w].reason \in Retryable) \in BOOLEAN
          OBVIOUS
        <4> QED BY <1>1, <4>1, <4>2, Zenon
      <3>2. PICK x \in Worker :
              /\ worker' = [worker EXCEPT ![w] = x]
              /\ x.phase = y.phase /\ x.lease = y.lease
              /\ x.index = y.index /\ x.before = y.before /\ x.seen = y.seen
              /\ x.through = y.through /\ x.todo = y.todo \ {o}
              /\ x.blocked = (y.blocked \/ b)
        <4>1. PICK z : z = CollectedFrom(y, o, b)
          OBVIOUS
        <4>2. /\ z \in Worker /\ z.phase = y.phase /\ z.lease = y.lease
              /\ z.index = y.index /\ z.before = y.before /\ z.seen = y.seen
              /\ z.through = y.through /\ z.todo = y.todo \ {o}
              /\ z.blocked = (y.blocked \/ b)
          BY <4>1, CollectedWorker
        <4>3. worker' = [worker EXCEPT ![w] = z]
          BY <2>2, <3>1, <4>1 DEF Collected, CollectedFrom
        <4> QED BY <4>2, <4>3
      <3>3. /\ op[w].reason = "rejected" => op[w].run \in rejected'
            /\ \/ op[w].reason = "rejected" \/ op[w].reason \in Retryable
               \/ op[w].run \in triggerClaims
        BY <1>2, <2>2, AnsweredSettled DEF Collected
      <3>4. TickSound(x)'
        <4>1. /\ states # <<>> /\ y.index = Len(ticks)
              /\ \A i \in DOMAIN ticks : ticks[i].after <= y.before
              /\ y.before = Len(states) /\ y.seen = Len(states) /\ Cursor <= y.through
              /\ \A p \in y.todo : p <= y.through
              /\ \/ y.blocked
                 \/ Selected(Cursor, y.through) \subseteq y.todo \union triggerClaims \union rejected
          BY <1>3, <3>1 DEF TickSound, TickPhases
        <4>2. ASSUME ~x.blocked
              PROVE  Selected(Cursor, y.through) \subseteq x.todo \union triggerClaims \union rejected'
          BY <1>6, <3>1, <3>2, <3>3, <4>1, <4>2
        <4>3. x.phase = "polling" /\ UNCHANGED <<latestOnly, states, ticks, triggerClaims>>
          BY <1>1, <1>3, <3>1, <3>2
        <4>4. /\ x.index = Len(ticks') /\ x.before = Len(states') /\ x.seen = Len(states')
              /\ states' # <<>> /\ Cursor' <= x.through
              /\ \A i \in DOMAIN ticks' : ticks'[i].after <= x.before
              /\ \A p \in x.todo : p <= x.through
          BY <3>2, <4>1, <4>3 DEF Cursor, Last
        <4>5. x.blocked \/ Selected(Cursor, x.through)' \subseteq x.todo \union triggerClaims' \union rejected'
          <5>1. PICK n, m : n = Cursor /\ m = y.through
            OBVIOUS
          <5>2. Cursor' = n /\ x.through = m
            BY <3>2, <4>3, <5>1 DEF Cursor, Last
          <5>3. Selected(n, m)' = Selected(n, m)
            BY <4>3 DEF Selected
          <5>4. Selected(Cursor, x.through)' = Selected(n, m)'
            BY <5>2
          <5> QED BY <3>2, <4>2, <4>3, <5>1, <5>3, <5>4
        <4> QED BY <4>3, <4>4, <4>5 DEF TickSound
      <3> QED BY <1>3, <3>1, <3>2, <3>4 DEF TickPhases
    <2> QED BY <2>1, <2>2 DEF CollectAdmission
  <1>8. HistoriesSound'
    BY <1>1, <1>6, HistoriesStay DEF SInv
  <1>9. /\ states' \in Seq(StateRow) /\ ticks' \in Seq(TickRow)
        /\ worker[w].phase \in TickPhases
    BY <1>1, <1>3 DEF SInv, ScheduleTypeOK, TickPhases
  <1> HIDE DEF SInv
  <1> QED BY <1>1, <1>2, <1>5, <1>6, <1>7, <1>8, <1>9, TickStep

\* No occurrence is due in an empty window.
LEMMA NothingBetween ==
  ASSUME NEW n \in Nat
  PROVE  Selected(n, n) = {}
  <1>1. ASSUME NEW o \in Due, n < o, o <= n PROVE FALSE
    <2>1. o \in Nat
      BY OccurrenceAssumption
    <2> QED BY <1>1, <2>1
  <1> QED BY <1>1 DEF Selected

\* A state row that continues the head, past settled occurrences only.
LEMMA StateAppended ==
  ASSUME ScheduleTypeOK, HistoriesSound, states # <<>>, NEW c \in Nat, Cursor <= c,
         Selected(Cursor, c) \subseteq triggerClaims \union rejected,
         states' = Append(states, [sequence |-> Len(states), cursor |-> c]),
         UNCHANGED <<latestOnly, ticks, triggerClaims, rejected>>
  PROVE  /\ states' \in Seq(StateRow) /\ states' # <<>>
         /\ Len(states') = Len(states) + 1
         /\ HistoriesSound'
  <1>1. PICK n \in Nat : n = Len(states) /\ n > 0
    BY CursorType
  <1>2. PICK row \in StateRow : row = [sequence |-> n, cursor |-> c]
    BY DEF StateRow
  <1>3. states \in Seq(StateRow) /\ states' = Append(states, row)
    BY <1>1, <1>2 DEF ScheduleTypeOK
  <1>4. /\ states' \in Seq(StateRow) /\ Len(states') = n + 1 /\ states' # <<>>
        /\ DOMAIN states = 1..n /\ DOMAIN states' = 1..(n + 1)
        /\ \A i \in 1..n : states'[i] = states[i]
        /\ states'[n + 1] = row /\ states[n].cursor = Cursor
    BY <1>1, <1>3 DEF Cursor, Last
  <1>5. \A i \in 1..(n + 1) : i \in 1..n \/ i = n + 1
    OBVIOUS
  <1>6. row.sequence = n /\ row.cursor = c /\ (n + 1) - 1 = n /\ n \in 1..n
    BY <1>1, <1>2
  <1>7. \A i \in 1..n : i > 1 => i - 1 \in 1..n
    OBVIOUS
  <1>8. OneHistory'
    <2>1. Readable
      BY DEF HistoriesSound, OneHistory
    <2>2. ASSUME NEW i \in 1..(n + 1) PROVE states'[i].sequence = i - 1
      BY <1>4, <1>5, <1>6, <2>1 DEF Readable
    <2>3. ASSUME NEW i \in 1..(n + 1), i > 1 PROVE states'[i - 1].cursor <= states'[i].cursor
      <3>1. CASE i \in 1..n
        BY <1>4, <1>7, <2>1, <2>3, <3>1 DEF Readable
      <3>2. CASE i = n + 1
        BY <1>4, <1>6, <3>2
      <3> QED BY <1>5, <3>1, <3>2
    <2> QED BY <1>4, <2>2, <2>3 DEF HistoriesSound, OneHistory, Readable
  <1>9. TicksBindStates' /\ TicksReach'
    <2>1. \A i \in DOMAIN ticks : ticks[i].after \in Nat
      <3>1. \A i \in DOMAIN ticks : ticks[i] \in TickRow
        BY DEF ScheduleTypeOK
      <3> QED BY <3>1 DEF TickRow
    <2> QED BY <1>1, <1>4, <2>1 DEF HistoriesSound, TicksBindStates, TicksReach
  <1>10. NothingSkipped'
    <2> SUFFICES ASSUME NEW o \in Passed' PROVE o \in triggerClaims \union rejected
      BY DEF NothingSkipped
    <2>1. PICK i \in 1..(n + 1) :
            i # 1 /\ o \in Selected(states'[i - 1].cursor, states'[i].cursor)
      BY <1>4 DEF Passed, Selected
    <2>2. CASE i \in 1..n
      <3>1. i - 1 \in 1..n
        BY <2>1, <2>2
      <3>2. o \in Selected(states[i - 1].cursor, states[i].cursor)
        BY <1>4, <2>1, <2>2, <3>1
      <3>3. o \in Passed
        BY <1>4, <2>1, <2>2, <3>2 DEF Passed
      <3> QED BY <3>3 DEF HistoriesSound, NothingSkipped
    <2>3. CASE i = n + 1
      BY <1>4, <1>6, <2>1, <2>3
    <2> QED BY <1>5, <2>2, <2>3
  <1> QED BY <1>1, <1>4, <1>8, <1>9, <1>10 DEF HistoriesSound

\* The poll's state is appended; its worker reports next, or the call raised.
LEMMA CommitKeeps ==
  ASSUME SInv, NEW w \in Callers, Commit(w)
  PROVE  SInv'
  <1>1. /\ worker[w] \in Worker /\ worker[w].phase = "polling" /\ worker[w].todo = {}
        /\ op[w].phase = "idle" /\ TickSound(worker[w]) /\ ScheduleTypeOK /\ HistoriesSound
        /\ UNCHANGED <<startVars, latestOnly, clock, policy, lock, leases, events, ticks,
                       rejected>>
    BY IdleAtGate DEF Commit, SInv, LocalsSound
  <1>2. /\ states # <<>> /\ worker[w].index = Len(ticks)
        /\ \A i \in DOMAIN ticks : ticks[i].after <= worker[w].before
        /\ worker[w].before = Len(states) /\ worker[w].seen = Len(states)
        /\ Cursor <= worker[w].through
        /\ worker[w].blocked \/ Selected(Cursor, worker[w].through) \subseteq triggerClaims \union rejected
    BY <1>1 DEF TickSound, TickPhases
  <1>3. GateSound' /\ UNCHANGED <<triggerClaims, op>>
    BY <1>1, GateStays DEF SInv, startVars
  <1>4. /\ ticks' \in Seq(TickRow) /\ rejected' \subseteq Due
        /\ worker[w].phase \in TickPhases /\ op'[w].phase = "idle"
        /\ \A v \in Callers : v # w => op'[v] = op[v]
        /\ UNCHANGED <<latestOnly, clock, policy, lock, leases, events>>
    BY <1>1, <1>3 DEF ScheduleTypeOK, TickPhases
  <1>5. CASE RaiseToOwner(w) /\ UNCHANGED states
    <2>1. PICK x \in Worker : /\ worker' = [worker EXCEPT ![w] = x]
                              /\ x.phase = "owner" /\ x.lease = worker[w].lease
      BY <1>1, <1>5, RaisedToOwner
    <2>2. TickSound(x)' /\ x.phase \in TickPhases \union {"owner"}
      BY <2>1 DEF TickSound, TickPhases
    <2>3. HistoriesSound' /\ states' \in Seq(StateRow)
      BY <1>1, <1>3, <1>5, HistoriesStay DEF ScheduleTypeOK
    <2> HIDE DEF SInv
    <2> QED BY <1>3, <1>4, <2>1, <2>2, <2>3, TickStep
  <1>6. CASE ~(RaiseToOwner(w) /\ UNCHANGED states)
    <2>1. PICK c : /\ c = (IF worker[w].blocked THEN states[worker[w].seen].cursor
                                                ELSE worker[w].through)
                   /\ states' = Append(states, [sequence |-> worker[w].seen, cursor |-> c])
                   /\ Become(w, "reporting")
      BY <1>6 DEF Commit
    <2>2. Cursor \in Nat /\ Len(states) \in Nat /\ worker[w].through \in Nat
      BY <1>1, <1>2, CursorType DEF Worker
    <2>3. /\ c \in Nat /\ Cursor <= c
          /\ Selected(Cursor, c) \subseteq triggerClaims \union rejected
      <3>1. CASE worker[w].blocked
        <4>1. c = Cursor
          BY <1>2, <2>1, <3>1 DEF Cursor, Last
        <4> QED BY <2>2, <4>1, NothingBetween
      <3>2. CASE ~worker[w].blocked
        BY <1>2, <2>1, <2>2, <3>2
      <3> QED BY <3>1, <3>2
    <2>4. states' = Append(states, [sequence |-> Len(states), cursor |-> c])
      BY <1>2, <2>1
    <2>5. /\ states' \in Seq(StateRow) /\ states' # <<>> /\ HistoriesSound'
          /\ Len(states') = Len(states) + 1
      BY <1>1, <1>2, <1>3, <2>3, <2>4, StateAppended
    <2>6. PICK x \in Worker : /\ worker' = [worker EXCEPT ![w] = x]
                              /\ x.phase = "reporting" /\ x.lease = worker[w].lease
                              /\ x.index = worker[w].index /\ x.before = worker[w].before
                              /\ x.seen = worker[w].seen
      <3> DEFINE y == [worker[w] EXCEPT !.phase = "reporting"]
      <3>1. /\ y \in Worker /\ y.phase = "reporting" /\ y.lease = worker[w].lease
            /\ y.index = worker[w].index /\ y.before = worker[w].before
            /\ y.seen = worker[w].seen
        BY <1>1 DEF Worker, WorkerPhases
      <3>2. worker' = [worker EXCEPT ![w] = y]
        BY <2>1 DEF Become
      <3> HIDE DEF y
      <3> QED BY <3>1, <3>2
    <2>7. TickSound(x)' /\ x.phase \in TickPhases
      BY <1>1, <1>2, <2>2, <2>5, <2>6 DEF TickSound, TickPhases
    <2> QED BY <1>3, <1>4, <2>5, <2>6, <2>7, TickStep
  <1> QED BY <1>5, <1>6

\* A receipt that binds the states its tick began and ended with.
LEMMA TickAppended ==
  ASSUME ScheduleTypeOK, HistoriesSound, NEW row \in TickRow, row.index = Len(ticks),
         row.after \in {row.before, row.before + 1}, row.after <= Len(states),
         \A i \in DOMAIN ticks : ticks[i].after <= row.before,
         ticks' = Append(ticks, row),
         UNCHANGED <<latestOnly, states, triggerClaims, rejected>>
  PROVE  ticks' \in Seq(TickRow) /\ HistoriesSound'
  <1>1. PICK n \in Nat : n = Len(ticks)
    BY DEF ScheduleTypeOK
  <1>2. /\ ticks' \in Seq(TickRow)
        /\ DOMAIN ticks = 1..n /\ DOMAIN ticks' = 1..(n + 1)
        /\ \A i \in 1..n : ticks'[i] = ticks[i]
        /\ ticks'[n + 1] = row
    BY <1>1 DEF ScheduleTypeOK
  <1>3. \A i \in 1..(n + 1) : i \in 1..n \/ i = n + 1
    OBVIOUS
  <1>4. (n + 1) - 1 = n /\ (n + 1 > 1 => n \in 1..n)
    OBVIOUS
  <1>5. OneHistory'
    <2>1. Readable' <=> Readable
      BY DEF Readable
    <2>2. \A i \in 1..(n + 1) : ticks'[i].index = i - 1
      BY <1>1, <1>2, <1>3, <1>4 DEF HistoriesSound, OneHistory
    <2> QED BY <1>2, <2>1, <2>2 DEF HistoriesSound, OneHistory
  <1>6. TicksBindStates'
    <2>1. \A i \in 1..n : i > 1 => i - 1 \in 1..n
      OBVIOUS
    <2> SUFFICES ASSUME NEW i \in 1..(n + 1)
                 PROVE  /\ ticks'[i].after \in {ticks'[i].before, ticks'[i].before + 1}
                        /\ i > 1 => ticks'[i - 1].after <= ticks'[i].before
      BY <1>2 DEF TicksBindStates
    <2>2. CASE i \in 1..n
      BY <1>2, <2>1, <2>2 DEF HistoriesSound, TicksBindStates
    <2>3. CASE i = n + 1
      BY <1>2, <1>4, <2>3
    <2> QED BY <1>3, <2>2, <2>3
  <1>7. TicksReach'
    BY <1>2, <1>3 DEF HistoriesSound, TicksReach
  <1>8. NothingSkipped'
    BY DEF HistoriesSound, NothingSkipped, Passed, Selected
  <1> QED BY <1>2, <1>5, <1>6, <1>7, <1>8 DEF HistoriesSound

\* The tick is reported and its worker is the owner again.
LEMMA ReportKeeps ==
  ASSUME SInv, NEW w \in Callers, Report(w)
  PROVE  SInv'
  <1>1. /\ worker[w] \in Worker /\ worker[w].phase = "reporting"
        /\ op[w].phase = "idle" /\ TickSound(worker[w]) /\ ScheduleTypeOK /\ HistoriesSound
        /\ UNCHANGED <<startVars, latestOnly, clock, policy, states, lock, leases, events,
                       rejected>>
        /\ RaiseToOwner(w)
    BY IdleAtGate DEF Report, SInv, LocalsSound
  <1>2. /\ worker[w].index = Len(ticks)
        /\ \A i \in DOMAIN ticks : ticks[i].after <= worker[w].before
        /\ \/ worker[w].seen = 0 /\ worker[w].before = Len(states)
           \/ worker[w].seen = worker[w].before /\ Len(states) = worker[w].before + 1
    BY <1>1 DEF TickSound, TickPhases
  <1>3. GateSound' /\ UNCHANGED <<triggerClaims, op>>
    BY <1>1, GateStays DEF SInv, startVars
  <1>4. /\ states' \in Seq(StateRow) /\ rejected' \subseteq Due
        /\ worker[w].phase \in TickPhases /\ op'[w].phase = "idle"
        /\ \A v \in Callers : v # w => op'[v] = op[v]
        /\ UNCHANGED <<latestOnly, clock, policy, lock, leases, events>>
    BY <1>1, <1>3 DEF ScheduleTypeOK, TickPhases
  <1>5. PICK x \in Worker : /\ worker' = [worker EXCEPT ![w] = x]
                            /\ x.phase = "owner" /\ x.lease = worker[w].lease
    BY <1>1, RaisedToOwner
  <1>6. TickSound(x)' /\ x.phase \in TickPhases \union {"owner"}
    BY <1>5 DEF TickSound, TickPhases
  <1>7. HistoriesSound' /\ ticks' \in Seq(TickRow)
    <2>1. CASE UNCHANGED ticks
      BY <1>1, <1>3, <2>1, HistoriesStay DEF ScheduleTypeOK
    <2>2. CASE ~UNCHANGED ticks
      <3>1. PICK b \in Nat, a \in Nat :
              /\ b = worker[w].before
              /\ a = IF worker[w].seen = 0 THEN b ELSE worker[w].seen + 1
        BY <1>1 DEF Worker
      <3>2. a \in {b, b + 1} /\ a <= Len(states)
        <4>1. PICK n \in Nat, s \in Nat : n = Len(states) /\ s = worker[w].seen
          <5>1. Len(states) \in Nat
            BY <1>1 DEF ScheduleTypeOK
          <5>2. worker[w].seen \in Nat
            BY <1>1 DEF Worker
          <5> QED BY <5>1, <5>2
        <4>2. (s = 0 /\ b = n) \/ (s = b /\ n = b + 1)
          BY <1>2, <3>1, <4>1
        <4>3. a = IF s = 0 THEN b ELSE s + 1
          BY <3>1, <4>1
        <4> QED BY <4>1, <4>2, <4>3
      <3>3. PICK row \in TickRow : row = [index |-> Len(ticks), before |-> b, after |-> a]
        <4>1. Len(ticks) \in Nat
          BY <1>1 DEF ScheduleTypeOK
        <4> QED BY <4>1 DEF TickRow
      <3>4. ticks' = Append(ticks, row)
        <4>1. ticks' = Append(ticks, [index |-> worker[w].index, before |-> b, after |-> a])
          BY <2>2, <3>1 DEF Report
        <4> QED BY <1>2, <3>3, <4>1
      <3>5. row.index = Len(ticks) /\ row.before = b /\ row.after = a
        BY <3>3
      <3> QED BY <1>1, <1>2, <1>3, <3>1, <3>2, <3>4, <3>5, TickAppended
    <2> QED BY <2>1, <2>2
  <1> QED BY <1>3, <1>4, <1>5, <1>6, <1>7, TickStep

\* A killed worker leaves its claims and its rows, and the flock is free.
LEMMA KillKeeps ==
  ASSUME SInv, NEW w \in Callers, Kill(w)
  PROVE  SInv'
  <1> USE DEF SInv
  <1>1. /\ worker' = [worker EXCEPT ![w] = OutWorker] /\ KillOperation(w)
        /\ UNCHANGED <<triggerClaims, latestOnly, clock, policy, states, leases, events,
                       ticks, rejected>>
        /\ lock' = IF lock = w THEN NoWorker ELSE lock
    BY DEF Kill, KillOperation
  <1>2. GateSound'
    BY <1>1, EndKeepsGate
  <1>3. /\ worker' \in [Callers -> Worker] /\ worker'[w] = OutWorker
        /\ OutWorker.phase = "out"
        /\ \A v \in Callers : v # w => worker'[v] = worker[v]
    BY <1>1, OutWorkerRecord DEF ScheduleTypeOK
  <1>4. /\ op'[w].phase = "idle"
        /\ \A v \in Callers : v # w => op'[v] = op[v]
    <2>1. op' = [op EXCEPT ![w] = IdleOperation] /\ op \in [Callers -> Operation]
      BY <1>1 DEF KillOperation, GateSound, StartInv, StartTypeInv, StartTypeOK
    <2> QED BY <2>1 DEF IdleOperation
  <1>5. ScheduleTypeOK'
    BY <1>1, <1>2, <1>3 DEF ScheduleTypeOK, GateSound, StartInv, StartTypeInv
  <1>6. OwnerIsRecorded'
    BY <1>1, <1>3 DEF OwnerIsRecorded, Last
  <1>7. LocalsSound'
    <2>1. ASSUME NEW v \in Callers, v # w PROVE TickSound(worker[v])'
      <3>1. TickSound(worker[v]) /\ worker'[v] = worker[v]
        BY <1>3, <2>1 DEF LocalsSound
      <3> QED BY <1>1, <3>1 DEF TickSound, Cursor, Last, Selected
    <2>2. TickSound(worker[w])'
      BY <1>3 DEF TickSound, TickPhases
    <2> QED BY <2>1, <2>2 DEF LocalsSound
  <1>8. OpsIdle'
    BY <1>3, <1>4 DEF OpsIdle
  <1>9. HistoriesSound'
    BY <1>1, HistoriesStay
  <1>10. LeasesRecorded'
    BY <1>1, <1>3 DEF LeasesRecorded, OutPhases
  <1>11. OrphansReported'
    BY <1>1 DEF OrphansReported, FollowsOpenOwner
  <1> QED BY <1>2, <1>5, <1>6, <1>7, <1>8, <1>9, <1>10, <1>11

\* Time, the operator's policy and the start of the service.
LEMMA EnvironmentKeeps ==
  ASSUME SInv, PassTime \/ RevisePolicy \/ StartService
  PROVE  SInv'
  <1> USE DEF SInv
  <1>1. UNCHANGED <<startVars, latestOnly, lock, leases, events, ticks, rejected, worker>>
    BY DEF PassTime, RevisePolicy, StartService
  <1>2. GateSound' /\ StartTypeOK'
    BY <1>1, GateStays DEF GateSound, StartInv, StartTypeInv
  <1>3. OwnerIsRecorded' /\ LeasesRecorded' /\ OpsIdle' /\ OrphansReported'
    BY <1>1 DEF OwnerIsRecorded, LeasesRecorded, OpsIdle, OrphansReported, FollowsOpenOwner,
                Last, startVars
  <1>4. CASE UNCHANGED states
    <2>1. ScheduleTypeOK'
      <3>1. clock' \in Nat /\ policy' \in Verdicts
        BY ScheduleAssumption DEF ScheduleTypeOK, PassTime, RevisePolicy, StartService
      <3> QED BY <1>1, <1>2, <1>4, <3>1 DEF ScheduleTypeOK
    <2>2. LocalsSound'
      BY <1>1, <1>4 DEF LocalsSound, TickSound, Cursor, Last, Selected, startVars
    <2>3. HistoriesSound'
      BY <1>1, <1>4, HistoriesStay DEF startVars
    <2> QED BY <1>2, <1>3, <2>1, <2>2, <2>3
  <1>5. CASE StartService
    <2>1. PICK row \in StateRow : row.sequence = 0 /\ states' = <<row>> /\ states = <<>>
      <3>1. PICK c \in FirstCursors : states' = <<[sequence |-> 0, cursor |-> c]>>
        BY <1>5 DEF StartService
      <3>2. PICK row : row = [sequence |-> 0, cursor |-> c]
        OBVIOUS
      <3>3. row \in StateRow /\ row.sequence = 0
        <4>1. c \in Nat
          BY ScheduleAssumption
        <4> QED BY <3>2, <4>1 DEF StateRow
      <3> QED BY <1>5, <3>1, <3>2, <3>3 DEF StartService
    <2>2. Len(states') = 1 /\ states'[1] = row /\ states' \in Seq(StateRow) /\ states' # <<>>
          /\ DOMAIN states' = {1} /\ Len(states) = 0
      BY <2>1
    <2>3. ScheduleTypeOK'
      BY <1>1, <1>2, <1>5, <2>2 DEF ScheduleTypeOK, StartService
    <2>4. LocalsSound'
      <3>1. \A w \in Callers : worker[w].phase \notin TickPhases
        BY <2>1 DEF LocalsSound, TickSound
      <3> QED BY <1>1, <3>1 DEF LocalsSound, TickSound
    <2>5. HistoriesSound'
      <3>1. OneHistory'
        <4>1. Readable'
          BY <2>1, <2>2 DEF Readable
        <4> QED BY <1>1, <4>1 DEF HistoriesSound, OneHistory
      <3>2. TicksBindStates' /\ TicksReach'
        <4>1. \A i \in DOMAIN ticks : ticks[i].after <= 1
          <5>1. \A i \in DOMAIN ticks : ticks[i] \in TickRow
            BY DEF ScheduleTypeOK
          <5>2. \A i \in DOMAIN ticks : ticks[i].after <= 0 /\ ticks[i].after \in Nat
            BY <2>2, <5>1 DEF HistoriesSound, TicksReach, TickRow
          <5> QED BY <5>2
        <4> QED BY <1>1, <2>2, <4>1 DEF HistoriesSound, TicksBindStates, TicksReach
      <3>3. NothingSkipped'
        <4>1. Passed' = {}
          BY <2>2 DEF Passed
        <4> QED BY <4>1 DEF NothingSkipped
      <3> QED BY <3>1, <3>2, <3>3 DEF HistoriesSound
    <2> QED BY <1>2, <1>3, <2>3, <2>4, <2>5
  <1> QED BY <1>4, <1>5 DEF PassTime, RevisePolicy

\* No worker and no service at first.
LEMMA SInvInit == Init => SInv
  <1> SUFFICES ASSUME Init PROVE SInv
    OBVIOUS
  <1>1. GateSound
    BY GateBegins DEF Init
  <1>2. /\ worker = [w \in Callers |-> OutWorker] /\ states = <<>> /\ leases = <<>>
        /\ events = <<>> /\ ticks = <<>> /\ lock = NoWorker
    BY DEF Init
  <1>3. \A w \in Callers : worker[w] = OutWorker /\ worker[w].phase = "out"
    BY <1>2, OutWorkerRecord
  <1>4. ScheduleTypeOK
    <2>1. /\ StartTypeOK /\ latestOnly \in BOOLEAN /\ clock \in Nat /\ policy \in Verdicts
          /\ rejected \subseteq Due
      BY <1>1, ScheduleAssumption DEF Init, GateSound, StartInv, StartTypeInv
    <2>2. worker \in [Callers -> Worker]
      BY <1>2, OutWorkerRecord
    <2> QED BY <1>2, <2>1, <2>2 DEF ScheduleTypeOK
  <1>5. OwnerIsRecorded /\ LeasesRecorded /\ LocalsSound
    BY <1>3 DEF OwnerIsRecorded, LeasesRecorded, OutPhases, LocalsSound, TickSound, TickPhases
  <1>6. OpsIdle
    BY DEF OpsIdle, Init, StartInit, IdleOperation
  <1>7. HistoriesSound
    <2>1. Passed = {}
      BY <1>2 DEF Passed
    <2> QED BY <1>2, <2>1 DEF HistoriesSound, OneHistory, TicksBindStates, TicksReach, NothingSkipped
  <1>8. OrphansReported
    BY <1>2 DEF OrphansReported
  <1> QED BY <1>1, <1>4, <1>5, <1>6, <1>7, <1>8 DEF SInv

\* Every step of the service keeps the invariant.
LEMMA SInvNext == SInv /\ [Step]_vars => SInv'
  <1> SUFFICES ASSUME SInv, [Step]_vars PROVE SInv'
    OBVIOUS
  <1>1. CASE UNCHANGED vars
    <2>1. UNCHANGED <<startVars, latestOnly, clock, policy, states, lock, leases, events,
                      ticks, rejected, worker>>
      BY <1>1 DEF vars, scheduleVars
    <2>2. GateSound' /\ StartTypeOK'
      BY <2>1, GateStays DEF SInv, GateSound, StartInv, StartTypeInv
    <2>3. ScheduleTypeOK' /\ OwnerIsRecorded' /\ LeasesRecorded' /\ OpsIdle' /\ OrphansReported'
      BY <2>1, <2>2 DEF SInv, ScheduleTypeOK, OwnerIsRecorded, LeasesRecorded, OpsIdle,
                        OrphansReported, FollowsOpenOwner, Last, startVars
    <2>4. LocalsSound'
      BY <2>1 DEF SInv, LocalsSound, TickSound, Cursor, Last, Selected, startVars
    <2>5. HistoriesSound'
      BY <2>1, HistoriesStay DEF SInv, startVars
    <2> QED BY <2>2, <2>3, <2>4, <2>5 DEF SInv
  <1>2. CASE PassTime \/ RevisePolicy \/ StartService
    BY <1>2, EnvironmentKeeps
  <1>3. ASSUME NEW w \in Callers, WorkerStep(w) PROVE SInv'
    <2>1. CASE Acquire(w) \/ RecordRefusal(w)
      BY <2>1, AcquireKeeps
    <2>2. CASE RecordLease(w) \/ RecordOwnership(w)
      BY <2>2, OwnershipKeeps
    <2>3. CASE Release(w) \/ Unlock(w)
      BY <2>3, ReleaseKeeps
    <2>4. CASE RenewLease(w) \/ RecordRenewal(w)
      BY <2>4, RenewKeeps
    <2>5. CASE Tick(w) \/ Poll(w)
      BY <2>5, TickKeeps, PollKeeps
    <2>6. CASE AdmitNext(w) \/ AdmissionStep(w) \/ CollectAdmission(w)
      BY <2>6, AdmissionKeeps, CollectKeeps
    <2>7. CASE Commit(w) \/ Report(w) \/ Kill(w)
      BY <2>7, CommitKeeps, ReportKeeps, KillKeeps
    <2> QED BY <1>3, <2>1, <2>2, <2>3, <2>4, <2>5, <2>6, <2>7 DEF WorkerStep
  <1> QED BY <1>1, <1>2, <1>3 DEF Step

(***************************************************************************)
(* The theorems.                                                           *)
(***************************************************************************)

LEMMA ScheduleInvariant == Spec => []SInv
  BY SInvInit, SInvNext, PTL DEF Spec

\* The claims, journals and ledgers of the service, and the locals of every
\* worker, keep their types.
THEOREM ScheduleTypeCorrect == Spec => []ScheduleTypeOK
  <1>1. SInv => ScheduleTypeOK
    BY DEF SInv
  <1> QED BY <1>1, ScheduleInvariant, PTL

\* Whatever workers come, die, fail and take over, the states of the service
\* are one chain and no two ticks take one cycle index: the flock makes what
\* tick and poll read still true when they append.
THEOREM OneHistoryHolds == Spec => []OneHistory
  <1>1. SInv => OneHistory
    BY DEF SInv, HistoriesSound
  <1> QED BY <1>1, ScheduleInvariant, PTL

\* Each tick receipt binds adjacent states and later ticks continue after
\* earlier ones, receipts lost to a failed append or a kill included.
THEOREM TicksBindStatesHolds == Spec => []TicksBindStates
  <1>1. SInv => TicksBindStates
    BY DEF SInv, HistoriesSound
  <1> QED BY <1>1, ScheduleInvariant, PTL

\* One worker at a time stands between acquire and release, and the lease
\* ledger names it last, a renewal whose event was not recorded included.
THEOREM OwnerIsRecordedHolds == Spec => []OwnerIsRecorded
  <1>1. SInv => OwnerIsRecorded
    BY DEF SInv
  <1> QED BY <1>1, ScheduleInvariant, PTL

\* ACQUIRED is recorded only when the previous owner on record released the
\* service: no dead owner is overlooked.
THEOREM OrphansReportedHolds == Spec => []OrphansReported
  <1>1. SInv => OrphansReported
    BY DEF SInv
  <1> QED BY <1>1, ScheduleInvariant, PTL

\* The cursor passes only occurrences that were claimed or refused: a held
\* window keeps the cursor, and no claim that it relied on is ever given up.
THEOREM NothingSkippedHolds == Spec => []NothingSkipped
  <1>1. SInv => NothingSkipped
    BY DEF SInv, HistoriesSound
  <1> QED BY <1>1, ScheduleInvariant, PTL

(***************************************************************************)
(* Leases, when no append fails.                                           *)
(***************************************************************************)

\* Phases in which a worker may hold a lease that is not the last on record.
UnleasedPhases == OutPhases \union {"locked", "renewing"}

\* The lease a worker goes by is the last on record.
LeaseCurrent ==
  \A w \in Callers :
    worker[w].phase \notin UnleasedPhases =>
      leases # <<>> /\ worker[w].lease = Last(leases)

\* Lease b is a renewal of a, or the lease of a new generation.
Continues(a, b) ==
  \/ b.generation = a.generation /\ b.renewal = a.renewal + 1
  \/ b.generation = a.generation + 1 /\ b.renewal = 0

\* A lease that continues the last one extends the lineage.
LEMMA LeaseAppended ==
  ASSUME leases \in Seq(LeaseRow), LeaseLineage, NEW l \in LeaseRow,
         leases' = Append(leases, l), leases # <<>> => Continues(Last(leases), l)
  PROVE  LeaseLineage' /\ leases' # <<>> /\ Last(leases') = l
  <1>1. PICK n \in Nat : n = Len(leases)
    OBVIOUS
  <1>2. /\ DOMAIN leases = 1..n /\ DOMAIN leases' = 1..(n + 1)
        /\ \A i \in 1..n : leases'[i] = leases[i]
        /\ leases'[n + 1] = l
    BY <1>1
  <1>3. ASSUME NEW i \in 2..n PROVE Continues(leases'[i - 1], leases'[i])
    <2>1. i \in 1..n /\ i - 1 \in 1..n /\ i > 1
      OBVIOUS
    <2> QED BY <1>2, <2>1 DEF LeaseLineage, Continues
  <1>4. ASSUME n > 0 PROVE Continues(leases'[n], leases'[n + 1])
    <2>1. n \in 1..n /\ leases # <<>> /\ Last(leases) = leases[n]
      BY <1>1, <1>4 DEF Last
    <2> QED BY <1>2, <2>1
  <1>5. LeaseLineage'
    <2> SUFFICES ASSUME NEW i \in 1..(n + 1), i > 1
                 PROVE  Continues(leases'[i - 1], leases'[i])
      BY <1>2 DEF LeaseLineage, Continues
    <2>1. CASE i = n + 1
      <3>1. n > 0 /\ i - 1 = n
        BY <2>1
      <3> QED BY <1>4, <2>1, <3>1
    <2>2. CASE i # n + 1
      <3>1. i \in 2..n
        BY <2>2
      <3> QED BY <1>3, <3>1
    <2> QED BY <2>1, <2>2
  <1>6. leases' # <<>> /\ Last(leases') = l
    BY <1>1 DEF Last
  <1> QED BY <1>5, <1>6

\* A worker whose call raises, or that moves on, keeps its lease.
LEMMA LeaseKept ==
  ASSUME SInv, LeaseLineage, LeaseCurrent, UNCHANGED leases, NEW w \in Callers,
         \A v \in Callers : v # w => worker'[v] = worker[v],
         \/ worker'[w].phase \in UnleasedPhases
         \/ worker[w].phase \notin UnleasedPhases /\ worker'[w].lease = worker[w].lease
         \/ leases # <<>> /\ worker'[w].lease = Last(leases)
  PROVE  LeaseLineage' /\ LeaseCurrent'
  <1>1. LeaseLineage'
    BY DEF LeaseLineage
  <1>2. ASSUME NEW v \in Callers, worker'[v].phase \notin UnleasedPhases
        PROVE  leases # <<>> /\ worker'[v].lease = Last(leases)
    BY <1>2 DEF LeaseCurrent
  <1>3. Last(leases') = Last(leases)
    OBVIOUS
  <1> QED BY <1>1, <1>2, <1>3 DEF LeaseCurrent

\* A lease is only recorded by the worker that stands between acquire and
\* release: nobody else goes by one.
LEMMA LeaseRecorded ==
  ASSUME SInv, LeaseLineage, LeaseCurrent, NEW w \in Callers,
         worker[w].phase \notin OutPhases, NEW l \in LeaseRow,
         leases' = Append(leases, l), leases # <<>> => Continues(Last(leases), l),
         \A v \in Callers : v # w => worker'[v] = worker[v],
         worker'[w].phase \in UnleasedPhases \/ worker'[w].lease = l
  PROVE  LeaseLineage' /\ LeaseCurrent'
  <1>1. leases \in Seq(LeaseRow)
    BY DEF SInv, ScheduleTypeOK
  <1>2. LeaseLineage' /\ leases' # <<>> /\ Last(leases') = l
    BY <1>1, LeaseAppended
  <1>3. \A v \in Callers : v # w => worker[v].phase \in OutPhases
    BY OneOwner DEF SInv
  <1>4. LeaseCurrent'
    BY <1>2, <1>3 DEF LeaseCurrent, UnleasedPhases
  <1> QED BY <1>2, <1>4

\* A renewal continues the lease its worker goes by.
LEMMA RenewalContinues ==
  ASSUME NEW l \in LeaseRow, NEW t \in Nat
  PROVE  LET r == [l EXCEPT !.renewal = @ + 1, !.until = t]
         IN  r \in LeaseRow /\ Continues(l, r)
  <1> DEFINE q == [l EXCEPT !.renewal = @ + 1]
  <1>1. q \in LeaseRow /\ q.generation = l.generation /\ q.renewal = l.renewal + 1
    BY DEF LeaseRow
  <1>2. [l EXCEPT !.renewal = @ + 1, !.until = t] = [q EXCEPT !.until = t]
    OBVIOUS
  <1>3. \A r \in LeaseRow : /\ [r EXCEPT !.until = t] \in LeaseRow
                           /\ [r EXCEPT !.until = t].generation = r.generation
                           /\ [r EXCEPT !.until = t].renewal = r.renewal
    BY DEF LeaseRow
  <1> HIDE DEF q
  <1> QED BY <1>1, <1>2, <1>3 DEF Continues

\* What a worker step does to the worker's own record.
LEMMA WorkerSteps ==
  ASSUME SInv, NEW w \in Callers, WorkerStep(w)
  PROVE  /\ worker[w] \in Worker
         /\ \A v \in Callers : v # w => worker'[v] = worker[v]
         /\ ~RecordLease(w) /\ ~RenewLease(w) => UNCHANGED leases
  <1>1. worker \in [Callers -> Worker]
    BY DEF SInv, ScheduleTypeOK
  <1> USE <1>1 DEF RaiseToOwner, RaiseFromAcquire, Become
  <1>2. CASE Acquire(w) \/ RecordRefusal(w) \/ RecordLease(w) \/ RecordOwnership(w)
    BY <1>2 DEF Acquire, RecordRefusal, RecordLease, RecordOwnership
  <1>3. CASE Release(w) \/ Unlock(w) \/ RenewLease(w) \/ RecordRenewal(w)
    BY <1>3 DEF Release, Unlock, RenewLease, RecordRenewal
  <1>4. CASE Tick(w) \/ Poll(w) \/ AdmitNext(w) \/ AdmissionStep(w)
    BY <1>4 DEF Tick, Poll, AdmitNext, AdmissionStep, scheduleVars
  <1>5. CASE CollectAdmission(w) \/ Commit(w) \/ Report(w) \/ Kill(w)
    BY <1>5 DEF CollectAdmission, Collected, Commit, Report, Kill
  <1> QED BY <1>2, <1>3, <1>4, <1>5 DEF WorkerStep

\* Without failing appends every worker step keeps the lineage.
LEMMA LeaseStep ==
  ASSUME "io" \notin Faults, SInv, LeaseLineage, LeaseCurrent,
         NEW w \in Callers, WorkerStep(w)
  PROVE  LeaseLineage' /\ LeaseCurrent'
  <1>1. /\ worker \in [Callers -> Worker] /\ worker[w] \in Worker
        /\ \A v \in Callers : v # w => worker'[v] = worker[v]
        /\ ~RecordLease(w) /\ ~RenewLease(w) => UNCHANGED leases
        /\ leases \in Seq(LeaseRow) /\ clock \in Nat /\ ~CanFail
    BY WorkerSteps DEF SInv, ScheduleTypeOK, CanFail
  <1>2. CASE RecordLease(w)
    <2> DEFINE previous == IF leases = <<>> THEN NoLease ELSE Last(leases)
               l == [generation |-> previous.generation + 1, renewal |-> 0,
                     until |-> worker[w].at + LeaseTime]
    <2>1. previous \in LeaseRow
      <3>1. leases # <<>> => Last(leases) \in LeaseRow
        BY <1>1 DEF Last
      <3> QED BY <3>1, OutWorkerRecord
    <2>2. l \in LeaseRow
      <3>1. worker[w].at \in Nat /\ previous.generation \in Nat /\ LeaseTime \in Nat
        BY <1>1, <2>1, ScheduleAssumption DEF Worker, LeaseRow
      <3> HIDE DEF previous
      <3> QED BY <3>1 DEF LeaseRow
    <2>3. leases # <<>> => Continues(Last(leases), l)
      BY DEF Continues
    <2>4. /\ leases' = Append(leases, l) /\ worker[w].phase \notin OutPhases
          /\ worker' = [worker EXCEPT ![w].phase = "leased", ![w].lease = l]
      BY <1>1, <1>2 DEF RecordLease, OutPhases
    <2>5. worker'[w].lease = l
      <3> HIDE DEF l
      <3> QED BY <1>1, <2>4 DEF Worker
    <2> HIDE DEF l
    <2> QED BY <1>1, <2>2, <2>3, <2>4, <2>5, LeaseRecorded
  <1>3. CASE RenewLease(w)
    <2> DEFINE l == [worker[w].lease EXCEPT !.renewal = @ + 1, !.until = clock + LeaseTime]
    <2>1. /\ worker[w].phase = "owner" /\ leases' = Append(leases, l)
          /\ worker'[w].phase = "renewing"
      BY <1>1, <1>3 DEF RenewLease, Become, Worker
    <2>2. worker[w].lease = Last(leases) /\ worker[w].phase \notin OutPhases
      BY <2>1 DEF LeaseCurrent, UnleasedPhases, OutPhases
    <2>3. worker[w].lease \in LeaseRow /\ clock + LeaseTime \in Nat
      BY <1>1, ScheduleAssumption DEF Worker
    <2>4. l \in LeaseRow /\ Continues(Last(leases), l)
      BY <2>2, <2>3, RenewalContinues
    <2> HIDE DEF l
    <2> QED BY <1>1, <2>1, <2>2, <2>4, LeaseRecorded DEF UnleasedPhases
  <1>4. CASE RecordRenewal(w)
    <2>1. worker'[w].lease = Last(leases) /\ worker[w].phase \notin OutPhases
      BY <1>1, <1>4 DEF RecordRenewal, OutPhases, Worker
    <2>2. leases # <<>> /\ UNCHANGED leases
      BY <1>4, <2>1 DEF SInv, LeasesRecorded, RecordRenewal
    <2> QED BY <1>1, <2>1, <2>2, LeaseKept
  <1>5. CASE Acquire(w) \/ RecordRefusal(w) \/ Unlock(w) \/ Kill(w)
    <2>1. worker'[w].phase \in UnleasedPhases
      BY <1>1, <1>5, OutWorkerRecord
         DEF Acquire, RecordRefusal, Unlock, Kill, Become, UnleasedPhases, OutPhases, Worker
    <2>2. UNCHANGED leases
      BY <1>5 DEF Acquire, RecordRefusal, Unlock, Kill
    <2> QED BY <1>1, <2>1, <2>2, LeaseKept
  <1>6. CASE \/ RecordOwnership(w) \/ Release(w) \/ Tick(w) \/ Poll(w) \/ AdmitNext(w)
             \/ AdmissionStep(w) \/ CollectAdmission(w) \/ Commit(w) \/ Report(w)
    <2>1. UNCHANGED leases
      BY <1>6 DEF RecordOwnership, Release, Tick, Poll, AdmitNext, AdmissionStep,
                  CollectAdmission, Commit, Report, scheduleVars
    <2>2. ASSUME RaiseToOwner(w) PROVE worker'[w].lease = worker[w].lease
      BY <1>1, <2>2, RaisedToOwner
    <2>3. worker'[w].lease = worker[w].lease
      <3>1. CASE RaiseToOwner(w)
        BY <2>2, <3>1
      <3>2. CASE RecordOwnership(w) \/ Release(w) \/ Report(w)
        <4>1. CASE RecordOwnership(w)
          BY <1>1, <2>2, <4>1 DEF RecordOwnership
        <4>2. CASE Release(w)
          BY <1>1, <4>2 DEF Release, Become, Worker
        <4>3. CASE Report(w)
          BY <2>2, <4>3 DEF Report
        <4> QED BY <3>2, <4>1, <4>2, <4>3
      <3>3. CASE Tick(w) \/ Poll(w)
        <4>1. CASE Tick(w)
          BY <1>1, <4>1 DEF Tick, Worker
        <4>2. CASE Poll(w)
          BY <1>1, <2>2, <4>2 DEF Poll, Worker
        <4> QED BY <3>3, <4>1, <4>2
      <3>4. CASE AdmitNext(w) \/ AdmissionStep(w)
        BY <3>4 DEF AdmitNext, AdmissionStep, scheduleVars
      <3>5. CASE CollectAdmission(w) \/ Commit(w)
        BY <1>1, <2>2, <3>5 DEF CollectAdmission, Collected, Commit, Become, Worker
      <3> QED BY <1>6, <3>2, <3>3, <3>4, <3>5
    <2>4. CASE worker[w].phase \notin UnleasedPhases
      BY <1>1, <2>1, <2>3, <2>4, LeaseKept
    <2>5. CASE worker[w].phase \in UnleasedPhases
      <3>1. op[w].phase = "idle"
        BY <2>5 DEF SInv, OpsIdle, UnleasedPhases, OutPhases
      <3>2. AdmissionStep(w)
        BY <1>6, <2>5, <3>1 DEF RecordOwnership, Release, Tick, Poll, AdmitNext,
           CollectAdmission, Collected, Commit, Report, UnleasedPhases, OutPhases
      <3> QED BY <1>1, <2>1, <2>5, <3>2, LeaseKept DEF AdmissionStep, scheduleVars
    <2> QED BY <2>4, <2>5
  <1> QED BY <1>2, <1>3, <1>4, <1>5, <1>6 DEF WorkerStep

\* Each lease row continues the one before, as long as appends do not fail: a
\* kill between a lease and its event leaves a row that the next generation
\* continues.  (A failing RENEWED event makes the next renewal repeat a number.)
THEOREM LeaseLineageHolds ==
  ASSUME "io" \notin Faults
  PROVE  Spec => []LeaseLineage
  <1>1. Init => LeaseLineage /\ LeaseCurrent
    <2> SUFFICES ASSUME Init PROVE LeaseLineage /\ LeaseCurrent
      OBVIOUS
    <2>1. leases = <<>> /\ \A w \in Callers : worker[w].phase = "out"
      BY OutWorkerRecord DEF Init
    <2> QED BY <2>1 DEF LeaseLineage, LeaseCurrent, UnleasedPhases, OutPhases
  <1>2. SInv /\ LeaseLineage /\ LeaseCurrent /\ [Step]_vars => (LeaseLineage /\ LeaseCurrent)'
    <2> SUFFICES ASSUME SInv, LeaseLineage, LeaseCurrent, [Step]_vars
                 PROVE  LeaseLineage' /\ LeaseCurrent'
      OBVIOUS
    <2>1. CASE UNCHANGED <<leases, worker>>
      BY <2>1 DEF LeaseLineage, LeaseCurrent, Last
    <2>2. ASSUME NEW w \in Callers, WorkerStep(w) PROVE LeaseLineage' /\ LeaseCurrent'
      BY <2>2, LeaseStep
    <2> QED BY <2>1, <2>2 DEF Step, PassTime, RevisePolicy, StartService, vars, scheduleVars
  <1> QED BY <1>1, <1>2, ScheduleInvariant, PTL DEF Spec

(***************************************************************************)
(* No occurrence is lost, when nothing fails.                              *)
(***************************************************************************)

\* A claim is as good as a START: the run was started, or the admission that
\* took the claim is still under way.
ClaimStands(t) ==
  \/ Starts(t, journal[t]) # {}
  \/ \E c \in Callers : HoldsTrigger(op[c]) /\ op[c].trigger = t

ClaimsStart == \A t \in triggerClaims : ClaimStands(t)

\* Without failures an admission that holds a claim goes on to its START: its
\* run is unclaimed by others and has no rows.
LEMMA HolderGoesOn ==
  ASSUME Faults = {}, GateSound, NEW c \in Callers, Proceed(c), HoldsTrigger(op[c])
  PROVE  HoldsTrigger(op'[c]) \/ Starts(op[c].trigger, journal'[op[c].trigger]) # {}
  <1> DEFINE r == op[c].run
  <1>1. /\ op[c].use = "admit" /\ op[c].phase \in {"deduped", "claimed", "checked", "starting"}
        /\ op[c] \in Operation /\ op \in [Callers -> Operation] /\ op'[c].use = "admit"
        /\ r \in RunId /\ r = op[c].trigger /\ op'[c].trigger = op[c].trigger /\ ~CanFail
    <2>1. op[c].use = "admit" /\ op[c].phase \in TriggerHeldPhases /\ op[c].phase # "idle"
      BY DEF HoldsTrigger, TriggerHeldPhases
    <2>2. op[c].phase \notin {"undeduping", "conflict", "unconflicted"}
      BY DEF GateSound, NothingGivenUp
    <2>3. op'[c].use = "admit" /\ op'[c].trigger = op[c].trigger
      BY <2>1, AdmissionSteps DEF GateSound
    <2> QED BY <2>1, <2>2, <2>3 DEF GateSound, Paired, StartInv, StartTypeInv, StartTypeOK,
                 OpInv, Pinned, TriggerHeldPhases, CanFail
  <1>2. CASE op[c].phase = "deduped"
    <2>1. r \notin runClaims
      BY <1>2 DEF GateSound, NothingGivenUp
    <2>2. ClaimRun(c)
      BY <1>2 DEF Proceed, ClaimTrigger, ReleaseTrigger, StartCheck, StartLoad, StartAppend,
         FirstAdvance, MoveLoad, MoveAppend, ReleaseRun, ReleaseConflict, Record
    <2>3. op'[c].phase = "claimed"
      BY <1>1, <2>1, <2>2 DEF ClaimRun, Goto, Operation
    <2> QED BY <1>1, <2>3 DEF HoldsTrigger, TriggerHeldPhases
  <1>3. ASSUME op[c].phase \in {"claimed", "checked", "starting"}
        PROVE  Rows(r) = 0 /\ ~Broken(r)
    <2>0. HoldsRun(op[c])
      BY <1>1, <1>3 DEF HoldsRun, RunHeldPhases
    <2>1. Starts(r, journal[r]) = {}
      BY <1>1, <2>0, OccurrenceAssumption DEF GateSound, StartInv, Reservations, RunsHeld
    <2>2. Rows(r) \in Nat /\ journal[r] \in Seq(Row)
      BY <1>1 DEF Rows, GateSound, StartInv, StartTypeInv, StartTypeOK
    <2>3. Rows(r) = 0
      BY <1>1, <2>1, <2>2 DEF GateSound, RowsStarted
    <2>4. DOMAIN journal[r] = {}
      BY <2>2, <2>3 DEF Rows
    <2> QED BY <2>3, <2>4 DEF Broken
  <1>4. CASE op[c].phase = "claimed"
    <2>1. StartCheck(c)
      BY <1>4 DEF Proceed, ClaimTrigger, ClaimRun, ReleaseTrigger, StartLoad, StartAppend,
         FirstAdvance, MoveLoad, MoveAppend, ReleaseRun, ReleaseConflict, Record
    <2>2. op'[c].phase = "checked"
      BY <1>1, <1>3, <1>4, <2>1 DEF StartCheck, Goto, Operation
    <2> QED BY <1>1, <2>2 DEF HoldsTrigger, TriggerHeldPhases
  <1>5. CASE op[c].phase = "checked"
    <2>1. StartLoad(c)
      BY <1>5 DEF Proceed, ClaimTrigger, ClaimRun, ReleaseTrigger, StartCheck, StartAppend,
         FirstAdvance, MoveLoad, MoveAppend, ReleaseRun, ReleaseConflict, Record
    <2>2. op'[c].phase = "starting"
      BY <1>1, <1>3, <1>5, <2>1 DEF StartLoad, Goto, Operation
    <2> QED BY <1>1, <2>2 DEF HoldsTrigger, TriggerHeldPhases
  <1>6. CASE op[c].phase = "starting"
    <2>1. StartAppend(c)
      BY <1>6 DEF Proceed, ClaimTrigger, ClaimRun, ReleaseTrigger, StartCheck, StartLoad,
         FirstAdvance, MoveLoad, MoveAppend, ReleaseRun, ReleaseConflict, Record
    <2>2. op'[c].phase = "started"
      BY <1>1, <2>1 DEF StartAppend, Operation
    <2> QED BY <1>1, <1>6, <2>2, JournalSteps DEF GateSound
  <1> QED BY <1>1, <1>2, <1>4, <1>5, <1>6

\* Every step of an admission leaves each claim with its START or its holder.
LEMMA ProceedKeepsClaims ==
  ASSUME Faults = {}, GateSound, ClaimsStart, NEW c \in Callers, Proceed(c)
  PROVE  ClaimsStart'
  <1>1. /\ StartInv /\ Paired /\ JournalGrows /\ op[c].use = "admit" /\ op'[c].use = "admit"
        /\ op'[c].trigger = op[c].trigger /\ \A d \in Callers : d # c => op'[d] = op[d]
        /\ triggerClaims \subseteq Trigger
    BY AdmissionSteps, JournalSteps
       DEF GateSound, Paired, StartInv, StartTypeInv, StartTypeOK
  <1>2. ASSUME NEW t \in triggerClaims PROVE ClaimStands(t)'
    <2>1. t \in Trigger /\ t \in RunId
      BY <1>1, OccurrenceAssumption
    <2>2. CASE Starts(t, journal[t]) # {}
      BY <1>1, <2>1, <2>2 DEF JournalGrows, ClaimStands
    <2>3. ASSUME NEW d \in Callers, HoldsTrigger(op[d]), op[d].trigger = t
          PROVE  ClaimStands(t)'
      <3>1. CASE d # c
        BY <1>1, <2>3, <3>1 DEF ClaimStands
      <3>2. CASE d = c
        <4>1. HoldsTrigger(op'[c]) \/ Starts(t, journal'[t]) # {}
          BY <2>3, <3>2, HolderGoesOn
        <4> QED BY <1>1, <2>3, <3>2, <4>1 DEF ClaimStands
      <3> QED BY <3>1, <3>2
    <2> QED BY <2>2, <2>3 DEF ClaimsStart, ClaimStands
  <1>3. ASSUME NEW t \in triggerClaims', t \notin triggerClaims PROVE ClaimStands(t)'
    <2>1. t = op[c].trigger
      BY <1>1, <1>3, AdmissionSteps
    <2>2. ClaimTrigger(c)
      BY <1>3 DEF Proceed, ClaimTrigger, ClaimRun, ReleaseTrigger, StartCheck, StartLoad,
         StartAppend, FirstAdvance, MoveLoad, MoveAppend, ReleaseRun, ReleaseConflict, Record
    <2>3. op'[c].phase = "deduped"
      <3>1. Goto(c, "deduped")
        BY <1>3, <2>2 DEF ClaimTrigger, CanFail
      <3> QED BY <3>1 DEF Goto, GateSound, StartInv, StartTypeInv, StartTypeOK, Operation
    <2> QED BY <1>1, <2>1, <2>3 DEF ClaimStands, HoldsTrigger, TriggerHeldPhases
  <1> QED BY <1>2, <1>3 DEF ClaimsStart

\* An operation that begins or ends holds no claim before or after.
LEMMA ClaimsStay ==
  ASSUME GateSound, ClaimsStart, NEW c \in Callers, ~HoldsTrigger(op[c]),
         UNCHANGED <<triggerClaims, journal>>, \A d \in Callers : d # c => op'[d] = op[d]
  PROVE  ClaimsStart'
  BY DEF ClaimsStart, ClaimStands

\* What was started or refused stays so.
LEMMA NothingLostStays ==
  ASSUME NothingLost, UNCHANGED <<latestOnly, states>>, rejected \subseteq rejected', JournalGrows
  PROVE  NothingLost'
  <1>1. Passed' = Passed
    BY DEF Passed, Selected
  <1>2. \A o \in Passed : o \in RunId /\ o \in Trigger
    BY OccurrenceAssumption DEF Passed, Selected
  <1> QED BY <1>1, <1>2 DEF NothingLost, JournalGrows

\* When a poll commits nobody is being admitted: every claim is a START.
LEMMA CommitLosesNothing ==
  ASSUME SInv, ClaimsStart, NEW w \in Callers, Commit(w)
  PROVE  ClaimsStart' /\ NothingLost'
  <1>1. UNCHANGED <<triggerClaims, journal, op>>
    BY DEF Commit, startVars
  <1>2. \A v \in Callers : op[v].phase = "idle"
    <2>1. worker[w].phase = "polling" /\ op[w].phase = "idle"
      BY DEF Commit
    <2>2. \A v \in Callers : v # w => worker[v].phase # "polling"
      BY <2>1, OneOwner DEF SInv, OutPhases
    <2> QED BY <2>1, <2>2 DEF SInv, OpsIdle
  <1>3. \A t \in triggerClaims : Starts(t, journal[t]) # {}
    BY <1>2 DEF ClaimsStart, ClaimStands, HoldsTrigger, TriggerHeldPhases
  <1>4. NothingSkipped'
    BY CommitKeeps DEF SInv, HistoriesSound
  <1>5. ClaimsStart'
    BY <1>1 DEF ClaimsStart, ClaimStands
  <1> QED BY <1>1, <1>3, <1>4, <1>5 DEF NothingSkipped, NothingLost

\* A step loses no occurrence: it grows no ledger, or it commits one row.
LEMMA StepLosesNothing ==
  ASSUME Faults = {}, SInv, ClaimsStart, NothingLost, NEW w \in Callers, WorkerStep(w)
  PROVE  ClaimsStart' /\ NothingLost'
  <1>1. ASSUME UNCHANGED journal PROVE JournalGrows
    BY <1>1 DEF JournalGrows, Rows
  <1>2. ASSUME UNCHANGED <<startVars, states, latestOnly, rejected>>
        PROVE  ClaimsStart' /\ NothingLost'
    BY <1>1, <1>2, NothingLostStays DEF startVars, ClaimsStart, ClaimStands
  <1>3. CASE Acquire(w) \/ RecordRefusal(w) \/ RecordLease(w) \/ RecordOwnership(w)
    BY <1>2, <1>3 DEF Acquire, RecordRefusal, RecordLease, RecordOwnership
  <1>4. CASE Release(w) \/ Unlock(w) \/ RenewLease(w) \/ RecordRenewal(w)
    BY <1>2, <1>4 DEF Release, Unlock, RenewLease, RecordRenewal
  <1>5. CASE Tick(w) \/ Poll(w) \/ Report(w)
    BY <1>2, <1>5 DEF Tick, Poll, Report
  <1>6. CASE AdmitNext(w)
    <2>1. /\ op[w].phase = "idle" /\ UNCHANGED <<triggerClaims, journal, latestOnly, states, rejected>>
          /\ \A d \in Callers : d # w => op'[d] = op[d]
      BY <1>6 DEF AdmitNext, Admit, scheduleVars, SInv, GateSound, StartInv, StartTypeInv, StartTypeOK
    <2>2. ClaimsStart'
      BY <2>1, ClaimsStay DEF HoldsTrigger, TriggerHeldPhases, SInv
    <2> QED BY <1>1, <2>1, <2>2, NothingLostStays
  <1>7. CASE AdmissionStep(w)
    <2>1. /\ Proceed(w) /\ GateSound /\ UNCHANGED <<latestOnly, states, rejected>>
      BY <1>7 DEF AdmissionStep, scheduleVars, SInv
    <2>2. JournalGrows
      BY <2>1, JournalSteps DEF GateSound
    <2> QED BY <2>1, <2>2, ProceedKeepsClaims, NothingLostStays
  <1>8. CASE CollectAdmission(w)
    <2>1. /\ op[w].phase \in {"answered", "raised"}
          /\ UNCHANGED <<triggerClaims, journal, latestOnly, states>>
          /\ \A d \in Callers : d # w => op'[d] = op[d]
      BY <1>8 DEF CollectAdmission, Collect, SInv, GateSound, StartInv, StartTypeInv, StartTypeOK
    <2>2. rejected \subseteq rejected'
      BY <1>8 DEF CollectAdmission, Collected
    <2>3. ClaimsStart'
      BY <2>1, ClaimsStay DEF HoldsTrigger, TriggerHeldPhases, SInv
    <2> QED BY <1>1, <2>1, <2>2, <2>3, NothingLostStays
  <1>9. CASE Commit(w)
    BY <1>9, CommitLosesNothing
  <1>10. ~Kill(w)
    BY DEF Kill
  <1> QED BY <1>3, <1>4, <1>5, <1>6, <1>7, <1>8, <1>9, <1>10 DEF WorkerStep

\* MACRO_RUNTIME_V0.10, "HELD WINDOW != LOST WINDOW": as long as no append
\* fails and no worker is killed, whatever the cursor has passed started its
\* run or was refused.  (A kill between the claim of an occurrence and its
\* START loses it: the claim is never given up.)
THEOREM NothingLostHolds ==
  ASSUME Faults = {}
  PROVE  Spec => []NothingLost
  <1>1. Init => ClaimsStart /\ NothingLost
    BY DEF Init, StartInit, ClaimsStart, NothingLost, Passed
  <1>2. SInv /\ ClaimsStart /\ NothingLost /\ [Step]_vars => (ClaimsStart /\ NothingLost)'
    <2> SUFFICES ASSUME SInv, ClaimsStart, NothingLost, [Step]_vars
                 PROVE  ClaimsStart' /\ NothingLost'
      OBVIOUS
    <2>1. ASSUME UNCHANGED startVars PROVE ClaimsStart' /\ JournalGrows
      BY <2>1 DEF startVars, ClaimsStart, ClaimStands, JournalGrows, Rows
    <2>2. CASE UNCHANGED <<startVars, latestOnly, states, rejected>>
      BY <2>1, <2>2, NothingLostStays
    <2>3. CASE StartService
      <3>1. Passed' = {}
        BY <2>3 DEF StartService, Passed
      <3> QED BY <2>1, <2>3, <3>1 DEF StartService, NothingLost
    <2>4. ASSUME NEW w \in Callers, WorkerStep(w) PROVE ClaimsStart' /\ NothingLost'
      BY <2>4, StepLosesNothing
    <2> QED BY <2>2, <2>3, <2>4 DEF Step, PassTime, RevisePolicy, vars, scheduleVars
  <1> QED BY <1>1, <1>2, ScheduleInvariant, PTL DEF Spec

(***************************************************************************)
(* The schedule implements OccurrenceCursor.                               *)
(***************************************************************************)

\* The window of a tick lies between the cursor and the clock, and every
\* admission under way is about an occurrence that its poll has still to admit.
WindowSound(w) ==
  /\ worker[w].phase \in {"ticking", "polling"} =>
       /\ Cursor < worker[w].through
       /\ worker[w].through <= clock
       /\ worker[w].through <= Cursor + MaxTick
  /\ worker[w].phase = "polling" =>
       \A o \in worker[w].todo : Cursor < o /\ o <= worker[w].through
  /\ op[w].phase # "idle" => op[w].run \in worker[w].todo

WindowsSound == \A w \in Callers : WindowSound(w)

\* The window of one worker stays when the worker, the cursor and its admission
\* do, whatever time it is by now.
LEMMA WindowStays ==
  ASSUME SInv, NEW w \in Callers, WindowSound(w), UNCHANGED <<worker[w], op[w], states>>,
         clock' \in Nat, clock <= clock'
  PROVE  WindowSound(w)'
  <1>1. worker[w].through \in Nat /\ clock \in Nat
    BY IdleAtGate DEF SInv, ScheduleTypeOK, Worker
  <1>2. Cursor' = Cursor
    BY DEF Cursor, Last
  <1> QED BY <1>1, <1>2 DEF WindowSound

\* A worker outside its tick has no window.
LEMMA NoWindow ==
  ASSUME NEW w \in Callers, worker[w].phase \notin {"ticking", "polling"}, op[w].phase = "idle"
  PROVE  WindowSound(w)
  BY DEF WindowSound

\* Only time moves the clock.
LEMMA WorkersKeepTime ==
  ASSUME NEW w \in Callers, WorkerStep(w)
  PROVE  UNCHANGED clock
  BY DEF WorkerStep, Acquire, RecordRefusal, RecordLease, RecordOwnership, Release, Unlock,
         RenewLease, RecordRenewal, Tick, Poll, AdmitNext, AdmissionStep, CollectAdmission,
         Commit, Report, Kill, scheduleVars

\* The clock stands or goes on.
LEMMA ClockSteps ==
  ASSUME [Step]_vars
  PROVE  clock' = clock \/ clock' = clock + 1
  BY WorkersKeepTime DEF Step, PassTime, RevisePolicy, StartService, vars, scheduleVars

\* The other workers' windows stay: while one is open, nobody else moves the
\* cursor.
LEMMA OtherWindows ==
  ASSUME SInv, WindowsSound, NEW w \in Callers, WorkerStep(w), NEW v \in Callers, v # w
  PROVE  WindowSound(v)'
  <1>1. worker'[v] = worker[v]
    BY WorkerSteps
  <1>2. UNCHANGED clock
    BY WorkersKeepTime
  <1>3. op'[v] = op[v]
    <2>1. CASE AdmissionStep(w)
      BY <2>1, AdmissionSteps DEF AdmissionStep, SInv, GateSound
    <2>2. CASE ~AdmissionStep(w)
      <3>1. op \in [Callers -> Operation]
        BY DEF SInv, ScheduleTypeOK, StartTypeOK
      <3> QED BY <2>2, <3>1
           DEF WorkerStep, Acquire, RecordRefusal, RecordLease, RecordOwnership, Release, Unlock,
           RenewLease, RecordRenewal, Tick, Poll, AdmitNext, CollectAdmission,
           Commit, Report, Kill, startVars, Admit, Collect, KillOperation
    <2> QED BY <2>1, <2>2
  <1>4. CASE worker[v].phase \in {"ticking", "polling"}
    <2>1. worker[w].phase \in OutPhases
      BY <1>4, OneOwner DEF SInv, OutPhases
    <2>2. UNCHANGED states
      BY <2>1
         DEF OutPhases, WorkerStep, Acquire, RecordRefusal, RecordLease, RecordOwnership, Release,
           Unlock, RenewLease, RecordRenewal, Tick, Poll, AdmitNext, AdmissionStep,
           CollectAdmission, Commit, Report, Kill, scheduleVars
    <2>3. clock' \in Nat /\ clock <= clock'
      BY <1>2 DEF SInv, ScheduleTypeOK
    <2> QED BY <1>1, <1>3, <2>2, <2>3, WindowStays DEF WindowsSound
  <1>5. CASE worker[v].phase \notin {"ticking", "polling"}
    <2>1. op[v].phase = "idle"
      BY <1>5, IdleAtGate
    <2> QED BY <1>1, <1>3, <1>5, <2>1 DEF WindowSound
  <1> QED BY <1>4, <1>5

\* tick opens a window that has elapsed.
LEMMA TickOpens ==
  ASSUME SInv, NEW w \in Callers, Tick(w)
  PROVE  WindowSound(w)'
  <1>1. /\ worker[w] \in Worker /\ op[w].phase = "idle" /\ states # <<>> /\ clock \in Nat
        /\ worker \in [Callers -> Worker] /\ UNCHANGED <<op, states, clock>>
    BY IdleAtGate DEF Tick, Readable, SInv, ScheduleTypeOK, startVars
  <1>2. Cursor \in Nat /\ Cursor' = Cursor /\ MaxTick \in Nat /\ MaxTick > 0
    BY <1>1, CursorType, ScheduleAssumption DEF SInv, Cursor, Last
  <1>3. CASE clock <= Cursor
    <2>1. worker'[w].phase = "reporting"
      BY <1>1, <1>3 DEF Tick, Worker
    <2> QED BY <1>1, <2>1 DEF WindowSound
  <1>4. CASE ~(clock <= Cursor)
    <2>1. /\ worker'[w].phase = "ticking"
          /\ worker'[w].through = IF clock < Cursor + MaxTick THEN clock ELSE Cursor + MaxTick
      BY <1>1, <1>4 DEF Tick, Worker
    <2>2. /\ Cursor < worker'[w].through /\ worker'[w].through <= clock
          /\ worker'[w].through <= Cursor + MaxTick
      BY <1>1, <1>2, <1>4, <2>1
    <2> QED BY <1>1, <1>2, <2>1, <2>2 DEF WindowSound
  <1> QED BY <1>3, <1>4

\* poll selects occurrences of it.
LEMMA PollSelects ==
  ASSUME SInv, WindowsSound, NEW w \in Callers, Poll(w)
  PROVE  WindowSound(w)'
  <1>1. /\ worker[w] \in Worker /\ op[w].phase = "idle" /\ worker[w].phase = "ticking"
        /\ worker \in [Callers -> Worker] /\ UNCHANGED <<op, states, clock>>
    BY IdleAtGate DEF Poll, SInv, ScheduleTypeOK, startVars
  <1>2. /\ Cursor < worker[w].through /\ worker[w].through <= clock
        /\ worker[w].through <= Cursor + MaxTick /\ Cursor' = Cursor
    BY <1>1 DEF WindowsSound, WindowSound, Cursor, Last
  <1>3. CASE RaiseToOwner(w)
    <2>1. worker'[w].phase = "owner"
      BY <1>1, <1>3, RaisedToOwner
    <2> QED BY <1>1, <2>1 DEF WindowSound
  <1>4. CASE ~RaiseToOwner(w)
    <2>1. /\ worker'[w].phase = "polling" /\ worker'[w].through = worker[w].through
          /\ worker'[w].todo = Selected(Cursor, worker[w].through)
      BY <1>1, <1>4 DEF Poll, Worker
    <2>2. \A o \in worker'[w].todo : Cursor < o /\ o <= worker[w].through
      BY <2>1 DEF Selected
    <2> QED BY <1>1, <1>2, <2>1, <2>2 DEF WindowSound
  <1> QED BY <1>3, <1>4

\* An admission is about the earliest occurrence that is left, from its begin to
\* its answer, and the answer removes the occurrence.
LEMMA AdmissionInWindow ==
  ASSUME SInv, WindowsSound, NEW w \in Callers,
         AdmitNext(w) \/ AdmissionStep(w) \/ CollectAdmission(w)
  PROVE  WindowSound(w)'
  <1>1. /\ worker[w] \in Worker /\ op[w] \in Operation /\ WindowSound(w)
        /\ worker \in [Callers -> Worker] /\ op \in [Callers -> Operation]
        /\ UNCHANGED <<states, clock>>
    BY IdleAtGate DEF SInv, ScheduleTypeOK, StartTypeOK, WindowsSound, AdmitNext, AdmissionStep,
                      CollectAdmission, scheduleVars
  <1>2. Cursor' = Cursor
    BY <1>1 DEF Cursor, Last
  <1>3. CASE AdmitNext(w)
    <2> DEFINE o == Earliest(worker[w].todo)
    <2>1. /\ worker[w].todo \in SUBSET Due /\ worker[w].todo # {} /\ worker[w].through \in Nat
          /\ \A p \in worker[w].todo : p <= worker[w].through
      BY <1>1, <1>3 DEF AdmitNext, Worker, WindowSound
    <2>2. o \in worker[w].todo
      BY <2>1, EarliestLeft
    <2>3. op'[w].run = o
      BY <1>1, <1>3 DEF AdmitNext, Admit
    <2>4. UNCHANGED worker
      BY <1>3 DEF AdmitNext, scheduleVars
    <2> QED BY <1>1, <1>2, <2>2, <2>3, <2>4 DEF WindowSound
  <1>4. CASE AdmissionStep(w)
    <2>1. UNCHANGED worker /\ op[w].phase # "idle" /\ op'[w].run = op[w].run
      BY <1>4, AdmissionSteps DEF AdmissionStep, scheduleVars, SInv, GateSound
    <2> QED BY <1>1, <1>2, <2>1 DEF WindowSound
  <1>5. CASE CollectAdmission(w)
    <2>1. op'[w].phase = "idle"
      BY <1>1, <1>5 DEF CollectAdmission, Collect, IdleOperation
    <2>2. CASE RaiseToOwner(w)
      <3>1. worker'[w].phase = "owner"
        BY <1>1, <2>2, RaisedToOwner
      <3> QED BY <2>1, <3>1 DEF WindowSound
    <2>3. CASE Collected(w)
      <3>1. /\ worker'[w].phase = worker[w].phase /\ worker'[w].through = worker[w].through
            /\ worker'[w].todo \subseteq worker[w].todo
        <4>1. PICK b \in BOOLEAN : b = (op[w].reason \in Retryable)
          <5>1. (op[w].reason \in Retryable) \in BOOLEAN
            OBVIOUS
          <5> QED BY <5>1, Zenon
        <4>2. PICK x : x = CollectedFrom(worker[w], op[w].run, b)
          OBVIOUS
        <4>3. worker' = [worker EXCEPT ![w] = x]
          BY <2>3, <4>1, <4>2 DEF Collected, CollectedFrom
        <4>4. x.phase = worker[w].phase /\ x.through = worker[w].through
              /\ x.todo = worker[w].todo \ {op[w].run}
          BY <1>1, <4>2, CollectedWorker
        <4> QED BY <1>1, <4>3, <4>4
      <3> QED BY <1>1, <1>2, <2>1, <3>1 DEF WindowSound
    <2> QED BY <1>5, <2>2, <2>3 DEF CollectAdmission
  <1> QED BY <1>3, <1>4, <1>5

\* Every step keeps the windows.
LEMMA WindowsNext == SInv /\ WindowsSound /\ [Step]_vars => WindowsSound'
  <1> SUFFICES ASSUME SInv, WindowsSound, [Step]_vars PROVE WindowsSound'
    OBVIOUS
  <1>0. SInv'
    BY SInvNext
  <1>1. CASE UNCHANGED <<worker, op, states, startVars>>
    <2>1. clock' \in Nat /\ clock <= clock'
      <3>1. clock \in Nat /\ (clock' = clock \/ clock' = clock + 1)
        BY ClockSteps DEF SInv, ScheduleTypeOK
      <3> QED BY <3>1
    <2> QED BY <1>1, <2>1, WindowStays DEF WindowsSound
  <1>2. CASE StartService
    <2>1. \A w \in Callers : worker[w].phase \notin TickPhases
      BY <1>2 DEF SInv, LocalsSound, TickSound, StartService
    <2>2. \A w \in Callers : op[w].phase = "idle"
      BY <2>1, IdleAtGate DEF TickPhases
    <2> QED BY <1>2, <2>1, <2>2 DEF StartService, WindowsSound, WindowSound, TickPhases, startVars
  <1>3. ASSUME NEW w \in Callers, WorkerStep(w) PROVE WindowsSound'
    <2>1. CASE Tick(w) \/ Poll(w) \/ AdmitNext(w) \/ AdmissionStep(w) \/ CollectAdmission(w)
      BY <1>3, <2>1, OtherWindows, TickOpens, PollSelects, AdmissionInWindow DEF WindowsSound
    <2>2. CASE ~(Tick(w) \/ Poll(w) \/ AdmitNext(w) \/ AdmissionStep(w) \/ CollectAdmission(w))
      <3>1. worker'[w].phase \notin {"ticking", "polling"}
        <4>1. worker \in [Callers -> Worker] /\ worker[w] \in Worker
          BY DEF SInv, ScheduleTypeOK
        <4>2. RaiseToOwner(w) => worker'[w].phase = "owner"
          BY <4>1, RaisedToOwner
        <4>3. OutWorker.phase = "out"
          BY OutWorkerRecord
        <4> QED BY <1>3, <2>2, <4>1, <4>2, <4>3
              DEF WorkerStep, Acquire, RecordRefusal, RecordLease, RecordOwnership, Release,
                  Unlock, RenewLease, RecordRenewal, Commit, Report, Kill, Become,
                  RaiseFromAcquire, Worker
      <3>2. op'[w].phase = "idle"
        BY <1>0, <3>1 DEF SInv, OpsIdle
      <3> QED BY <1>3, <3>1, <3>2, OtherWindows DEF WindowsSound, WindowSound
    <2> QED BY <2>1, <2>2
  <1> QED BY <1>1, <1>2, <1>3 DEF Step, PassTime, RevisePolicy, vars, scheduleVars, startVars

\* The cursors on record: the last is where the service stands.
LEMMA CursorsRecorded ==
  ASSUME ScheduleTypeOK
  PROVE  /\ Cursors = <<>> <=> states = <<>>
         /\ Cursors \in Seq(Nat)
         /\ states # <<>> => Occurrences!CursorNow = Cursor /\ Cursor \in Nat
  <1>1. states \in Seq(StateRow) /\ \A i \in DOMAIN states : states[i].cursor \in Nat
    <2>1. \A i \in DOMAIN states : states[i] \in StateRow
      BY DEF ScheduleTypeOK
    <2> QED BY <2>1 DEF StateRow, ScheduleTypeOK
  <1>2. PICK n \in Nat : n = Len(states) /\ DOMAIN states = 1..n
    BY <1>1
  <1>3. Cursors \in [1..n -> Nat]
    BY <1>1, <1>2 DEF Cursors
  <1>4. Cursors \in Seq(Nat) /\ Len(Cursors) = n
    BY <1>2, <1>3
  <1>5. states # <<>> => n \in 1..n
    BY <1>1, <1>2
  <1>6. states # <<>> => Cursors[n] = Cursor /\ Cursor \in Nat
    BY <1>1, <1>2, <1>5 DEF Cursors, Cursor, Last
  <1> QED BY <1>1, <1>2, <1>4, <1>6 DEF Occurrences!CursorNow

\* A state row adds its cursor.
LEMMA CursorsAppended ==
  ASSUME ScheduleTypeOK, NEW row \in StateRow, states' = Append(states, row)
  PROVE  Cursors' = Append(Cursors, row.cursor)
  <1>1. PICK n \in Nat : n = Len(states) /\ DOMAIN states = 1..n /\ states \in Seq(StateRow)
    BY DEF ScheduleTypeOK
  <1>2. /\ DOMAIN states' = 1..(n + 1) /\ states'[n + 1] = row
        /\ \A i \in 1..n : states'[i] = states[i]
    BY <1>1
  <1>3. Cursors \in Seq(Nat) /\ Len(Cursors) = n
    <2>1. Cursors \in Seq(Nat)
      BY CursorsRecorded
    <2>2. DOMAIN Cursors = 1..n
      BY <1>1 DEF Cursors
    <2> QED BY <1>1, <2>1, <2>2
  <1>4. row.cursor \in Nat
    BY DEF StateRow
  <1>5. /\ DOMAIN Append(Cursors, row.cursor) = 1..(n + 1)
        /\ Append(Cursors, row.cursor)[n + 1] = row.cursor
        /\ \A i \in 1..n : Append(Cursors, row.cursor)[i] = Cursors[i]
        /\ Append(Cursors, row.cursor)
             = [i \in 1..(n + 1) |-> Append(Cursors, row.cursor)[i]]
    BY <1>1, <1>3, <1>4
  <1>6. Cursors' = [i \in 1..(n + 1) |-> states'[i].cursor]
    BY <1>2 DEF Cursors
  <1>7. \A i \in 1..(n + 1) : states'[i].cursor = Append(Cursors, row.cursor)[i]
    <2>1. \A i \in 1..n : Cursors[i] = states[i].cursor
      BY <1>1 DEF Cursors
    <2>2. \A i \in 1..(n + 1) : i \in 1..n \/ i = n + 1
      BY <1>1
    <2> QED BY <1>2, <1>5, <2>1, <2>2
  <1> QED BY <1>5, <1>6, <1>7

\* A step that moves neither cursor, clock, claims, journals nor refusals.
LEMMA NothingDecided ==
  ASSUME UNCHANGED <<latestOnly, clock, states, triggerClaims, journal, rejected>>
  PROVE  [Occurrences!CNext]_Occurrences!cVars
  BY DEF Occurrences!cVars, Cursors, Started

\* The occurrence of an admission under way is open.
LEMMA AdmissionOpen ==
  ASSUME SInv, WindowsSound, NEW w \in Callers, op[w].phase # "idle"
  PROVE  /\ op[w].run \in Occurrences!Open
         /\ op[w].run = op[w].trigger /\ op[w].run \in Due /\ op[w].use = "admit"
  <1>1. /\ worker[w] \in Worker /\ worker[w].phase = "polling" /\ states # <<>>
        /\ op[w].run \in worker[w].todo /\ clock \in Nat /\ ScheduleTypeOK
    BY IdleAtGate
       DEF SInv, WindowsSound, WindowSound, LocalsSound, TickSound, TickPhases, ScheduleTypeOK
  <1>2. PICK t \in Nat : t = worker[w].through
    BY <1>1 DEF Worker
  <1>3. PICK o \in Nat : o = op[w].run /\ o \in Due
    BY <1>1, OccurrenceAssumption DEF Worker
  <1>4. Cursor < o /\ o <= t /\ t <= clock /\ t <= Cursor + MaxTick
    BY <1>1, <1>2, <1>3 DEF WindowsSound, WindowSound
  <1>5. Cursors # <<>> /\ Occurrences!CursorNow = Cursor /\ Cursor \in Nat /\ MaxTick \in Nat
    BY <1>1, CursorsRecorded, ScheduleAssumption
  <1>6. o \in 0..clock /\ Cursor < o /\ o <= Cursor + MaxTick
    BY <1>1, <1>2, <1>3, <1>4, <1>5
  <1>7. o \in Occurrences!Open
    BY <1>3, <1>5, <1>6 DEF Occurrences!Open, Occurrences!Windows
  <1> QED BY <1>3, <1>7 DEF SInv, GateSound, Paired

\* Of the starts only that of an admission's own occurrence is new.
LEMMA StartsOfRun ==
  ASSUME GateSound, NEW w \in Callers, Proceed(w), op[w].use = "admit"
  PROVE  /\ Started \subseteq Started'
         /\ Started' \subseteq Started \union {op[w].run}
         /\ Started' # Started => StartAppend(w)
  <1>1. /\ StartInv /\ JournalGrows /\ journal \in [RunId -> Seq(Row)]
        /\ op[w].run \in RunId /\ op[w].trigger \in Trigger /\ op[w] \in Operation
    <2>1. op[w].phase # "idle"
      BY AdmissionSteps DEF GateSound
    <2> QED BY <2>1, JournalSteps
         DEF GateSound, StartInv, StartTypeInv, StartTypeOK, OpInv, Pinned
  <1>2. Started \subseteq Started'
    BY <1>1, OccurrenceAssumption DEF JournalGrows, Started
  <1>3. Started' \subseteq Started \union {op[w].run}
    <2>1. \A r \in Due : r # op[w].run => journal'[r] = journal[r]
      BY <1>1, RowsOfRun, OccurrenceAssumption
    <2> QED BY <2>1 DEF Started
  <1>4. ASSUME ~StartAppend(w) PROVE Started' = Started
    <2>1. CASE UNCHANGED journal
      BY <2>1 DEF Started
    <2>2. CASE MoveAppend(w) /\ ~UNCHANGED journal
      <3> DEFINE r == op[w].run
      <3>1. PICK row : row.trigger = NoTrigger /\ journal' = [journal EXCEPT ![r] = Append(@, row)]
                       /\ row \in Row
        <4> DEFINE new == [sequence |-> op[w].seen, terminal |-> op[w].terminal,
                           trigger |-> NoTrigger]
        <4>1. new.trigger = NoTrigger /\ new \in Row
          BY <1>1 DEF Row, Operation
        <4>2. journal' = [journal EXCEPT ![r] = Append(@, new)]
          BY <2>2 DEF MoveAppend
        <4> HIDE DEF new
        <4> QED BY <4>1, <4>2
      <3>2. ASSUME NEW t \in Trigger PROVE Starts(t, journal'[r]) = Starts(t, journal[r])
        <4>1. /\ journal[r] \in Seq(Row) /\ journal'[r] = Append(journal[r], row)
          BY <1>1, <3>1
        <4>2. \A i \in DOMAIN journal'[r] :
                \/ i \in DOMAIN journal[r] /\ journal'[r][i] = journal[r][i]
                \/ journal'[r][i] = row
          BY <3>1, <4>1
        <4>3. \A i \in DOMAIN journal[r] : i \in DOMAIN journal'[r] /\ journal'[r][i] = journal[r][i]
          BY <3>1, <4>1
        <4>4. row.trigger # t
          BY <3>1, RequestAssumption
        <4> QED BY <4>2, <4>3, <4>4 DEF Starts
      <3>3. r \in Started' <=> r \in Started
        BY <1>1, <3>2, OccurrenceAssumption DEF Started
      <3> QED BY <1>2, <1>3, <3>3
    <2> QED BY <1>1, <1>4, <2>1, <2>2, JournalSteps
  <1> QED BY <1>2, <1>3, <1>4

\* A step of an admission takes its occurrence, starts it, or decides nothing.
LEMMA AdmissionDecides ==
  ASSUME SInv, WindowsSound, NEW w \in Callers, AdmissionStep(w)
  PROVE  [Occurrences!CNext]_Occurrences!cVars
  <1> DEFINE o == op[w].run
  <1>1. /\ Proceed(w) /\ GateSound /\ UNCHANGED <<latestOnly, clock, states, rejected>>
    BY DEF AdmissionStep, SInv, scheduleVars
  <1>2. /\ op[w].phase # "idle" /\ op[w].use = "admit" /\ o = op[w].trigger
        /\ o \in Occurrences!Open /\ o \in Due
        /\ op[w].phase \notin {"undeduping", "conflict", "unconflicted"}
    BY <1>1, AdmissionSteps, AdmissionOpen DEF GateSound, NothingGivenUp
  <1>3. UNCHANGED Cursors
    BY <1>1 DEF Cursors
  <1>4. CASE triggerClaims' # triggerClaims
    <2>1. op[w].phase = "unclaimed"
      BY <1>1, <1>2, <1>4, AdmissionSteps DEF GateSound
    <2>2. ClaimTrigger(w) /\ ~StartAppend(w)
      BY <1>1, <1>4, <2>1
         DEF Proceed, ClaimTrigger, ClaimRun, ReleaseTrigger, StartCheck, StartLoad, StartAppend,
             FirstAdvance, MoveLoad, MoveAppend, ReleaseRun, ReleaseConflict, Record
    <2>3. o \notin triggerClaims /\ triggerClaims' = triggerClaims \union {o}
      BY <1>2, <1>4, <2>2 DEF ClaimTrigger
    <2>4. UNCHANGED Started
      BY <1>1, <1>2, <2>2, StartsOfRun
    <2>5. Occurrences!Take(o)
      BY <1>1, <1>3, <2>3, <2>4 DEF Occurrences!Take
    <2> QED BY <1>2, <2>5 DEF Occurrences!CNext
  <1>5. CASE triggerClaims' = triggerClaims /\ Started' # Started
    <2>1. StartAppend(w) /\ Started' = Started \union {o} /\ o \notin Started
      BY <1>1, <1>2, <1>5, StartsOfRun
    <2>2. HoldsTrigger(op[w])
      BY <1>2, <2>1 DEF StartAppend, HoldsTrigger, TriggerHeldPhases
    <2>3. o \in triggerClaims
      BY <1>1, <1>2, <2>2 DEF GateSound, StartInv, Reservations, TriggersHeld
    <2>4. Occurrences!Start(o)
      BY <1>1, <1>3, <1>5, <2>1, <2>3 DEF Occurrences!Start
    <2> QED BY <1>2, <2>4 DEF Occurrences!CNext
  <1>6. CASE triggerClaims' = triggerClaims /\ Started' = Started
    BY <1>1, <1>3, <1>6 DEF Occurrences!cVars
  <1> QED BY <1>4, <1>5, <1>6

\* The answer that an occurrence is refused refuses it; any other decides nothing.
LEMMA AnswerDecides ==
  ASSUME SInv, WindowsSound, NEW w \in Callers, CollectAdmission(w)
  PROVE  [Occurrences!CNext]_Occurrences!cVars
  <1>1. /\ op[w].phase # "idle"
        /\ UNCHANGED <<latestOnly, clock, states, triggerClaims, journal>>
        /\ rejected' = rejected \/ rejected' = rejected \union {op[w].run}
    BY DEF CollectAdmission, Collected, Collect
  <1>2. op[w].run \in Occurrences!Open
    BY <1>1, AdmissionOpen
  <1>3. UNCHANGED <<Cursors, Started>>
    BY <1>1 DEF Cursors, Started
  <1>4. CASE rejected' = rejected
    BY <1>1, <1>4, NothingDecided
  <1>5. CASE rejected' = rejected \union {op[w].run}
    <2>1. Occurrences!Refuse(op[w].run)
      BY <1>1, <1>3, <1>5 DEF Occurrences!Refuse
    <2> QED BY <1>2, <2>1 DEF Occurrences!CNext
  <1> QED BY <1>1, <1>4, <1>5

\* A committed poll holds the window or moves the cursor past settled occurrences.
LEMMA CommitDecides ==
  ASSUME SInv, WindowsSound, NEW w \in Callers, Commit(w)
  PROVE  [Occurrences!CNext]_Occurrences!cVars
  <1>1. /\ worker[w] \in Worker /\ worker[w].phase = "polling" /\ worker[w].todo = {}
        /\ TickSound(worker[w]) /\ WindowSound(w) /\ ScheduleTypeOK
        /\ UNCHANGED <<startVars, latestOnly, clock, rejected>>
    BY IdleAtGate DEF Commit, SInv, LocalsSound, WindowsSound
  <1>2. /\ states # <<>> /\ worker[w].seen = Len(states)
        /\ worker[w].blocked \/ Selected(Cursor, worker[w].through) \subseteq triggerClaims \union rejected
    BY <1>1 DEF TickSound, TickPhases
  <1>3. PICK t \in Nat : t = worker[w].through
    BY <1>1 DEF Worker
  <1>4. /\ Cursors # <<>> /\ Occurrences!CursorNow = Cursor /\ Cursor \in Nat
        /\ MaxTick \in Nat /\ clock \in Nat /\ Len(states) \in Nat
    BY <1>1, <1>2, CursorsRecorded, ScheduleAssumption DEF ScheduleTypeOK
  <1>5. t \in Occurrences!Windows
    <2>1. Cursor < t /\ t <= clock /\ t <= Cursor + MaxTick
      BY <1>1, <1>3 DEF WindowSound
    <2> QED BY <1>3, <1>4, <2>1 DEF Occurrences!Windows
  <1>6. UNCHANGED <<triggerClaims, Started>>
    BY <1>1 DEF startVars, Started
  <1>7. CASE UNCHANGED states
    BY <1>1, <1>7, NothingDecided DEF startVars
  <1>8. CASE states' # states
    <2>1. PICK c \in Nat : /\ states' = Append(states, [sequence |-> Len(states), cursor |-> c])
                           /\ c = IF worker[w].blocked THEN Cursor ELSE t
      BY <1>2, <1>3, <1>4, <1>8 DEF Commit, Cursor, Last
    <2>2. PICK row \in StateRow : row = [sequence |-> Len(states), cursor |-> c]
      BY <1>4 DEF StateRow
    <2>3. Cursors' = Append(Cursors, c)
      BY <1>1, <2>1, <2>2, CursorsAppended
    <2>4. CASE worker[w].blocked
      <3>1. Occurrences!Hold
        BY <1>1, <1>4, <1>6, <2>1, <2>3, <2>4 DEF Occurrences!Hold
      <3> QED BY <3>1 DEF Occurrences!CNext
    <2>5. CASE ~worker[w].blocked
      <3>1. Occurrences!Selection(Cursor, t) \subseteq triggerClaims \union rejected
        BY <1>2, <1>3, <2>5 DEF Occurrences!Selection, Selected
      <3>2. Occurrences!Advance
        BY <1>1, <1>4, <1>5, <1>6, <2>1, <2>3, <2>5, <3>1 DEF Occurrences!Advance
      <3> QED BY <3>2 DEF Occurrences!CNext
    <2> QED BY <2>4, <2>5
  <1> QED BY <1>7, <1>8

\* Every step decides about one open occurrence, moves the cursor or the clock,
\* or decides nothing.
LEMMA StepDecides ==
  ASSUME SInv, WindowsSound, [Step]_vars
  PROVE  [Occurrences!CNext]_Occurrences!cVars
  <1>1. CASE PassTime
    <2>1. UNCHANGED <<latestOnly, Cursors, triggerClaims, Started, rejected>> /\ clock' = clock + 1
      BY <1>1 DEF PassTime, startVars, Cursors, Started
    <2>2. Occurrences!PassTime
      BY <2>1 DEF Occurrences!PassTime
    <2> QED BY <2>2 DEF Occurrences!CNext
  <1>2. CASE StartService
    <2>1. PICK c \in FirstCursors : states = <<>> /\ states' = <<[sequence |-> 0, cursor |-> c]>>
      BY <1>2 DEF StartService
    <2>2. Cursors = <<>> /\ Cursors' = <<c>>
      <3>1. Cursors = <<>>
        BY <2>1, CursorsRecorded DEF SInv
      <3>2. DOMAIN states' = 1..1 /\ states'[1].cursor = c
        BY <2>1
      <3>3. Cursors' = [i \in 1..1 |-> c]
        BY <3>2 DEF Cursors
      <3>4. <<c>> = [i \in 1..1 |-> c]
        OBVIOUS
      <3> QED BY <3>1, <3>3, <3>4
    <2>3. UNCHANGED <<latestOnly, clock, triggerClaims, Started, rejected>>
      BY <1>2 DEF StartService, startVars, Started
    <2>4. Occurrences!Begin
      BY <2>2, <2>3 DEF Occurrences!Begin
    <2> QED BY <2>4 DEF Occurrences!CNext
  <1>3. CASE UNCHANGED vars \/ RevisePolicy
    BY <1>3, NothingDecided DEF vars, scheduleVars, startVars, RevisePolicy
  <1>4. ASSUME NEW w \in Callers, WorkerStep(w) PROVE [Occurrences!CNext]_Occurrences!cVars
    <2>1. CASE AdmissionStep(w) \/ CollectAdmission(w) \/ Commit(w)
      BY <2>1, AdmissionDecides, AnswerDecides, CommitDecides
    <2>2. CASE ~(AdmissionStep(w) \/ CollectAdmission(w) \/ Commit(w))
      <3>1. UNCHANGED <<latestOnly, clock, states, triggerClaims, journal, rejected>>
        BY <1>4, <2>2
           DEF WorkerStep, Acquire, RecordRefusal, RecordLease, RecordOwnership, Release, Unlock,
               RenewLease, RecordRenewal, Tick, Poll, AdmitNext, Admit, Report, Kill,
               KillOperation, startVars, scheduleVars
      <3> QED BY <3>1, NothingDecided
    <2> QED BY <2>1, <2>2
  <1> QED BY <1>1, <1>2, <1>3, <1>4 DEF Step

\* Whatever fails, is killed or takes over: each occurrence is decided while it
\* lies between the cursor and the clock, taken once, started once and after it
\* was taken, and the cursor passes none that is not settled.
THEOREM ImplementsCursorHolds == Spec => ImplementsCursor
  <1>1. Init => WindowsSound /\ Occurrences!CInit
    <2> SUFFICES ASSUME Init PROVE WindowsSound /\ Occurrences!CInit
      OBVIOUS
    <2>1. \A w \in Callers : worker[w].phase = "out" /\ op[w].phase = "idle"
      BY OutWorkerRecord DEF Init, StartInit, IdleOperation
    <2>2. WindowsSound
      BY <2>1, NoWindow DEF WindowsSound
    <2>3. Cursors = <<>>
      <3>1. SInv /\ states = <<>>
        BY SInvInit DEF Init
      <3> QED BY <3>1, CursorsRecorded DEF SInv
    <2>4. Started = {}
      BY OccurrenceAssumption DEF Init, StartInit, Started, Starts
    <2>5. latestOnly \in BOOLEAN /\ clock = 0 /\ triggerClaims = {} /\ rejected = {}
      BY ScheduleAssumption DEF Init, StartInit
    <2> QED BY <2>2, <2>3, <2>4, <2>5 DEF Occurrences!CInit
  <1>2. SInv /\ WindowsSound /\ [Step]_vars => [Occurrences!CNext]_Occurrences!cVars
    BY StepDecides
  <1> QED BY <1>1, <1>2, WindowsNext, ScheduleInvariant, PTL
          DEF Spec, ImplementsCursor, Occurrences!CSpec
=============================================================================
