------------------------------ MODULE MacroStart ------------------------------
(***************************************************************************)
(* Starting macro runs: the admission gate (phios/macro_start.py), the     *)
(* coordinator it calls (phios/macro_coordinator.py) and the run journal   *)
(* both write (phios/macro_journal.py).                                    *)
(*                                                                         *)
(* A start request pins one trigger to one run identity.  admit reserves   *)
(* the trigger and the run with two O_EXCL claim files, persists START and *)
(* the first transition, and records a receipt.  Nothing but those claims  *)
(* excludes two callers: a journal append is a check of the head followed  *)
(* by an unconditional append, so callers that start, advance or abort a   *)
(* run concurrently can fork its journal, which every later reader         *)
(* refuses.                                                                *)
(*                                                                         *)
(* Digests are the values they identify.  A journal entry's predecessor    *)
(* is determined by its sequence number, because the file only grows.      *)
(***************************************************************************)
EXTENDS Naturals, Sequences

CONSTANTS
  Callers,     \* processes over one state root
  RunId,       \* run identities
  Trigger,     \* trigger observations of one pinned plan (dedupe_sha256)
  Requests,    \* the start requests that may be made
  NoTrigger,   \* the trigger of a run started without the gate
  NoRun,       \* the run of an idle caller
  DirectRuns,  \* the runs some callers use without the gate
  Uses,        \* the operations callers use, see UseKinds
  Faults,      \* "io": an append, claim or release raises; "crash": a kill
  MaxEntries   \* no run is started or advanced beyond this many entries

\* admit: through the gate.  start, advance, abort: MacroRunCoordinator
\* called directly.
UseKinds == {"admit", "start", "advance", "abort"}

ASSUME RequestAssumption ==
  /\ Requests \subseteq [run : RunId, trigger : Trigger]
  /\ NoTrigger \notin Trigger /\ NoRun \notin RunId
  /\ DirectRuns \subseteq RunId
ASSUME UseAssumption == Uses \subseteq UseKinds
ASSUME StartFaultAssumption == Faults \subseteq {"io", "crash"}
ASSUME EntriesAssumption == MaxEntries \in Nat

\* What the policy and the request's scope make of a request before any
\* claim: the request does not match its observation or plan, the policy is
\* disabled, it does not allow the trigger's type or source, or it does.
Verdicts == {"mismatch", "disabled", "refused", "allowed"}

\* Why a receipt was recorded (RunStartReceipt.reason, the rejections as one).
Reasons ==
  {"rejected", "start_policy_disabled", "run_id_exists",
   "trigger_already_admitted", "run_id_claimed", "start_request_admitted"}

\* A journal row: its sequence number, whether its state is terminal, and the
\* trigger whose admission wrote it (not in the file; START rows only).
Row == [sequence : Nat, terminal : BOOLEAN, trigger : Trigger \union {NoTrigger}]

Phases ==
  {"idle", "unclaimed", "undeduping", "deduped", "claimed", "checked",
   "starting", "started", "moving", "appending", "conflict", "unconflicted",
   "recording", "answered", "raised"}

\* One caller's operation: its kind and phase, the request, the number of
\* journal rows it has seen, and the outcome.
Operation ==
  [use : UseKinds, phase : Phases, run : RunId \union {NoRun},
   trigger : Trigger \union {NoTrigger}, seen : Nat, terminal : BOOLEAN,
   reason : Reasons]

VARIABLES
  triggerClaims,  \* macro-start-dedupe-claims/*.claim
  runClaims,      \* macro-run-id-claims/*.claim
  journal,        \* macro-run-journal.jsonl, per run
  op              \* per caller: its current operation

startVars == <<triggerClaims, runClaims, journal, op>>

StartTypeOK ==
  /\ triggerClaims \subseteq Trigger
  /\ runClaims \subseteq RunId
  /\ journal \in [RunId -> Seq(Row)]
  /\ op \in [Callers -> Operation]

IdleOperation ==
  [use |-> "admit", phase |-> "idle", run |-> NoRun, trigger |-> NoTrigger,
   seen |-> 0, terminal |-> FALSE, reason |-> "rejected"]

StartInit ==
  /\ triggerClaims = {}
  /\ runClaims = {}
  /\ journal = [r \in RunId |-> <<>>]
  /\ op = [c \in Callers |-> IdleOperation]

-----------------------------------------------------------------------------
(* The run journal.                                                        *)

\* _load_and_validate refuses the journal: a sequence number twice, or a row
\* after a terminal state.
Broken(r) ==
  \E i \in DOMAIN journal[r] :
    \/ journal[r][i].sequence # i - 1
    \/ i > 1 /\ journal[r][i - 1].terminal

Rows(r) == Len(journal[r])

Ended(r) == Rows(r) > 0 /\ journal[r][Rows(r)].terminal

Goto(c, phase) == op' = [op EXCEPT ![c].phase = phase]

\* An exception leaves the operation; whatever it claimed or wrote stays.
Raise(c) == Goto(c, "raised")

Conclude(c, reason) ==
  op' = [op EXCEPT ![c].phase = "recording", ![c].reason = reason]

\* An append, a claim or a release fails with an OSError.
CanFail == "io" \in Faults

-----------------------------------------------------------------------------
(* MacroRunStartGate.admit                                                 *)

\* Scope and policy are judged on the arguments alone, then has_run validates
\* the run's journal.
Admit(c, request, verdict) ==
  /\ op[c].phase = "idle"
  /\ LET asked(phase, reason) ==
           [use |-> "admit", phase |-> phase, run |-> request.run,
            trigger |-> request.trigger, seen |-> 0, terminal |-> FALSE,
            reason |-> reason]
         answer(phase, reason) == op' = [op EXCEPT ![c] = asked(phase, reason)]
     IN  \/ verdict \in {"mismatch", "refused"} /\ answer("recording", "rejected")
         \/ verdict = "disabled" /\ answer("recording", "start_policy_disabled")
         \/ /\ verdict = "allowed" /\ Broken(request.run)
            /\ answer("raised", "rejected")
         \/ /\ verdict = "allowed" /\ ~Broken(request.run)
            /\ Rows(request.run) > 0
            /\ answer("recording", "run_id_exists")
         \/ /\ verdict = "allowed" /\ Rows(request.run) = 0
            /\ answer("unclaimed", "rejected")
  /\ UNCHANGED <<triggerClaims, runClaims, journal>>

\* Mutant: the trigger's claim file is opened without O_EXCL.
ClaimTriggerShared(c) ==
  /\ op[c].phase = "unclaimed"
  /\ triggerClaims' = triggerClaims \union {op[c].trigger}
  /\ Goto(c, "deduped")
  /\ UNCHANGED <<runClaims, journal>>

\* claim_macro_start_dedupe; an OSError after the create leaves the file.
ClaimTrigger(c) ==
  /\ op[c].phase = "unclaimed"
  /\ \/ /\ op[c].trigger \in triggerClaims
        /\ Conclude(c, "trigger_already_admitted")
        /\ UNCHANGED triggerClaims
     \/ /\ op[c].trigger \notin triggerClaims
        /\ triggerClaims' = triggerClaims \union {op[c].trigger}
        /\ Goto(c, "deduped") \/ (CanFail /\ Raise(c))
  /\ UNCHANGED <<runClaims, journal>>

\* Mutant: the run's claim file is opened without O_EXCL.
ClaimRunShared(c) ==
  /\ op[c].phase = "deduped"
  /\ runClaims' = runClaims \union {op[c].run}
  /\ Goto(c, "claimed")
  /\ UNCHANGED <<triggerClaims, journal>>

\* Mutant: a claimed run identity is answered like an existing run.
ClaimRunAsExisting(c) ==
  /\ op[c].phase = "deduped"
  /\ \/ /\ op[c].run \in runClaims
        /\ Conclude(c, "run_id_exists")
        /\ UNCHANGED runClaims
     \/ /\ op[c].run \notin runClaims
        /\ runClaims' = runClaims \union {op[c].run}
        /\ Goto(c, "claimed")
  /\ UNCHANGED <<triggerClaims, journal>>

\* claim_macro_run_id
ClaimRun(c) ==
  /\ op[c].phase = "deduped"
  /\ \/ /\ op[c].run \in runClaims
        /\ Goto(c, "undeduping")
        /\ UNCHANGED runClaims
     \/ /\ op[c].run \notin runClaims
        /\ runClaims' = runClaims \union {op[c].run}
        /\ Goto(c, "claimed") \/ (CanFail /\ Raise(c))
  /\ UNCHANGED <<triggerClaims, journal>>

\* Mutant: both claims are released when the run's could not be taken.
ReleaseTriggerAndRun(c) ==
  /\ op[c].phase = "undeduping"
  /\ triggerClaims' = triggerClaims \ {op[c].trigger}
  /\ runClaims' = runClaims \ {op[c].run}
  /\ Conclude(c, "run_id_claimed")
  /\ UNCHANGED journal

\* The run identity is taken: the trigger's claim is released.
ReleaseTrigger(c) ==
  /\ op[c].phase = "undeduping"
  /\ \/ /\ triggerClaims' = triggerClaims \ {op[c].trigger}
        /\ Conclude(c, "run_id_claimed")
     \/ CanFail /\ Raise(c) /\ UNCHANGED triggerClaims
  /\ UNCHANGED <<runClaims, journal>>

-----------------------------------------------------------------------------
(* MacroRunCoordinator.start_run                                           *)

\* start_run called without the gate.
StartDirectly(c, r) ==
  /\ "start" \in Uses
  /\ r \in DirectRuns
  /\ op[c].phase = "idle"
  /\ Rows(r) < MaxEntries
  /\ op' = [op EXCEPT ![c] = [use |-> "start", phase |-> "claimed", run |-> r,
                              trigger |-> NoTrigger, seen |-> 0,
                              terminal |-> FALSE, reason |-> "rejected"]]
  /\ UNCHANGED <<triggerClaims, runClaims, journal>>

\* has_run: an existing run is MacroRunCoordinatorContractError, which only
\* the gate handles; a journal that does not validate is another exception.
StartCheck(c) ==
  LET r == op[c].run
  IN  /\ op[c].phase = "claimed"
      /\ \/ Broken(r) /\ Raise(c)
         \/ /\ ~Broken(r) /\ Rows(r) > 0
            /\ IF op[c].use = "admit" THEN Goto(c, "conflict") ELSE Raise(c)
         \/ Rows(r) = 0 /\ Goto(c, "checked")
      /\ UNCHANGED <<triggerClaims, runClaims, journal>>

\* append_state of START reads the journal again: a run that exists by now is
\* MacroRunJournalContractError, which nobody handles.
StartLoad(c) ==
  /\ op[c].phase = "checked"
  /\ IF Rows(op[c].run) = 0 THEN Goto(c, "starting") ELSE Raise(c)
  /\ UNCHANGED <<triggerClaims, runClaims, journal>>

\* The START row.
StartAppend(c) ==
  LET r == op[c].run
  IN  /\ op[c].phase = "starting"
      /\ \/ /\ journal' = [journal EXCEPT ![r] =
                 Append(@, [sequence |-> 0, terminal |-> FALSE,
                            trigger |-> op[c].trigger])]
            /\ op' = [op EXCEPT ![c].phase = "started", ![c].seen = 1]
         \/ CanFail /\ Raise(c) /\ UNCHANGED journal
      /\ UNCHANGED <<triggerClaims, runClaims>>

\* start_run is done: the gate records STARTED, a direct caller has its run.
StartReturn(c) ==
  IF op[c].use = "admit" THEN Conclude(c, "start_request_admitted")
                         ELSE Goto(c, "answered")

\* runner.advance makes no progress, or reaches a pause or a terminal state.
FirstAdvance(c) ==
  /\ op[c].phase = "started"
  /\ \/ StartReturn(c)
     \/ \E terminal \in BOOLEAN :
          op' = [op EXCEPT ![c].phase = "moving", ![c].terminal = terminal]
  /\ UNCHANGED <<triggerClaims, runClaims, journal>>

\* advance_run and abort_run: reconstruct.  (An unreadable or empty journal
\* raises, and a terminal run is returned as it is: nothing changes.)
Reconstruct(c, r, terminal) ==
  /\ op[c].phase = "idle"
  /\ (IF terminal THEN {"advance", "abort"} ELSE {"advance"}) \intersect Uses # {}
  /\ r \in DirectRuns
  /\ ~Broken(r) /\ Rows(r) > 0 /\ ~Ended(r)
  /\ Rows(r) < MaxEntries
  /\ op' = [op EXCEPT ![c] = [use |-> "advance", phase |-> "moving", run |-> r,
                              trigger |-> NoTrigger, seen |-> Rows(r),
                              terminal |-> terminal, reason |-> "rejected"]]
  /\ UNCHANGED <<triggerClaims, runClaims, journal>>

\* Mutant: a moved journal head is handled like an existing run.
MoveLoadConflict(c) ==
  LET r == op[c].run
  IN  /\ op[c].phase = "moving"
      /\ IF ~Broken(r) /\ Rows(r) = op[c].seen /\ ~Ended(r)
         THEN Goto(c, "appending")
         ELSE IF op[c].trigger # NoTrigger THEN Goto(c, "conflict") ELSE Raise(c)
      /\ UNCHANGED <<triggerClaims, runClaims, journal>>

\* append_state reads the journal again and compares the expected head.
MoveLoad(c) ==
  LET r == op[c].run
  IN  /\ op[c].phase = "moving"
      /\ IF ~Broken(r) /\ Rows(r) = op[c].seen /\ ~Ended(r)
         THEN Goto(c, "appending") ELSE Raise(c)
      /\ UNCHANGED <<triggerClaims, runClaims, journal>>

MoveAppend(c) ==
  LET r == op[c].run
  IN  /\ op[c].phase = "appending"
      /\ \/ /\ journal' = [journal EXCEPT ![r] =
                 Append(@, [sequence |-> op[c].seen, terminal |-> op[c].terminal,
                            trigger |-> NoTrigger])]
            /\ StartReturn(c)
         \/ CanFail /\ Raise(c) /\ UNCHANGED journal
      /\ UNCHANGED <<triggerClaims, runClaims>>

-----------------------------------------------------------------------------
(* The end of an admission.                                                *)

\* The handler for MacroRunCoordinatorContractError: both claims go, the
\* run's first.
ReleaseRun(c) ==
  /\ op[c].phase = "conflict"
  /\ \/ runClaims' = runClaims \ {op[c].run} /\ Goto(c, "unconflicted")
     \/ CanFail /\ Raise(c) /\ UNCHANGED runClaims
  /\ UNCHANGED <<triggerClaims, journal>>

\* ... then the trigger's, then has_run decides between HELD and the raise.
ReleaseConflict(c) ==
  /\ op[c].phase = "unconflicted"
  /\ \/ /\ triggerClaims' = triggerClaims \ {op[c].trigger}
        /\ IF Broken(op[c].run) \/ Rows(op[c].run) = 0
           THEN Raise(c) ELSE Conclude(c, "run_id_exists")
     \/ CanFail /\ Raise(c) /\ UNCHANGED triggerClaims
  /\ UNCHANGED <<runClaims, journal>>

\* _record appends the receipt; nothing in the system reads it back.
Record(c) ==
  /\ op[c].phase = "recording"
  /\ Goto(c, "answered") \/ (CanFail /\ Raise(c))
  /\ UNCHANGED <<triggerClaims, runClaims, journal>>

\* The caller has the answer, or the exception, and may go on.
Collect(c) ==
  /\ op[c].phase \in {"answered", "raised"}
  /\ op' = [op EXCEPT ![c] = IdleOperation]
  /\ UNCHANGED <<triggerClaims, runClaims, journal>>

\* The caller's process is killed: claim files and journal rows stay.
KillOperation(c) ==
  /\ op' = [op EXCEPT ![c] = IdleOperation]
  /\ UNCHANGED <<triggerClaims, runClaims, journal>>

Crash(c) ==
  /\ "crash" \in Faults
  /\ op[c].phase # "idle"
  /\ KillOperation(c)

-----------------------------------------------------------------------------
\* The steps of an operation that has begun, up to its answer.
Proceed(c) ==
  \/ ClaimTrigger(c) \/ ClaimRun(c) \/ ReleaseTrigger(c)
  \/ StartCheck(c) \/ StartLoad(c) \/ StartAppend(c) \/ FirstAdvance(c)
  \/ MoveLoad(c) \/ MoveAppend(c)
  \/ ReleaseRun(c) \/ ReleaseConflict(c) \/ Record(c)

StartCaller(c) ==
  \/ /\ "admit" \in Uses
     /\ \E request \in Requests, verdict \in Verdicts : Admit(c, request, verdict)
  \/ \E r \in RunId : StartDirectly(c, r)
  \/ \E r \in RunId, terminal \in BOOLEAN : Reconstruct(c, r, terminal)
  \/ Proceed(c)
  \/ Collect(c)
  \/ Crash(c)

StartNext == \E c \in Callers : StartCaller(c)

StartSpec == StartInit /\ [][StartNext]_startVars
-----------------------------------------------------------------------------
(* What must hold.                                                         *)

\* Phases in which an admission holds its trigger's claim, and its run's.
TriggerHeldPhases ==
  {"undeduping", "deduped", "claimed", "checked", "starting", "conflict",
   "unconflicted"}
RunHeldPhases == {"claimed", "checked", "starting", "conflict"}

HoldsTrigger(o) == o.use = "admit" /\ o.phase \in TriggerHeldPhases
HoldsRun(o) == o.use = "admit" /\ o.phase \in RunHeldPhases

\* The rows of a run's journal that an admission of trigger t wrote.
Starts(t, rows) == {i \in DOMAIN rows : rows[i].trigger = t}

\* MACRO_RUNTIME_V0.8: the same observed event cannot start the same pinned
\* plan twice, whatever run identities are asked for, whoever else starts the
\* same runs and however often callers fail or are killed.
TriggerStartsOnce ==
  \A t \in Trigger, r, s \in RunId :
    \A i \in Starts(t, journal[r]), j \in Starts(t, journal[s]) : r = s /\ i = j

\* The trigger of an admission under way is claimed, and has started no run.
TriggersHeld ==
  \A c \in Callers : HoldsTrigger(op[c]) =>
    /\ op[c].trigger \in triggerClaims
    /\ \A r \in RunId : Starts(op[c].trigger, journal[r]) = {}

\* The run of an admission under way is claimed; no admission has started it.
RunsHeld ==
  \A c \in Callers : HoldsRun(op[c]) =>
    /\ op[c].run \in runClaims
    /\ \A t \in Trigger : Starts(t, journal[op[c].run]) = {}

\* No two admissions hold one trigger or one run.
HoldersDiffer ==
  \A c, d \in Callers : c # d =>
    /\ HoldsTrigger(op[c]) /\ HoldsTrigger(op[d]) => op[c].trigger # op[d].trigger
    /\ HoldsRun(op[c]) /\ HoldsRun(op[d]) => op[c].run # op[d].run

\* A trigger that started a run, and that run, stay claimed.
StartedStayClaimed ==
  \A t \in Trigger, r \in RunId :
    Starts(t, journal[r]) # {} => t \in triggerClaims /\ r \in runClaims

\* Claims, operations and journals agree, from the claims of admit to the
\* START row of the run journal and ever after.
Reservations == TriggersHeld /\ RunsHeld /\ HoldersDiffer /\ StartedStayClaimed

\* The answer STARTED is about a run whose START that trigger wrote, and the
\* answer that a run exists is about a run that does.
AnswersMatchRuns ==
  \A c \in Callers :
    op[c].use = "admit" /\ op[c].phase \in {"recording", "answered"} =>
      /\ op[c].reason = "start_request_admitted" =>
           Starts(op[c].trigger, journal[op[c].run]) # {}
      /\ op[c].reason = "run_id_exists" => Rows(op[c].run) > 0

\* The gate's two claims suffice: the journal of a run that every caller
\* reaches through the gate is never forked, whatever happens to the runs that
\* some callers use directly (macro_journal.py appends without a lock).
JournalsReadable == \A r \in RunId \ DirectRuns : ~Broken(r)

\* A reservation is given up only by the admission that made it: neither a
\* killed nor a failed caller's claim is ever taken over.
OnlyHoldersGiveUp ==
  [][/\ \A t \in triggerClaims \ triggerClaims' :
          \E c \in Callers : HoldsTrigger(op[c]) /\ op[c].trigger = t
     /\ \A r \in runClaims \ runClaims' :
          \E c \in Callers : HoldsRun(op[c]) /\ op[c].run = r]_startVars

\* MACRO_RUNTIME_V0.8: "If coordination fails before a run is created, both
\* claims are released."
CoordinationFailureReleases ==
  [][\A c \in Callers :
       /\ op[c].use = "admit"
       /\ op[c].phase \in {"claimed", "checked", "starting"}
       /\ op'[c].phase = "raised"
       => op[c].trigger \notin triggerClaims' /\ op[c].run \notin runClaims'
    ]_startVars
=============================================================================
