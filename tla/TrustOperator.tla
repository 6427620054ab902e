---------------------------- MODULE TrustOperator ----------------------------
(***************************************************************************)
(* phi-trust (phios/trust_operator.py): operators change the sealed        *)
(* execution manifest and the authority event history under one lock, with *)
(* a journal that recover replays, while mounted hosts read the manifest   *)
(* without the lock (phios/phivessel_local_execution.py).  Digests are the *)
(* records they are taken of.  An append that is cut short tears the       *)
(* receipt ledger.                                                         *)
(***************************************************************************)
EXTENDS AuthorityReplay, FiniteSets

CONSTANTS Operator,     \* phi-trust processes
          Host,         \* processes that mount the manifest
          Mapping,      \* versions of the mappings and lease policies
          FirstConfig,  \* the static configurations a manifest may begin with
          MaxCommit,    \* bound: mutations prepared
          MaxFault,     \* bound: calls that fail or are killed
          Tears,        \* whether a failing append may leave a partial line
          None          \* an absent file, lock or mount

VARIABLES manifest,     \* config/phivessel-execution.json
          events,       \* config/phivessel-authority-events.json
          journal,      \* config/phivessel-trust.pending.json
          receipts,     \* the receipt ids of the ledger, in order
          torn,         \* the receipt ledger holds a partial line
          lock,         \* the holder of the kernel lock
          call,         \* per operator: the step its call is at and its journal
          mount,        \* per host: what it froze when it mounted
          clock,        \* the wall clock
          prepared,     \* history: the journals that were written
          faults        \* the calls that failed or were killed

tFiles == <<manifest, events, journal, receipts, torn>>
tVars == <<manifest, events, journal, receipts, torn, lock, call, mount, clock,
           prepared, faults>>

Config == [enabled : BOOLEAN, desktop : BOOLEAN, mappings : Mapping]

ASSUME TrustBounds ==
  /\ IsFiniteSet(Permission)
  /\ MaxCommit \in Nat
  /\ MaxFault \in Nat
  /\ Tears \in BOOLEAN
  /\ FirstConfig \subseteq Config

Manifest == [config : Config, epoch : Epoch]
Operations == {"AUTHORITY_BOOTSTRAP", "AUTHORITY_GRANT", "AUTHORITY_REVOKE",
               "AUTHORITY_EPOCH_REFRESH", "EXECUTION_ENABLE", "EXECUTION_DISABLE"}

\* TrustMutationJournal: next_authority_state is the whole history, and the
\* appended event, when there is one, is its last.
Journal == [op : Operations, previous : Manifest, next : Manifest,
            events : Seq(Event) \union {None}, appends : BOOLEAN]

\* A file that is absent is no file, a lock that is free has no holder.
ASSUME NoneIsNothing ==
  /\ None \notin Operator
  /\ None \notin Seq(Event)
  /\ None \notin Journal

\* _receipt_for_journal: the identity of a journal's receipt.
ReceiptId(j) ==
  [op |-> j.op, previous |-> j.previous, next |-> j.next,
   event |-> IF j.appends THEN <<Len(j.events), j.events[Len(j.events)]>> ELSE <<>>]

Idle == [step |-> "idle", journal |-> None]

\* A step of _commit (after the journal was built) or of recover.
Steps == {"journal", "manifest", "events", "receipt", "unlink"}

TInit ==
  /\ \E c \in FirstConfig, g \in SUBSET Permission, n \in {Never} \union (Time \ {0}) :
       manifest = [config |-> c,
                   epoch |-> [at |-> 0, log |-> <<>>, grants |-> g, next |-> n]]
  /\ events = None
  /\ journal = None
  /\ receipts = <<>>
  /\ torn = FALSE
  /\ lock = None
  /\ call = [o \in Operator |-> Idle]
  /\ mount = [h \in Host |-> None]
  /\ clock = 0
  /\ prepared = <<>>
  /\ faults = 0

(***************************************************************************)
(* The commands: each checks, under the lock, that nothing is pending and  *)
(* that the history materializes the manifest, and builds a journal.       *)
(***************************************************************************)

\* _validate_state_against_manifest.
Materializes(log) == manifest.epoch = EpochOf(log, manifest.epoch.at)

\* Mutant: the command does not take the lock.
OpensUnlocked(o) ==
  /\ journal = None
  /\ call[o] = Idle
  /\ Len(prepared) < MaxCommit

\* _exclusive_lock and _require_no_pending_journal, before anything is read.
Opens(o) ==
  /\ lock = None
  /\ journal = None
  /\ call[o] = Idle
  /\ Len(prepared) < MaxCommit

\* The lock is held and _commit has built its journal.
Open(o, op, next, log, appends) ==
  /\ lock' = o
  /\ call' = [call EXCEPT ![o] =
       [step |-> "journal",
        journal |-> [op |-> op, previous |-> manifest, next |-> next,
                     events |-> log, appends |-> appends]]]
  /\ UNCHANGED <<tFiles, mount, clock, prepared, faults>>

AtEpoch(e) == [manifest EXCEPT !.epoch = e]

\* The baseline of a bootstrap: one grant without expiry per permission.
Baseline(g, t) ==
  LET order == CHOOSE f \in [1..Cardinality(g) -> g] :
                 \A p \in g : \E i \in 1..Cardinality(g) :
                   \A j \in 1..Cardinality(g) : f[j] = p <=> j = i
  IN  [i \in 1..Cardinality(g) |->
         [kind |-> "grant", permission |-> order[i], at |-> t, until |-> Never]]

Bootstrap(o) ==
  LET log == Baseline(manifest.epoch.grants, manifest.epoch.at)
  IN  /\ events = None
      /\ manifest.epoch.next = Never
      /\ clock >= manifest.epoch.at
      /\ Open(o, "AUTHORITY_BOOTSTRAP", AtEpoch(EpochOf(log, clock)), log, FALSE)

\* Mutant: the clock may be behind the epoch.
ReplayableAnyTime == events # None /\ Materializes(events)

\* The preamble of every command that replays the kept history.
Replayable ==
  /\ events # None
  /\ Materializes(events)
  /\ clock >= manifest.epoch.at

\* _authority_mutation: one event is appended and observed at its own instant.
AppendEvent(o, op, e) ==
  LET log == Append(events, e)
  IN  Open(o, op, AtEpoch(EpochOf(log, clock)), log, TRUE)

Grant(o, p, until) ==
  /\ Replayable
  /\ p \notin Granted(events, clock)
  /\ until > clock
  /\ AppendEvent(o, "AUTHORITY_GRANT",
       [kind |-> "grant", permission |-> p, at |-> clock, until |-> until])

Revoke(o, p) ==
  /\ Replayable
  /\ p \in Granted(events, clock)
  /\ AppendEvent(o, "AUTHORITY_REVOKE",
       [kind |-> "revoke", permission |-> p, at |-> clock, until |-> Never])

RefreshEpoch(o) ==
  /\ Replayable
  /\ Open(o, "AUTHORITY_EPOCH_REFRESH", AtEpoch(EpochOf(events, clock)), events, FALSE)

SetExecutionEnabled(o, on) ==
  /\ ~(manifest.config.enabled = on /\ manifest.config.desktop = on)
  /\ events # None => Materializes(events)
  /\ Open(o, IF on THEN "EXECUTION_ENABLE" ELSE "EXECUTION_DISABLE",
          [manifest EXCEPT !.config.enabled = on, !.config.desktop = on],
          events, FALSE)

\* Mutant: recover rolls the manifest back.
RecoverBack(o) ==
  /\ lock = None
  /\ call[o] = Idle
  /\ journal # None
  /\ manifest \in {journal.previous, journal.next}
  /\ lock' = o
  /\ call' = [call EXCEPT ![o] =
       [step |-> "manifest", journal |-> [journal EXCEPT !.next = journal.previous]]]
  /\ UNCHANGED <<tFiles, mount, clock, prepared, faults>>

\* recover replays the pending journal if the manifest is one of its two.
Recover(o) ==
  /\ lock = None
  /\ call[o] = Idle
  /\ journal # None
  /\ manifest \in {journal.previous, journal.next}
  /\ lock' = o
  /\ call' = [call EXCEPT ![o] = [step |-> "manifest", journal |-> journal]]
  /\ UNCHANGED <<tFiles, mount, clock, prepared, faults>>

(***************************************************************************)
(* The steps of _commit, the last four of which recover repeats.  Each     *)
(* file is replaced atomically; the call may fail or be killed before any. *)
(***************************************************************************)

At(o, s) == call[o].step = s
\* Mutant: a call goes on with the pending file it finds.
MoveToFound(o, s) == call' = [call EXCEPT ![o] = [step |-> s, journal |-> journal]]
MoveTo(o, s) == call' = [call EXCEPT ![o].step = s]
Return(o) == call' = [call EXCEPT ![o] = Idle] /\ lock' = None

WriteJournal(o) ==
  /\ At(o, "journal")
  /\ journal' = call[o].journal
  /\ prepared' = Append(prepared, call[o].journal)
  /\ MoveTo(o, "manifest")
  /\ UNCHANGED <<manifest, events, receipts, torn, lock, mount, clock, faults>>

WriteManifest(o) ==
  /\ At(o, "manifest")
  /\ manifest' = call[o].journal.next
  /\ MoveTo(o, "events")
  /\ UNCHANGED <<events, journal, receipts, torn, lock, mount, clock, prepared, faults>>

WriteEvents(o) ==
  /\ At(o, "events")
  /\ events' = IF call[o].journal.events = None THEN events ELSE call[o].journal.events
  /\ MoveTo(o, "receipt")
  /\ UNCHANGED <<manifest, journal, receipts, torn, lock, mount, clock, prepared, faults>>

\* Mutant: the receipt is appended without a look at the ledger.
WriteReceiptAgain(o) ==
  /\ At(o, "receipt")
  /\ ~torn
  /\ receipts' = Append(receipts, ReceiptId(call[o].journal))
  /\ MoveTo(o, "unlink")
  /\ UNCHANGED <<manifest, events, journal, torn, lock, mount, clock, prepared, faults>>

\* _append_jsonl_once, over a ledger every line of which parses.
WriteReceipt(o) ==
  /\ At(o, "receipt")
  /\ ~torn
  /\ LET r == ReceiptId(call[o].journal)
     IN  receipts' = IF \E i \in DOMAIN receipts : receipts[i] = r
                     THEN receipts ELSE Append(receipts, r)
  /\ MoveTo(o, "unlink")
  /\ UNCHANGED <<manifest, events, journal, torn, lock, mount, clock, prepared, faults>>

\* "trust receipt ledger contains invalid JSON".
RefuseReceipt(o) ==
  /\ At(o, "receipt")
  /\ torn
  /\ Return(o)
  /\ UNCHANGED <<tFiles, mount, clock, prepared, faults>>

Unlink(o) ==
  /\ At(o, "unlink")
  /\ journal' = None
  /\ Return(o)
  /\ UNCHANGED <<manifest, events, receipts, torn, mount, clock, prepared, faults>>

\* An OSError of a step, or the death of the process.
Fail(o) ==
  /\ call[o] # Idle
  /\ faults < MaxFault
  /\ faults' = faults + 1
  /\ Return(o)
  /\ UNCHANGED <<tFiles, mount, clock, prepared>>

\* The append of a receipt is cut short.
Tear(o) ==
  /\ Tears
  /\ At(o, "receipt")
  /\ ~torn
  /\ faults < MaxFault
  /\ torn' = TRUE
  /\ faults' = faults + 1
  /\ Return(o)
  /\ UNCHANGED <<manifest, events, journal, receipts, mount, clock, prepared>>

(***************************************************************************)
(* The hosts, the wall clock and the editor of the mappings.               *)
(***************************************************************************)

\* build_local_execution_mount: the static configuration and the Spine's
\* permissions are frozen.
Mount(h) ==
  /\ mount[h] = None
  /\ manifest.config.enabled
  /\ manifest.config.desktop
  /\ mount' = [mount EXCEPT ![h] =
       [config |-> manifest.config, grants |-> manifest.epoch.grants]]
  /\ UNCHANGED <<tFiles, lock, call, clock, prepared, faults>>

\* The host's process ends.
Unmount(h) ==
  /\ mount[h] # None
  /\ mount' = [mount EXCEPT ![h] = None]
  /\ UNCHANGED <<tFiles, lock, call, clock, prepared, faults>>

\* ManifestAuthorityEpochProvider.current answers the live epoch.
Answers(h) ==
  /\ mount[h] # None
  /\ manifest.config.enabled
  /\ manifest.config = mount[h].config

\* A lease for p is current and the Spine lets it through.
MayUse(h, p) ==
  /\ Answers(h)
  /\ manifest.epoch.at <= clock /\ clock < manifest.epoch.next
  /\ p \in manifest.epoch.grants
  /\ p \in mount[h].grants

\* The wall clock moves, forwards or back.
SetClock ==
  /\ clock' \in Time
  /\ clock' # clock
  /\ UNCHANGED <<tFiles, lock, call, mount, prepared, faults>>

\* A person reseals the manifest with other mappings between two commands.
EditMappings ==
  /\ lock = None
  /\ \E m \in Mapping : manifest' = [manifest EXCEPT !.config.mappings = m]
  /\ manifest' # manifest
  /\ UNCHANGED <<events, journal, receipts, torn, lock, call, mount, clock,
                 prepared, faults>>

Command(o) ==
  \/ /\ Opens(o)
     /\ \/ Bootstrap(o)
        \/ \E p \in Permission, u \in Time \union {Never} : Grant(o, p, u)
        \/ \E p \in Permission : Revoke(o, p)
        \/ RefreshEpoch(o)
        \/ \E on \in BOOLEAN : SetExecutionEnabled(o, on)
  \/ Recover(o)

Step(o) ==
  \/ WriteJournal(o) \/ WriteManifest(o) \/ WriteEvents(o)
  \/ WriteReceipt(o) \/ RefuseReceipt(o) \/ Unlink(o)
  \/ Fail(o) \/ Tear(o)

TNext ==
  \/ \E o \in Operator : Command(o) \/ Step(o)
  \/ \E h \in Host : Mount(h) \/ Unmount(h)
  \/ SetClock
  \/ EditMappings

TSpec == TInit /\ [][TNext]_tVars

(***************************************************************************)
(* Properties.                                                             *)
(***************************************************************************)

CallState == {Idle} \union [step : Steps, journal : Journal]
MountState == {None} \union [config : Config, grants : SUBSET Permission]

\* The kinds of the variables; a call's journal is there while it runs.
TrustTypeOK ==
  /\ manifest \in Manifest
  /\ events \in Seq(Event) \union {None}
  /\ journal \in Journal \union {None}
  /\ torn \in BOOLEAN
  /\ lock \in Operator \union {None}
  /\ call \in [Operator -> CallState]
  /\ mount \in [Host -> MountState]
  /\ clock \in Time

\* Whenever nothing is pending, the kept history materializes the manifest:
\* no crash, failure, refused append or recovery leaves the two apart.
HistoryMaterializes ==
  journal = None /\ events # None => Materializes(events)

\* A mutation that stopped anywhere leaves a manifest that recover accepts,
\* unless somebody edited the mappings meanwhile.
PendingRecoverable ==
  journal # None =>
    \/ manifest \in {journal.previous, journal.next}
    \/ manifest.config.mappings # journal.next.config.mappings

\* The history that the last journal, or else the file, holds.
KeptHistory == IF journal = None THEN events ELSE journal.events

\* The grants that project computes, event by event, are those of the last
\* applied event of each permission, on every history kept, at every instant.
ReplayAgrees ==
  KeptHistory # None =>
    \A t \in Time : Projected(KeptHistory, t) = Granted(KeptHistory, t)

Prefix(s, t) == Len(s) <= Len(t) /\ \A i \in 1..Len(s) : s[i] = t[i]

\* What a mounted host may use at this instant is what the replay of the
\* events its epoch was built of grants at this instant, and those events
\* are a prefix of the kept history: expiry needs no refresh, and neither a
\* half-written change nor a clock set back revives a permission.
LiveAuthority ==
  \A h \in Host, p \in Permission :
    MayUse(h, p) /\ events # None =>
      /\ p \in Granted(manifest.epoch.log, clock)
      /\ Prefix(manifest.epoch.log, KeptHistory)

\* An event that was appended has exactly one receipt once nothing is
\* pending, however often its commit was interrupted and recovered.
EventsReceipted ==
  journal = None =>
    \A i \in DOMAIN prepared :
      prepared[i].appends =>
        Cardinality({r \in DOMAIN receipts :
                       receipts[r] = ReceiptId(prepared[i])}) = 1

\* Only a journalled grant adds a permission to the live epoch.
OnlyGrantsAdd ==
  [][\A p \in Permission :
       p \in manifest'.epoch.grants \ manifest.epoch.grants =>
         /\ journal # None
         /\ journal.op = "AUTHORITY_GRANT"
         /\ journal.events[Len(journal.events)].permission = p]_tVars

\* With the pending journal counted as done, every command is one change of
\* one append-only history (TrustHistory).
Promised == IF journal = None THEN manifest ELSE journal.next
H == INSTANCE TrustHistory WITH
       config <- Promised.config,
       epoch <- Promised.epoch,
       history <- IF KeptHistory = None THEN [kept |-> FALSE, log |-> <<>>]
                  ELSE [kept |-> TRUE, log |-> KeptHistory]
ImplementsHistory == H!HSpec
=============================================================================
