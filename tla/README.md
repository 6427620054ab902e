# PhiOS: a TLA+ verification project

PhiOS is a local-first operator layer written in Python: capabilities are executed only through a
receipted executor (the Spine), and a long chain of records ("Ghost-Walk") turns an observation into
an inference, an intent, an admission, an authority request, a decision, a binding, a single-use
lease and at last one execution. The interesting claims of its documents are about that chain and
about what an operator may do to an installation: an authorization is used once, a window of a
schedule is not lost, a worker that died is recognised, a half-written change of authority never
rules, an update never launches what was removed. All of it is built from append-only ledgers,
`O_EXCL` claim files, `flock` and atomic file replacement, shared by processes that do not know of
each other. This project models that.

Paths below are relative to the repository root (`phios/...`, `docs/...`).

## 1. Inventory

### Persistence primitives

| Component | State | Operations | Who shares it |
|---|---|---|---|
| `state_io.py` | one JSONL file per ledger | `append_jsonl` (flock, fsync, truncate on `OSError`), `read_jsonl` (refuses an incomplete tail) | every service of every process over one state root |
| `state_recovery.py` | quarantine of a damaged tail | inspect, quarantine, restore | operator CLI |
| `spine/ledger.py` `RealityLedger` | `receipts.jsonl`, `action-lease-claims/*.claim` | `append`, `claim_action_lease` (O_EXCL), `release_action_lease_claim`, `has_consumed_action_lease`, three more claim directories for the macro runtime | Spine, lease handoff, schedule |

### Authority and execution

| Component | State | Operations | Interaction |
|---|---|---|---|
| `spine/runtime.py`, `executor.py`, `gate.py`, `registry.py`, `effects.py` | receipts | `run`: proposal, gate, executor, receipt | called by handoffs; writes both ledgers |
| `action_lease.py`, `authority_epoch.py`, `effect_intent.py`, `enforcement_profile.py` | immutable records | build, verify digest, `evaluate_action_lease` | values carried by all services |
| `macro_operator_log`, `macro_accepted_intent`, `macro_policy_admission`, `macro_authority_request`, `macro_authorization_decision`, `macro_capability_binding` | one ledger each | edit, accept, revoke, admit, request, decide, bind: recheck the previous records, append | each later step rereads the earlier ledgers; control server and operator console are processes of their own |
| `macro_action_lease_service.py` | `ghostwalk-action-lease-records.jsonl` | `issue` under an RLock of one instance | reads binding chain, policy, AuthorityEpoch |
| `macro_lease_execution_handoff.py` | claim files, handoff receipts | `execute` under an RLock of one instance | calls the Spine with the claim held |
| `phivessel_local_execution.py`, `trust_operator.py` | execution manifest, trust journal | mount, read epoch; grant, revoke, enable | the operator process rewrites what mounted hosts re-read |
| `core/governed_execution_handoff.py`, `core/leased_execution_handoff.py` | governed plan receipts | the same promise for governed plans | Spine |

### Macro runtime

| Component | State | Operations | Interaction |
|---|---|---|---|
| `macro_graph`, `macro_runner`, `macro_dispatcher` | run snapshot | advance a graph node by node | coordinator |
| `macro_journal.py`, `macro_coordinator.py` | `macro-run-journal.jsonl` | append state, `start_run`, `advance_run`, `abort_run` | start gate, operator |
| `macro_start.py` | two claim directories, admission receipts | `admit` a trigger at most once | schedule service, manual starts |
| `macro_schedule.py` | none | occurrences of a cadence in a window | schedule service |
| `macro_schedule_service.py` | schedule start, poll and state ledgers | `start`, `poll` | worker, operator |
| `macro_schedule_worker.py` | `flock` file, lease, event and tick ledgers | `acquire`, `renew`, `tick`, `release` | drives `poll` |

### Other parts

| Component | State | Operations | Interaction |
|---|---|---|---|
| `trust_operator.py` (phi-trust), `mandala/authority_projection.py` | manifest, event history, pending journal, receipt ledger, lock file | bootstrap, grant, revoke, refresh, enable, disable, recover | mounted hosts read the manifest without the lock |
| `packaging/linux/updates` | subvolumes, EFI partition, update counter, checkpoints of an installed disk; the trust policy of the live media | plan, checkpoint, restore, apply, enrol | run from live media; a terminal looks whether the disk is mounted, then mounts it, without a lock |
| `apps/desktop_launch`, `desktop_update`, `retained_cleanup`, `cleanup_reconciliation`, `lifecycle_gate`, `package_install` | XDG launcher, desktop bundles, retention markers, installed trees, receipts and journals | register, update, roll back, clean up, reconcile, revoke; install, uninstall | phi-app processes without a lock |

Ghost-Walk host, capture and control server (threads and HTTP handlers over the services above);
UIA capture and desktop interaction; `phivessel` bridge; curiosity store and authority broker;
`reflex` (lifecycle, control plane, root attestation); `covenant` recovery; `memory` store; `soma`;
`reality` service and reconciliation; the rest of the `apps` platform (manifests, intake, builds,
dependency broker, release discovery and review); ledger reports; MCP server; network home node; elastic
experiments; visualizer services; PhiShell (TypeScript); Linux packaging and installer. `PROJECT.json`
lists each with its status.

### What is hard here, and what would be correct

Nothing in this system is a transaction. A ledger append is atomic and durable or raises, an `O_EXCL`
create is atomic, a `flock` is dropped when its process dies; everything else is a sequence of such
steps that another process may enter, and that may stop after any of them, by an exception or a kill.
A service's `threading.RLock` belongs to one instance in one process.

| Component | Hard behaviour | Correct when |
|---|---|---|
| Lease issuance | check-then-append under a per-instance lock | one lease per authorization, per issuing host at least |
| Lease execution | consumption is recorded after the effect; claims survive kills; the same handler sees failures before and after the effect; drift of authority, binding, configuration, time | one executor entry per lease; what was entered stays reserved; what is reported happened |
| Start gate | two claims, taken in order and undone on conflict; a run journal without a lock | one run per trigger; reservations given up by their holder only; journals stay readable |
| Schedule service | a window's admissions are settled one by one, the cursor moves at the end; replay after a crash | no occurrence skipped, none lost, none started twice; one chain of states |
| Schedule worker | takeover after a death, renewal in two appends, refused callers that write events | one owner, the recorded one; history adjacent; deaths reported, and only deaths |
| Record chain | each step rechecks the previous ones' currency, then appends, under a lock of its own console only | what is decided is what policy admitted, what is bound stays approved, one console never forks a chain |
| Governed handoffs | the same for governed plans | one execution per decision |
| Trust operator | journal, manifest, history and receipt are four replaces; kills between any two; hosts read meanwhile; expiry and a clock that is set back | a change is whole or pending and recoverable; the authority in force is the replay of one history; one receipt per event |
| OS maintenance | counter, two renames and the copy of the boot files, with the power lost between any two; plans overtaken by another terminal; two terminals that look before either mounts | a switch alone on the disk counts on and replaces the root its update was made for, whatever switches that shared their mounts left; without such switches root and boot files stay matched and no old policy returns |
| Desktop app versions | no lock; undo after the launcher was switched; a cleanup that stops between two removals | the launcher never names what was removed; an interrupted cleanup can be reconciled |
| Curiosity, reflex, covenant | lifecycles over stores | lifecycle order, retained data never the live data |

`PROJECT.json` lists the hazards one by one, each at its line, with the properties that cover it, or a
note that says why none does.

## 2. Plan

The order is by how much of the system's promise rests on the part.

1. **Lease path** (`SingleUseLease`, `LeaseHandoff`): done, proved.
2. **Runs and schedules** (`MacroStart`, `MacroSchedule`): done, both proved.
3. **Trust operator** (`AuthorityReplay`, `TrustOperator`), refining an abstract append-only history
   (`TrustHistory`): done, proved.
4. **OS maintenance** (`OsUpdate`): done, proved.
5. **Desktop app versions** (`DesktopVersions`): done, proved for one phi-app process.
6. **Record chain** up to the binding (`RecordChain`): done, proved. `BindExecutable` and
   `SupersedeBinding` of `LeaseHandoff` are what the lease path sees of it.
7. **Governed plan handoffs** (`core/governed_*`, `core/leased_execution_handoff.py`) as a second
   implementation of `SingleUseLease`: open.
8. **Curiosity broker, reflex lifecycle, Ghost-Walk host threads**, each as a module of its own: open.
9. **Pure algorithms** against reference definitions: due occurrences of a cadence with gaps and
   folds of local time (`macro_schedule.py`), tail recovery (`state_recovery.py`), macro graph walk:
   open. The replay of authority events is done and proved (`ReplayAgrees`).

Abstract specifications: `SingleUseLease`, `TrustHistory` and `OccurrenceCursor`, each implemented by the
detailed module (checked and proved). One for the record chain is open.

## 3. Modules

| Module | Models | State | Uses |
|---|---|---|---|
| `SingleUseLease` | the promise of the lease path | reserved leases, executor entries | |
| `LeaseHandoff` | `issue`, `execute`, `PhiOSSpine.run`, claims and ledgers they share, hosts and their environment | clock, manifest, binding, mounts, custody, claims, receipts, handoff receipts, torn ledgers, calls | instantiates `SingleUseLease` |
| `LeaseHandoffProofs` | theorems | | extends `LeaseHandoff` |
| `RecordChain` | the services from the operator's note to the executable binding | six ledgers, the console and policy of each handler, its call | |
| `RecordChainProofs` | theorems | | extends `RecordChain` |
| `MacroStart` | `admit`, `start_run`, `advance_run`, `abort_run`, `append_state` | two claim directories, one journal per run, operations | |
| `MacroStartProofs` | theorems | | extends `MacroStart` |
| `MacroSchedule` | schedule service and worker | clock, policy, state, lease, event and tick ledgers, flock, workers | extends `MacroStart`; its `AdmitNext` and `AdmissionStep` are the gate's actions; instantiates `OccurrenceCursor` |
| `OccurrenceCursor` | the promise of the schedule: what is decided about an occurrence, and when | clock, cursors, occurrences taken, started and refused | |
| `MacroScheduleProofs` | theorems | | extends `MacroSchedule`, `MacroStartProofs` |
| `AuthorityReplay` | authority events, their replay at an instant, the `AuthorityEpoch` | none | |
| `TrustHistory` | the promise of the trust operator | configuration, epoch, history | extends `AuthorityReplay` |
| `TrustOperator` | phi-trust and the hosts that mount its manifest | manifest, events, pending journal, receipts, lock, calls, mounts, clock | extends `AuthorityReplay`, instantiates `TrustHistory` |
| `TrustOperatorProofs` | theorems, about the replay too | | extends `TrustOperator` |
| `OsUpdate` | `recover.py`, `apply.py`, `enroll.py` | root, counter, EFI, checkpoints, policy, jobs of the terminals | |
| `OsUpdateProofs` | theorems | | extends `OsUpdate` |
| `DesktopVersions` | the versions of one desktop app, and the package installer beside them | launcher, bundles, trees, markers, receipts, journals, calls | |
| `DesktopVersionsProofs` | theorems | | extends `DesktopVersions` |
| `FirstElement` | the lemma that a non-empty set of instants has a first | | used by the proofs of `RecordChain`, `TrustOperator` and `MacroSchedule` |
| `MCLeaseHandoff`, `MCMacroStart`, `MCMacroSchedule`, `MCTrustOperator` | instances for TLC | | |
| `MCRecordChain` | what the locks of one process are worth: sessions at the record chain or at the leases | both | extends `MCLeaseHandoff`, `RecordChain` |
| `MCInstallation` | what an operator does to one installation: sessions of phi-trust, of maintenance or of phi-app | the three components' | extends them |

### Lease path

A call is split where another process can interleave: `CheckCustody` (records, binding, ambiguity),
`CheckCurrency` (everything `_current_*` rereads, and `evaluate_action_lease`), `Claim` (`O_EXCL`),
`SpineGate` (permission, against the grants frozen at mount), `SpineExecute` (the effect),
`SpineRecord` (two appends), `CompleteDenied`/`CompleteExecuted` (release or retain, and report).
`ReleaseAndRaise` and `RetainAndRaise` are the two exception handlers of `execute`; which of them an
append failure reaches depends on its Python type, and `FaultKinds` says so. Digests are the values
they cover, which makes tampering unobservable: a record whose digest is wrong is refused by every
reader and is not modelled. `runs` and `lateReleased` are history variables: nothing reads them but
properties, and the guards that bound `runs`.

Environment actions: the clock; the trust operator's changes of the manifest (authority, static
configuration, enabled); a new or superseded binding; mounts; kills (`Crash`), which drop a host's
calls and keep its files; and `TearLedger`, a writer killed inside an append.

### Record chain

A call is split at every ledger it reads (requests and decisions, which a binding reads one after the
other, are one reading): `Edit`, `Accept`, `Revoke`, `Admit`, `Request`, `Decide` and
`Bind` begin one, the `Read...` actions are its further readings in the order of the code, and
`AppendRow` is its append, or an append that fails, and its return. `record` and `create` ask readiness,
which asks the readiness of the service before, and then read again what they will write; the readings
that both calls make are one action (`ReadLatest`, `ReadProjection`, `ReadAdmission`, `ReadExisting`,
`ReadDecisions`), and `op` says whose they are. A binding goes through them twice (`round`).

A handler is a thread of a console (`seat`). What it holds while its call is under way are the locks of
the services, one instance of each per console, except that the accepted-intent registry has an editor
of its own, so `Accept` does not wait for `Edit`, and a projection (`ProjectionFree`) waits for both.
`Restart` ends a console's calls and freezes the policy its environment holds then.

A record is its place in its ledger: records differ in their timestamps, hence in their digests, and
what a row names is never another row. A caller names the record it expects; only calls that name the
one the service reads are steps, the others are refused and change nothing. A projection reads intents
and note one after the other and is one reading at the first of the two moments: ledgers only grow, a
note chain that can be read later could be read then, and a projection that allows the request has
found the note that the intent names. One that does not allow it differs in the reason it records only.
A reading that raises in the code where it does not here (evidence, mapping, a note chain that forks
between two reads) ends the call without a row, as a failed append does.

### Runs and schedules

`Admit` judges scope, policy and existing runs and leaves an operation that `ClaimTrigger`, `ClaimRun`,
`StartCheck`, `StartLoad`, `StartAppend`, `FirstAdvance`, `MoveLoad`, `MoveAppend` and `Record` carry
on, one file operation each; `ReleaseTrigger`, `ReleaseRun` and `ReleaseConflict` are the undo paths.
A call of the coordinator without the gate enters the same actions with `use = "start"` or
`"advance"`. A journal row keeps its sequence number, whether its state is terminal, and (for the
properties) the trigger whose admission wrote it; `Broken` is `_load_and_validate`. An occurrence
of a schedule is its due instant, and so are the run and the trigger derived from it.

The worker's `tick` is `Tick`, `Poll`, one admission after another, `Commit` and `Report`; its
`acquire` is `Acquire`, `RecordLease`, `RecordOwnership`, or `Acquire` and `RecordRefusal`. An append
that fails ends the call in `RaiseToOwner` (the worker lives, with the lease it had) or
`RaiseFromAcquire` (the lock's file object is dropped, and with it the lock). A kill keeps ledgers and
claims and frees the lock. Admission receipts, poll receipts and resume receipts are not state:
nothing in the system reads them back.

### Trust operator

Every command takes the lock and refuses while a journal is pending (`Opens`), refuses when the history
does not materialize the manifest (`Bootstrap`, `Grant`, `Revoke`, `RefreshEpoch` and
`SetExecutionEnabled` have the guards), and builds a journal (`Open`). `_commit` is `WriteJournal`, `WriteManifest`,
`WriteEvents`, `WriteReceipt` and `Unlink`; `Recover` enters the same actions at the second, with the
pending journal, if the manifest is one of its two. `Fail` and `Tear` end a call before any of them, as
an exception or a kill does; `Tear` leaves a partial line in the receipt ledger, which `RefuseReceipt`
meets for ever. A history is a sequence of events, an epoch the record of what its replay at an instant
gave; digests are those values. `Mount` freezes configuration and grants, `Answers` is the provider
that a host asks again, and `MayUse` what lease path and Spine together let it use. The wall clock moves
both ways; policies and mappings are resealed by hand (`EditMappings`).

### OS maintenance

A release stands for a source commit, its packages and its boot files. `mounted()` is two steps, and
nothing is locked between them: `LookAtDisk` is `inventory()`, which finds the disk unmounted, and
`MountDisk` the two `mount` calls, whoever mounted meanwhile. A terminal mounts to read a plan, which it
then reviews (`PlanCheckpoint`, `PlanRestore`, `PlanUpdate`); and again when the plan is confirmed, an
update twice, for its checkpoint and for its switch. `RecheckPlan`, `SnapshotRoot` and `TakeCheckpoint`
are the checkpoint; a snapshot that is not of the reviewed release is written by the code and refused by
`checkpoint_data` ever after, and so is not kept. `StageRestore` and `StageUpdate` compare again and
stage; `WriteCounter`, `SetAside`, `Activate`, `BeginCopy` and `EndCopy` are the switch, one flush or
rename each. `Reboot` ends every terminal anywhere. A checkpoint is complete when `checkpoint.json` is
there, which is written last; an incomplete one is refused by every reader and is not state. Policies are
numbered in the order they are enrolled.

`mounts` says of each terminal that it is out, has looked, or has the disk mounted, alone or shared; a
mount is shared when a switch meets another switch, or the reading of a plan, on the disk. `crossed` is
the history variable that says this has happened. A checkpoint only adds to the disk: one that overlaps
a switch, step by step, is neither shared nor crossed, and the properties hold of it. What one mount reads
for a plan or compares before it stages is one step; a switch that could change the disk between two of
these readings has crossed; of a checkpoint, `RecheckPlan` is one step too, and what it compares is compared
again with the copies it keeps. The properties are about switches that are alone on their mount, or exclude
what happens once switches have crossed; section 7 says what is lost then.

`Heeds` says that the operator restores after an interrupted switch, as `docs/os/OS_MAINTENANCE.md`
asks; with `Heeds = FALSE` a checkpoint of an interrupted switch is not matched, which the program does
not prevent.

### Desktop app versions

A desktop plan names its bundle, and stands for it; a bundle holds the grant it was written with, and
grants are never written twice. `entry` is the XDG launcher, identified by the plan whose bundle it
starts. A reviewed plan is recomputed at execution and its digest compared, so plan and execution begin
in one action (`UpdateApp`, `RollBackApp`, `CleanUp`, `Reconcile`, ...), and every file operation after
it is a step. `HandlerOf` says where an exception of each step lands; `Unmark`, `UnmarkBack`, `Remark`,
`RestoreEntry`, `LoseEntry` and `DiscardCandidate` are the undo. `TearRemoval` is a `rmtree` that stops
half way, `KillApp` a kill between two steps. `Classification` and `Allowed` are the decision table of
a reconciliation. `InstallPackage` and `UninstallPackage` are the package installer, which knows nothing
of bundles; each is one step. Receipts are state when a later command reads them: of updates, of
cleanups and of cancellations. `uninstalled` and `unrestored` are histories, for two cases that the
properties except (section 7).

## 4. Runs

| Run | Question | Instance |
|---|---|---|
| `LeaseFaults` | is a lease ever entered twice, a claim or receipt ever wrong? | 2 hosts with 1 caller each, every append fault, kills, 2 entries |
| `RecordChain` | is a decision ever on what policy did not admit, a bound decision ever revised, a chain of one console ever forked? Does one host issue twice? | 2 handlers in 1 or 2 consoles, 2 codes, 2 policies, at most 2 rows in the ledger a call appends to and 7 in all when it begins; 1 host, 2 callers, 2 bindings, changes of authority and configuration |
| `LeasePromise` | does the path implement `SingleUseLease`; does a holder of the lock always return? | 2 hosts, `OSError` faults, 2 leases, 2 entries, one change of configuration, fair calls |
| `StartGate` | do claims, journals and answers agree, whoever else writes journals? | 2 callers, 2 runs and 2 triggers in every combination, one of the runs also started, advanced and aborted directly; failing appends, claims and releases, kills |
| `ScheduleFaults` | is the history one, the owner recorded, nothing skipped; is it the cursor of `OccurrenceCursor`? | 2 workers, 2 occurrences, every append failing, kills, policy changes |
| `ScheduleClean` | without faults, is nothing lost? | the same, both misfire policies, all admission policies, windows with too many occurrences, 3 leases |
| `Installation` | is the authority in force one history; is a sequence, root or policy ever the wrong one; does a launcher ever name what was removed? | 2 operators, 1 host, 1 permission, 2 mappings, 3 mutations, 1 failure, a torn ledger; 2 terminals whose mounts may overlap, 2 releases, 3 sequences (2 once switches have crossed), 2 checkpoints, 2 policies; 1 phi-app process, 3 desktop plans of 2 versions, 3 grants, 2 cleanups |
| the others | the five lines of documentation that the code does not keep, section 7 | violations |

Bounds, all in guards: `MaxTime`, `MaxEpoch`, `MaxBinding`, `MaxConfig` stop the environment;
`MaxCustody` and `MaxRuns` stop new calls, not calls under way; `MaxEach` and `MaxRows` stop new calls of
the record chain; `MaxEntries` stops direct starts and advances; `MaxCommit`, `MaxSequence`,
`MaxShared`, `MaxCheckpoint`, `MaxTrust`, `MaxGrant` and `MaxCleanup` stop new commands, `MaxFault` failures of
phi-trust; `MaxLeases`, `MaxEvents`, `MaxTicks`, `MaxStates` stop new acquires, renewals and ticks. Why
they are enough: every exclusion in these protocols is between two parties about one claim, lock or
ledger head, so a second actor and a second entry, row, lease or window show a failure. All but one of
the properties (`HolderReturns`) are also proved, for all values of the constants (section 6).

In the schedule runs the instants 0..2 with windows of two occurrences include a lease that expires, a
window held and replayed, a takeover in the middle of a window, and a replay after a kill between any
two steps. In `Installation` three mutations suffice for a grant that is revoked and granted again with
a recovery between them, three sequences for an update, a restore and a further update, two after a crossing for two crossed
switches and one alone that follows them, three grants for
an update, its rollback and the version that comes after it (four were checked once, in a larger
instance of `DesktopVersions` alone). In `RecordChain` seven rows are a whole chain with one row more
than it needs, so that one of its records can be revised, doubled or forked while the others are there;
two calls under way at the bound still append. `CHECK_DEADLOCK` is left on everywhere: the environment
or a new call can always go on, or the instance is bounded in a way that leaves a stuttering step;
`AppsAtRest` is one, and lets a phi-app session stop only between commands.

The sessions of `Installation` share nothing: maintenance runs from live media while the system is down
and leaves the home directory alone, and phi-trust and phi-app write different files. So each behaviour
is a session of one kind and the run is the union of three, 2.6 million states in three to four minutes.
The same holds of `RecordChain`: an issuance reads the chain as "the current binding" only, which is a
variable of `LeaseHandoff` that its environment changes at any moment.

Symmetry is used where callers (and runs, and triggers) are interchangeable, never with liveness. In
`Installation` one permutation swaps operators, terminals and plans of one version together: in a
session only one of the three pairs is at work.

## 5. Fairness

`HolderReturns` assumes weak fairness of `Proceed(t)`, the steps of a call that already runs: a thread
of a live process is scheduled, and between the lock's acquisition and its release the code waits for
nothing but short file operations. It does not assume that a waiting caller gets the lock, that the
operator leaves the manifest alone, or that anybody cleans up a claim. No fairness is assumed of the
schedule: the repository has no loop that calls `tick`, so nothing there promises progress.

## 6. Proofs

`LeaseHandoffProofs` proves, for any hosts, threads, bounds and fault sets, from the named assumptions
of `LeaseHandoff` only: `TypeOK`, `ClaimCustody`, `SingleUse`, `OneClaimant`, `ConsumedStaysClaimed`,
`OutcomesHaveEntries`, `OneLeasePerIssuer`, the action property `AbandonedClaimStays`, and, if
`Faults` is at most `{"io"}`, that the specification implements `SingleUseLease`.

*Argument.* `SingleUse` is not inductive: nothing in it says why a caller about to enter the executor
cannot repeat an entry. The inductive invariant `Safe` adds `ClaimCustody` (a holder's claim file is
there, its lease not entered before the executor and entered after it, every entry still claimed
unless it was released late), `OneClaimant` (or one holder could break another's clause) and what the
receipts say about entries. Entering appends to `runs` a lease that `ClaimCustody` says was never
entered; releasing removes a claim of which `OneClaimant` says nobody else holds it. The refinement
needs one more fact, that without refused appends the handlers that release are reached before the
entry only.

`RecordChainProofs` proves `RecordTypeOK`, `DecisionsAgree`, `BindingStaysApproved`,
`ApprovalMatchesIntent` and `OneConsoleReadable`, for any handlers, consoles, codes, policies and bounds.

*Argument.* Nothing is locked between consoles, so `RInv` rests on what no other call can take away:
ledgers only grow, and a row keeps its place. It says that every row refers to rows that are there, that
a request's code is that of its admitted revision or of a later one (`CodeFollows`), and of each call
what it has read (`Answering`, `Requesting`, `Binding`). A request can be answered only while the
revision its receipt is about is the last one; `CodeFollows`, between that revision and the last, then
leaves no other code, and `Agrees` holds for good. `BindingStaysApproved` follows from the shape of a
chain: an approval is terminal, and a chain that goes on after one is refused.

`OneConsoleReadable` is about what a lock is worth, and so about what a call has read and not yet used.
`ConsoleInv` says, when all handlers are threads of one console, that of the calls that take one lock at
most one runs (`LocksHold`), and that what the lock's holder has read is still so (`Current`): the place
its row will take, that its receipt has no request, that its request is unresolved. The admission service
takes no lock, but it cannot disturb these. The binding service is the delicate one: it chooses the last
decision twice, and another thread may decide in between. What carries it is `Unbound`: whatever
became the last decision since the first choice is not bound yet, because only a binding call binds and
this one holds the lock. `ChainsSound` then survives each append, one lemma per step.

`MacroStartProofs` proves, for any callers, runs, triggers, uses, faults and journal lengths:
`StartTypeOK`, `Reservations`, `TriggerStartsOnce`, `AnswersMatchRuns`, the action property
`OnlyHoldersGiveUp`, and `JournalsReadable`, about the runs outside `DirectRuns`.

*Argument.* `Reservations` is nearly inductive as it stands (with the typing of operations, `Pinned`): a
trigger's claim passes from the admission that made it to the START row it writes, and no other
admission can be in between. `TriggerStartsOnce` follows step by step: the only step that writes a
trigger's row is the START of its holder, and until then there is none. The gate says nothing about the
journal's chain when others write it. For a run that nobody uses directly, `GateInv` adds that whoever
may write its journal owns its claim alone and has seen exactly its one row, and that it is claimed once
it is written; what is done to other runs does not matter. `AnswersMatchRuns` needs what an admission
may still answer from the phase it is in.

`MacroScheduleProofs` proves `ScheduleTypeOK`, `OneHistory`, `TicksBindStates`, `OwnerIsRecorded`,
`OrphansReported`, `NothingSkipped` and that it implements `OccurrenceCursor`, for any workers,
occurrences, policies, bounds and faults; `LeaseLineage` if no append fails, kills allowed; and
`NothingLost` if nothing fails at all.

*Argument.* A worker decides with locals it read earlier, so none of these is inductive. `SInv` says
that the flock makes the holder's locals as good as shared state (`LocalsSound`: the state it continues
is the last, its lease the recorded one), that an admission is under way only inside a poll (`OpsIdle`),
and adds that an owner has a lease on record (`LeasesRecorded`) and the gate's invariant from
`MacroStartProofs`. Run and
trigger of an occurrence are paired, so an admission never conflicts and no claim is given up:
that carries `NothingSkipped` past a failed append and a kill.

`NothingLost` needs to know what a claim is worth. `ClaimsStart` says that every claimed occurrence has
its START, or an admission under way that holds the claim and will write it; the cursor moves when no
admission is under way, and only the first case is left. `LeaseLineage` needs `LeaseCurrent`: the lease a
worker goes by is the last on record, from the append of the lease until the worker renews or leaves. The
two hypotheses are where the code stands, not where the prover does: a kill or a failed append between
claim and START leaves a claim without either (`ScheduleLost` shows the loss), and a RENEWED event that
fails after its lease was appended leaves the worker with the old lease, whose renewal number is then
given a second time.

`OccurrenceCursor` knows a clock, the cursors and three sets of occurrences. An occurrence may be taken,
started or refused only while it lies in a window that has elapsed since the cursor; so nothing is done
about an occurrence the cursor has passed, whichever worker comes late, and none before its instant. The
proof needs one invariant more: `WindowsSound`, that a tick's window lies between cursor and clock, and
that every admission under way is about an occurrence its poll has still to admit. `ClaimTrigger`,
`StartAppend`, the collected refusal and `Commit` are then the abstract steps, and everything else
stutters.

`TrustOperatorProofs` proves that between an epoch's instant and its next known transition the replay
grants what the epoch grants, and that time alone only takes permissions away; that the loop of
`AuthorityProjection.project` computes these grants for every history and instant
(`ProjectionIsGranted`); then `TrustTypeOK`, `HistoryMaterializes`, `PendingRecoverable`,
`LiveAuthority`, `EventsReceipted`, `ReplayAgrees`, the action property
`OnlyGrantsAdd`, and that `TrustOperator` implements `TrustHistory`, from `TrustBounds` and
`NoneIsNothing`.

*Argument.* The invariant `IInv` relates the four files to the step of whoever holds the lock: a call that
has not written its journal was built on the manifest that is there, and one that has is as far as its
step says (`CallsSound`); a pending journal's manifest is one of its two, edited mappings apart
(`PendingSound`); with nothing pending the history materializes the manifest (`HistorySound`). A kill
forgets the step and keeps what `PendingSound` says, which is all that `Recover` needs. That receipts
are distinct, and each journal ever written has one or is pending, is an invariant of its own for
`EventsReceipted`. `LiveAuthority` then is `GrantedUntilTransition` for a clock between the two instants.

`Replay` is a recursive function, the dictionary after each event. `Held` is its closed form: after *n*
events the dictionary holds the grants no applied event among the *n* supersedes (`HeldNext`). That the
function equals its closed form at every index needs no induction rule: `Held` satisfies the recursive
equation, so the function is a solution of it too, and an index where the two differed would have a
first one (`FirstElement`), before which they agree.

`OsUpdateProofs` proves for any releases, terminals and bounds: `SequenceNeverReused` and
`UpdatesTheirBase`, about every switch that is alone on its mount, whatever crossed switches did before;
`NoStaleTrust` as long as no switches have crossed; and `CheckpointsMatched` and `SwitchesMatched`
likewise, under the assumption `Heeds`.

*Argument.* Nothing but the mounts keeps terminals apart, so the invariant has two levels:
`OInv == OTyped /\ LoneSound /\ (~crossed => Calm)`. `OTyped` says what mounts exclude: a switch that is
alone has no other switch and no reading of a plan beside it. `LoneSound` is what such a switch relies on,
and it survives crossings of others before it: its sequence is ahead of the counter until it is written,
and an update's base is in place until it is set aside. `Calm` is the invariant of a disk on which nothing
ever crossed: what the plan of each job still binds (`JobsSound`), that a job whose plan another terminal
overtook can no longer proceed (`Overtaken`: the counter it names is behind), and that root, saved roots
and counter are ordered (`DiskSound`). A sequence is compared with the counter, not with the root, and
so survives a root that is old or missing. The one step that can end `Calm` is a `MountDisk` that meets
another mount, and it sets `crossed`.

`DesktopVersionsProofs` proves `ActiveStands` and `InterruptedRecoverable`, and that at most one cleanup
is unresolved, for any plans, builds and bounds and one phi-app process at a time (`OneOperator`). With
two processes neither holds: there is no lock.

*Argument.* `VInv` says of each call what its file operations will find (`CallSound`), of an unresolved
journal that its marker is there or gone and that, as long as its active version is launched, bundle and
build are as its plan found them or removed in order (`JournalsSound`), and that markers, journals and
bundles hold grants that were written (`Recorded`). Two facts carry it: a grant is never written twice,
so an active version that was revoked never verifies again under an old journal; and the gate admits one
unresolved cleanup, so what a journal left on disk is disturbed by nobody but its reconciliation.

Every invariant that a passing run checks is stated by a theorem. Only model-checked: `HolderReturns`
(liveness under fairness is out of the prover's reach), ENABLED, and so deadlock.

## 7. Where the code and its documents disagree

Each is a run that TLC refutes, with one property that quotes the document.

| Run | The document | What the code does |
|---|---|---|
| `LeaseTornReplay` | once entered, every outcome consumes the lease | when the receipts ledger is torn before the record, the claim goes too, and another host enters again |
| `LeaseTwice` | "One executable binding may produce at most one ActionLease record." | two hosts both pass the check |
| `LeaseExpired` | the currency check uses the current time | the instant is read before the lock is waited for |
| `StartClaimsKept` | "If coordination fails before a run is created, both claims are released." | for one exception type only; a failed append keeps both |
| `ScheduleLost` | "HELD WINDOW != LOST WINDOW" | after a kill between claim and START the replay takes the claim for a start |

More divergences are reached by the models without a run of their own.

*Lease path and schedule.* An append refused after the
effect (a `UnicodeEncodeError`, or a ledger torn meanwhile) releases the claim of an entered lease,
while `release_action_lease_claim` says "only when the executor was never entered"; `LeaseTornReplay`
shows its consequence, and `lateReleased` records such leases for the properties. A refused caller's
`ACQUIRE_HELD` event, recorded after the owner's release, makes the next orderly acquire an
`ORPHAN_TAKEOVER`, which `docs/MACRO_RUNTIME_V0.11.md` describes as a prior worker without a RELEASED
event.

*Record chain.* `docs/MACRO_RUNTIME_V0.31.md:110` promises at most one AuthorityRequest per admission
receipt. Two consoles can answer one receipt with two requests, and bind one decision twice, because the
lock around a read and its append belongs to one service instance; every later reader refuses the
duplicates. A request may name a code that was revised after its receipt was matched
(`phios/macro_authority_request.py:654`); no decision can be recorded for such a request, which is what
`DecisionsAgree` checks.

`docs/MACRO_RUNTIME_V0.32.md` says that "No decision may follow terminal APPROVE or DENY." (line 115), and
of the rechecks before an append that "This makes two simultaneous decisions fail closed instead of
silently creating a forked authorization history." (line 152). Both hold within one console
(`OneConsoleReadable`). Two consoles that decide one request at once pass the rechecks and both append;
the chain is forked, and it is the later readers that fail closed. `BindingStaysApproved` therefore reads
a forked chain as unreadable: a bound request never reads as denied or held.

*OS maintenance.* `docs/os/OS_MAINTENANCE.md:100` says that "Mounted disks [...] are refused", line 75 of a
sequence "no replay", and line 143 that a restore "increments the highest observed update generation rather
than replaying its counter". `mounted()` looks and then mounts, without a lock
(`packaging/linux/updates/recover.py:142`), so two terminals that look together both have the disk. Two
updates staged on one root both write the next sequence, for two releases; the second sets aside the root
of the first, and the slower may install the older policy; root and boot files can end as those of
different switches. Without their exception for crossed switches TLC refutes each of the five OS properties
in the instance of `Installation`.

*Trust operator.* Disabling and enabling restores the static configuration, and a mounted host that
refused while it was disabled answers again without a restart, while
`docs/TRUST_OPERATOR_V0.37.md:163` says that it stays held until restart
(`phios/phivessel_local_execution.py:529`). A permission granted after a mount is still denied by the
Spine, whose grants were frozen. Receipts are identified by content, so a mutation repeated with the
same manifests before and after shares a receipt; events never do, their position is part of them. A
torn receipt ledger blocks `recover`, and with it every other command, until it is repaired by hand.

*Desktop app versions.* An update's undo that cannot write the previous launcher back still removes the
candidate (`phios/apps/desktop_update.py:1063`): the launcher names a bundle that is gone. The undo also
removes a marker it found instead of writing it (one left by a killed rollback). A kill or failure
inside a `rmtree` leaves a directory that no reconciliation accepts, and the lifecycle gate stays shut.
Registration, revocation and the package installer do not ask the gate: revoking the active version
leaves retained ones that can neither be rolled back to nor cleaned up, and a cleanup that can never be
reconciled; `uninstall` removes the build of the active version. An update killed after it placed its
candidate blocks that candidate ("destination already exists"). The properties except exactly these
cases, by `unrestored`, `uninstalled`, and the premises of `InterruptedRecoverable`.

## 8. Not modelled

The parts that `PROJECT.json` lists as `not_modelled`, with their reasons: parts the plan has left
(section 2), rendering, parsing and pure I/O, read-only evidence. Inside the modelled parts:

- *Runs and leases*: the refusal of an issuance whose epoch was observed after its instant, and of a
  lock that fails for another reason than a holder (the models allow the call to go on, or to be made
  again); the contents of intents, plans, macro states and receipts beyond what the properties tell
  apart; the bytes of an append (its possible outcomes are modelled); the computation of due instants
  from cadences and time zones; two processes that create the same schedule service at once; the effects
  of executors.
- *Record chain*: the inference receipt and its evidence, the mapping registry, a torn tail of one of
  these ledgers, rows that were edited (their digests are refused), more than one inference.
- *Trust operator*: the parsing of manifests; whether the manifest identity an operator expects is
  current (it is assumed, a wrong one is refused before anything is written); `status` and `validate`,
  which only read.
- *OS maintenance*: signatures, package verification and the staging of a new root, one step each;
  partitioning and mounts.
- *Desktop app versions*: more than one build of a version; the visible browser session of a launch and
  its Wayland socket; the catalog, which only reads; staging directories, which a kill leaves behind
  unnoticed; receipts of rollbacks and of completed reconciliations, which nothing reads.
