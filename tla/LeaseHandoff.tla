---------------------------- MODULE LeaseHandoff ----------------------------
(***************************************************************************)
(* The Ghost-Walk lease path of PhiOS: issuing a single-use ActionLease    *)
(* for an executable binding (phios/macro_action_lease_service.py) and     *)
(* executing it once through the Spine                                     *)
(* (phios/macro_lease_execution_handoff.py, phios/spine/runtime.py).       *)
(*                                                                         *)
(* Several host processes mount the two services over one state root.      *)
(* Inside a host the calls of its threads serialise on the service's       *)
(* threading.RLock; between hosts the only exclusion is the O_EXCL claim   *)
(* file and the per-append flock of phios/state_io.py.  One call is        *)
(* therefore split at every point where another host can interleave:       *)
(* custody check, currency check, claim, permission gate, executor,        *)
(* consumption record, report.                                             *)
(*                                                                         *)
(* Every digest is the value it identifies: a lease is the record of what  *)
(* its SHA-256 covers, so two leases issued for the same binding in the    *)
(* same instant are the same lease.                                        *)
(***************************************************************************)
EXTENDS Naturals, Sequences

CONSTANTS
  Hosts,          \* host processes over one state root
  Threads,        \* callers
  HostOf,         \* the host process each caller runs in
  NoLease,        \* "no lease": idle callers, and an identity nobody issued
  NoTransition,   \* an AuthorityEpoch without a known next transition
  MaxLeaseTime,   \* policy.max_lease_seconds
  Faults,         \* the append failures that may happen, see FaultKinds
  MaxTime, MaxEpoch, MaxBinding, MaxConfig, \* bounds on the environment
  MaxCustody,     \* no issue call starts once this many leases are recorded
  MaxRuns         \* no execute call starts after this many executor entries

(***************************************************************************)
(* How an append can fail (phios/state_io.py, append_jsonl).               *)
(*   "io"       an OSError; the partial write is truncated away            *)
(*   "refused"  a ValueError for this record or at this moment only: a     *)
(*              value that cannot be encoded, a record over 16 MiB, a      *)
(*              ledger whose mode or link count is momentarily unsafe      *)
(*   "torn"     the writer is killed inside the write and leaves an        *)
(*              incomplete tail, which every later reader and writer       *)
(*              refuses (StateIntegrityError, a ValueError)                *)
(***************************************************************************)
FaultKinds == {"io", "refused", "torn"}

ASSUME HostOfAssumption == HostOf \in [Threads -> Hosts]
ASSUME BoundAssumption ==
  /\ {MaxTime, MaxEpoch, MaxBinding, MaxConfig, MaxCustody, MaxRuns} \subseteq Nat
  /\ MaxLeaseTime \in Nat \ {0}
ASSUME FaultAssumption == Faults \subseteq FaultKinds
ASSUME NoTransitionAssumption == NoTransition \notin Nat

\* The ledgers whose contents or integrity a later call depends on.
Ledgers == {"leases", "receipts", "mandala"}

Times == 0..MaxTime

\* What action_lease_sha256 covers of a lease, as far as it can differ here.
LeaseId == [binding : 0..MaxBinding, epoch : 0..MaxEpoch, from : Times,
            until : 0..(MaxTime + MaxLeaseTime)]

ASSUME NoLeaseAssumption == NoLease \notin LeaseId

AuthorityEpoch ==
  [id : 0..MaxEpoch, granted : BOOLEAN, next : Times \union {NoTransition}]

ExecutionManifest == [enabled : BOOLEAN, config : Nat, epoch : AuthorityEpoch]

MountState == [up : BOOLEAN, config : Nat, granted : BOOLEAN]

\* Execution outcomes that consume a lease (has_consumed_action_lease).
Outcomes == {"succeeded", "failed", "outcome_unknown"}

\* Phases of a caller that holds its execution handoff's lock.
HandoffPhases ==
  {"checked", "usable", "claimed", "entered", "executed", "denying",
   "denied", "recorded"}

Phases == {"idle", "issuing", "waiting"} \union HandoffPhases

VARIABLES
  clock,      \* wall clock, shared by the hosts
  manifest,   \* the execution manifest: enabled, static config, AuthorityEpoch
  bound,      \* latest executable binding of the target; 0 for none
  stale,      \* readiness no longer answers BINDING_ALREADY_EXISTS for it
  mount,      \* per host: mounted?, static config and grants frozen at mount
  custody,    \* ghostwalk-action-lease-records.jsonl
  claims,     \* action-lease-claims/*.claim
  receipts,   \* receipts.jsonl: Spine receipts that carry a lease
  handoff,    \* ghostwalk-lease-execution-receipts.jsonl, without the holds
  torn,       \* ledgers with an incomplete tail
  call,       \* per thread: phase and locals of its current call
  runs,       \* history: executor entries, in order
  lateReleased \* history: leases whose claim was released after an entry

vars == <<clock, manifest, bound, stale, mount, custody, claims, receipts,
          handoff, torn, call, runs, lateReleased>>

IdleCall ==
  [phase |-> "idle", lease |-> NoLease, attempted |-> 0, checked |-> 0,
   outcome |-> "not_executed"]

Unmounted == [up |-> FALSE, config |-> 0, granted |-> FALSE]

\* A caller's phase and the locals of its call.
CallState ==
  [phase : Phases, lease : LeaseId \union {NoLease}, attempted : Times,
   checked : Times, outcome : Outcomes \union {"not_executed"}]

\* A custody row: the lease, the policy's configuration, the issuing host.
LeaseRecord == [id : LeaseId, config : Nat, host : Hosts]

Entry == [lease : LeaseId, attempted : Times, checked : Times]

TypeOK ==
  /\ clock \in Times
  /\ manifest \in ExecutionManifest
  /\ bound \in 0..MaxBinding
  /\ stale \in BOOLEAN
  /\ mount \in [Hosts -> MountState]
  /\ custody \in Seq(LeaseRecord)
  /\ claims \subseteq LeaseId
  /\ receipts \subseteq [lease : LeaseId, status : Outcomes \union {"not_executed"}]
  /\ handoff \subseteq [lease : LeaseId, status : Outcomes \union {"DENIED"}]
  /\ torn \subseteq Ledgers
  /\ call \in [Threads -> CallState]
  /\ runs \in Seq(Entry)
  /\ lateReleased \subseteq LeaseId

Init ==
  /\ clock = 0
  /\ \E granted \in BOOLEAN :
       manifest = [enabled |-> TRUE, config |-> 0,
                   epoch |-> [id |-> 0, granted |-> granted, next |-> NoTransition]]
  /\ bound = 0
  /\ stale = FALSE
  /\ mount = [h \in Hosts |-> Unmounted]
  /\ custody = <<>>
  /\ claims = {}
  /\ receipts = {}
  /\ handoff = {}
  /\ torn = {}
  /\ call = [t \in Threads |-> IdleCall]
  /\ runs = <<>>
  /\ lateReleased = {}

-----------------------------------------------------------------------------
(* Environment: time, the trust operator and the authorization chain.      *)

Tick ==
  /\ clock < MaxTime
  /\ clock' = clock + 1
  /\ UNCHANGED <<manifest, bound, stale, mount, custody, claims, receipts,
                 handoff, torn, call, runs, lateReleased>>

\* The trust operator rewrites the manifest's AuthorityEpoch: every grant,
\* revocation or refresh is a new epoch digest, seen live by mounted hosts.
ChangeAuthority ==
  /\ manifest.epoch.id < MaxEpoch
  /\ \E granted \in BOOLEAN,
        next \in {NoTransition} \union ((clock + 1)..MaxTime) :
       manifest' = [manifest EXCEPT !.epoch =
                      [id |-> @.id + 1, granted |-> granted, next |-> next]]
  /\ UNCHANGED <<clock, bound, stale, mount, custody, claims, receipts,
                 handoff, torn, call, runs, lateReleased>>

\* Mappings or lease policies edited: hosts must restart to use them.
ChangeStaticConfig ==
  /\ manifest.config < MaxConfig
  /\ manifest' = [manifest EXCEPT !.config = @ + 1]
  /\ UNCHANGED <<clock, bound, stale, mount, custody, claims, receipts,
                 handoff, torn, call, runs, lateReleased>>

ToggleManifest ==
  /\ manifest' = [manifest EXCEPT !.enabled = ~@]
  /\ UNCHANGED <<clock, bound, stale, mount, custody, claims, receipts,
                 handoff, torn, call, runs, lateReleased>>

\* A new approved decision is bound to a capability and payload.
BindExecutable ==
  /\ bound < MaxBinding
  /\ bound = 0 \/ stale
  /\ bound' = bound + 1
  /\ stale' = FALSE
  /\ UNCHANGED <<clock, manifest, mount, custody, claims, receipts,
                 handoff, torn, call, runs, lateReleased>>

\* A later decision, request or observation supersedes the binding's chain.
SupersedeBinding ==
  /\ bound > 0 /\ ~stale
  /\ stale' = TRUE
  /\ UNCHANGED <<clock, manifest, bound, mount, custody, claims, receipts,
                 handoff, torn, call, runs, lateReleased>>

-----------------------------------------------------------------------------
(* Appends and per-instance locks.                                         *)

\* The answers append_jsonl may give for ledger L.
AppendResults(L) ==
  IF L \in torn THEN {"refused"} ELSE {"ok"} \union (Faults \ {"torn"})

Mates(t) == {u \in Threads : HostOf[u] = HostOf[t]}

\* Mutant: issue is not serialised inside one service instance.
IssueUnlocked(t) == t \in Threads

IssueLockFree(t) == \A u \in Mates(t) : call[u].phase # "issuing"
HandoffLockFree(t) == \A u \in Mates(t) : call[u].phase \notin HandoffPhases

\* Phases of a caller that created its lease's claim file and still holds it.
ClaimPhases == {"claimed", "entered", "executed", "denying", "denied"}

\* The live calls that hold the claim of lease l.
Claimants(l) ==
  {t \in Threads : call[t].lease = l /\ call[t].phase \in ClaimPhases}

Up(t) == mount[HostOf[t]].up

Return(t) == call' = [call EXCEPT ![t] = IdleCall]
Goto(t, phase) == call' = [call EXCEPT ![t].phase = phase]

\* A HELD receipt is appended for the operator; nothing ever reads it back.
Hold(t) == Return(t)

\* Record a handoff receipt and return; a failed append raises to the caller.
Answer(t, status) ==
  /\ \/ handoff' = handoff \union {[lease |-> call[t].lease, status |-> status]}
     \/ Faults # {} /\ UNCHANGED handoff
  /\ Return(t)

-----------------------------------------------------------------------------
(* Hosts.                                                                  *)

\* Mutant: a starting host sweeps the claims no live call holds.
MountSweepingClaims(h) ==
  /\ ~mount[h].up
  /\ manifest.enabled
  /\ mount' = [mount EXCEPT ![h] =
                 [up |-> TRUE, config |-> manifest.config,
                  granted |-> manifest.epoch.granted]]
  /\ claims' = {l \in claims : Claimants(l) # {}}
  /\ UNCHANGED <<clock, manifest, bound, stale, custody, receipts,
                 handoff, torn, call, runs, lateReleased>>

\* build_local_execution_mount: static config and the Spine's allowed
\* permissions are frozen; only the AuthorityEpoch is re-read per call.
Mount(h) ==
  /\ ~mount[h].up
  /\ manifest.enabled
  /\ mount' = [mount EXCEPT ![h] =
                 [up |-> TRUE, config |-> manifest.config,
                  granted |-> manifest.epoch.granted]]
  /\ UNCHANGED <<clock, manifest, bound, stale, custody, claims, receipts,
                 handoff, torn, call, runs, lateReleased>>

\* The host process is killed: its calls vanish, claim files stay.
Crash(h) ==
  /\ mount[h].up
  /\ mount' = [mount EXCEPT ![h] = Unmounted]
  /\ call' = [t \in Threads |-> IF HostOf[t] = h THEN IdleCall ELSE call[t]]
  /\ UNCHANGED <<clock, manifest, bound, stale, custody, claims, receipts,
                 handoff, torn, runs, lateReleased>>

\* A writer of the shared state root - a crashed host, or another PhiOS
\* process - was killed inside its append and left an incomplete tail.
TearLedger(L) ==
  /\ "torn" \in Faults
  /\ L \notin torn
  /\ torn' = torn \union {L}
  /\ UNCHANGED <<clock, manifest, bound, stale, mount, custody, claims,
                 receipts, handoff, call, runs, lateReleased>>

-----------------------------------------------------------------------------
(* GhostWalkActionLeaseService.issue                                       *)

\* The provider answers only while the static config is the mounted one.
EpochReadable(t) ==
  manifest.enabled /\ manifest.config = mount[HostOf[t]].config

RecordsFor(b) == {i \in DOMAIN custody : custody[i].id.binding = b}

\* _trusted_state = READY, ending with the absence of a lease record.
IssueReady(t) ==
  /\ bound > 0 /\ ~stale
  /\ EpochReadable(t)
  /\ manifest.epoch.next # NoTransition => clock < manifest.epoch.next
  /\ manifest.epoch.granted
  /\ "leases" \notin torn
  /\ RecordsFor(bound) = {}

\* Mutant: the policy's lease time is added twice.
ValidUntilTwice == clock + MaxLeaseTime + MaxLeaseTime

ValidUntil ==
  LET limit == clock + MaxLeaseTime
      next == manifest.epoch.next
  IN  IF next # NoTransition /\ next < limit THEN next ELSE limit

\* Under the service's lock: recheck the trusted state and build the lease.
\* (When the state is not READY, issue raises and nothing changes.)
IssueCheck(t) ==
  /\ Up(t)
  /\ call[t].phase = "idle"
  /\ Len(custody) < MaxCustody
  /\ IssueLockFree(t)
  /\ IssueReady(t)
  /\ call' = [call EXCEPT ![t].phase = "issuing",
                          ![t].lease = [binding |-> bound,
                                        epoch |-> manifest.epoch.id,
                                        from |-> clock, until |-> ValidUntil]]
  /\ UNCHANGED <<clock, manifest, bound, stale, mount, custody, claims,
                 receipts, handoff, torn, runs, lateReleased>>

\* Still under that lock, which other hosts do not share: append the record.
IssueRecord(t) ==
  /\ call[t].phase = "issuing"
  /\ \E r \in AppendResults("leases") :
       custody' = IF r = "ok"
                  THEN Append(custody, [id |-> call[t].lease,
                                        config |-> mount[HostOf[t]].config,
                                        host |-> HostOf[t]])
                  ELSE custody
  /\ Return(t)
  /\ UNCHANGED <<clock, manifest, bound, stale, mount, claims, receipts,
                 handoff, torn, runs, lateReleased>>

-----------------------------------------------------------------------------
(* GhostWalkLeaseExecutionHandoff.execute                                  *)

Issued == {custody[i].id : i \in DOMAIN custody}

\* attempted_at is read first, before the handoff's lock is requested.
ExecuteCall(t) ==
  /\ Up(t)
  /\ call[t].phase = "idle"
  /\ Len(runs) < MaxRuns
  /\ \E l \in Issued \union {NoLease} :
       call' = [call EXCEPT ![t].phase = "waiting", ![t].lease = l,
                            ![t].attempted = clock]
  /\ UNCHANGED <<clock, manifest, bound, stale, mount, custody, claims,
                 receipts, handoff, torn, runs, lateReleased>>

RecordsOf(l) == {i \in DOMAIN custody : custody[i].id = l}

\* More than one record with this identity: custody is refused.
Ambiguous(l) == \E i, j \in RecordsOf(l) : i # j

BindingCurrent(l) == bound = l.binding /\ ~stale

PolicyUnchanged(t, l) ==
  \A i \in RecordsOf(l) : custody[i].config = mount[HostOf[t]].config

\* Custody or authority cannot be verified: execute raises, nothing changes.
CustodyUnverifiable(t) ==
  LET l == call[t].lease
  IN  \/ "leases" \in torn
      \/ Ambiguous(l)
      \/ /\ RecordsOf(l) # {}
         /\ BindingCurrent(l)
         /\ PolicyUnchanged(t, l)
         /\ manifest.enabled
         /\ manifest.config # mount[HostOf[t]].config

\* The same binding, policy, AuthorityEpoch and scope as at issuance.
CustodyCurrent(t) ==
  LET l == call[t].lease
  IN  /\ RecordsOf(l) # {}
      /\ BindingCurrent(l)
      /\ PolicyUnchanged(t, l)
      /\ EpochReadable(t)
      /\ manifest.epoch.id = l.epoch

\* The lock is taken; record, binding, policy, epoch and scope are rechecked.
CheckCustody(t) ==
  /\ call[t].phase = "waiting"
  /\ HandoffLockFree(t)
  /\ \/ CustodyUnverifiable(t) /\ Return(t)
     \/ /\ ~CustodyUnverifiable(t)
        /\ CustodyCurrent(t)
        /\ call' = [call EXCEPT ![t].phase = "checked", ![t].checked = clock]
     \/ /\ ~CustodyUnverifiable(t)
        /\ ~CustodyCurrent(t)
        /\ Hold(t)
  /\ UNCHANGED <<clock, manifest, bound, stale, mount, custody, claims,
                 receipts, handoff, torn, runs, lateReleased>>

Consumed(l) == \E r \in receipts : r.lease = l /\ r.status \in Outcomes

\* evaluate_action_lease is given attempted_at, not the time of the check.
InWindow(t) ==
  /\ call[t].lease.from <= call[t].attempted
  /\ call[t].attempted < call[t].lease.until

\* has_consumed_action_lease, then evaluate_action_lease.
CheckCurrency(t) ==
  /\ call[t].phase = "checked"
  /\ \/ "receipts" \in torn /\ Return(t)
     \/ /\ "receipts" \notin torn
        /\ InWindow(t) /\ ~Consumed(call[t].lease)
        /\ Goto(t, "usable")
     \/ /\ "receipts" \notin torn
        /\ ~InWindow(t) \/ Consumed(call[t].lease)
        /\ Hold(t)
  /\ UNCHANGED <<clock, manifest, bound, stale, mount, custody, claims,
                 receipts, handoff, torn, runs, lateReleased>>

\* Mutant: the claim file is opened without O_EXCL.
ClaimShared(t) ==
  /\ call[t].phase = "usable"
  /\ claims' = claims \union {call[t].lease}
  /\ Goto(t, "claimed")
  /\ UNCHANGED <<clock, manifest, bound, stale, mount, custody, receipts,
                 handoff, torn, runs, lateReleased>>

\* Mutant: a caller waits for a claim instead of answering HELD.
ClaimWaiting(t) ==
  /\ call[t].phase = "usable"
  /\ call[t].lease \notin claims
  /\ claims' = claims \union {call[t].lease}
  /\ Goto(t, "claimed")
  /\ UNCHANGED <<clock, manifest, bound, stale, mount, custody, receipts,
                 handoff, torn, runs, lateReleased>>

\* claim_action_lease: O_CREAT|O_EXCL decides between hosts; an OSError after
\* the create leaves the claim behind and raises.
Claim(t) ==
  LET l == call[t].lease
  IN  /\ call[t].phase = "usable"
      /\ \/ /\ l \in claims
            /\ Hold(t)
            /\ UNCHANGED claims
         \/ /\ l \notin claims
            /\ claims' = claims \union {l}
            /\ \/ Goto(t, "claimed")
               \/ "io" \in Faults /\ Return(t)
      /\ UNCHANGED <<clock, manifest, bound, stale, mount, custody, receipts,
                     handoff, torn, runs, lateReleased>>

\* execute's handler for (KeyError, TypeError, ValueError): the claim goes,
\* unless its file cannot be unlinked.
ReleaseAndRaise(t) ==
  /\ \/ claims' = claims \ {call[t].lease}
     \/ "io" \in Faults /\ UNCHANGED claims
  /\ Return(t)

\* Mutant: the claim goes on every exception.
ReleaseOnAnyError(t) ==
  /\ claims' = claims \ {call[t].lease}
  /\ Return(t)

\* execute's handler for any other exception: the claim stays.
RetainAndRaise(t) ==
  /\ Return(t)
  /\ UNCHANGED claims

\* PhiOSSpine.run up to the executor: the effect and gate receipts, and the
\* permission gate over the grants frozen at mount.
SpineGate(t) ==
  /\ call[t].phase = "claimed"
  /\ \E r \in AppendResults("mandala") :
       \/ /\ r = "ok" /\ mount[HostOf[t]].granted
          /\ Goto(t, "entered")
          /\ runs' = Append(runs, [lease |-> call[t].lease,
                                   attempted |-> call[t].attempted,
                                   checked |-> call[t].checked])
          /\ UNCHANGED claims
       \/ /\ r = "ok" /\ ~mount[HostOf[t]].granted
          /\ Goto(t, "denying")
          /\ UNCHANGED <<claims, runs>>
       \/ r = "refused" /\ ReleaseAndRaise(t) /\ UNCHANGED runs
       \/ r = "io" /\ RetainAndRaise(t) /\ UNCHANGED runs
  /\ UNCHANGED <<clock, manifest, bound, stale, mount, custody, receipts,
                 handoff, torn, lateReleased>>

\* A ValueError leaves Spine.run after the executor was entered.
ReleaseLate(t) ==
  /\ ReleaseAndRaise(t)
  /\ lateReleased' = lateReleased \union (claims \ claims')

\* The executor returns, raises or loses track of its effect, and the action
\* receipt is appended.  An exception of that append inside the try block
\* turns a success into a failure and is appended again.
SpineExecute(t) ==
  /\ call[t].phase = "entered"
  /\ \E r \in AppendResults("mandala"), outcome \in Outcomes :
       \/ /\ r = "ok"
          /\ call' = [call EXCEPT ![t].phase = "executed", ![t].outcome = outcome]
          /\ UNCHANGED <<claims, lateReleased>>
       \/ r = "refused" /\ ReleaseLate(t)
       \/ r = "io" /\ RetainAndRaise(t) /\ UNCHANGED lateReleased
  /\ UNCHANGED <<clock, manifest, bound, stale, mount, custody, receipts,
                 handoff, torn, runs>>

\* self.ledger.append(receipt), the consumption record, after the effect.
SpineRecord(t) ==
  /\ call[t].phase \in {"executed", "denying"}
  /\ \E r \in AppendResults("receipts") :
       \/ /\ r = "ok"
          /\ receipts' = receipts \union
               {[lease |-> call[t].lease, status |-> call[t].outcome]}
          /\ Goto(t, IF call[t].phase = "executed" THEN "recorded" ELSE "denied")
          /\ UNCHANGED <<claims, lateReleased>>
       \/ /\ r = "refused" /\ call[t].phase = "executed"
          /\ ReleaseLate(t)
          /\ UNCHANGED receipts
       \/ /\ r = "refused" /\ call[t].phase = "denying"
          /\ ReleaseAndRaise(t)
          /\ UNCHANGED <<receipts, lateReleased>>
       \/ /\ r = "io"
          /\ RetainAndRaise(t)
          /\ UNCHANGED <<receipts, lateReleased>>
  /\ UNCHANGED <<clock, manifest, bound, stale, mount, custody, handoff, torn,
                 runs>>

\* Mutant: a denial is reported as an executed failure.
CompleteDeniedAsFailed(t) ==
  /\ call[t].phase = "denied"
  /\ claims' = claims \ {call[t].lease}
  /\ Answer(t, "failed")
  /\ UNCHANGED <<clock, manifest, bound, stale, mount, custody, receipts,
                 torn, runs, lateReleased>>

\* _complete of a permission denial: the claim is released, then reported.
CompleteDenied(t) ==
  /\ call[t].phase = "denied"
  /\ \/ claims' = claims \ {call[t].lease} /\ Answer(t, "DENIED")
     \/ "io" \in Faults /\ RetainAndRaise(t) /\ UNCHANGED handoff
  /\ UNCHANGED <<clock, manifest, bound, stale, mount, custody, receipts,
                 torn, runs, lateReleased>>

\* Mutant: every completion releases the claim.
CompleteReleasing(t) ==
  /\ call[t].phase = "recorded"
  /\ claims' = claims \ {call[t].lease}
  /\ Answer(t, call[t].outcome)
  /\ UNCHANGED <<clock, manifest, bound, stale, mount, custody,
                 receipts, torn, runs, lateReleased>>

\* _complete of an executed action: consumption is reported, the claim stays.
CompleteExecuted(t) ==
  /\ call[t].phase = "recorded"
  /\ Answer(t, call[t].outcome)
  /\ UNCHANGED <<clock, manifest, bound, stale, mount, custody, claims,
                 receipts, torn, runs, lateReleased>>

-----------------------------------------------------------------------------
Environment ==
  \/ Tick \/ ChangeAuthority \/ ChangeStaticConfig \/ ToggleManifest
  \/ BindExecutable \/ SupersedeBinding
  \/ \E h \in Hosts : Mount(h) \/ Crash(h)
  \/ \E L \in Ledgers : TearLedger(L)

\* The steps of a call that already holds its service's lock.
Proceed(t) ==
  \/ IssueRecord(t)
  \/ CheckCurrency(t) \/ Claim(t)
  \/ SpineGate(t) \/ SpineExecute(t) \/ SpineRecord(t)
  \/ CompleteDenied(t) \/ CompleteExecuted(t)

Caller(t) == IssueCheck(t) \/ ExecuteCall(t) \/ CheckCustody(t) \/ Proceed(t)

Next == Environment \/ \E t \in Threads : Caller(t)

Spec == Init /\ [][Next]_vars

-----------------------------------------------------------------------------
(* What must hold.                                                         *)

Entered(l) == \E i \in DOMAIN runs : runs[i].lease = l

\* Claim files, calls and executor entries agree: a holder's claim file is
\* there; between claim and executor its lease was never entered, past the
\* executor it was; every entered lease is still claimed.  Leases whose claim
\* was given up after an entry are the one exception.
ClaimCustody ==
  /\ \A t \in Threads :
       /\ call[t].phase \in ClaimPhases => call[t].lease \in claims
       /\ call[t].phase \in {"claimed", "denying", "denied"}
            => ~Entered(call[t].lease) \/ call[t].lease \in lateReleased
       /\ call[t].phase \in {"entered", "executed"} => Entered(call[t].lease)
  /\ \A i \in DOMAIN runs : runs[i].lease \in claims \union lateReleased

\* A lease enters the executor at most once, whichever hosts and threads ask
\* for it and however often they crash, as long as its claim was never given
\* up after an entry (macro_lease_execution_handoff.py, execute).
SingleUse ==
  \A i, j \in DOMAIN runs :
    runs[i].lease = runs[j].lease /\ runs[i].lease \notin lateReleased => i = j

\* Durable consumption and the claim file agree: a lease whose consuming
\* receipt is on record is still claimed, so that neither the receipt scan
\* nor the O_EXCL create alone has to stop a replay.
ConsumedStaysClaimed ==
  \A r \in receipts :
    r.status \in Outcomes /\ r.lease \notin lateReleased => r.lease \in claims

\* A consuming receipt, and a receipt reported to the caller, is about a lease
\* that entered the executor; a denial or a hold is never the record of one.
OutcomesHaveEntries ==
  /\ \A r \in receipts : r.status \in Outcomes => Entered(r.lease)
  /\ \A r \in handoff :
       r.status \in Outcomes => [lease |-> r.lease, status |-> r.status] \in receipts

\* One host's issue lock suffices for one lease per binding: two records of
\* one binding can only come from two hosts.
OneLeasePerIssuer ==
  \A i, j \in DOMAIN custody :
    /\ custody[i].id.binding = custody[j].id.binding
    /\ custody[i].host = custody[j].host
    => i = j

\* Two callers never both stand between claim and report for one lease, in
\* one host or in two, late releases included.
OneClaimant ==
  \A t, u \in Threads :
    /\ call[t].phase \in ClaimPhases /\ call[u].phase \in ClaimPhases
    /\ call[t].lease = call[u].lease
    => t = u

\* A claim that no live call holds (its host was killed, or its call raised
\* with the claim retained) is never given up: the lease stays unavailable
\* rather than becoming executable a second time.
AbandonedClaimStays ==
  [][\A l \in claims : Claimants(l) = {} => l \in claims']_vars

\* MACRO_RUNTIME_V0.34: "One executable binding may produce at most one
\* ActionLease record."
OneLeasePerBinding ==
  \A i, j \in DOMAIN custody :
    custody[i].id.binding = custody[j].id.binding => i = j

\* MACRO_RUNTIME_V0.35: "Once the executor is entered, SUCCEEDED, FAILED, and
\* OUTCOME_UNKNOWN all consume the lease": no lease is entered twice.
EntryConsumes ==
  \A i, j \in DOMAIN runs : runs[i].lease = runs[j].lease => i = j

\* PHIOS_ACTION_LEASE_V0.1: the currency check uses the current time, and an
\* expired lease does not enter the executor: the recheck under the lock
\* happens before the lease's end.
RecheckedBeforeExpiry ==
  \A i \in DOMAIN runs : runs[i].checked < runs[i].lease.until

-----------------------------------------------------------------------------
(* The abstract promise.                                                   *)

Promise == INSTANCE SingleUseLease
             WITH reserved <- claims,
                  used <- [i \in DOMAIN runs |-> runs[i].lease]

\* The leased path implements the abstract single-use lease.
ImplementsSingleUse == Promise!USpec

-----------------------------------------------------------------------------
(* Progress.                                                               *)

\* A host that is not killed runs the call it is in: the services never wait
\* for anything but the lock of their own instance.
FairSpec == Spec /\ \A t \in Threads : WF_vars(Proceed(t))

\* A call that holds the handoff's lock gives it back, whatever claims other
\* hosts hold or left behind.
HolderReturns ==
  \A t \in Threads : call[t].phase \in HandoffPhases ~> call[t].phase = "idle"
=============================================================================
