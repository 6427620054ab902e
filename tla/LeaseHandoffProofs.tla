------------------------- MODULE LeaseHandoffProofs -------------------------
(***************************************************************************)
(* Theorems about the lease path, for every number of hosts and callers,   *)
(* every fault set and every bound of LeaseHandoff.                        *)
(***************************************************************************)
EXTENDS LeaseHandoff, TLAPS

\* What a call's phase says about its locals: past the custody check the
\* lease is one that was issued; an outcome is known exactly after the
\* executor answered.
WellFormed(c) ==
  /\ c \in CallState
  /\ c.phase \in {"issuing"} \union HandoffPhases => c.lease \in LeaseId
  /\ IF c.phase \in {"executed", "recorded"}
     THEN c.outcome \in Outcomes
     ELSE c.outcome = "not_executed"

CallInv == \A t \in Threads : WellFormed(call[t])

TypeInv == TypeOK /\ CallInv

LEMMA BoundsInNat ==
  /\ MaxTime \in Nat /\ MaxEpoch \in Nat /\ MaxBinding \in Nat
  /\ MaxConfig \in Nat /\ MaxCustody \in Nat /\ MaxRuns \in Nat
  /\ MaxLeaseTime \in Nat /\ MaxLeaseTime > 0
  BY BoundAssumption

-----------------------------------------------------------------------------
(* Calls.                                                                  *)

LEMMA IdleTyped == WellFormed(IdleCall) /\ 0 \in Times
  BY BoundsInNat DEF WellFormed, IdleCall, CallState, Times, Phases,
                     HandoffPhases

LEMMA CallUpdate ==
  ASSUME TypeInv, NEW t \in Threads, NEW c, WellFormed(c),
         call' = [call EXCEPT ![t] = c]
  PROVE  call' \in [Threads -> CallState] /\ CallInv'
  <1>1. call \in [Threads -> CallState] /\ CallInv /\ c \in CallState
    BY DEF TypeInv, TypeOK, WellFormed
  <1>2. \A u \in Threads : call'[u] = IF u = t THEN c ELSE call[u]
    BY <1>1
  <1> QED
    BY <1>1, <1>2 DEF CallInv

LEMMA Returned ==
  ASSUME TypeInv, NEW t \in Threads, Return(t)
  PROVE  call' \in [Threads -> CallState] /\ CallInv'
  BY CallUpdate, IdleTyped DEF Return

\* A step inside a call keeps the lease, and leaves the outcome's knownness.
LEMMA Moved ==
  ASSUME TypeInv, NEW t \in Threads, NEW p \in HandoffPhases, Goto(t, p),
         call[t].phase \in HandoffPhases,
         p \in {"executed", "recorded"}
           <=> call[t].phase \in {"executed", "recorded"}
  PROVE  call' \in [Threads -> CallState] /\ CallInv'
  <1> DEFINE c == [call[t] EXCEPT !.phase = p]
  <1>1. WellFormed(call[t])
    BY DEF TypeInv, CallInv
  <1>2. c \in CallState /\ c.phase = p /\ c.lease = call[t].lease
        /\ c.outcome = call[t].outcome
    BY <1>1 DEF WellFormed, CallState, Phases
  <1>3. WellFormed(c)
    BY <1>1, <1>2 DEF WellFormed
  <1>4. call' = [call EXCEPT ![t] = c]
    BY DEF Goto
  <1> QED
    BY <1>3, <1>4, CallUpdate

-----------------------------------------------------------------------------
(* Type correctness.                                                       *)

LEMMA TypeInvInit == Init => TypeInv
  <1> SUFFICES ASSUME Init PROVE TypeInv
    OBVIOUS
  <1>1. manifest \in ExecutionManifest
    BY BoundsInNat DEF Init, ExecutionManifest, AuthorityEpoch
  <1>2. mount \in [Hosts -> MountState]
    BY DEF Init, Unmounted, MountState
  <1>3. call \in [Threads -> CallState] /\ CallInv
    BY IdleTyped DEF Init, CallInv, WellFormed
  <1>4. custody \in Seq(LeaseRecord) /\ runs \in Seq(Entry)
    BY DEF Init
  <1>5. clock \in Times /\ bound \in 0..MaxBinding
    BY BoundsInNat, IdleTyped DEF Init
  <1>6. stale \in BOOLEAN
    BY DEF Init
  <1> QED
    BY <1>1, <1>2, <1>3, <1>4, <1>5, <1>6 DEF Init, TypeInv, TypeOK

\* The lease a successful check builds is well formed.
LEMMA IssuedLeaseTyped ==
  ASSUME TypeOK, NEW t \in Threads, IssueReady(t)
  PROVE  [binding |-> bound, epoch |-> manifest.epoch.id, from |-> clock,
          until |-> ValidUntil] \in LeaseId
  <1>1. /\ clock \in Times /\ bound \in 0..MaxBinding
        /\ manifest.epoch.id \in 0..MaxEpoch
        /\ manifest.epoch.next \in Times \union {NoTransition}
    BY DEF TypeOK, ExecutionManifest, AuthorityEpoch
  <1>2. ValidUntil \in 0..(MaxTime + MaxLeaseTime)
    BY <1>1, BoundsInNat DEF ValidUntil, Times
  <1> QED
    BY <1>1, <1>2 DEF LeaseId

LEMMA EnvironmentTyped == TypeInv /\ Environment => TypeInv'
  <1> SUFFICES ASSUME TypeInv, Environment PROVE TypeInv'
    OBVIOUS
  <1> USE DEF TypeInv
  <1>t. TypeOK /\ CallInv
    OBVIOUS
  <1>1. CASE Tick
    <2>1. clock' \in Times
      BY <1>1, BoundsInNat DEF Tick, TypeOK, Times
    <2> QED
      BY <1>1, <2>1 DEF Tick, TypeOK, CallInv
  <1>2. CASE ChangeAuthority
    <2>1. PICK granted \in BOOLEAN,
               next \in {NoTransition} \union ((clock + 1)..MaxTime) :
                 manifest' = [manifest EXCEPT !.epoch =
                   [id |-> @.id + 1, granted |-> granted, next |-> next]]
      BY <1>2 DEF ChangeAuthority
    <2>2. /\ clock \in 0..MaxTime /\ manifest \in ExecutionManifest
          /\ manifest.epoch.id \in 0..MaxEpoch /\ manifest.epoch.id < MaxEpoch
      BY <1>2 DEF ChangeAuthority, TypeOK, Times, ExecutionManifest,
                  AuthorityEpoch
    <2>3. [id |-> manifest.epoch.id + 1, granted |-> granted, next |-> next]
            \in AuthorityEpoch
      BY <2>2, BoundsInNat DEF AuthorityEpoch, Times
    <2>4. manifest' \in ExecutionManifest
      BY <2>1, <2>2, <2>3 DEF ExecutionManifest
    <2> QED
      BY <1>2, <2>4 DEF ChangeAuthority, TypeOK, CallInv
  <1>3. CASE ChangeStaticConfig
    <2>1. manifest \in ExecutionManifest
          /\ manifest' = [manifest EXCEPT !.config = @ + 1]
      BY <1>3 DEF ChangeStaticConfig, TypeOK
    <2>2. manifest' \in ExecutionManifest
      BY <2>1 DEF ExecutionManifest
    <2> QED
      BY <1>3, <2>2 DEF ChangeStaticConfig, TypeOK, CallInv
  <1>4. CASE ToggleManifest
    <2>1. manifest' \in ExecutionManifest
      BY <1>4 DEF ToggleManifest, TypeOK, ExecutionManifest
    <2> QED
      BY <1>4, <2>1 DEF ToggleManifest, TypeOK, CallInv
  <1>5. CASE BindExecutable
    <2>1. bound' \in 0..MaxBinding
      BY <1>5, BoundsInNat DEF BindExecutable, TypeOK
    <2>2. stale' \in BOOLEAN
      BY <1>5 DEF BindExecutable
    <2> QED
      BY <1>5, <2>1, <2>2 DEF BindExecutable, TypeOK, CallInv
  <1>6. CASE SupersedeBinding
    BY <1>6 DEF SupersedeBinding, TypeOK, CallInv
  <1>7. ASSUME NEW h \in Hosts, Mount(h) PROVE TypeInv'
    <2>1. mount' \in [Hosts -> MountState]
      BY <1>7 DEF Mount, TypeOK, MountState, ExecutionManifest, AuthorityEpoch
    <2> QED
      BY <1>7, <2>1 DEF Mount, TypeOK, CallInv
  <1>8. ASSUME NEW h \in Hosts, Crash(h) PROVE TypeInv'
    <2>1. mount' \in [Hosts -> MountState]
      BY <1>8 DEF Crash, TypeOK, MountState, Unmounted
    <2>2. call' \in [Threads -> CallState] /\ CallInv'
      BY <1>8, IdleTyped DEF Crash, TypeOK, CallInv, WellFormed
    <2> QED
      BY <1>8, <2>1, <2>2 DEF Crash, TypeOK
  <1>9. ASSUME NEW L \in Ledgers, TearLedger(L) PROVE TypeInv'
    BY <1>9 DEF TearLedger, TypeOK, CallInv
  <1> QED
    BY <1>1, <1>2, <1>3, <1>4, <1>5, <1>6, <1>7, <1>8, <1>9 DEF Environment

LEMMA RecordsTyped ==
  ASSUME TypeOK
  PROVE  \A i \in DOMAIN custody : custody[i].id \in LeaseId
  <1>1. \A i \in DOMAIN custody : custody[i] \in LeaseRecord
    BY DEF TypeOK
  <1> QED
    BY <1>1 DEF LeaseRecord

LEMMA IssueTyped ==
  ASSUME TypeInv, NEW t \in Threads, IssueCheck(t) \/ IssueRecord(t)
  PROVE  TypeInv'
  <1> USE DEF TypeInv
  <1>1. CASE IssueCheck(t)
    <2> DEFINE l == [binding |-> bound, epoch |-> manifest.epoch.id,
                     from |-> clock, until |-> ValidUntil]
               c == [call[t] EXCEPT !.phase = "issuing", !.lease = l]
    <2>1. l \in LeaseId
      BY <1>1, IssuedLeaseTyped DEF IssueCheck
    <2>2. WellFormed(call[t]) /\ call[t].phase = "idle"
      BY <1>1 DEF IssueCheck, CallInv
    <2>3. WellFormed(c)
      BY <2>1, <2>2 DEF WellFormed, CallState, Phases
    <2>4. call' = [call EXCEPT ![t] = c]
      BY <1>1 DEF IssueCheck
    <2>5. call' \in [Threads -> CallState] /\ CallInv'
      BY <2>3, <2>4, CallUpdate
    <2> QED
      BY <1>1, <2>5 DEF IssueCheck, TypeOK
  <1>2. CASE IssueRecord(t)
    <2> DEFINE row == [id |-> call[t].lease, config |-> mount[HostOf[t]].config,
                       host |-> HostOf[t]]
    <2>1. row \in LeaseRecord
      BY <1>2, HostOfAssumption
         DEF IssueRecord, CallInv, WellFormed, TypeOK, MountState, LeaseRecord
    <2>2. custody' \in Seq(LeaseRecord)
      BY <1>2, <2>1 DEF IssueRecord, TypeOK
    <2>3. call' \in [Threads -> CallState] /\ CallInv'
      BY <1>2, Returned DEF IssueRecord
    <2> QED
      BY <1>2, <2>2, <2>3 DEF IssueRecord, TypeOK
  <1> QED
    BY <1>1, <1>2

LEMMA ChecksTyped ==
  ASSUME TypeInv, NEW t \in Threads,
         ExecuteCall(t) \/ CheckCustody(t) \/ CheckCurrency(t)
  PROVE  TypeInv'
  <1> USE DEF TypeInv
  <1>w. WellFormed(call[t])
    BY DEF CallInv
  <1>1. CASE ExecuteCall(t)
    <2>1. PICK l \in Issued \union {NoLease} :
            call' = [call EXCEPT ![t].phase = "waiting", ![t].lease = l,
                                 ![t].attempted = clock]
      BY <1>1 DEF ExecuteCall
    <2> DEFINE c == [call[t] EXCEPT !.phase = "waiting", !.lease = l,
                                    !.attempted = clock]
    <2>2. l \in LeaseId \union {NoLease} /\ clock \in Times
      BY <2>1, RecordsTyped DEF TypeOK, Issued
    <2>3. WellFormed(c)
      BY <1>1, <1>w, <2>2
         DEF ExecuteCall, WellFormed, CallState, Phases, HandoffPhases
    <2>4. call' \in [Threads -> CallState] /\ CallInv'
      BY <2>1, <2>3, CallUpdate
    <2> QED
      BY <1>1, <2>4 DEF ExecuteCall, TypeOK
  <1>2. CASE CheckCustody(t)
    <2>1. CASE Return(t)
      <3>1. call' \in [Threads -> CallState] /\ CallInv'
        BY <2>1, Returned
      <3> QED
        BY <1>2, <3>1 DEF CheckCustody, TypeOK
    <2>2. CASE CustodyCurrent(t) /\
               call' = [call EXCEPT ![t].phase = "checked", ![t].checked = clock]
      <3> DEFINE c == [call[t] EXCEPT !.phase = "checked", !.checked = clock]
      <3>1. call[t].lease \in LeaseId /\ clock \in Times
        BY <2>2, RecordsTyped DEF CustodyCurrent, RecordsOf, TypeOK
      <3>2. WellFormed(c)
        BY <1>2, <1>w, <3>1
           DEF CheckCustody, WellFormed, CallState, Phases, HandoffPhases
      <3>3. call' \in [Threads -> CallState] /\ CallInv'
        BY <2>2, <3>2, CallUpdate
      <3> QED
        BY <1>2, <3>3 DEF CheckCustody, TypeOK
    <2> QED
      BY <1>2, <2>1, <2>2 DEF CheckCustody, Hold
  <1>3. CASE CheckCurrency(t)
    <2>1. call' \in [Threads -> CallState] /\ CallInv'
      <3>1. CASE Return(t)
        BY <3>1, Returned
      <3>2. CASE Goto(t, "usable")
        BY <1>3, <3>2, Moved DEF CheckCurrency, HandoffPhases
      <3> QED
        BY <1>3, <3>1, <3>2 DEF CheckCurrency, Hold
    <2> QED
      BY <1>3, <2>1 DEF CheckCurrency, TypeOK
  <1> QED
    BY <1>1, <1>2, <1>3

LEMMA AppendTyped ==
  ASSUME NEW S, NEW s \in Seq(S), NEW x \in S
  PROVE  Append(s, x) \in Seq(S)
  OBVIOUS

LEMMA SpineTyped ==
  ASSUME TypeInv, NEW t \in Threads,
         Claim(t) \/ SpineGate(t) \/ SpineExecute(t) \/ SpineRecord(t)
  PROVE  TypeInv'
  <1> USE DEF TypeInv
  <1>w. WellFormed(call[t])
    BY DEF CallInv
  <1>l. ASSUME call[t].phase \in HandoffPhases PROVE call[t].lease \in LeaseId
    BY <1>w, <1>l DEF WellFormed
  <1>1. CASE Claim(t)
    <2>1. claims' \subseteq LeaseId
      BY <1>1, <1>l DEF Claim, TypeOK, HandoffPhases
    <2>2. CASE Return(t)
      <3>1. call' \in [Threads -> CallState] /\ CallInv'
        BY <2>2, Returned
      <3> QED
        BY <1>1, <2>1, <3>1 DEF Claim, TypeOK
    <2>3. CASE Goto(t, "claimed")
      <3>1. call' \in [Threads -> CallState] /\ CallInv'
        BY <1>1, <2>3, Moved DEF Claim, HandoffPhases
      <3> QED
        BY <1>1, <2>1, <3>1 DEF Claim, TypeOK
    <2> QED
      BY <1>1, <2>2, <2>3 DEF Claim, Hold
  <1>2. CASE SpineGate(t)
    <2> DEFINE e == [lease |-> call[t].lease, attempted |-> call[t].attempted,
                     checked |-> call[t].checked]
    <2>1. e \in Entry
      BY <1>2, <1>w, <1>l
         DEF SpineGate, WellFormed, CallState, Entry, HandoffPhases
    <2>2. runs' \in Seq(Entry)
      <3>1. runs' = runs \/ runs' = Append(runs, e)
        BY <1>2 DEF SpineGate
      <3>2. runs \in Seq(Entry)
        BY DEF TypeOK
      <3>3. Append(runs, e) \in Seq(Entry)
        BY <2>1, <3>2, AppendTyped
      <3> QED
        BY <3>1, <3>2, <3>3
    <2>3. claims' \subseteq LeaseId
      BY <1>2 DEF SpineGate, ReleaseAndRaise, RetainAndRaise, TypeOK
    <2>4. CASE Return(t)
      <3>1. call' \in [Threads -> CallState] /\ CallInv'
        BY <2>4, Returned
      <3> QED
        BY <1>2, <2>2, <2>3, <3>1 DEF SpineGate, TypeOK
    <2>5. CASE Goto(t, "entered") \/ Goto(t, "denying")
      <3>1. call' \in [Threads -> CallState] /\ CallInv'
        BY <1>2, <2>5, Moved DEF SpineGate, HandoffPhases
      <3> QED
        BY <1>2, <2>2, <2>3, <3>1 DEF SpineGate, TypeOK
    <2> QED
      BY <1>2, <2>4, <2>5 DEF SpineGate, ReleaseAndRaise, RetainAndRaise
  <1>3. CASE SpineExecute(t)
    <2>1. claims' \subseteq LeaseId /\ lateReleased' \subseteq LeaseId
      BY <1>3 DEF SpineExecute, ReleaseLate, ReleaseAndRaise, RetainAndRaise,
                  TypeOK
    <2>2. CASE Return(t)
      <3>1. call' \in [Threads -> CallState] /\ CallInv'
        BY <2>2, Returned
      <3> QED
        BY <1>3, <2>1, <3>1 DEF SpineExecute, TypeOK
    <2>3. ASSUME NEW o \in Outcomes,
                 call' = [call EXCEPT ![t].phase = "executed", ![t].outcome = o]
          PROVE  TypeInv'
      <3> DEFINE c == [call[t] EXCEPT !.phase = "executed", !.outcome = o]
      <3>1. call[t].lease \in LeaseId
        BY <1>3, <1>l DEF SpineExecute, HandoffPhases
      <3>2. WellFormed(c)
        BY <1>w, <3>1 DEF WellFormed, CallState, Phases, HandoffPhases
      <3>3. call' \in [Threads -> CallState] /\ CallInv'
        BY <2>3, <3>2, CallUpdate
      <3> QED
        BY <1>3, <2>1, <3>3 DEF SpineExecute, TypeOK
    <2> QED
      BY <1>3, <2>2, <2>3
         DEF SpineExecute, ReleaseLate, ReleaseAndRaise, RetainAndRaise
  <1>4. CASE SpineRecord(t)
    <2>1. claims' \subseteq LeaseId /\ lateReleased' \subseteq LeaseId
      BY <1>4 DEF SpineRecord, ReleaseLate, ReleaseAndRaise, RetainAndRaise,
                  TypeOK
    <2>2. [lease |-> call[t].lease, status |-> call[t].outcome]
            \in [lease : LeaseId, status : Outcomes \union {"not_executed"}]
      BY <1>4, <1>w, <1>l DEF SpineRecord, WellFormed, HandoffPhases
    <2>3. receipts' \subseteq
            [lease : LeaseId, status : Outcomes \union {"not_executed"}]
      BY <1>4, <2>2 DEF SpineRecord, TypeOK
    <2>4. CASE Return(t)
      <3>1. call' \in [Threads -> CallState] /\ CallInv'
        BY <2>4, Returned
      <3> QED
        BY <1>4, <2>1, <2>3, <3>1 DEF SpineRecord, TypeOK
    <2>5. CASE Goto(t, IF call[t].phase = "executed" THEN "recorded"
                                                     ELSE "denied")
      <3>1. call' \in [Threads -> CallState] /\ CallInv'
        BY <1>4, <2>5, Moved DEF SpineRecord, HandoffPhases
      <3> QED
        BY <1>4, <2>1, <2>3, <3>1 DEF SpineRecord, TypeOK
    <2> QED
      BY <1>4, <2>4, <2>5
         DEF SpineRecord, ReleaseLate, ReleaseAndRaise, RetainAndRaise
  <1> QED
    BY <1>1, <1>2, <1>3, <1>4

LEMMA CompletionsTyped ==
  ASSUME TypeInv, NEW t \in Threads, CompleteDenied(t) \/ CompleteExecuted(t)
  PROVE  TypeInv'
  <1> USE DEF TypeInv
  <1>w. WellFormed(call[t])
    BY DEF CallInv
  <1>1. claims' \subseteq LeaseId
    BY DEF CompleteDenied, CompleteExecuted, RetainAndRaise, TypeOK
  <1>2. Return(t)
    BY DEF CompleteDenied, CompleteExecuted, Answer, RetainAndRaise
  <1>3. call' \in [Threads -> CallState] /\ CallInv'
    BY <1>2, Returned
  <1>4. handoff' \subseteq [lease : LeaseId, status : Outcomes \union {"DENIED"}]
    BY <1>w DEF CompleteDenied, CompleteExecuted, Answer, TypeOK, WellFormed,
                HandoffPhases
  <1> QED
    BY <1>1, <1>3, <1>4 DEF CompleteDenied, CompleteExecuted, TypeOK

LEMMA TypeInvNext == TypeInv /\ [Next]_vars => TypeInv'
  <1>1. TypeInv /\ UNCHANGED vars => TypeInv'
    BY DEF vars, TypeInv, TypeOK, CallInv
  <1>2. ASSUME TypeInv, NEW t \in Threads, Caller(t) PROVE TypeInv'
    BY <1>2, IssueTyped, ChecksTyped, SpineTyped, CompletionsTyped
       DEF Caller, Proceed
  <1> QED
    BY <1>1, <1>2, EnvironmentTyped DEF Next

\* Type correctness of the leased path: every claim, receipt and executor
\* entry is about a lease that some host really built, whatever crashes and
\* append failures happen.
THEOREM TypeCorrect == Spec => []TypeOK
  <1>1. Spec => []TypeInv
    BY TypeInvInit, TypeInvNext, PTL DEF Spec
  <1>2. TypeInv => TypeOK
    BY DEF TypeInv
  <1> QED
    BY <1>1, <1>2, PTL

-----------------------------------------------------------------------------
(* Single use.  The claim file carries the argument: ClaimCustody and       *)
(* OneClaimant say that a lease is entered only by the one caller whose     *)
(* claim file exists, and that the file outlives the entry.                 *)

\* A reported outcome is on record before it is reported.
RecordedInv ==
  \A t \in Threads :
    call[t].phase = "recorded"
      => [lease |-> call[t].lease, status |-> call[t].outcome] \in receipts

ReceiptsInv == \A r \in receipts : r.status \in Outcomes => Entered(r.lease)

Safe ==
  /\ TypeInv
  /\ ClaimCustody
  /\ OneClaimant
  /\ SingleUse
  /\ RecordedInv
  /\ ReceiptsInv

\* The phases Safe says something about.
Watched == ClaimPhases \union {"recorded"}

LEMMA ReturnEffect ==
  ASSUME TypeInv, NEW t \in Threads, Return(t)
  PROVE  \A u \in Threads : call'[u] = IF u = t THEN IdleCall ELSE call[u]
  BY DEF TypeInv, TypeOK, Return

LEMMA GotoEffect ==
  ASSUME TypeInv, NEW t \in Threads, NEW p, Goto(t, p)
  PROVE  \A u \in Threads :
           /\ call'[u].lease = call[u].lease
           /\ call'[u].outcome = call[u].outcome
           /\ call'[u].phase = IF u = t THEN p ELSE call[u].phase
  BY DEF TypeInv, TypeOK, CallState, Goto

\* A step that leaves the claims and the records alone, and only takes
\* callers out of the watched phases.
LEMMA Quiet ==
  ASSUME Safe, TypeInv', UNCHANGED <<claims, receipts, runs, lateReleased>>,
         \A u \in Threads : call'[u] = call[u] \/ call'[u].phase \notin Watched
  PROVE  Safe'
  <1> USE DEF Safe, Watched
  <1>1. ClaimCustody'
    BY DEF ClaimCustody, Entered, ClaimPhases
  <1>2. OneClaimant'
    BY DEF OneClaimant, ClaimPhases
  <1>3. SingleUse' /\ ReceiptsInv'
    BY DEF SingleUse, ReceiptsInv, Entered
  <1>4. RecordedInv'
    BY DEF RecordedInv
  <1> QED
    BY <1>1, <1>2, <1>3, <1>4

\* A holder whose lease was not entered gives its claim up, or keeps it and
\* raises.
LEMMA Released ==
  ASSUME Safe, TypeInv', NEW t \in Threads,
         call[t].phase \in {"claimed", "denying", "denied"},
         claims' = claims \ {call[t].lease} \/ UNCHANGED claims,
         Return(t), UNCHANGED <<receipts, runs, lateReleased>>
  PROVE  Safe'
  <1> USE DEF Safe
  <1>1. \A u \in Threads : call'[u] = IF u = t THEN IdleCall ELSE call[u]
    BY ReturnEffect
  <1>2. IdleCall.phase = "idle"
    BY DEF IdleCall
  <1>3. \A u \in Threads \ {t} :
          call[u].phase \in ClaimPhases => call[u].lease # call[t].lease
    BY DEF OneClaimant, ClaimPhases
  <1>4. ClaimCustody'
    BY <1>1, <1>2, <1>3 DEF ClaimCustody, Entered, ClaimPhases
  <1>5. OneClaimant'
    BY <1>1, <1>2 DEF OneClaimant, ClaimPhases
  <1>6. SingleUse' /\ ReceiptsInv'
    BY DEF SingleUse, ReceiptsInv, Entered
  <1>7. RecordedInv'
    BY <1>1, <1>2 DEF RecordedInv
  <1> QED
    BY <1>4, <1>5, <1>6, <1>7

\* A holder whose lease was entered gives its claim up: the lease is late.
LEMMA ReleasedLate ==
  ASSUME Safe, TypeInv', NEW t \in Threads,
         call[t].phase \in {"entered", "executed"},
         ReleaseLate(t), UNCHANGED <<receipts, runs>>
  PROVE  Safe'
  <1> USE DEF Safe
  <1>1. \A u \in Threads : call'[u] = IF u = t THEN IdleCall ELSE call[u]
    BY ReturnEffect DEF ReleaseLate, ReleaseAndRaise
  <1>2. IdleCall.phase = "idle"
    BY DEF IdleCall
  <1>3. \A u \in Threads \ {t} :
          call[u].phase \in ClaimPhases => call[u].lease # call[t].lease
    BY DEF OneClaimant, ClaimPhases
  <1>4. /\ claims' \union lateReleased' = claims \union lateReleased
        /\ lateReleased \subseteq lateReleased'
        /\ \A l \in claims : l # call[t].lease => l \in claims'
    BY DEF ReleaseLate, ReleaseAndRaise
  <1>5. ClaimCustody'
    BY <1>1, <1>2, <1>3, <1>4 DEF ClaimCustody, Entered, ClaimPhases
  <1>6. OneClaimant'
    BY <1>1, <1>2 DEF OneClaimant, ClaimPhases
  <1>7. SingleUse' /\ ReceiptsInv'
    BY <1>4 DEF SingleUse, ReceiptsInv, Entered
  <1>8. RecordedInv'
    BY <1>1, <1>2 DEF RecordedInv
  <1> QED
    BY <1>5, <1>6, <1>7, <1>8

LEMMA SafeInit == Init => Safe
  <1> SUFFICES ASSUME Init PROVE Safe
    OBVIOUS
  <1>1. \A t \in Threads : call[t].phase = "idle"
    BY DEF Init, IdleCall
  <1>2. runs = <<>> /\ receipts = {}
    BY DEF Init
  <1> QED
    BY <1>1, <1>2, TypeInvInit
       DEF Safe, ClaimCustody, OneClaimant, SingleUse, RecordedInv, ReceiptsInv,
           Entered, ClaimPhases

LEMMA SafeClaim ==
  ASSUME Safe, TypeInv', NEW t \in Threads, Claim(t)
  PROVE  Safe'
  <1> USE DEF Safe
  <1>1. CASE Return(t) /\ UNCHANGED claims
    <2>1. \A u \in Threads : call'[u] = IF u = t THEN IdleCall ELSE call[u]
      BY <1>1, ReturnEffect
    <2> QED
      BY <1>1, <2>1, Quiet DEF Claim, Watched, ClaimPhases, IdleCall
  <1>2. CASE /\ call[t].lease \notin claims
             /\ claims' = claims \union {call[t].lease}
    <2>1. \A u \in Threads :
            /\ call'[u].phase \in Watched => call'[u].lease = call[u].lease
            /\ call'[u].phase \in Watched => call'[u].outcome = call[u].outcome
            /\ IF u = t THEN call'[u].phase \in {"idle", "claimed"}
                        ELSE call'[u].phase = call[u].phase
      <3>1. CASE Return(t)
        BY <3>1, ReturnEffect DEF IdleCall, Watched, ClaimPhases
      <3>2. CASE Goto(t, "claimed")
        BY <3>2, GotoEffect
      <3> QED
        BY <1>2, <3>1, <3>2 DEF Claim
    <2>2. Entered(call[t].lease) => call[t].lease \in lateReleased
      BY <1>2 DEF ClaimCustody, Entered
    <2>3. \A u \in Threads :
            call[u].phase \in ClaimPhases => call[u].lease # call[t].lease
      BY <1>2 DEF ClaimCustody
    <2>4. UNCHANGED <<receipts, runs, lateReleased>>
      BY DEF Claim
    <2>5. ClaimCustody'
      BY <1>2, <2>1, <2>2, <2>4 DEF ClaimCustody, Entered, ClaimPhases, Watched
    <2>6. OneClaimant'
      BY <2>1, <2>3 DEF OneClaimant, ClaimPhases, Watched
    <2>7. SingleUse' /\ ReceiptsInv'
      BY <2>4 DEF SingleUse, ReceiptsInv, Entered
    <2>8. RecordedInv'
      BY <2>1, <2>4 DEF RecordedInv, Watched
    <2> QED
      BY <2>5, <2>6, <2>7, <2>8
  <1> QED
    BY <1>1, <1>2 DEF Claim, Hold

\* The executor is entered: one more entry, of a lease never entered before.
LEMMA SafeEntry ==
  ASSUME Safe, TypeInv', NEW t \in Threads, call[t].phase = "claimed",
         Goto(t, "entered"),
         runs' = Append(runs, [lease |-> call[t].lease,
                               attempted |-> call[t].attempted,
                               checked |-> call[t].checked]),
         UNCHANGED <<claims, receipts, lateReleased>>
  PROVE  Safe'
  <1> USE DEF Safe
  <1> DEFINE l == call[t].lease
             n == Len(runs)
  <1>1. \A u \in Threads :
          /\ call'[u].lease = call[u].lease
          /\ call'[u].outcome = call[u].outcome
          /\ call'[u].phase = IF u = t THEN "entered" ELSE call[u].phase
    BY GotoEffect
  <1>2. /\ n \in Nat /\ DOMAIN runs = 1..n /\ DOMAIN runs' = 1..(n + 1)
        /\ \A i \in 1..n : runs'[i] = runs[i]
        /\ runs'[n + 1].lease = l
    <2>1. runs \in Seq(Entry)
      BY DEF TypeInv, TypeOK
    <2> QED
      BY <2>1
  <1>3. \A k : Entered(k)' <=> Entered(k) \/ k = l
    BY <1>2 DEF Entered
  <1>4. l \in claims /\ (~Entered(l) \/ l \in lateReleased)
    BY DEF ClaimCustody, ClaimPhases
  <1>5. \A u \in Threads \ {t} :
          call[u].phase \in ClaimPhases => call[u].lease # l
    BY DEF OneClaimant, ClaimPhases
  <1>6. \A i \in DOMAIN runs' : runs'[i].lease \in claims \union lateReleased
    BY <1>2, <1>4 DEF ClaimCustody
  <1>7. ClaimCustody'
    BY <1>1, <1>3, <1>4, <1>5, <1>6 DEF ClaimCustody, ClaimPhases
  <1>8. OneClaimant'
    BY <1>1 DEF OneClaimant, ClaimPhases
  <1>9. SingleUse'
    BY <1>2, <1>4 DEF SingleUse, Entered
  <1>10. ReceiptsInv' /\ RecordedInv'
    BY <1>1, <1>3 DEF ReceiptsInv, RecordedInv
  <1> QED
    BY <1>7, <1>8, <1>9, <1>10

\* A holder moves between claim and record without touching its claim.
LEMMA SafeMove ==
  ASSUME Safe, TypeInv', NEW t \in Threads, UNCHANGED <<claims, runs, lateReleased>>,
         receipts \subseteq receipts', ReceiptsInv',
         NEW p \in Watched,
         \A u \in Threads : u # t => call'[u] = call[u],
         call'[t].lease = call[t].lease, call'[t].phase = p,
         \/ call[t].phase = "claimed" /\ p = "denying"
         \/ call[t].phase = "denying" /\ p = "denied"
         \/ call[t].phase = "entered" /\ p = "executed"
         \/ /\ call[t].phase = "executed" /\ p = "recorded"
            /\ [lease |-> call'[t].lease, status |-> call'[t].outcome]
                 \in receipts'
  PROVE  Safe'
  <1> USE DEF Safe
  <1>1. ClaimCustody'
    BY DEF ClaimCustody, Entered, ClaimPhases
  <1>2. OneClaimant'
    BY DEF OneClaimant, ClaimPhases
  <1>3. SingleUse'
    BY DEF SingleUse
  <1>4. RecordedInv'
    BY DEF RecordedInv
  <1> QED
    BY <1>1, <1>2, <1>3, <1>4

LEMMA SafeGate ==
  ASSUME Safe, TypeInv', NEW t \in Threads, SpineGate(t)
  PROVE  Safe'
  <1> USE DEF Safe
  <1>1. /\ call[t].phase = "claimed"
        /\ UNCHANGED <<receipts, lateReleased>>
    BY DEF SpineGate
  <1>2. ASSUME Return(t), UNCHANGED runs,
               claims' = claims \ {call[t].lease} \/ UNCHANGED claims
        PROVE  Safe'
    BY <1>1, <1>2, Released
  <1>3. ASSUME Goto(t, "entered"), UNCHANGED claims,
               runs' = Append(runs, [lease |-> call[t].lease,
                                     attempted |-> call[t].attempted,
                                     checked |-> call[t].checked])
        PROVE  Safe'
    BY <1>1, <1>3, SafeEntry
  <1>4. CASE Goto(t, "denying") /\ UNCHANGED <<claims, runs>>
    <2>1. \A u \in Threads :
            /\ call'[u].lease = call[u].lease
            /\ call'[u].phase = IF u = t THEN "denying" ELSE call[u].phase
      BY <1>4, GotoEffect
    <2>2. \A u \in Threads : u # t => call'[u] = call[u]
      BY <1>4 DEF Goto, TypeInv, TypeOK
    <2>3. ReceiptsInv'
      BY <1>1, <1>4 DEF ReceiptsInv, Entered
    <2> QED
      BY <1>1, <1>4, <2>1, <2>2, <2>3, SafeMove DEF Watched, ClaimPhases
  <1> QED
    BY <1>2, <1>3, <1>4 DEF SpineGate, ReleaseAndRaise, RetainAndRaise

LEMMA SafeExecute ==
  ASSUME Safe, TypeInv', NEW t \in Threads, SpineExecute(t)
  PROVE  Safe'
  <1> USE DEF Safe
  <1>1. /\ call[t].phase = "entered"
        /\ UNCHANGED <<receipts, runs>>
    BY DEF SpineExecute
  <1>2. CASE ReleaseLate(t)
    BY <1>1, <1>2, ReleasedLate
  <1>3. CASE RetainAndRaise(t) /\ UNCHANGED lateReleased
    <2>1. \A u \in Threads : call'[u] = IF u = t THEN IdleCall ELSE call[u]
      BY <1>3, ReturnEffect DEF RetainAndRaise
    <2> QED
      BY <1>1, <1>3, <2>1, Quiet
         DEF RetainAndRaise, Watched, ClaimPhases, IdleCall
  <1>4. ASSUME NEW o \in Outcomes, UNCHANGED <<claims, lateReleased>>,
               call' = [call EXCEPT ![t].phase = "executed", ![t].outcome = o]
        PROVE  Safe'
    <2>1. /\ \A u \in Threads : u # t => call'[u] = call[u]
          /\ call'[t].lease = call[t].lease /\ call'[t].phase = "executed"
      BY <1>4 DEF TypeInv, TypeOK, CallState
    <2>2. ReceiptsInv'
      BY <1>1 DEF ReceiptsInv, Entered
    <2> QED
      BY <1>1, <1>4, <2>1, <2>2, SafeMove DEF Watched, ClaimPhases
  <1> QED
    BY <1>2, <1>3, <1>4 DEF SpineExecute

LEMMA SafeRecord ==
  ASSUME Safe, TypeInv', NEW t \in Threads, SpineRecord(t)
  PROVE  Safe'
  <1> USE DEF Safe
  <1>1. call[t].phase \in {"executed", "denying"} /\ UNCHANGED runs
    BY DEF SpineRecord
  <1>2. CASE ReleaseLate(t) /\ call[t].phase = "executed" /\ UNCHANGED receipts
    BY <1>1, <1>2, ReleasedLate
  <1>3. CASE /\ ReleaseAndRaise(t) /\ call[t].phase = "denying"
             /\ UNCHANGED <<receipts, lateReleased>>
    BY <1>1, <1>3, Released DEF ReleaseAndRaise
  <1>4. CASE RetainAndRaise(t) /\ UNCHANGED <<receipts, lateReleased>>
    <2>1. \A u \in Threads : call'[u] = IF u = t THEN IdleCall ELSE call[u]
      BY <1>4, ReturnEffect DEF RetainAndRaise
    <2> QED
      BY <1>1, <1>4, <2>1, Quiet
         DEF RetainAndRaise, Watched, ClaimPhases, IdleCall
  <1> DEFINE r == [lease |-> call[t].lease, status |-> call[t].outcome]
             p == IF call[t].phase = "executed" THEN "recorded" ELSE "denied"
  <1>5. CASE /\ receipts' = receipts \union {r} /\ Goto(t, p)
             /\ UNCHANGED <<claims, lateReleased>>
    <2>1. \A u \in Threads :
            /\ call'[u].lease = call[u].lease
            /\ call'[u].outcome = call[u].outcome
            /\ call'[u].phase = IF u = t THEN p ELSE call[u].phase
      BY <1>5, GotoEffect
    <2>2. \A u \in Threads : u # t => call'[u] = call[u]
      BY <1>5 DEF Goto, TypeInv, TypeOK
    <2>3. call[t].outcome \in Outcomes => Entered(call[t].lease)
      BY <1>1 DEF TypeInv, CallInv, WellFormed, Outcomes, ClaimCustody
    <2>4. ReceiptsInv'
      BY <1>1, <1>5, <2>3 DEF ReceiptsInv, Entered
    <2>5. CASE call[t].phase = "executed"
      BY <1>1, <1>5, <2>1, <2>2, <2>4, <2>5, SafeMove DEF Watched, ClaimPhases
    <2>6. CASE call[t].phase = "denying"
      BY <1>1, <1>5, <2>1, <2>2, <2>4, <2>6, SafeMove DEF Watched, ClaimPhases
    <2> QED
      BY <1>1, <2>5, <2>6
  <1> QED
    BY <1>2, <1>3, <1>4, <1>5 DEF SpineRecord

LEMMA SafeComplete ==
  ASSUME Safe, TypeInv', NEW t \in Threads, CompleteDenied(t) \/ CompleteExecuted(t)
  PROVE  Safe'
  <1> USE DEF Safe
  <1>1. CASE CompleteDenied(t)
    <2>1. /\ call[t].phase = "denied" /\ Return(t)
          /\ claims' = claims \ {call[t].lease} \/ UNCHANGED claims
          /\ UNCHANGED <<receipts, runs, lateReleased>>
      BY <1>1 DEF CompleteDenied, Answer, RetainAndRaise
    <2> QED
      BY <2>1, Released
  <1>2. CASE CompleteExecuted(t)
    <2>1. Return(t) /\ UNCHANGED <<claims, receipts, runs, lateReleased>>
      BY <1>2 DEF CompleteExecuted, Answer
    <2>2. \A u \in Threads : call'[u] = IF u = t THEN IdleCall ELSE call[u]
      BY <2>1, ReturnEffect
    <2> QED
      BY <2>1, <2>2, Quiet DEF Watched, ClaimPhases, IdleCall
  <1> QED
    BY <1>1, <1>2

\* Issuing and checking stay outside the watched phases.
LEMMA SafeOutside ==
  ASSUME Safe, TypeInv', NEW t \in Threads,
         \/ IssueCheck(t) \/ IssueRecord(t)
         \/ ExecuteCall(t) \/ CheckCustody(t) \/ CheckCurrency(t)
  PROVE  Safe'
  <1> USE DEF Safe
  <1>1. UNCHANGED <<claims, receipts, runs, lateReleased>>
    BY DEF IssueCheck, IssueRecord, ExecuteCall, CheckCustody, CheckCurrency
  <1>2. CASE Return(t)
    <2>1. \A u \in Threads : call'[u] = IF u = t THEN IdleCall ELSE call[u]
      BY <1>2, ReturnEffect
    <2> QED
      BY <1>1, <2>1, Quiet DEF Watched, ClaimPhases, IdleCall
  <1>3. ASSUME NEW c, c.phase \notin Watched, call' = [call EXCEPT ![t] = c]
        PROVE  Safe'
    <2>1. \A u \in Threads : call'[u] = IF u = t THEN c ELSE call[u]
      BY <1>3 DEF TypeInv, TypeOK
    <2> QED
      BY <1>1, <1>3, <2>1, Quiet
  <1>w. call[t] \in CallState
    BY DEF TypeInv, TypeOK
  <1>4. CASE IssueCheck(t)
    <2> DEFINE l == [binding |-> bound, epoch |-> manifest.epoch.id,
                     from |-> clock, until |-> ValidUntil]
               c == [call[t] EXCEPT !.phase = "issuing", !.lease = l]
    <2>1. call' = [call EXCEPT ![t] = c]
      BY <1>4 DEF IssueCheck
    <2>2. c.phase \notin Watched
      BY <1>w DEF CallState, Watched, ClaimPhases
    <2> QED
      BY <1>3, <2>1, <2>2
  <1>5. CASE ExecuteCall(t)
    <2>1. PICK l \in Issued \union {NoLease} :
            call' = [call EXCEPT ![t].phase = "waiting", ![t].lease = l,
                                 ![t].attempted = clock]
      BY <1>5 DEF ExecuteCall
    <2> DEFINE c == [call[t] EXCEPT !.phase = "waiting", !.lease = l,
                                    !.attempted = clock]
    <2>2. call' = [call EXCEPT ![t] = c]
      BY <2>1
    <2>3. c.phase \notin Watched
      BY <1>w DEF CallState, Watched, ClaimPhases
    <2> QED
      BY <1>3, <2>2, <2>3
  <1>6. CASE CheckCustody(t)
    <2> DEFINE c == [call[t] EXCEPT !.phase = "checked", !.checked = clock]
    <2>1. Return(t) \/ call' = [call EXCEPT ![t] = c]
      BY <1>6 DEF CheckCustody, Hold
    <2>2. c.phase \notin Watched
      BY <1>w DEF CallState, Watched, ClaimPhases
    <2> QED
      BY <1>2, <1>3, <2>1, <2>2
  <1>7. CASE CheckCurrency(t)
    <2> DEFINE c == [call[t] EXCEPT !.phase = "usable"]
    <2>1. Return(t) \/ call' = [call EXCEPT ![t] = c]
      BY <1>7 DEF CheckCurrency, Hold, Goto
    <2>2. c.phase \notin Watched
      BY <1>w DEF CallState, Watched, ClaimPhases
    <2> QED
      BY <1>2, <1>3, <2>1, <2>2
  <1>8. CASE IssueRecord(t)
    BY <1>2, <1>8 DEF IssueRecord
  <1> QED
    BY <1>4, <1>5, <1>6, <1>7, <1>8

LEMMA SafeEnvironment ==
  ASSUME Safe, TypeInv', Environment
  PROVE  Safe'
  <1>1. UNCHANGED <<claims, receipts, runs, lateReleased>>
    BY DEF Environment, Tick, ChangeAuthority, ChangeStaticConfig,
           ToggleManifest, BindExecutable, SupersedeBinding, Mount, Crash,
           TearLedger
  <1>2. CASE UNCHANGED call
    BY <1>1, <1>2, Quiet
  <1>3. ASSUME NEW h \in Hosts, Crash(h) PROVE Safe'
    <2>1. \A u \in Threads : call'[u] = call[u] \/ call'[u] = IdleCall
      BY <1>3 DEF Crash
    <2> QED
      BY <1>1, <2>1, Quiet DEF Watched, ClaimPhases, IdleCall
  <1>4. UNCHANGED call \/ \E h \in Hosts : Crash(h)
    BY DEF Environment, Tick, ChangeAuthority, ChangeStaticConfig,
           ToggleManifest, BindExecutable, SupersedeBinding, Mount, TearLedger
  <1> QED
    BY <1>2, <1>3, <1>4

LEMMA SafeNext == Safe /\ [Next]_vars => Safe'
  <1> SUFFICES ASSUME Safe, [Next]_vars PROVE Safe'
    OBVIOUS
  <1>t. TypeInv'
    BY TypeInvNext DEF Safe
  <1>1. CASE UNCHANGED vars
    BY <1>1, <1>t, Quiet DEF vars
  <1>2. CASE Environment
    BY <1>2, <1>t, SafeEnvironment
  <1>3. ASSUME NEW t \in Threads, Caller(t) PROVE Safe'
    BY <1>3, <1>t, SafeOutside, SafeClaim, SafeGate, SafeExecute, SafeRecord,
       SafeComplete DEF Caller, Proceed
  <1> QED
    BY <1>1, <1>2, <1>3 DEF Next

LEMMA AlwaysSafe == Spec => []Safe
  BY SafeInit, SafeNext, PTL DEF Spec

\* execute enters the executor at most once per ActionLease, for any number of
\* hosts, callers and crashes, unless the lease's claim was given up late.
THEOREM SingleUseHolds == Spec => []SingleUse
  <1>1. Safe => SingleUse
    BY DEF Safe
  <1> QED
    BY <1>1, AlwaysSafe, PTL

\* claim_action_lease lets one caller at a time stand between claim and report.
THEOREM OneClaimantHolds == Spec => []OneClaimant
  <1>1. Safe => OneClaimant
    BY DEF Safe
  <1> QED
    BY <1>1, AlwaysSafe, PTL

\* has_consumed_action_lease and the claim file agree in every state.
THEOREM ConsumedStaysClaimedHolds == Spec => []ConsumedStaysClaimed
  <1>1. Safe => ConsumedStaysClaimed
    BY DEF Safe, ClaimCustody, ReceiptsInv, Entered, ConsumedStaysClaimed
  <1> QED
    BY <1>1, AlwaysSafe, PTL

\* Claim files, calls and entries agree in every state.
THEOREM ClaimCustodyHolds == Spec => []ClaimCustody
  <1>1. Safe => ClaimCustody
    BY DEF Safe
  <1> QED
    BY <1>1, AlwaysSafe, PTL

-----------------------------------------------------------------------------
(* Reports.                                                                *)

ReportsInv ==
  \A r \in handoff :
    r.status \in Outcomes => [lease |-> r.lease, status |-> r.status] \in receipts

LEMMA ReportsNext == Safe /\ ReportsInv /\ [Next]_vars => ReportsInv'
  <1> SUFFICES ASSUME Safe, ReportsInv, [Next]_vars PROVE ReportsInv'
    OBVIOUS
  <1>1. CASE UNCHANGED handoff
    <2>1. receipts \subseteq receipts'
      BY DEF Next, vars, Environment, Tick, ChangeAuthority, ChangeStaticConfig,
             ToggleManifest, BindExecutable, SupersedeBinding, Mount, Crash,
             TearLedger, Caller, Proceed, IssueCheck, IssueRecord, ExecuteCall,
             CheckCustody, CheckCurrency, Claim, SpineGate, SpineExecute,
             SpineRecord, CompleteDenied, CompleteExecuted
    <2> QED
      BY <1>1, <2>1 DEF ReportsInv
  <1>2. ASSUME NEW t \in Threads, CompleteDenied(t) PROVE ReportsInv'
    BY <1>2 DEF CompleteDenied, Answer, ReportsInv, Outcomes
  <1>3. ASSUME NEW t \in Threads, CompleteExecuted(t) PROVE ReportsInv'
    BY <1>3 DEF CompleteExecuted, Answer, ReportsInv, Safe, RecordedInv
  <1>4. \/ UNCHANGED handoff
        \/ \E t \in Threads : CompleteDenied(t) \/ CompleteExecuted(t)
    BY DEF Next, vars, Environment, Tick, ChangeAuthority, ChangeStaticConfig,
           ToggleManifest, BindExecutable, SupersedeBinding, Mount, Crash,
           TearLedger, Caller, Proceed, IssueCheck, IssueRecord, ExecuteCall,
           CheckCustody, CheckCurrency, Claim, SpineGate, SpineExecute,
           SpineRecord
  <1> QED
    BY <1>1, <1>2, <1>3, <1>4

\* Every consuming receipt, and every outcome execute reports to its caller,
\* is about a lease that entered the executor.
THEOREM OutcomesHaveEntriesHolds == Spec => []OutcomesHaveEntries
  <1>1. Init => ReportsInv
    BY DEF Init, ReportsInv
  <1>2. Spec => []ReportsInv
    BY <1>1, AlwaysSafe, ReportsNext, PTL DEF Spec
  <1>3. Safe /\ ReportsInv => OutcomesHaveEntries
    BY DEF Safe, ReceiptsInv, ReportsInv, OutcomesHaveEntries
  <1> QED
    BY <1>2, <1>3, AlwaysSafe, PTL

-----------------------------------------------------------------------------
(* Abandoned claims.                                                       *)

LEMMA OnlyHoldersRelease ==
  ASSUME Next
  PROVE  \/ claims \subseteq claims'
         \/ \E t \in Threads : /\ call[t].phase \in ClaimPhases
                               /\ claims \ {call[t].lease} \subseteq claims'
  <1>1. CASE Environment
    BY <1>1 DEF Environment, Tick, ChangeAuthority, ChangeStaticConfig,
                ToggleManifest, BindExecutable, SupersedeBinding, Mount, Crash,
                TearLedger
  <1>2. ASSUME NEW t \in Threads, Caller(t)
        PROVE  \/ claims \subseteq claims'
               \/ /\ call[t].phase \in ClaimPhases
                  /\ claims \ {call[t].lease} \subseteq claims'
    <2>1. CASE IssueCheck(t) \/ IssueRecord(t) \/ ExecuteCall(t)
               \/ CheckCustody(t) \/ CheckCurrency(t) \/ Claim(t)
      BY <2>1 DEF IssueCheck, IssueRecord, ExecuteCall, CheckCustody,
                  CheckCurrency, Claim
    <2>2. CASE SpineGate(t) \/ SpineExecute(t) \/ SpineRecord(t)
      BY <2>2 DEF SpineGate, SpineExecute, SpineRecord, ReleaseLate,
                  ReleaseAndRaise, RetainAndRaise, ClaimPhases
    <2>3. CASE CompleteDenied(t) \/ CompleteExecuted(t)
      BY <2>3 DEF CompleteDenied, CompleteExecuted, RetainAndRaise, ClaimPhases
    <2> QED
      BY <1>2, <2>1, <2>2, <2>3 DEF Caller, Proceed
  <1> QED
    BY <1>1, <1>2 DEF Next

\* release_action_lease_claim is only ever called by the live call that made
\* the claim: what a crash or a raising call left behind stays claimed.
THEOREM AbandonedClaimStaysHolds == Spec => AbandonedClaimStays
  <1>1. [Next]_vars =>
          [\A l \in claims : Claimants(l) = {} => l \in claims']_vars
    BY OnlyHoldersRelease DEF Claimants
  <1> QED
    BY <1>1, PTL DEF Spec, AbandonedClaimStays

-----------------------------------------------------------------------------
(* Issuance.  The issue lock of a service instance makes the absence check  *)
(* and the append one step for the callers of that host, and for no other.  *)

IssueInv ==
  /\ \A t, u \in Threads :
       /\ call[t].phase = "issuing" /\ call[u].phase = "issuing"
       /\ HostOf[t] = HostOf[u]
       => t = u
  /\ \A t \in Threads : \A i \in DOMAIN custody :
       /\ call[t].phase = "issuing"
       /\ custody[i].id.binding = call[t].lease.binding
       => custody[i].host # HostOf[t]
  /\ OneLeasePerIssuer

\* A step that records nothing and starts no issuance.
LEMMA IssueQuiet ==
  ASSUME IssueInv, UNCHANGED custody,
         \A u \in Threads : call'[u] = call[u] \/ call'[u].phase # "issuing"
  PROVE  IssueInv'
  BY DEF IssueInv, OneLeasePerIssuer

LEMMA IssueCheckKeeps ==
  ASSUME TypeInv, IssueInv, NEW t \in Threads, IssueCheck(t)
  PROVE  IssueInv'
  <1> DEFINE l == [binding |-> bound, epoch |-> manifest.epoch.id,
                   from |-> clock, until |-> ValidUntil]
  <1>1. /\ \A u \in Threads : u # t => call'[u] = call[u]
        /\ call'[t].phase = "issuing" /\ call'[t].lease.binding = bound
    BY DEF IssueCheck, TypeInv, TypeOK, CallState
  <1>2. \A u \in Threads : HostOf[u] = HostOf[t] => call[u].phase # "issuing"
    BY DEF IssueCheck, IssueLockFree, Mates
  <1>3. \A i \in DOMAIN custody : custody[i].id.binding # bound
    BY DEF IssueCheck, IssueReady, RecordsFor
  <1>4. UNCHANGED custody
    BY DEF IssueCheck
  <1> QED
    BY <1>1, <1>2, <1>3, <1>4 DEF IssueInv, OneLeasePerIssuer

LEMMA IssueRecordKeeps ==
  ASSUME TypeInv, IssueInv, NEW t \in Threads, IssueRecord(t)
  PROVE  IssueInv'
  <1> DEFINE row == [id |-> call[t].lease, config |-> mount[HostOf[t]].config,
                     host |-> HostOf[t]]
             n == Len(custody)
  <1>1. \A u \in Threads : call'[u] = IF u = t THEN IdleCall ELSE call[u]
    BY ReturnEffect DEF IssueRecord
  <1>2. IdleCall.phase = "idle" /\ call[t].phase = "issuing"
    BY DEF IdleCall, IssueRecord
  <1>3. CASE UNCHANGED custody
    BY <1>1, <1>2, <1>3, IssueQuiet
  <1>4. CASE custody' = Append(custody, row)
    <2>1. custody \in Seq(LeaseRecord)
      BY DEF TypeInv, TypeOK
    <2>2. /\ n \in Nat /\ DOMAIN custody = 1..n /\ DOMAIN custody' = 1..(n + 1)
          /\ \A i \in 1..n : custody'[i] = custody[i]
          /\ custody'[n + 1] = row
      BY <1>4, <2>1
    <2>3. row.id = call[t].lease /\ row.host = HostOf[t]
      OBVIOUS
    <2> HIDE DEF row, n
    <2>4. \A i \in DOMAIN custody' : i \in DOMAIN custody \/ i = n + 1
      BY <2>2
    <2>5. OneLeasePerIssuer'
      BY <1>2, <2>2, <2>3, <2>4 DEF IssueInv, OneLeasePerIssuer
    <2>6. \A u \in Threads : \A i \in DOMAIN custody' :
            /\ call'[u].phase = "issuing"
            /\ custody'[i].id.binding = call'[u].lease.binding
            => custody'[i].host # HostOf[u]
      BY <1>1, <1>2, <2>2, <2>3, <2>4 DEF IssueInv
    <2> QED
      BY <1>1, <1>2, <2>5, <2>6 DEF IssueInv
  <1> QED
    BY <1>3, <1>4 DEF IssueRecord

LEMMA IssueInvNext == TypeInv /\ IssueInv /\ [Next]_vars => IssueInv'
  <1> SUFFICES ASSUME TypeInv, IssueInv, [Next]_vars PROVE IssueInv'
    OBVIOUS
  <1>1. CASE UNCHANGED vars
    BY <1>1, IssueQuiet DEF vars
  <1>2. CASE Environment
    <2>1. UNCHANGED custody
      BY <1>2 DEF Environment, Tick, ChangeAuthority, ChangeStaticConfig,
             ToggleManifest, BindExecutable, SupersedeBinding, Mount, Crash,
             TearLedger
    <2>2. \A u \in Threads : call'[u] = call[u] \/ call'[u] = IdleCall
      BY <1>2 DEF Environment, Tick, ChangeAuthority, ChangeStaticConfig,
             ToggleManifest, BindExecutable, SupersedeBinding, Mount, Crash,
             TearLedger
    <2> QED
      BY <2>1, <2>2, IssueQuiet DEF IdleCall
  <1>3. ASSUME NEW t \in Threads, Caller(t) PROVE IssueInv'
    <2>1. CASE IssueCheck(t)
      BY <2>1, IssueCheckKeeps
    <2>2. CASE IssueRecord(t)
      BY <2>2, IssueRecordKeeps
    <2>3. CASE ~IssueCheck(t) /\ ~IssueRecord(t)
      <3>1. UNCHANGED custody
        BY <1>3, <2>3 DEF Caller, Proceed, ExecuteCall, CheckCustody,
               CheckCurrency, Claim, SpineGate, SpineExecute, SpineRecord,
               CompleteDenied, CompleteExecuted
      <3>2. \A u \in Threads : u # t => call'[u] = call[u]
        BY <1>3, <2>3 DEF Caller, Proceed, ExecuteCall, CheckCustody,
               CheckCurrency, Claim, SpineGate, SpineExecute, SpineRecord,
               CompleteDenied, CompleteExecuted, Hold, Goto, Return, Answer,
               ReleaseLate, ReleaseAndRaise, RetainAndRaise, TypeInv, TypeOK
      <3>3. call'[t].phase # "issuing"
        <4>1. call \in [Threads -> CallState]
          BY DEF TypeInv, TypeOK
        <4>2. CASE ExecuteCall(t)
          <5>1. \E l : call' = [call EXCEPT ![t].phase = "waiting", ![t].lease = l,
                                            ![t].attempted = clock]
            BY <4>2 DEF ExecuteCall
          <5> QED
            BY <4>1, <5>1 DEF CallState
        <4>6. CASE CheckCustody(t)
          BY <4>1, <4>6 DEF CheckCustody, Hold, Return, CallState, IdleCall
        <4>7. CASE CheckCurrency(t)
          BY <4>1, <4>7 DEF CheckCurrency, Hold, Goto, Return, CallState, IdleCall
        <4>3. CASE Claim(t) \/ SpineGate(t)
          BY <4>1, <4>3 DEF Claim, SpineGate, Hold, Goto, Return,
                            ReleaseAndRaise, RetainAndRaise, CallState, IdleCall
        <4>4. CASE SpineExecute(t) \/ SpineRecord(t)
          BY <4>1, <4>4 DEF SpineExecute, SpineRecord, Goto, Return,
                            ReleaseLate, ReleaseAndRaise, RetainAndRaise,
                            CallState, IdleCall
        <4>5. CASE CompleteDenied(t) \/ CompleteExecuted(t)
          BY <4>1, <4>5 DEF CompleteDenied, CompleteExecuted, Answer, Return,
                            RetainAndRaise, IdleCall
        <4> QED
          BY <1>3, <2>3, <4>2, <4>3, <4>4, <4>5, <4>6, <4>7 DEF Caller, Proceed
      <3> QED
        BY <3>1, <3>2, <3>3, IssueQuiet
    <2> QED
      BY <2>1, <2>2, <2>3
  <1> QED
    BY <1>1, <1>2, <1>3 DEF Next

\* GhostWalkActionLeaseService.issue records at most one lease per binding
\* through any one service instance.
THEOREM OneLeasePerIssuerHolds == Spec => []OneLeasePerIssuer
  <1>1. Init => IssueInv
    BY DEF Init, IssueInv, OneLeasePerIssuer, IdleCall
  <1>2. Spec => []TypeInv
    BY TypeInvInit, TypeInvNext, PTL DEF Spec
  <1>3. Spec => []IssueInv
    BY <1>1, <1>2, IssueInvNext, PTL DEF Spec
  <1>4. IssueInv => OneLeasePerIssuer
    BY DEF IssueInv
  <1> QED
    BY <1>3, <1>4, PTL

-----------------------------------------------------------------------------
(* Refinement.  While appends either succeed or fail with an OSError, every *)
(* step is a step of SingleUseLease or leaves claims and entries alone.     *)

NoLateRelease == torn = {} /\ lateReleased = {}

LEMMA NoLateReleaseNext ==
  ASSUME Faults \subseteq {"io"}, NoLateRelease, [Next]_vars
  PROVE  NoLateRelease'
  <1> USE DEF NoLateRelease
  <1>1. CASE UNCHANGED vars
    BY <1>1 DEF vars
  <1>2. CASE Environment
    BY <1>2 DEF Environment, Tick, ChangeAuthority, ChangeStaticConfig,
                ToggleManifest, BindExecutable, SupersedeBinding, Mount, Crash,
                TearLedger
  <1>3. ASSUME NEW t \in Threads, Caller(t) PROVE NoLateRelease'
    <2>1. \A L : "refused" \notin AppendResults(L)
      BY DEF AppendResults
    <2>2. CASE SpineExecute(t) \/ SpineRecord(t)
      BY <2>1, <2>2 DEF SpineExecute, SpineRecord
    <2>3. CASE ~SpineExecute(t) /\ ~SpineRecord(t)
      BY <1>3, <2>3 DEF Caller, Proceed, IssueCheck, IssueRecord, ExecuteCall,
             CheckCustody, CheckCurrency, Claim, SpineGate, CompleteDenied,
             CompleteExecuted
    <2> QED
      BY <2>2, <2>3
  <1> QED
    BY <1>1, <1>2, <1>3 DEF Next

used == [i \in DOMAIN runs |-> runs[i].lease]

LEMMA SpentIsEntered == \A l : Promise!Spent(l) <=> Entered(l)
  BY DEF Promise!Spent, Entered

\* A release by a holder whose lease was not entered gives a reservation back.
LEMMA ReleaseImplements ==
  ASSUME Safe, NoLateRelease, NEW t \in Threads,
         call[t].phase \in {"claimed", "denying", "denied"},
         claims' = claims \ {call[t].lease}, UNCHANGED runs
  PROVE  Promise!UNext
  <1> DEFINE l == call[t].lease
  <1>1. l \in LeaseId
    BY DEF Safe, TypeInv, CallInv, WellFormed, HandoffPhases
  <1>2. l \in claims /\ ~Entered(l)
    BY DEF Safe, ClaimCustody, ClaimPhases, NoLateRelease
  <1>3. Promise!GiveBack(l)
    BY <1>2, SpentIsEntered DEF Promise!GiveBack
  <1> QED
    BY <1>1, <1>3 DEF Promise!UNext

LEMMA ClaimImplements ==
  ASSUME Safe, NoLateRelease, NEW t \in Threads, Claim(t)
  PROVE  Promise!UNext \/ UNCHANGED <<claims, runs>>
  <1> DEFINE l == call[t].lease
  <1>1. CASE l \notin claims /\ claims' = claims \union {l}
    <2>1. l \in LeaseId
      BY DEF Claim, Safe, TypeInv, CallInv, WellFormed, HandoffPhases
    <2>2. ~Entered(l)
      BY <1>1 DEF Safe, ClaimCustody, Entered, NoLateRelease
    <2>3. Promise!Reserve(l)
      BY <1>1, <2>2, SpentIsEntered DEF Promise!Reserve, Claim
    <2> QED
      BY <2>1, <2>3 DEF Promise!UNext
  <1>2. CASE UNCHANGED claims
    BY <1>2 DEF Claim
  <1> QED
    BY <1>1, <1>2 DEF Claim

LEMMA EntryImplements ==
  ASSUME Safe, NoLateRelease, NEW t \in Threads, call[t].phase = "claimed",
         UNCHANGED claims,
         runs' = Append(runs, [lease |-> call[t].lease,
                               attempted |-> call[t].attempted,
                               checked |-> call[t].checked])
  PROVE  Promise!UNext
  <1> DEFINE n == Len(runs)
  <1>1. PICK l \in LeaseId : l = call[t].lease
    BY DEF Safe, TypeInv, CallInv, WellFormed, HandoffPhases
  <1>2. l \in claims /\ ~Entered(l)
    BY <1>1 DEF Safe, ClaimCustody, ClaimPhases, NoLateRelease
  <1>3. /\ n \in Nat /\ DOMAIN runs = 1..n /\ DOMAIN runs' = 1..(n + 1)
        /\ \A i \in 1..n : runs'[i] = runs[i]
        /\ runs'[n + 1].lease = l
    <2>1. runs \in Seq(Entry)
      BY DEF Safe, TypeInv, TypeOK
    <2> QED
      BY <1>1, <2>1
  <1>4. used \in Seq(LeaseId) /\ Len(used) = n
    <2>1. \A i \in 1..n : runs[i].lease \in LeaseId
      <3>1. \A i \in 1..n : runs[i] \in Entry
        BY DEF Safe, TypeInv, TypeOK
      <3> QED
        BY <3>1 DEF Entry
    <2> QED
      BY <1>3, <2>1 DEF used
  <1>5. used' = Append(used, l)
    BY <1>1, <1>3, <1>4 DEF used
  <1>6. Promise!EnterExecutor(l)
    BY <1>2, <1>5, SpentIsEntered DEF Promise!EnterExecutor, used
  <1> QED
    BY <1>6 DEF Promise!UNext

LEMMA StepImplements ==
  ASSUME Faults \subseteq {"io"}, Safe, NoLateRelease, [Next]_vars
  PROVE  [Promise!UNext]_(Promise!uVars)
  <1>s. UNCHANGED <<claims, runs>> => UNCHANGED Promise!uVars
    BY DEF Promise!uVars
  <1>1. CASE UNCHANGED vars
    BY <1>1, <1>s DEF vars
  <1>2. CASE Environment
    BY <1>2, <1>s DEF Environment, Tick, ChangeAuthority, ChangeStaticConfig,
                ToggleManifest, BindExecutable, SupersedeBinding, Mount, Crash,
                TearLedger
  <1>3. ASSUME NEW t \in Threads, Caller(t)
        PROVE  Promise!UNext \/ UNCHANGED <<claims, runs>>
    <2>1. \A L : "refused" \notin AppendResults(L)
      BY DEF AppendResults, NoLateRelease
    <2>2. CASE Claim(t)
      BY <2>2, ClaimImplements
    <2>3. CASE SpineGate(t)
      BY <2>1, <2>3, EntryImplements DEF SpineGate, RetainAndRaise
    <2>4. CASE SpineExecute(t) \/ SpineRecord(t)
      BY <2>1, <2>4 DEF SpineExecute, SpineRecord, RetainAndRaise
    <2>5. CASE CompleteDenied(t)
      BY <2>5, ReleaseImplements DEF CompleteDenied, RetainAndRaise
    <2>6. CASE IssueCheck(t) \/ IssueRecord(t) \/ ExecuteCall(t)
               \/ CheckCustody(t) \/ CheckCurrency(t) \/ CompleteExecuted(t)
      BY <2>6 DEF IssueCheck, IssueRecord, ExecuteCall, CheckCustody,
                  CheckCurrency, CompleteExecuted
    <2> QED
      BY <1>3, <2>2, <2>3, <2>4, <2>5, <2>6 DEF Caller, Proceed
  <1> QED
    BY <1>1, <1>2, <1>3, <1>s DEF Next

\* The leased path implements the abstract single-use lease as long as no
\* append is refused after the claim was taken.
THEOREM ImplementsSingleUseHolds ==
  ASSUME Faults \subseteq {"io"}
  PROVE  Spec => ImplementsSingleUse
  <1>1. Init => Promise!UInit
    BY DEF Init, Promise!UInit
  <1>2. Init => NoLateRelease
    BY DEF Init, NoLateRelease
  <1>3. NoLateRelease /\ [Next]_vars => NoLateRelease'
    BY NoLateReleaseNext
  <1>4. Safe /\ NoLateRelease /\ [Next]_vars => [Promise!UNext]_(Promise!uVars)
    BY StepImplements
  <1>5. Spec => []Safe
    BY AlwaysSafe
  <1> QED
    BY <1>1, <1>2, <1>3, <1>4, <1>5, PTL
       DEF Spec, ImplementsSingleUse, Promise!USpec
=============================================================================
