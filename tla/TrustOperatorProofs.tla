------------------------ MODULE TrustOperatorProofs ------------------------
(***************************************************************************)
(* The trust operator keeps one history, for any operators, hosts,         *)
(* permissions, clocks, failures and kills.  The inductive invariant says  *)
(* what the files are at every step of a commit: what the pending journal  *)
(* promises, and how much of it is done.                                   *)
(***************************************************************************)
EXTENDS TrustOperator, FirstElement

(***************************************************************************)
(* What the replay of a history grants, for every history and every        *)
(* instant: until the next known transition the grants do not change, time *)
(* alone never adds one, and an appended event concerns its permission.    *)
(***************************************************************************)

\* The fields of an event of a history.
LEMMA EventFields ==
  ASSUME NEW log \in Seq(Event), NEW i \in DOMAIN log
  PROVE  /\ log[i] \in Event
         /\ log[i].at \in Time
         /\ log[i].until \in Time \union {Never}
         /\ log[i].permission \in Permission
         /\ log[i].kind \in {"grant", "revoke"}
  <1>1. log[i] \in Event
    OBVIOUS
  <1> QED BY <1>1 DEF Event

\* Every known transition lies ahead.
LEMMA TransitionsAhead ==
  ASSUME NEW log \in Seq(Event), NEW t \in Time
  PROVE  /\ Transitions(log, t) \in SUBSET (0..MaxTime)
         /\ \A m \in Transitions(log, t) : t < m
  <1>1. ASSUME NEW i \in DOMAIN log, ~Applied(log[i], t)
        PROVE  log[i].at \in 0..MaxTime /\ t < log[i].at
    BY <1>1, EventFields, MaxTimeAssumption DEF Applied, Time
  <1>2. ASSUME NEW i \in ActiveGrants(log, t), log[i].until # Never
        PROVE  log[i].until \in 0..MaxTime /\ t < log[i].until
    BY <1>2, EventFields DEF ActiveGrants, Unexpired, Time
  <1>3. ASSUME NEW m \in Transitions(log, t) PROVE m \in 0..MaxTime /\ t < m
    <2>1. \/ \E i \in DOMAIN log : ~Applied(log[i], t) /\ m = log[i].at
          \/ \E i \in ActiveGrants(log, t) : log[i].until # Never /\ m = log[i].until
      BY DEF Transitions
    <2> QED BY <1>1, <1>2, <2>1
  <1> QED BY <1>3

\* The next known transition is the first of them.
LEMMA NextTransitionFirst ==
  ASSUME NEW log \in Seq(Event), NEW t \in Time
  PROVE  /\ NextTransition(log, t) \in Time \union {Never}
         /\ t < NextTransition(log, t)
         /\ \A m \in Transitions(log, t) : NextTransition(log, t) <= m
  <1>1. CASE Transitions(log, t) = {}
    BY <1>1, MaxTimeAssumption DEF NextTransition, Time, Never
  <1>2. CASE Transitions(log, t) # {}
    <2>1. \E x \in Transitions(log, t) : \A y \in Transitions(log, t) : x <= y
      BY <1>2, TransitionsAhead, FirstInstant, MaxTimeAssumption
    <2>2. /\ NextTransition(log, t) \in Transitions(log, t)
          /\ \A m \in Transitions(log, t) : NextTransition(log, t) <= m
      BY <1>2, <2>1 DEF NextTransition
    <2> QED BY <2>2, TransitionsAhead DEF Time
  <1> QED BY <1>1, <1>2

\* AuthorityEpoch.build answers an epoch.
LEMMA EpochOfType ==
  ASSUME NEW log \in Seq(Event), NEW t \in Time
  PROVE  /\ EpochOf(log, t) \in Epoch
         /\ EpochOf(log, t).at = t
         /\ EpochOf(log, t).log = log
         /\ EpochOf(log, t).grants = Granted(log, t)
         /\ EpochOf(log, t).next = NextTransition(log, t)
  <1>1. Granted(log, t) \subseteq Permission
    BY EventFields DEF Granted, ActiveGrants
  <1>2. NextTransition(log, t) \in Time \union {Never}
    BY NextTransitionFirst
  <1> HIDE DEF Never
  <1> QED BY <1>1, <1>2 DEF EpochOf, Epoch

\* Event k is the last grant of its permission among the first n events.
LastGrantTo(log, n, k, t) ==
  /\ log[k].kind = "grant"
  /\ Applied(log[k], t)
  /\ \A j \in 1..n :
       j > k /\ log[j].permission = log[k].permission => ~Applied(log[j], t)

\* What the dictionary of the replay holds after n events.
Held(log, n, t) == {log[k] : k \in {i \in 1..n : LastGrantTo(log, n, i, t)}}

\* One more event supersedes what the first ones left.
LEMMA HeldNext ==
  ASSUME NEW log \in Seq(Event), NEW t \in Time, NEW n \in 1..Len(log)
  PROVE  Held(log, n, t) = Superseded(Held(log, n - 1, t), log[n], t)
  <1> DEFINE e == log[n]
             before == {i \in 1..(n - 1) : LastGrantTo(log, n - 1, i, t)}
             now == {i \in 1..n : LastGrantTo(log, n, i, t)}
  <1>1. n \in Nat /\ n - 1 \in Nat /\ e.kind \in {"grant", "revoke"}
    BY EventFields
  <1>2. /\ \A i \in 1..n : i \in 1..(n - 1) \/ i = n
        /\ \A i \in 1..(n - 1) : i \in 1..n /\ n > i /\ i # n
        /\ \A i \in 1..n : ~(i > n)
    BY <1>1
  <1>3. CASE ~Applied(e, t)
    <2>1. now = before
      BY <1>2, <1>3 DEF LastGrantTo
    <2> QED BY <1>3, <2>1 DEF Held, Superseded
  <1>4. CASE Applied(e, t)
    <2>1. \A i \in 1..(n - 1) : i \in now <=> i \in before /\ log[i].permission # e.permission
      BY <1>2, <1>4 DEF LastGrantTo
    <2>2. n \in now <=> e.kind = "grant"
      BY <1>1, <1>2, <1>4 DEF LastGrantTo
    <2>3. now = {i \in before : log[i].permission # e.permission}
                  \union (IF e.kind = "grant" THEN {n} ELSE {})
      BY <1>2, <2>1, <2>2
    <2>4. {g \in Held(log, n - 1, t) : g.permission # e.permission}
            = {log[i] : i \in {j \in before : log[j].permission # e.permission}}
      BY DEF Held
    <2>5. Held(log, n, t) = {log[i] : i \in now}
      BY DEF Held
    <2> HIDE DEF before, now
    <2>6. CASE e.kind = "grant"
      <3>1. Held(log, n, t) = {log[i] : i \in {j \in before : log[j].permission # e.permission}} \union {e}
        BY <2>3, <2>5, <2>6
      <3> QED BY <1>4, <2>4, <2>6, <3>1 DEF Superseded
    <2>7. CASE e.kind = "revoke"
      <3>1. Held(log, n, t) = {log[i] : i \in {j \in before : log[j].permission # e.permission}}
        BY <2>3, <2>5, <2>7
      <3> QED BY <1>4, <2>4, <2>7, <3>1 DEF Superseded
    <2> QED BY <1>1, <2>6, <2>7
  <1> QED BY <1>3, <1>4

\* The replay computes it: the recursion has one solution, by its first
\* difference from the dictionary.
LEMMA ReplayHolds ==
  ASSUME NEW log \in Seq(Event), NEW t \in Time
  PROVE  Replay(log, t) = Held(log, Len(log), t)
  <1> DEFINE D == 0..Len(log)
             Next(f) == [i \in D |-> IF i = 0 THEN {} ELSE Superseded(f[i - 1], log[i], t)]
             after == CHOOSE f : f = Next(f)
             held == [i \in D |-> Held(log, i, t)]
  <1>1. Len(log) \in Nat
    OBVIOUS
  <1>2. Replay(log, t) = after[Len(log)]
    BY DEF Replay
  <1>3. \A i \in D : i # 0 => i - 1 \in D /\ i \in 1..Len(log)
    BY <1>1
  <1>4. Held(log, 0, t) = {}
    BY DEF Held
  <1>5. held = Next(held)
    <2>1. ASSUME NEW i \in D PROVE held[i] = IF i = 0 THEN {} ELSE Superseded(held[i - 1], log[i], t)
      BY <1>3, <1>4, HeldNext
    <2> QED BY <2>1
  <1>6. after = Next(after)
    <2> HIDE DEF Next, held
    <2> QED BY <1>5
  <1>7. \A i \in D : after[i] = IF i = 0 THEN {} ELSE Superseded(after[i - 1], log[i], t)
    <2> HIDE DEF after
    <2> QED BY <1>6
  <1> HIDE DEF after
  <1>8. ASSUME NEW i \in D, after[i] # Held(log, i, t) PROVE FALSE
    <2> DEFINE S == {k \in D : after[k] # Held(log, k, t)}
    <2>1. PICK m \in S : \A k \in S : m <= k
      BY <1>1, <1>8, FirstInstant
    <2>2. m # 0
      BY <1>4, <1>7, <2>1
    <2>3. m - 1 \in D /\ m \in 1..Len(log) /\ m - 1 \notin S
      BY <1>1, <1>3, <2>1, <2>2
    <2>4. after[m] = Superseded(Held(log, m - 1, t), log[m], t)
      BY <1>7, <2>1, <2>2, <2>3
    <2> QED BY <2>1, <2>3, <2>4, HeldNext
  <1>9. Len(log) \in D
    BY <1>1
  <1> QED BY <1>2, <1>8, <1>9

\* AuthorityProjection.project is what the rest of this project takes it for:
\* for every history and every instant, the dictionary it builds event by event
\* leaves the permissions whose last applied event is an unexpired grant.
THEOREM ProjectionIsGranted ==
  ASSUME NEW log \in Seq(Event), NEW t \in Time
  PROVE  Projected(log, t) = Granted(log, t)
  <1>1. DOMAIN log = 1..Len(log)
    OBVIOUS
  <1>2. \A k \in DOMAIN log : LastGrantTo(log, Len(log), k, t) <=> LastGrant(log, k, t)
    BY <1>1 DEF LastGrantTo, LastGrant
  <1>3. Replay(log, t) = {log[k] : k \in {i \in DOMAIN log : LastGrant(log, i, t)}}
    BY <1>1, <1>2, ReplayHolds DEF Held
  <1> QED BY <1>3 DEF Projected, Granted, ActiveGrants

\* An epoch may be used until its next transition: what it grants is what a
\* replay at any instant before then grants.
THEOREM GrantedUntilTransition ==
  ASSUME NEW log \in Seq(Event), NEW t \in Time, NEW u \in Time,
         t <= u, u < NextTransition(log, t)
  PROVE  Granted(log, u) = Granted(log, t)
  <1>0. t \in Nat /\ u \in Nat /\ t <= MaxTime /\ u <= MaxTime /\ MaxTime \in Nat
    BY MaxTimeAssumption DEF Time
  <1>1. ASSUME NEW i \in DOMAIN log PROVE Applied(log[i], u) <=> Applied(log[i], t)
    <2>1. log[i].at \in Nat
      BY EventFields DEF Time
    <2>2. CASE Applied(log[i], t)
      BY <1>0, <2>1, <2>2 DEF Applied
    <2>3. CASE ~Applied(log[i], t)
      <3>1. log[i].at \in Transitions(log, t)
        BY <2>3 DEF Transitions
      <3>2. NextTransition(log, t) <= log[i].at /\ NextTransition(log, t) \in Nat
        BY <3>1, NextTransitionFirst, <1>0 DEF Time, Never
      <3> QED BY <1>0, <2>1, <2>3, <3>2 DEF Applied
    <2> QED BY <2>2, <2>3
  <1>2. ASSUME NEW i \in DOMAIN log PROVE LastGrant(log, i, u) <=> LastGrant(log, i, t)
    BY <1>1 DEF LastGrant
  <1>3. ASSUME NEW i \in DOMAIN log, LastGrant(log, i, t)
        PROVE  Unexpired(log[i], u) <=> Unexpired(log[i], t)
    <2>1. log[i].until \in Nat /\ (log[i].until = Never => u < log[i].until)
      BY <1>0, EventFields DEF Time, Never
    <2>2. CASE Unexpired(log[i], t)
      <3>1. log[i].until = Never \/ log[i].until \in Transitions(log, t)
        BY <1>3, <2>2 DEF Transitions, ActiveGrants
      <3>2. NextTransition(log, t) \in Nat
        BY NextTransitionFirst, <1>0 DEF Time, Never
      <3> QED BY <1>0, <2>1, <2>2, <3>1, <3>2, NextTransitionFirst DEF Unexpired
    <2>3. CASE ~Unexpired(log[i], t)
      BY <1>0, <2>1, <2>3 DEF Unexpired
    <2> QED BY <2>2, <2>3
  <1>4. ActiveGrants(log, u) = ActiveGrants(log, t)
    BY <1>2, <1>3 DEF ActiveGrants
  <1> QED BY <1>4 DEF Granted

\* Every event of the history is effective at t.
Settled(log, t) == \A i \in DOMAIN log : Applied(log[i], t)

\* Time alone never adds a permission to a settled history.
THEOREM GrantedShrinks ==
  ASSUME NEW log \in Seq(Event), NEW t \in Time, NEW u \in Time,
         t <= u, Settled(log, t)
  PROVE  Granted(log, u) \subseteq Granted(log, t)
  <1>0. t \in Nat /\ u \in Nat /\ MaxTime \in Nat
    BY MaxTimeAssumption DEF Time
  <1>1. ASSUME NEW i \in DOMAIN log PROVE Applied(log[i], t) /\ Applied(log[i], u)
    BY <1>0, EventFields DEF Settled, Applied, Time
  <1>2. ASSUME NEW i \in DOMAIN log, Unexpired(log[i], u) PROVE Unexpired(log[i], t)
    BY <1>0, <1>2, EventFields DEF Unexpired, Time, Never
  <1>3. ActiveGrants(log, u) \subseteq ActiveGrants(log, t)
    BY <1>1, <1>2 DEF ActiveGrants, LastGrant
  <1> QED BY <1>3 DEF Granted

\* A settled history stays settled.
LEMMA StaysSettled ==
  ASSUME NEW log \in Seq(Event), NEW t \in Time, NEW u \in Time,
         t <= u, Settled(log, t)
  PROVE  Settled(log, u)
  BY EventFields, MaxTimeAssumption DEF Settled, Applied, Time

\* An event that is appended and effective can add its own permission, and
\* only as a grant.
LEMMA GrantedAfterAppend ==
  ASSUME NEW log \in Seq(Event), NEW e \in Event, NEW t \in Time,
         Settled(log, t), e.at <= t
  PROVE  /\ Settled(Append(log, e), t)
         /\ \A p \in Granted(Append(log, e), t) :
              p \in Granted(log, t) \/ (e.kind = "grant" /\ p = e.permission)
  <1> DEFINE new == Append(log, e)
             n == Len(log) + 1
  <1>1. /\ new \in Seq(Event) /\ DOMAIN new = 1..n /\ DOMAIN log = 1..Len(log)
        /\ Len(log) \in Nat /\ new[n] = e /\ \A i \in DOMAIN log : new[i] = log[i]
    OBVIOUS
  <1>2. Settled(new, t)
    <2>1. ASSUME NEW i \in DOMAIN new PROVE Applied(new[i], t)
      <3>1. CASE i = n
        BY <1>1, <3>1 DEF Applied
      <3>2. CASE i \in DOMAIN log
        BY <1>1, <3>2 DEF Settled
      <3> QED BY <1>1, <3>1, <3>2
    <2> QED BY <2>1 DEF Settled
  <1>3. ASSUME NEW p \in Granted(new, t)
        PROVE  p \in Granted(log, t) \/ (e.kind = "grant" /\ p = e.permission)
    <2>1. PICK i \in ActiveGrants(new, t) : p = new[i].permission
      BY DEF Granted
    <2>2. i \in DOMAIN new /\ LastGrant(new, i, t) /\ Unexpired(new[i], t)
      BY <2>1 DEF ActiveGrants
    <2>3. CASE i = n
      BY <1>1, <2>1, <2>2, <2>3 DEF LastGrant
    <2>4. CASE i \in DOMAIN log
      <3>1. LastGrant(log, i, t)
        <4>1. ASSUME NEW j \in DOMAIN log, j > i, log[j].permission = log[i].permission
              PROVE  ~Applied(log[j], t)
          BY <1>1, <2>2, <2>4, <4>1 DEF LastGrant
        <4> QED BY <1>1, <2>2, <2>4, <4>1 DEF LastGrant
      <3>2. i \in ActiveGrants(log, t)
        BY <1>1, <2>2, <2>4, <3>1 DEF ActiveGrants
      <3> QED BY <1>1, <2>1, <2>4, <3>2 DEF Granted
    <2> QED BY <1>1, <2>2, <2>3, <2>4
  <1> QED BY <1>2, <1>3

(***************************************************************************)
(* What a command prepares: one change of the history.                     *)
(***************************************************************************)

AdoptsHistory(m, log, j) ==
  /\ log = None
  /\ j.events \in Seq(Event)
  /\ j.next.config = m.config
  /\ j.next.epoch.at >= m.epoch.at
  /\ j.next.epoch = EpochOf(j.events, j.next.epoch.at)
  /\ j.next.epoch.grants = m.epoch.grants
  /\ Settled(j.events, j.next.epoch.at)

RecordsEvent(m, log, j) ==
  /\ log # None
  /\ j.next.config = m.config
  /\ Settled(j.events, j.next.epoch.at)
  /\ \E e \in Event :
       /\ e.at >= m.epoch.at
       /\ j.events = Append(log, e)
       /\ j.next.epoch = EpochOf(j.events, e.at)
       /\ \A p \in j.next.epoch.grants \ m.epoch.grants :
            j.op = "AUTHORITY_GRANT" /\ p = e.permission

ObservesHistory(m, log, j) ==
  /\ log # None
  /\ j.events = log
  /\ j.next.config = m.config
  /\ j.next.epoch.at >= m.epoch.at
  /\ j.next.epoch = EpochOf(log, j.next.epoch.at)
  /\ j.next.epoch.grants \subseteq m.epoch.grants
  /\ Settled(log, j.next.epoch.at)

ConfiguresExecution(m, log, j) ==
  /\ j.events = log
  /\ j.next.epoch = m.epoch
  /\ j.next.config.mappings = m.config.mappings
  /\ log # None => m.epoch = EpochOf(log, m.epoch.at) /\ Settled(log, m.epoch.at)

Prepares(m, log, j) ==
  /\ j.previous = m
  /\ \/ AdoptsHistory(m, log, j)
     \/ RecordsEvent(m, log, j)
     \/ ObservesHistory(m, log, j)
     \/ ConfiguresExecution(m, log, j)

(***************************************************************************)
(* The inductive invariant.                                                *)
(***************************************************************************)

KnownReceipts == {ReceiptId(j) : j \in Journal}

FilesTyped ==
  /\ TrustTypeOK
  /\ prepared \in Seq(Journal)
  /\ receipts \in Seq(KnownReceipts)

\* A call runs under the lock.
LockHeld == \A o \in Operator : call[o] # Idle => lock = o

\* Its epoch is the replay of its history, at an instant at which every event
\* is effective, and only a grant adds a permission.
SoundJournal(j) ==
  /\ j.previous.config.mappings = j.next.config.mappings
  /\ j.events # None =>
       /\ j.next.epoch = EpochOf(j.events, j.next.epoch.at)
       /\ Settled(j.events, j.next.epoch.at)
  /\ \A p \in j.next.epoch.grants \ j.previous.epoch.grants :
       j.op = "AUTHORITY_GRANT" /\ j.events[Len(j.events)].permission = p

\* A manifest as it was before somebody edited its mappings.
Unedited(m, j) == [m EXCEPT !.config.mappings = j.next.config.mappings]

PendingSound ==
  journal # None =>
    /\ SoundJournal(journal)
    /\ Unedited(manifest, journal) \in {journal.previous, journal.next}
    /\ journal.events = None => events = None

HistorySound ==
  journal = None /\ events # None =>
    Materializes(events) /\ Settled(events, manifest.epoch.at)

\* How far a call has come.
Progress(o) ==
  LET j == call[o].journal
      s == call[o].step
  IN  /\ s = "journal" => journal = None /\ Prepares(manifest, events, j)
      /\ s # "journal" => journal = j /\ manifest \in {j.previous, j.next}
      /\ s \in {"events", "receipt", "unlink"} => manifest = j.next
      /\ s \in {"receipt", "unlink"} => events = j.events
      /\ s = "unlink" => \E i \in DOMAIN receipts : receipts[i] = ReceiptId(j)

CallsSound == \A o \in Operator : call[o] # Idle => Progress(o)

\* Once there is a history, the epoch in force is the replay of a prefix.
EpochSound ==
  events # None =>
    /\ manifest.epoch = EpochOf(manifest.epoch.log, manifest.epoch.at)
    /\ Prefix(manifest.epoch.log, KeptHistory)

ReceiptsSound ==
  /\ \A a, b \in DOMAIN receipts : receipts[a] = receipts[b] => a = b
  /\ \A i \in DOMAIN prepared :
       \/ \E r \in DOMAIN receipts : receipts[r] = ReceiptId(prepared[i])
       \/ journal # None /\ prepared[i] = journal

IInv == FilesTyped /\ LockHeld /\ PendingSound /\ HistorySound /\ CallsSound
          /\ EpochSound /\ ReceiptsSound

(***************************************************************************)
(* Records and calls.                                                      *)
(***************************************************************************)

\* The fields of a manifest.
LEMMA ManifestFields ==
  ASSUME NEW m \in Manifest
  PROVE  /\ m.config \in Config
         /\ m.config.mappings \in Mapping
         /\ m.config.enabled \in BOOLEAN
         /\ m.config.desktop \in BOOLEAN
         /\ m.epoch \in Epoch
         /\ m.epoch.at \in Time
         /\ m.epoch.log \in Seq(Event)
         /\ m.epoch.grants \in SUBSET Permission
         /\ m = [config |-> m.config, epoch |-> m.epoch]
  BY DEF Manifest, Config, Epoch

\* The fields of a journal.
LEMMA JournalFields ==
  ASSUME NEW j \in Journal
  PROVE  /\ j.op \in Operations
         /\ j.previous \in Manifest
         /\ j.next \in Manifest
         /\ j.events \in Seq(Event) \union {None}
         /\ j.appends \in BOOLEAN
  BY DEF Journal

\* An instant is a natural number.
LEMMA InstantIsNat == Time \subseteq Nat
  BY DEF Time

\* A call that runs is at one of the steps and holds a journal.
LEMMA RunningCall ==
  ASSUME FilesTyped, NEW o \in Operator
  PROVE  /\ call[o] # Idle => call[o].step \in Steps /\ call[o].journal \in Journal
         /\ call[o].step \in Steps => call[o] # Idle
         /\ "idle" \notin Steps
  <1>1. call[o] \in {Idle} \union [step : Steps, journal : Journal]
    BY DEF FilesTyped, TrustTypeOK, CallState
  <1>2. Idle.step = "idle" /\ "idle" \notin Steps
    BY DEF Idle, Steps
  <1> HIDE DEF Idle, Steps, Journal
  <1> QED BY <1>1, <1>2

\* Nobody else runs while a call holds the lock, and nobody when it is free.
LEMMA OneRuns ==
  ASSUME FilesTyped, LockHeld
  PROVE  /\ \A o \in Operator : call[o] # Idle => \A q \in Operator : q # o => call[q] = Idle
         /\ lock = None => \A q \in Operator : call[q] = Idle
  BY NoneIsNothing DEF LockHeld

\* What a command prepares is a sound journal that keeps the history.
LEMMA PreparedIsSound ==
  ASSUME NEW m \in Manifest, NEW log \in Seq(Event) \union {None},
         NEW j \in Journal, Prepares(m, log, j)
  PROVE  /\ SoundJournal(j)
         /\ log # None => j.events \in Seq(Event) /\ Prefix(log, j.events)
         /\ j.events = None => log = None
  <1> USE NoneIsNothing
  <1>1. j.previous = m
    BY DEF Prepares
  <1>2. CASE AdoptsHistory(m, log, j)
    <2>1. j.next.epoch.grants \ m.epoch.grants = {}
      BY <1>2 DEF AdoptsHistory
    <2> QED BY <1>1, <1>2, <2>1 DEF AdoptsHistory, SoundJournal
  <1>3. CASE RecordsEvent(m, log, j)
    <2>1. PICK e \in Event :
            /\ j.events = Append(log, e)
            /\ j.next.epoch = EpochOf(j.events, e.at)
            /\ \A p \in j.next.epoch.grants \ m.epoch.grants :
                 j.op = "AUTHORITY_GRANT" /\ p = e.permission
      BY <1>3 DEF RecordsEvent
    <2>2. log \in Seq(Event)
      BY <1>3 DEF RecordsEvent
    <2>3. /\ j.events \in Seq(Event)
          /\ j.events[Len(j.events)] = e
          /\ Prefix(log, j.events)
      BY <2>1, <2>2 DEF Prefix
    <2>4. e.at \in Time
      BY DEF Event
    <2>5. j.next.epoch.at = e.at
      BY <2>1 DEF EpochOf
    <2>6. /\ j.previous.config.mappings = j.next.config.mappings
          /\ Settled(j.events, j.next.epoch.at)
      BY <1>1, <1>3 DEF RecordsEvent
    <2>7. j.next.epoch = EpochOf(j.events, j.next.epoch.at)
      BY <2>1, <2>5
    <2>8. ASSUME NEW p \in j.next.epoch.grants \ j.previous.epoch.grants
          PROVE  j.op = "AUTHORITY_GRANT" /\ j.events[Len(j.events)].permission = p
      BY <1>1, <2>1, <2>3
    <2> QED BY <2>3, <2>6, <2>7, <2>8 DEF SoundJournal
  <1>4. CASE ObservesHistory(m, log, j)
    <2>1. log \in Seq(Event) /\ Prefix(log, log)
      BY <1>4 DEF ObservesHistory, Prefix
    <2> QED BY <1>1, <1>4, <2>1 DEF ObservesHistory, SoundJournal
  <1>5. CASE ConfiguresExecution(m, log, j)
    <2>1. log # None => log \in Seq(Event) /\ Prefix(log, log)
      BY DEF Prefix
    <2>2. j.previous.config.mappings = j.next.config.mappings /\ j.events = log
      BY <1>1, <1>5 DEF ConfiguresExecution
    <2>3. j.next.epoch.grants \ j.previous.epoch.grants = {}
      BY <1>1, <1>5 DEF ConfiguresExecution
    <2>4. log # None =>
            /\ j.next.epoch = EpochOf(log, j.next.epoch.at)
            /\ Settled(log, j.next.epoch.at)
      BY <1>5 DEF ConfiguresExecution
    <2> QED BY <2>1, <2>2, <2>3, <2>4 DEF SoundJournal
  <1> QED BY <1>2, <1>3, <1>4, <1>5 DEF Prepares

\* A call that moves on keeps its journal, and nobody else runs.
LEMMA Moves ==
  ASSUME FilesTyped, LockHeld, NEW o \in Operator, call[o] # Idle,
         NEW s \in Steps, MoveTo(o, s), lock' = lock
  PROVE  /\ call' \in [Operator -> CallState]
         /\ call'[o].step = s
         /\ call'[o].journal = call[o].journal
         /\ call'[o] # Idle
         /\ \A q \in Operator : q # o => call'[q] = Idle
         /\ LockHeld'
  <1>1. call \in [Operator -> CallState]
    BY DEF FilesTyped, TrustTypeOK, CallState
  <1>2. call[o] \in [step : Steps, journal : Journal]
    BY <1>1 DEF CallState
  <1>3. call'[o] = [call[o] EXCEPT !.step = s]
    BY <1>1 DEF MoveTo
  <1>4. /\ call'[o] \in [step : Steps, journal : Journal]
        /\ call'[o].step = s
        /\ call'[o].journal = call[o].journal
    BY <1>2, <1>3
  <1>5. \A q \in Operator : q # o => call'[q] = call[q]
    BY <1>1 DEF MoveTo
  <1>6. \A q \in Operator : q # o => call[q] = Idle
    BY OneRuns
  <1>7. call' \in [Operator -> CallState]
    <2>1. call'[o] \in CallState
      BY <1>4 DEF CallState
    <2> HIDE DEF CallState
    <2>2. \A q \in Operator : call'[q] \in CallState
      BY <1>1, <1>5, <2>1
    <2>3. call' = [q \in Operator |-> call'[q]]
      BY <1>1 DEF MoveTo
    <2> QED BY <2>2, <2>3
  <1>8. call'[o] # Idle
    BY <1>4 DEF Idle, Steps
  <1>9. LockHeld'
    BY <1>5, <1>6 DEF LockHeld
  <1> QED BY <1>4, <1>5, <1>6, <1>7, <1>8, <1>9

\* A call that returns leaves nobody running.
LEMMA Returns ==
  ASSUME FilesTyped, LockHeld, NEW o \in Operator, call[o] # Idle, Return(o)
  PROVE  /\ call' \in [Operator -> CallState]
         /\ \A q \in Operator : call'[q] = Idle
         /\ LockHeld'
  <1>1. call \in [Operator -> CallState] /\ Idle \in CallState
    BY DEF FilesTyped, TrustTypeOK, CallState
  <1>2. call'[o] = Idle /\ \A q \in Operator : q # o => call'[q] = call[q]
    BY <1>1 DEF Return
  <1>3. \A q \in Operator : call'[q] = Idle
    BY <1>2, OneRuns
  <1> HIDE DEF CallState
  <1>4. call' \in [Operator -> CallState]
    BY <1>1 DEF Return
  <1> QED BY <1>3, <1>4 DEF LockHeld

\* A call that begins is the only one.
LEMMA Begins ==
  ASSUME FilesTyped, LockHeld, NEW o \in Operator, lock = None, lock' = o,
         NEW s \in Steps, NEW j \in Journal,
         call' = [call EXCEPT ![o] = [step |-> s, journal |-> j]]
  PROVE  /\ call' \in [Operator -> CallState]
         /\ call'[o].step = s
         /\ call'[o].journal = j
         /\ \A q \in Operator : q # o => call'[q] = Idle
         /\ LockHeld'
  <1>1. call \in [Operator -> CallState]
    BY DEF FilesTyped, TrustTypeOK, CallState
  <1>2. /\ call'[o] = [step |-> s, journal |-> j]
        /\ \A q \in Operator : q # o => call'[q] = call[q]
    BY <1>1
  <1>3. call'[o] \in CallState
    BY <1>2 DEF CallState
  <1>4. \A q \in Operator : q # o => call'[q] = Idle
    BY <1>2, OneRuns
  <1> HIDE DEF CallState
  <1>5. call' \in [Operator -> CallState]
    BY <1>1, <1>2, <1>3
  <1> QED BY <1>2, <1>4, <1>5 DEF LockHeld

\* What a call at one of its steps relies on.
LEMMA CallAtStep ==
  ASSUME FilesTyped, CallsSound, NEW o \in Operator, call[o].step \in Steps
  PROVE  call[o] # Idle /\ call[o].journal \in Journal /\ Progress(o)
  BY RunningCall DEF CallsSound

(***************************************************************************)
(* The steps of a commit.                                                  *)
(***************************************************************************)

\* The journal is written: what was prepared is now pending.
LEMMA WriteJournalKeeps ==
  ASSUME IInv, NEW o \in Operator, WriteJournal(o)
  PROVE  IInv'
  <1> USE DEF IInv
  <1> DEFINE j == call[o].journal
  <1>1. call[o].step = "journal" /\ "journal" \in Steps /\ "manifest" \in Steps
    BY DEF WriteJournal, At, Steps
  <1>2. /\ call[o] # Idle /\ j \in Journal
        /\ journal = None /\ Prepares(manifest, events, j)
    BY <1>1, CallAtStep DEF Progress
  <1>3. /\ journal' = j /\ prepared' = Append(prepared, j) /\ MoveTo(o, "manifest")
        /\ UNCHANGED <<manifest, events, receipts, torn, lock, mount, clock, faults>>
    BY DEF WriteJournal
  <1>4. /\ call' \in [Operator -> CallState]
        /\ call'[o].step = "manifest" /\ call'[o].journal = j
        /\ \A q \in Operator : q # o => call'[q] = Idle
        /\ LockHeld'
    BY <1>1, <1>2, <1>3, Moves
  <1>5. /\ SoundJournal(j)
        /\ events # None => j.events \in Seq(Event) /\ Prefix(events, j.events)
        /\ j.events = None => events = None
        /\ manifest = j.previous
        /\ manifest \in Manifest
    <2>1. manifest \in Manifest /\ events \in Seq(Event) \union {None}
      BY DEF FilesTyped, TrustTypeOK
    <2> QED BY <1>2, <2>1, PreparedIsSound DEF Prepares
  <1>6. FilesTyped'
    <2>1. prepared' \in Seq(Journal)
      BY <1>2, <1>3 DEF FilesTyped
    <2> QED BY <1>2, <1>3, <1>4, <2>1 DEF FilesTyped, TrustTypeOK, CallState
  <1>7. PendingSound'
    <2>1. Unedited(manifest, j) = manifest
      BY <1>5, ManifestFields DEF SoundJournal, Unedited, Manifest, Config
    <2> QED BY <1>3, <1>5, <2>1 DEF PendingSound
  <1>8. HistorySound'
    BY <1>2, <1>3, NoneIsNothing DEF HistorySound, Materializes
  <1>9. CallsSound'
    BY <1>3, <1>4, <1>5 DEF CallsSound, Progress
  <1>10. EpochSound'
    <2>1. events # None => manifest.epoch.log = events
      BY <1>2 DEF HistorySound, Materializes, EpochOf
    <2> QED BY <1>2, <1>3, <1>5, <2>1, NoneIsNothing DEF EpochSound, KeptHistory
  <1>11. ReceiptsSound'
    <2>1. /\ DOMAIN prepared' = 1..(Len(prepared) + 1)
          /\ DOMAIN prepared = 1..Len(prepared) /\ Len(prepared) \in Nat
          /\ \A i \in DOMAIN prepared : prepared'[i] = prepared[i]
          /\ prepared'[Len(prepared) + 1] = j
      BY <1>3 DEF FilesTyped
    <2>2. ASSUME NEW i \in DOMAIN prepared'
          PROVE  \/ \E r \in DOMAIN receipts : receipts[r] = ReceiptId(prepared'[i])
                 \/ j # None /\ prepared'[i] = j
      <3>1. i \in DOMAIN prepared \/ i = Len(prepared) + 1
        BY <2>1
      <3> QED BY <1>2, <2>1, <3>1, NoneIsNothing DEF ReceiptsSound
    <2> QED BY <1>3, <2>2 DEF ReceiptsSound
  <1> QED BY <1>4, <1>6, <1>7, <1>8, <1>9, <1>10, <1>11

\* The manifest is replaced by the promised one.
LEMMA WriteManifestKeeps ==
  ASSUME IInv, NEW o \in Operator, WriteManifest(o)
  PROVE  IInv'
  <1> USE DEF IInv
  <1> DEFINE j == call[o].journal
  <1>1. call[o].step = "manifest" /\ "manifest" \in Steps /\ "events" \in Steps
    BY DEF WriteManifest, At, Steps
  <1>2. call[o] # Idle /\ j \in Journal /\ journal = j
    BY <1>1, CallAtStep DEF Progress
  <1>3. /\ manifest' = j.next /\ MoveTo(o, "events")
        /\ UNCHANGED <<events, journal, receipts, torn, lock, mount, clock, prepared, faults>>
    BY DEF WriteManifest
  <1>4. /\ call' \in [Operator -> CallState]
        /\ call'[o].step = "events" /\ call'[o].journal = j
        /\ \A q \in Operator : q # o => call'[q] = Idle
        /\ LockHeld'
    BY <1>1, <1>2, <1>3, Moves
  <1>5. journal # None /\ SoundJournal(j) /\ (j.events = None => events = None)
    BY <1>2, NoneIsNothing DEF PendingSound
  <1>6. j.next \in Manifest
    BY <1>2, JournalFields
  <1>7. FilesTyped'
    BY <1>3, <1>4, <1>6 DEF FilesTyped, TrustTypeOK, CallState
  <1>8. PendingSound'
    <2>1. Unedited(j.next, j) = j.next
      BY <1>6, ManifestFields DEF Unedited, Manifest, Config
    <2> QED BY <1>2, <1>3, <1>5, <2>1 DEF PendingSound
  <1>9. HistorySound'
    BY <1>3, <1>5 DEF HistorySound, Materializes
  <1>10. CallsSound'
    BY <1>2, <1>3, <1>4 DEF CallsSound, Progress
  <1>11. EpochSound'
    <2>1. ASSUME events # None
          PROVE  /\ j.next.epoch = EpochOf(j.next.epoch.log, j.next.epoch.at)
                 /\ Prefix(j.next.epoch.log, j.events)
      <3>1. j.events \in Seq(Event) /\ j.next.epoch = EpochOf(j.events, j.next.epoch.at)
        BY <1>2, <1>5, <2>1, JournalFields DEF SoundJournal
      <3>2. j.next.epoch.log = j.events
        BY <3>1 DEF EpochOf
      <3> QED BY <3>1, <3>2 DEF Prefix
    <2> QED BY <1>2, <1>3, <1>5, <2>1 DEF EpochSound, KeptHistory
  <1>12. ReceiptsSound'
    BY <1>3 DEF ReceiptsSound
  <1> QED BY <1>4, <1>7, <1>8, <1>9, <1>10, <1>11, <1>12

\* The history is replaced by the promised one.
LEMMA WriteEventsKeeps ==
  ASSUME IInv, NEW o \in Operator, WriteEvents(o)
  PROVE  IInv'
  <1> USE DEF IInv
  <1> DEFINE j == call[o].journal
  <1>1. call[o].step = "events" /\ "events" \in Steps /\ "receipt" \in Steps
    BY DEF WriteEvents, At, Steps
  <1>2. /\ call[o] # Idle /\ j \in Journal
        /\ journal = j /\ manifest = j.next
    BY <1>1, CallAtStep DEF Progress
  <1>3. journal # None /\ SoundJournal(j) /\ (j.events = None => events = None)
    BY <1>2, NoneIsNothing DEF PendingSound
  <1>4. /\ events' = j.events /\ MoveTo(o, "receipt")
        /\ UNCHANGED <<manifest, journal, receipts, torn, lock, mount, clock, prepared, faults>>
    BY <1>3 DEF WriteEvents
  <1>5. /\ call' \in [Operator -> CallState]
        /\ call'[o].step = "receipt" /\ call'[o].journal = j
        /\ \A q \in Operator : q # o => call'[q] = Idle
        /\ LockHeld'
    BY <1>1, <1>2, <1>4, Moves
  <1>6. FilesTyped'
    <2>1. j.events \in Seq(Event) \union {None}
      BY <1>2, JournalFields
    <2> QED BY <1>4, <1>5, <2>1 DEF FilesTyped, TrustTypeOK, CallState
  <1>7. PendingSound'
    BY <1>2, <1>3, <1>4 DEF PendingSound
  <1>8. HistorySound'
    BY <1>3, <1>4 DEF HistorySound, Materializes
  <1>9. CallsSound'
    BY <1>2, <1>4, <1>5 DEF CallsSound, Progress
  <1>10. EpochSound'
    <2>1. ASSUME j.events # None
          PROVE  /\ j.next.epoch = EpochOf(j.next.epoch.log, j.next.epoch.at)
                 /\ Prefix(j.next.epoch.log, j.events)
      <3>1. j.events \in Seq(Event) /\ j.next.epoch = EpochOf(j.events, j.next.epoch.at)
        BY <1>2, <1>3, <2>1, JournalFields DEF SoundJournal
      <3>2. j.next.epoch.log = j.events
        BY <3>1 DEF EpochOf
      <3> QED BY <3>1, <3>2 DEF Prefix
    <2> QED BY <1>2, <1>3, <1>4, <2>1 DEF EpochSound, KeptHistory
  <1>11. ReceiptsSound'
    BY <1>4 DEF ReceiptsSound
  <1> QED BY <1>5, <1>6, <1>7, <1>8, <1>9, <1>10, <1>11

\* The receipt is in the ledger, once.
LEMMA WriteReceiptKeeps ==
  ASSUME IInv, NEW o \in Operator, WriteReceipt(o)
  PROVE  IInv'
  <1> USE DEF IInv
  <1> DEFINE j == call[o].journal
             r == ReceiptId(j)
  <1>1. call[o].step = "receipt" /\ "receipt" \in Steps /\ "unlink" \in Steps
    BY DEF WriteReceipt, At, Steps
  <1>2. /\ call[o] # Idle /\ j \in Journal
        /\ journal = j /\ manifest = j.next /\ events = j.events
    BY <1>1, CallAtStep DEF Progress
  <1>3. /\ receipts' = IF \E i \in DOMAIN receipts : receipts[i] = r
                       THEN receipts ELSE Append(receipts, r)
        /\ MoveTo(o, "unlink")
        /\ UNCHANGED <<manifest, events, journal, torn, lock, mount, clock, prepared, faults>>
    BY DEF WriteReceipt
  <1>4. /\ call' \in [Operator -> CallState]
        /\ call'[o].step = "unlink" /\ call'[o].journal = j
        /\ \A q \in Operator : q # o => call'[q] = Idle
        /\ LockHeld'
    BY <1>1, <1>2, <1>3, Moves
  <1>5. receipts \in Seq(KnownReceipts) /\ r \in KnownReceipts
    BY <1>2 DEF FilesTyped, KnownReceipts
  <1> HIDE DEF r
  <1>6. /\ receipts' \in Seq(KnownReceipts)
        /\ \A i \in DOMAIN receipts : i \in DOMAIN receipts' /\ receipts'[i] = receipts[i]
        /\ \E i \in DOMAIN receipts' : receipts'[i] = r
        /\ \A a, b \in DOMAIN receipts' : receipts'[a] = receipts'[b] => a = b
    <2>1. CASE \E i \in DOMAIN receipts : receipts[i] = r
      BY <1>3, <1>5, <2>1 DEF ReceiptsSound
    <2>2. CASE ~ \E i \in DOMAIN receipts : receipts[i] = r
      <3>1. receipts' = Append(receipts, r)
        BY <1>3, <2>2
      <3>2. /\ receipts' \in Seq(KnownReceipts)
            /\ DOMAIN receipts = 1..Len(receipts) /\ Len(receipts) \in Nat
            /\ DOMAIN receipts' = 1..(Len(receipts) + 1)
            /\ receipts'[Len(receipts) + 1] = r
            /\ \A i \in DOMAIN receipts : receipts'[i] = receipts[i]
        BY <1>5, <3>1
      <3>3. ASSUME NEW a \in DOMAIN receipts', NEW b \in DOMAIN receipts',
                   receipts'[a] = receipts'[b]
            PROVE  a = b
        <4>1. /\ a \in DOMAIN receipts \/ a = Len(receipts) + 1
              /\ b \in DOMAIN receipts \/ b = Len(receipts) + 1
          BY <3>2
        <4> QED BY <2>2, <3>2, <3>3, <4>1 DEF ReceiptsSound
      <3>4. Len(receipts) + 1 \in DOMAIN receipts'
        BY <3>2
      <3>5. DOMAIN receipts \subseteq DOMAIN receipts'
        BY <3>2
      <3> QED BY <3>2, <3>3, <3>4, <3>5
    <2> QED BY <2>1, <2>2
  <1>7. FilesTyped'
    BY <1>3, <1>4, <1>6 DEF FilesTyped, TrustTypeOK, CallState
  <1>8. PendingSound'
    BY <1>3 DEF PendingSound
  <1>9. HistorySound'
    BY <1>3 DEF HistorySound, Materializes
  <1>10. CallsSound'
    BY <1>2, <1>3, <1>4, <1>6 DEF CallsSound, Progress, r
  <1>11. EpochSound'
    BY <1>3 DEF EpochSound, KeptHistory
  <1>12. ReceiptsSound'
    BY <1>3, <1>6 DEF ReceiptsSound
  <1> QED BY <1>4, <1>7, <1>8, <1>9, <1>10, <1>11, <1>12

\* The journal is gone: everything it promised is done.
LEMMA UnlinkKeeps ==
  ASSUME IInv, NEW o \in Operator, Unlink(o)
  PROVE  IInv'
  <1> USE DEF IInv
  <1> DEFINE j == call[o].journal
  <1>1. call[o].step = "unlink" /\ "unlink" \in Steps
    BY DEF Unlink, At, Steps
  <1>2. /\ call[o] # Idle /\ j \in Journal
        /\ journal = j /\ manifest = j.next /\ events = j.events
        /\ \E i \in DOMAIN receipts : receipts[i] = ReceiptId(j)
    BY <1>1, CallAtStep DEF Progress
  <1>3. journal # None /\ SoundJournal(j)
    BY <1>2, NoneIsNothing DEF PendingSound
  <1>4. /\ journal' = None /\ Return(o)
        /\ UNCHANGED <<manifest, events, receipts, torn, mount, clock, prepared, faults>>
    BY DEF Unlink
  <1>5. /\ call' \in [Operator -> CallState]
        /\ \A q \in Operator : call'[q] = Idle
        /\ LockHeld' /\ lock' = None
    BY <1>2, <1>4, Returns DEF Return
  <1>6. FilesTyped'
    BY <1>4, <1>5 DEF FilesTyped, TrustTypeOK, CallState
  <1>7. PendingSound'
    BY <1>4 DEF PendingSound
  <1>8. HistorySound'
    <2>1. events # None => Materializes(events) /\ Settled(events, manifest.epoch.at)
      BY <1>2, <1>3 DEF SoundJournal, Materializes
    <2> QED BY <1>4, <2>1 DEF HistorySound, Materializes
  <1>9. CallsSound'
    BY <1>5 DEF CallsSound
  <1>10. EpochSound'
    BY <1>2, <1>3, <1>4 DEF EpochSound, KeptHistory
  <1>11. ReceiptsSound'
    BY <1>2, <1>4 DEF ReceiptsSound
  <1> QED BY <1>5, <1>6, <1>7, <1>8, <1>9, <1>10, <1>11

\* A call that fails, dies or is refused leaves its files as they are.
LEMMA FailureKeeps ==
  ASSUME IInv, NEW o \in Operator, RefuseReceipt(o) \/ Fail(o) \/ Tear(o)
  PROVE  IInv'
  <1> USE DEF IInv
  <1>1. /\ Return(o) /\ torn' \in BOOLEAN
        /\ UNCHANGED <<manifest, events, journal, receipts, mount, clock, prepared>>
    BY DEF RefuseReceipt, Fail, Tear, tFiles, FilesTyped, TrustTypeOK
  <1>2. call[o] # Idle
    <2>1. "receipt" \in Steps
      BY DEF Steps
    <2> QED BY <2>1, RunningCall DEF RefuseReceipt, Fail, Tear, At
  <1>3. /\ call' \in [Operator -> CallState]
        /\ \A q \in Operator : call'[q] = Idle
        /\ LockHeld' /\ lock' = None
    BY <1>1, <1>2, Returns DEF Return
  <1>4. FilesTyped'
    BY <1>1, <1>3 DEF FilesTyped, TrustTypeOK, CallState
  <1>5. PendingSound' /\ HistorySound' /\ EpochSound' /\ ReceiptsSound'
    BY <1>1 DEF PendingSound, HistorySound, Materializes, EpochSound, KeptHistory, ReceiptsSound
  <1>6. CallsSound'
    BY <1>3 DEF CallsSound
  <1> QED BY <1>3, <1>4, <1>5, <1>6

(***************************************************************************)
(* Hosts, clock and editor.                                                *)
(***************************************************************************)

\* Hosts and the clock leave the operator's files alone.
LEMMA EnvironmentKeeps ==
  ASSUME IInv, (\E h \in Host : Mount(h) \/ Unmount(h)) \/ SetClock
  PROVE  IInv'
  <1> USE DEF IInv
  <1>1. UNCHANGED <<tFiles, lock, call, prepared, faults>>
    BY DEF Mount, Unmount, SetClock
  <1>2. FilesTyped'
    <2>1. clock' \in Time
      BY DEF Mount, Unmount, SetClock, FilesTyped, TrustTypeOK
    <2>2. mount' \in [Host -> MountState]
      <3>0. mount \in [Host -> MountState]
        BY DEF FilesTyped, TrustTypeOK
      <3>1. ASSUME NEW h \in Host, Mount(h)
            PROVE  mount' \in [Host -> MountState]
        <4>1. manifest \in Manifest
          BY DEF FilesTyped, TrustTypeOK
        <4>2. [config |-> manifest.config, grants |-> manifest.epoch.grants]
                \in MountState
          BY <4>1, ManifestFields DEF MountState
        <4> QED BY <3>0, <3>1, <4>2 DEF Mount
      <3>2. None \in MountState
        BY DEF MountState
      <3> QED BY <3>0, <3>1, <3>2 DEF Unmount, SetClock
    <2> QED BY <1>1, <2>1, <2>2 DEF FilesTyped, TrustTypeOK, tFiles
  <1>3. LockHeld' /\ CallsSound'
    BY <1>1 DEF LockHeld, CallsSound, Progress, tFiles
  <1>4. PendingSound' /\ HistorySound' /\ EpochSound' /\ ReceiptsSound'
    BY <1>1 DEF PendingSound, HistorySound, Materializes, EpochSound, KeptHistory,
                ReceiptsSound, tFiles
  <1> QED BY <1>2, <1>3, <1>4

\* Other mappings change neither the epoch nor what recovery looks for.
LEMMA EditKeeps ==
  ASSUME IInv, EditMappings
  PROVE  IInv'
  <1> USE DEF IInv
  <1>1. PICK m \in Mapping : manifest' = [manifest EXCEPT !.config.mappings = m]
    BY DEF EditMappings
  <1>2. /\ lock = None
        /\ UNCHANGED <<events, journal, receipts, torn, lock, call, mount, clock,
                       prepared, faults>>
    BY DEF EditMappings
  <1>3. manifest \in Manifest
    BY DEF FilesTyped, TrustTypeOK
  <1>4. manifest' \in Manifest /\ manifest'.epoch = manifest.epoch
    BY <1>1, <1>3 DEF Manifest, Config
  <1>5. FilesTyped'
    BY <1>2, <1>4 DEF FilesTyped, TrustTypeOK
  <1>6. \A q \in Operator : call[q] = Idle
    BY <1>2, OneRuns
  <1>7. LockHeld' /\ CallsSound'
    BY <1>2, <1>6 DEF LockHeld, CallsSound
  <1>8. PendingSound'
    <2>1. \A j : Unedited(manifest', j) = Unedited(manifest, j)
      BY <1>1, <1>3 DEF Unedited, Manifest, Config
    <2> QED BY <1>2, <2>1 DEF PendingSound
  <1>9. HistorySound' /\ EpochSound' /\ ReceiptsSound'
    BY <1>2, <1>4 DEF HistorySound, Materializes, EpochSound, KeptHistory, ReceiptsSound
  <1> QED BY <1>5, <1>7, <1>8, <1>9

(***************************************************************************)
(* The commands.                                                           *)
(***************************************************************************)

\* recover repeats the steps of the pending journal.
LEMMA RecoverKeeps ==
  ASSUME IInv, NEW o \in Operator, Recover(o)
  PROVE  IInv'
  <1> USE DEF IInv
  <1>1. /\ lock = None /\ journal # None /\ lock' = o
        /\ manifest \in {journal.previous, journal.next}
        /\ call' = [call EXCEPT ![o] = [step |-> "manifest", journal |-> journal]]
        /\ UNCHANGED <<manifest, events, journal, receipts, torn, mount, clock, prepared, faults>>
    BY DEF Recover, tFiles
  <1>2. journal \in Journal /\ "manifest" \in Steps
    BY <1>1 DEF FilesTyped, TrustTypeOK, Steps
  <1>3. /\ call' \in [Operator -> CallState]
        /\ call'[o].step = "manifest" /\ call'[o].journal = journal
        /\ \A q \in Operator : q # o => call'[q] = Idle
        /\ LockHeld'
    BY <1>1, <1>2, Begins
  <1>4. FilesTyped'
    BY <1>1, <1>3 DEF FilesTyped, TrustTypeOK, CallState
  <1>5. CallsSound'
    BY <1>1, <1>3 DEF CallsSound, Progress
  <1>6. PendingSound' /\ HistorySound' /\ EpochSound' /\ ReceiptsSound'
    BY <1>1 DEF PendingSound, HistorySound, Materializes, EpochSound, KeptHistory, ReceiptsSound
  <1> QED BY <1>3, <1>4, <1>5, <1>6

\* A command that opens with a sound preparation.
LEMMA OpenKeeps ==
  ASSUME IInv, NEW o \in Operator, NEW op \in Operations, NEW next \in Manifest,
         NEW log \in Seq(Event) \union {None}, NEW appends \in BOOLEAN,
         Opens(o), Open(o, op, next, log, appends),
         Prepares(manifest, events, [op |-> op, previous |-> manifest, next |-> next,
                                     events |-> log, appends |-> appends])
  PROVE  IInv'
  <1> USE DEF IInv
  <1> DEFINE j == [op |-> op, previous |-> manifest, next |-> next,
                   events |-> log, appends |-> appends]
  <1>1. /\ lock = None /\ journal = None /\ lock' = o
        /\ call' = [call EXCEPT ![o] = [step |-> "journal", journal |-> j]]
        /\ UNCHANGED <<manifest, events, journal, receipts, torn, mount, clock, prepared, faults>>
    BY DEF Opens, Open, tFiles
  <1>2. j \in Journal /\ "journal" \in Steps
    BY DEF FilesTyped, TrustTypeOK, Steps, Journal
  <1> HIDE DEF j
  <1>3. /\ call' \in [Operator -> CallState]
        /\ call'[o].step = "journal" /\ call'[o].journal = j
        /\ \A q \in Operator : q # o => call'[q] = Idle
        /\ LockHeld'
    BY <1>1, <1>2, Begins
  <1>4. FilesTyped'
    BY <1>1, <1>3 DEF FilesTyped, TrustTypeOK, CallState
  <1>5. CallsSound'
    BY <1>1, <1>3 DEF CallsSound, Progress, j
  <1>6. PendingSound' /\ HistorySound' /\ EpochSound' /\ ReceiptsSound'
    BY <1>1 DEF PendingSound, HistorySound, Materializes, EpochSound, KeptHistory, ReceiptsSound
  <1> QED BY <1>3, <1>4, <1>5, <1>6

\* The manifest with another epoch is a manifest.
LEMMA AtEpochType ==
  ASSUME FilesTyped, NEW e \in Epoch
  PROVE  /\ AtEpoch(e) \in Manifest
         /\ AtEpoch(e).config = manifest.config
         /\ AtEpoch(e).epoch = e
  <1>1. manifest \in Manifest
    BY DEF FilesTyped, TrustTypeOK
  <1> QED BY <1>1 DEF AtEpoch, Manifest

\* A bootstrap grants what the epoch granted, each permission once.
LEMMA BaselineGrants ==
  ASSUME NEW g \in SUBSET Permission, NEW t \in Time, NEW u \in Time, t <= u
  PROVE  /\ Baseline(g, t) \in Seq(Event)
         /\ Settled(Baseline(g, t), u)
         /\ Granted(Baseline(g, t), u) = g
  <1> DEFINE n == Cardinality(g)
             Ordered(f) == \A p \in g : \E i \in 1..n : \A k \in 1..n : f[k] = p <=> k = i
             order == CHOOSE f \in [1..n -> g] : Ordered(f)
             log == Baseline(g, t)
  <1>1. n \in Nat /\ ExistsBijection(1..n, g)
    BY TrustBounds, FS_Subset, FS_CardinalityType
  <1>2. order \in [1..n -> g] /\ Ordered(order)
    <2>1. PICK f \in Bijection(1..n, g) : TRUE
      BY <1>1 DEF ExistsBijection
    <2>2. f \in [1..n -> g] /\ Ordered(f)
      BY <2>1 DEF Bijection, Injection, Surjection, IsInjective
    <2> HIDE DEF Ordered
    <2> QED BY <2>2
  <1>3. log = [i \in 1..n |-> [kind |-> "grant", permission |-> order[i],
                               at |-> t, until |-> Never]]
    BY DEF Baseline
  <1> HIDE DEF order, n, log
  <1>4. ASSUME NEW i \in 1..n
        PROVE  /\ log[i] \in Event
               /\ log[i].kind = "grant" /\ log[i].permission = order[i]
               /\ log[i].at = t /\ log[i].until = Never
    <2>1. order[i] \in Permission
      BY <1>2
    <2> QED BY <1>3, <2>1 DEF Event
  <1>5. log \in Seq(Event) /\ DOMAIN log = 1..n
    BY <1>1, <1>3, <1>4
  <1>6. \A i \in DOMAIN log : Applied(log[i], u) /\ Unexpired(log[i], u)
    BY <1>4, <1>5, MaxTimeAssumption DEF Applied, Unexpired, Never, Time
  <1>7. ASSUME NEW i \in 1..n PROVE i \in ActiveGrants(log, u)
    <2>1. order[i] \in g
      BY <1>2
    <2>2. \A k \in 1..n : order[k] = order[i] => k = i
      BY <1>2, <2>1
    <2>3. \A k \in DOMAIN log : k > i => log[k].permission # log[i].permission
      <3>1. ASSUME NEW k \in 1..n, k > i PROVE order[k] # order[i]
        BY <2>2, <3>1
      <3> QED BY <1>4, <1>5, <3>1
    <2> QED BY <1>4, <1>5, <1>6, <2>3 DEF ActiveGrants, LastGrant
  <1>8. Granted(log, u) = {order[i] : i \in 1..n}
    <2>1. ActiveGrants(log, u) = 1..n
      BY <1>5, <1>7 DEF ActiveGrants
    <2> QED BY <1>4, <2>1 DEF Granted
  <1>9. {order[i] : i \in 1..n} = g
    BY <1>2
  <1> QED BY <1>5, <1>6, <1>8, <1>9 DEF Settled, log

\* What the preamble of a command that replays the history relies on.
LEMMA ReplayableHistory ==
  ASSUME IInv, journal = None, Replayable
  PROVE  /\ events \in Seq(Event) /\ events # None
         /\ manifest \in Manifest /\ manifest.epoch.at \in Time /\ clock \in Time
         /\ manifest.epoch.at <= clock
         /\ manifest.epoch.grants = Granted(events, manifest.epoch.at)
         /\ Settled(events, manifest.epoch.at) /\ Settled(events, clock)
         /\ Granted(events, clock) \subseteq manifest.epoch.grants
  <1>1. /\ events \in Seq(Event) /\ events # None
        /\ manifest \in Manifest /\ clock \in Time /\ clock >= manifest.epoch.at
    BY DEF IInv, FilesTyped, TrustTypeOK, Replayable
  <1>2. manifest.epoch.at \in Time /\ manifest.epoch.at <= clock
    BY <1>1, ManifestFields, InstantIsNat
  <1>3. manifest.epoch.grants = Granted(events, manifest.epoch.at)
    BY DEF Replayable, Materializes, EpochOf
  <1>4. Settled(events, manifest.epoch.at)
    BY <1>1 DEF IInv, HistorySound
  <1> QED BY <1>1, <1>2, <1>3, <1>4, GrantedShrinks, StaysSettled

\* An appended event is recorded with the epoch of its own instant.
LEMMA AppendKeeps ==
  ASSUME IInv, NEW o \in Operator, NEW e \in Event, e.at = clock,
         NEW op \in {"AUTHORITY_GRANT", "AUTHORITY_REVOKE"},
         e.kind = "grant" => op = "AUTHORITY_GRANT",
         Opens(o), Replayable, AppendEvent(o, op, e)
  PROVE  IInv'
  <1> DEFINE log == Append(events, e)
             next == AtEpoch(EpochOf(log, clock))
             j == [op |-> op, previous |-> manifest, next |-> next,
                   events |-> log, appends |-> TRUE]
  <1>1. Open(o, op, next, log, TRUE) /\ journal = None
    BY DEF AppendEvent, Opens
  <1>2. /\ events \in Seq(Event) /\ events # None
        /\ manifest \in Manifest /\ manifest.epoch.at \in Time /\ clock \in Time
        /\ manifest.epoch.at <= clock /\ Settled(events, clock)
        /\ Granted(events, clock) \subseteq manifest.epoch.grants
    BY <1>1, ReplayableHistory
  <1>3. clock \in Nat /\ manifest.epoch.at \in Nat
    BY <1>2, InstantIsNat
  <1>4. log \in Seq(Event)
    BY <1>2
  <1>5. /\ EpochOf(log, clock) \in Epoch
        /\ EpochOf(log, clock).at = clock
        /\ EpochOf(log, clock).grants = Granted(log, clock)
    BY <1>2, <1>4, EpochOfType
  <1>6. /\ next \in Manifest /\ next.config = manifest.config
        /\ next.epoch = EpochOf(log, clock)
    BY <1>5, AtEpochType DEF IInv
  <1>7. /\ Settled(log, clock)
        /\ \A p \in Granted(log, clock) :
             p \in Granted(events, clock) \/ (e.kind = "grant" /\ p = e.permission)
    BY <1>2, <1>3, GrantedAfterAppend
  <1>8. op \in Operations
    BY DEF Operations
  <1> HIDE DEF log, next
  <1>9. RecordsEvent(manifest, events, j)
    <2>1. /\ j.events = log /\ j.next = next /\ j.op = op
          /\ next.epoch.at = clock
      BY <1>5, <1>6
    <2>2. e.at >= manifest.epoch.at
      BY <1>2, <1>3
    <2>3. \A p \in next.epoch.grants \ manifest.epoch.grants :
            op = "AUTHORITY_GRANT" /\ p = e.permission
      BY <1>2, <1>5, <1>6, <1>7
    <2> HIDE DEF j
    <2> QED BY <1>2, <1>6, <1>7, <2>1, <2>2, <2>3 DEF RecordsEvent, log
  <1>10. Prepares(manifest, events, j)
    BY <1>9 DEF Prepares
  <1> QED BY <1>1, <1>4, <1>6, <1>8, <1>10, OpenKeeps

\* A grant.
LEMMA GrantKeeps ==
  ASSUME IInv, NEW o \in Operator, NEW p \in Permission,
         NEW u \in Time \union {Never}, Opens(o), Grant(o, p, u)
  PROVE  IInv'
  <1> DEFINE e == [kind |-> "grant", permission |-> p, at |-> clock, until |-> u]
  <1>1. clock \in Time
    BY DEF IInv, FilesTyped, TrustTypeOK
  <1>2. e \in Event /\ e.at = clock
    BY <1>1 DEF Event
  <1> QED BY <1>2, AppendKeeps DEF Grant

\* A revocation.
LEMMA RevokeKeeps ==
  ASSUME IInv, NEW o \in Operator, NEW p \in Permission, Opens(o), Revoke(o, p)
  PROVE  IInv'
  <1> DEFINE e == [kind |-> "revoke", permission |-> p, at |-> clock, until |-> Never]
  <1>1. clock \in Time
    BY DEF IInv, FilesTyped, TrustTypeOK
  <1>2. e \in Event /\ e.at = clock /\ e.kind # "grant"
    BY <1>1 DEF Event
  <1> QED BY <1>2, AppendKeeps DEF Revoke

\* A replay of the history at a later instant.
LEMMA RefreshKeeps ==
  ASSUME IInv, NEW o \in Operator, Opens(o), RefreshEpoch(o)
  PROVE  IInv'
  <1> DEFINE next == AtEpoch(EpochOf(events, clock))
             j == [op |-> "AUTHORITY_EPOCH_REFRESH", previous |-> manifest,
                   next |-> next, events |-> events, appends |-> FALSE]
  <1>1. /\ Open(o, "AUTHORITY_EPOCH_REFRESH", next, events, FALSE)
        /\ journal = None /\ Replayable
    BY DEF RefreshEpoch, Opens
  <1>2. /\ events \in Seq(Event) /\ events # None
        /\ manifest \in Manifest /\ manifest.epoch.at \in Time /\ clock \in Time
        /\ manifest.epoch.at <= clock /\ Settled(events, clock)
        /\ Granted(events, clock) \subseteq manifest.epoch.grants
    BY <1>1, ReplayableHistory
  <1>3. clock \in Nat /\ manifest.epoch.at \in Nat
    BY <1>2, InstantIsNat
  <1>4. /\ EpochOf(events, clock) \in Epoch
        /\ EpochOf(events, clock).at = clock
        /\ EpochOf(events, clock).grants = Granted(events, clock)
    BY <1>2, EpochOfType
  <1>5. /\ next \in Manifest /\ next.config = manifest.config
        /\ next.epoch = EpochOf(events, clock)
    BY <1>4, AtEpochType DEF IInv
  <1>6. "AUTHORITY_EPOCH_REFRESH" \in Operations
    BY DEF Operations
  <1> HIDE DEF next
  <1>7. ObservesHistory(manifest, events, j)
    BY <1>2, <1>3, <1>4, <1>5 DEF ObservesHistory
  <1>8. Prepares(manifest, events, j)
    BY <1>7 DEF Prepares
  <1> QED BY <1>1, <1>2, <1>5, <1>6, <1>8, OpenKeeps

\* A bootstrap.
LEMMA BootstrapKeeps ==
  ASSUME IInv, NEW o \in Operator, Opens(o), Bootstrap(o)
  PROVE  IInv'
  <1> DEFINE log == Baseline(manifest.epoch.grants, manifest.epoch.at)
             next == AtEpoch(EpochOf(log, clock))
             j == [op |-> "AUTHORITY_BOOTSTRAP", previous |-> manifest,
                   next |-> next, events |-> log, appends |-> FALSE]
  <1>1. /\ Open(o, "AUTHORITY_BOOTSTRAP", next, log, FALSE)
        /\ events = None /\ clock >= manifest.epoch.at
    BY DEF Bootstrap
  <1>2. manifest \in Manifest /\ clock \in Time
    BY DEF IInv, FilesTyped, TrustTypeOK
  <1>3. /\ manifest.epoch.grants \in SUBSET Permission
        /\ manifest.epoch.at \in Time /\ manifest.epoch.at <= clock
    BY <1>1, <1>2, ManifestFields, InstantIsNat
  <1>4. /\ log \in Seq(Event) /\ Settled(log, clock)
        /\ Granted(log, clock) = manifest.epoch.grants
    BY <1>2, <1>3, BaselineGrants
  <1> HIDE DEF log
  <1>5. /\ EpochOf(log, clock) \in Epoch
        /\ EpochOf(log, clock).at = clock
        /\ EpochOf(log, clock).grants = manifest.epoch.grants
    BY <1>2, <1>4, EpochOfType
  <1>6. /\ next \in Manifest /\ next.config = manifest.config
        /\ next.epoch = EpochOf(log, clock)
    BY <1>5, AtEpochType DEF IInv
  <1>7. "AUTHORITY_BOOTSTRAP" \in Operations
    BY DEF Operations
  <1> HIDE DEF next
  <1>8. AdoptsHistory(manifest, events, j)
    BY <1>1, <1>4, <1>5, <1>6 DEF AdoptsHistory
  <1>9. Prepares(manifest, events, j)
    BY <1>8 DEF Prepares
  <1> QED BY <1>1, <1>4, <1>6, <1>7, <1>9, OpenKeeps

\* Enabling and disabling execution.
LEMMA SetExecutionKeeps ==
  ASSUME IInv, NEW o \in Operator, NEW on \in BOOLEAN, Opens(o),
         SetExecutionEnabled(o, on)
  PROVE  IInv'
  <1> DEFINE op == IF on THEN "EXECUTION_ENABLE" ELSE "EXECUTION_DISABLE"
             next == [manifest EXCEPT !.config.enabled = on, !.config.desktop = on]
             j == [op |-> op, previous |-> manifest, next |-> next,
                   events |-> events, appends |-> FALSE]
  <1>1. /\ Open(o, op, next, events, FALSE)
        /\ events # None => Materializes(events)
        /\ journal = None
    BY DEF SetExecutionEnabled, Opens
  <1>2. manifest \in Manifest /\ events \in Seq(Event) \union {None}
    BY DEF IInv, FilesTyped, TrustTypeOK
  <1>3. /\ next \in Manifest /\ next.epoch = manifest.epoch
        /\ next.config.mappings = manifest.config.mappings
    BY <1>2 DEF Manifest, Config
  <1>4. op \in Operations
    BY DEF Operations
  <1>5. events # None => /\ manifest.epoch = EpochOf(events, manifest.epoch.at)
                         /\ Settled(events, manifest.epoch.at)
    BY <1>1 DEF IInv, HistorySound, Materializes
  <1> HIDE DEF next, op
  <1>6. ConfiguresExecution(manifest, events, j)
    BY <1>3, <1>5 DEF ConfiguresExecution
  <1>7. Prepares(manifest, events, j)
    BY <1>6 DEF Prepares
  <1> QED BY <1>1, <1>2, <1>3, <1>4, <1>7, OpenKeeps

(***************************************************************************)
(* The invariant.                                                          *)
(***************************************************************************)

\* Initially there is no history and nothing is pending.
LEMMA InitIInv ==
  ASSUME TInit
  PROVE  IInv
  <1>1. PICK c \in FirstConfig, g \in SUBSET Permission, n \in {Never} \union (Time \ {0}) :
          manifest = [config |-> c,
                      epoch |-> [at |-> 0, log |-> <<>>, grants |-> g, next |-> n]]
    BY DEF TInit
  <1>2. 0 \in Time /\ c \in Config
    BY TrustBounds, MaxTimeAssumption DEF Time
  <1>3. manifest \in Manifest
    BY <1>1, <1>2 DEF Manifest, Epoch
  <1>4. call = [o \in Operator |-> Idle]
    BY DEF TInit
  <1>5. FilesTyped
    <2>1. call \in [Operator -> CallState]
      BY <1>4 DEF CallState
    <2>2. mount \in [Host -> MountState]
      BY DEF TInit, MountState
    <2>3. prepared \in Seq(Journal) /\ receipts \in Seq(KnownReceipts)
      BY DEF TInit
    <2>4. /\ events \in Seq(Event) \union {None}
          /\ journal \in Journal \union {None}
          /\ torn \in BOOLEAN
          /\ lock \in Operator \union {None}
          /\ clock \in Time
      BY <1>2, Zenon DEF TInit
    <2> QED BY <1>3, <2>1, <2>2, <2>3, <2>4, Zenon DEF FilesTyped, TrustTypeOK
  <1>6. LockHeld /\ CallsSound
    BY <1>4 DEF LockHeld, CallsSound
  <1>7. PendingSound /\ HistorySound /\ EpochSound /\ ReceiptsSound
    BY DEF TInit, PendingSound, HistorySound, EpochSound, ReceiptsSound
  <1> QED BY <1>5, <1>6, <1>7 DEF IInv

\* Every step keeps the invariant.
LEMMA NextIInv ==
  ASSUME IInv, [TNext]_tVars
  PROVE  IInv'
  <1>1. CASE UNCHANGED tVars
    BY <1>1 DEF tVars, IInv, FilesTyped, TrustTypeOK, LockHeld, PendingSound, HistorySound,
                Materializes, CallsSound, Progress, EpochSound, KeptHistory, ReceiptsSound
  <1>2. ASSUME NEW o \in Operator, Command(o) PROVE IInv'
    BY <1>2, BootstrapKeeps, GrantKeeps, RevokeKeeps, RefreshKeeps, SetExecutionKeeps,
       RecoverKeeps DEF Command
  <1>3. ASSUME NEW o \in Operator, Step(o) PROVE IInv'
    BY <1>3, WriteJournalKeeps, WriteManifestKeeps, WriteEventsKeeps, WriteReceiptKeeps,
       UnlinkKeeps, FailureKeeps DEF Step
  <1>4. ASSUME (\E h \in Host : Mount(h) \/ Unmount(h)) \/ SetClock PROVE IInv'
    BY <1>4, EnvironmentKeeps
  <1> QED BY <1>1, <1>2, <1>3, <1>4, EditKeeps DEF TNext

\* The invariant holds in every reachable state.
LEMMA InvariantHolds == TSpec => []IInv
  BY InitIInv, NextIInv, PTL DEF TSpec

(***************************************************************************)
(* What follows from it.                                                   *)
(***************************************************************************)

\* The files, the calls and the mounts keep their kinds.
THEOREM TrustTypeCorrect == TSpec => []TrustTypeOK
  <1>1. IInv => TrustTypeOK
    BY DEF IInv, FilesTyped
  <1> QED BY <1>1, InvariantHolds, PTL

\* _validate_state_against_manifest never refuses a history that the operator
\* itself kept, wherever its calls failed.
THEOREM HistoryMaterializesHolds == TSpec => []HistoryMaterializes
  <1>1. IInv => HistoryMaterializes
    BY DEF IInv, HistorySound, HistoryMaterializes
  <1> QED BY <1>1, InvariantHolds, PTL

\* recover accepts the manifest of every interrupted mutation whose mappings
\* nobody edited.
THEOREM PendingRecoverableHolds == TSpec => []PendingRecoverable
  <1>1. ASSUME IInv, journal # None,
               manifest.config.mappings = journal.next.config.mappings
        PROVE  manifest \in {journal.previous, journal.next}
    <2>1. manifest \in Manifest
      BY <1>1 DEF IInv, FilesTyped, TrustTypeOK
    <2>2. Unedited(manifest, journal) = manifest
      BY <1>1, <2>1 DEF Unedited, Manifest, Config
    <2> QED BY <1>1, <2>2 DEF IInv, PendingSound
  <1>2. IInv => PendingRecoverable
    BY <1>1 DEF PendingRecoverable
  <1> QED BY <1>2, InvariantHolds, PTL

\* AuthorityProjection.project computes the grants that the rest reads, on
\* whatever history is kept.
THEOREM ReplayAgreesHolds == TSpec => []ReplayAgrees
  <1>1. TrustTypeOK => KeptHistory \in Seq(Event) \union {None}
    BY DEF TrustTypeOK, KeptHistory, Journal
  <1>2. TrustTypeOK => ReplayAgrees
    BY <1>1, ProjectionIsGranted DEF ReplayAgrees
  <1> QED BY <1>2, TrustTypeCorrect, PTL

\* ManifestAuthorityEpochProvider.current with LeaseGuard.check: what a host
\* may use now is what the replay grants now.
THEOREM LiveAuthorityHolds == TSpec => []LiveAuthority
  <1>1. ASSUME IInv, NEW h \in Host, NEW p \in Permission, MayUse(h, p), events # None
        PROVE  /\ p \in Granted(manifest.epoch.log, clock)
               /\ Prefix(manifest.epoch.log, KeptHistory)
    <2>1. /\ manifest.epoch.log \in Seq(Event)
          /\ manifest.epoch.at \in Time
          /\ clock \in Time
      BY <1>1, ManifestFields DEF IInv, FilesTyped, TrustTypeOK
    <2>2. /\ manifest.epoch = EpochOf(manifest.epoch.log, manifest.epoch.at)
          /\ Prefix(manifest.epoch.log, KeptHistory)
      BY <1>1 DEF IInv, EpochSound
    <2>3. /\ manifest.epoch.grants = Granted(manifest.epoch.log, manifest.epoch.at)
          /\ manifest.epoch.next = NextTransition(manifest.epoch.log, manifest.epoch.at)
      BY <2>1, <2>2, EpochOfType
    <2>4. /\ manifest.epoch.at <= clock
          /\ clock < NextTransition(manifest.epoch.log, manifest.epoch.at)
          /\ p \in manifest.epoch.grants
      BY <1>1, <2>3 DEF MayUse
    <2> QED BY <2>1, <2>2, <2>3, <2>4, GrantedUntilTransition
  <1>2. IInv => LiveAuthority
    BY <1>1 DEF LiveAuthority
  <1> QED BY <1>2, InvariantHolds, PTL

\* _append_jsonl_once leaves one receipt of an event, however often recover
\* repeats the commit.
THEOREM EventsReceiptedHolds == TSpec => []EventsReceipted
  <1>1. ASSUME IInv, NEW i \in DOMAIN prepared, journal = None
        PROVE  Cardinality({r \in DOMAIN receipts :
                              receipts[r] = ReceiptId(prepared[i])}) = 1
    <2> DEFINE S == {r \in DOMAIN receipts : receipts[r] = ReceiptId(prepared[i])}
    <2>1. PICK r \in DOMAIN receipts : receipts[r] = ReceiptId(prepared[i])
      BY <1>1 DEF IInv, ReceiptsSound
    <2>2. \A a, b \in DOMAIN receipts : receipts[a] = receipts[b] => a = b
      BY <1>1 DEF IInv, ReceiptsSound
    <2>3. S = {r}
      BY <2>1, <2>2
    <2> HIDE DEF S
    <2>4. Cardinality(S) = 1
      BY <2>3, FS_Singleton
    <2> QED BY <2>4 DEF S
  <1>2. IInv => EventsReceipted
    BY <1>1 DEF EventsReceipted
  <1> QED BY <1>2, InvariantHolds, PTL

\* A step that changes the manifest writes a journal's or edits its mappings.
LEMMA ManifestSteps ==
  ASSUME [TNext]_tVars, manifest' # manifest
  PROVE  EditMappings \/ \E o \in Operator : WriteManifest(o)
  <1>1. ~UNCHANGED tVars
    BY DEF tVars
  <1>2. ASSUME NEW o \in Operator, Command(o) PROVE UNCHANGED manifest
    BY <1>2 DEF Command, Bootstrap, Grant, Revoke, RefreshEpoch, SetExecutionEnabled,
                Recover, AppendEvent, Open, tFiles
  <1>3. ASSUME NEW o \in Operator, Step(o), ~WriteManifest(o) PROVE UNCHANGED manifest
    BY <1>3 DEF Step, WriteJournal, WriteEvents, WriteReceipt, RefuseReceipt, Unlink,
                Fail, Tear, tFiles
  <1>4. ASSUME NEW h \in Host, Mount(h) \/ Unmount(h) PROVE UNCHANGED manifest
    BY <1>4 DEF Mount, Unmount, tFiles
  <1>5. SetClock => UNCHANGED manifest
    BY DEF SetClock, tFiles
  <1> QED BY <1>1, <1>2, <1>3, <1>4, <1>5 DEF TNext

\* The epoch a host reads gains a permission only by the grant that the
\* pending journal holds: no recovery, refresh or replay revives one.
THEOREM OnlyGrantsAddHolds == TSpec => OnlyGrantsAdd
  <1> DEFINE Added(p) == p \in manifest'.epoch.grants \ manifest.epoch.grants
             Journalled(p) == /\ journal # None
                              /\ journal.op = "AUTHORITY_GRANT"
                              /\ journal.events[Len(journal.events)].permission = p
             Only == \A p \in Permission : Added(p) => Journalled(p)
  <1>1. ASSUME IInv, NEW o \in Operator, WriteManifest(o) PROVE Only
    <2>1. /\ call[o].step = "manifest"
          /\ manifest' = call[o].journal.next
      BY <1>1 DEF WriteManifest, At
    <2>2. "manifest" \in Steps
      BY DEF Steps
    <2>3. /\ call[o].journal \in Journal
          /\ journal = call[o].journal
          /\ manifest \in {journal.previous, journal.next}
      BY <1>1, <2>1, <2>2, CallAtStep DEF IInv, Progress
    <2>4. journal # None
      BY <2>3, NoneIsNothing
    <2>5. SoundJournal(journal)
      BY <1>1, <2>4 DEF IInv, PendingSound
    <2> QED BY <2>1, <2>3, <2>4, <2>5 DEF SoundJournal
  <1>2. ASSUME IInv, EditMappings PROVE Only
    <2>1. PICK m \in Mapping : manifest' = [manifest EXCEPT !.config.mappings = m]
      BY <1>2 DEF EditMappings
    <2>2. manifest \in Manifest
      BY <1>2 DEF IInv, FilesTyped, TrustTypeOK
    <2>3. manifest'.epoch = manifest.epoch
      BY <2>1, <2>2 DEF Manifest
    <2> QED BY <2>3
  <1>3. IInv /\ [TNext]_tVars => Only
    <2> SUFFICES ASSUME IInv, [TNext]_tVars PROVE Only
      OBVIOUS
    <2>1. CASE manifest' = manifest
      BY <2>1
    <2>2. CASE manifest' # manifest
      <3> HIDE DEF Only
      <3> QED BY <2>2, <1>1, <1>2, ManifestSteps
    <2> QED BY <2>1, <2>2
  <1>4. IInv /\ [TNext]_tVars => [Only]_tVars
    BY <1>3
  <1> QED BY <1>4, InvariantHolds, PTL DEF TSpec, OnlyGrantsAdd

(***************************************************************************)
(* The trust operator implements one append-only history (TrustHistory):   *)
(* the journal that is written is the change, and all that follows it,     *)
(* failures and recoveries included, is a stutter.                         *)
(***************************************************************************)

\* The replay of the abstract history is the replay of the kept one.
LEMMA SameReplay ==
  /\ H!Event = Event /\ H!Epoch = Epoch /\ H!Time = Time
  /\ \A log, t : H!EpochOf(log, t) = EpochOf(log, t)
  <1>1. H!Never = Never /\ H!Time = Time
    BY DEF H!Never, Never, H!Time, Time
  <1>2. H!Event = Event /\ H!Epoch = Epoch
    BY <1>1 DEF H!Event, Event, H!Epoch, Epoch
  <1>3. ASSUME NEW log, NEW t PROVE H!EpochOf(log, t) = EpochOf(log, t)
    <2>1. H!ActiveGrants(log, t) = ActiveGrants(log, t)
      BY DEF H!ActiveGrants, ActiveGrants, H!LastGrant, LastGrant, H!Applied, Applied,
             H!Unexpired, Unexpired
    <2>2. H!Granted(log, t) = Granted(log, t)
      BY <2>1 DEF H!Granted, Granted
    <2>3. H!Transitions(log, t) = Transitions(log, t)
      BY <1>1, <2>1 DEF H!Transitions, Transitions, H!Applied, Applied
    <2>4. H!NextTransition(log, t) = NextTransition(log, t)
      BY <1>1, <2>3 DEF H!NextTransition, NextTransition
    <2> QED BY <2>2, <2>4 DEF H!EpochOf, EpochOf
  <1> QED BY <1>1, <1>2, <1>3

\* A step that leaves what is promised and kept alone is a stutter.
LEMMA Stutters ==
  ASSUME Promised' = Promised, KeptHistory' = KeptHistory
  PROVE  UNCHANGED H!hVars
  BY DEF H!hVars

\* A change from what is promised to a prepared journal is a step of the history.
LEMMA PreparedRefines ==
  ASSUME NEW j \in Journal, Prepares(Promised, KeptHistory, j),
         Promised \in Manifest, KeptHistory \in Seq(Event) \union {None},
         Promised' = j.next, KeptHistory' = j.events
  PROVE  [H!HNext]_H!hVars
  <1> USE NoneIsNothing
  <1>1. /\ j.next \in Manifest
        /\ j.next.config \in Config
        /\ j.next.epoch.at \in Time
        /\ Promised.epoch.at \in Time
    BY JournalFields, ManifestFields
  <1>2. CASE AdoptsHistory(Promised, KeptHistory, j)
    <2>1. H!Adopt
      BY <1>2, SameReplay DEF AdoptsHistory, H!Adopt, H!Kept
    <2> QED BY <2>1 DEF H!HNext
  <1>3. CASE RecordsEvent(Promised, KeptHistory, j)
    <2>1. PICK e \in Event : /\ e.at >= Promised.epoch.at
                             /\ j.events = Append(KeptHistory, e)
                             /\ j.next.epoch = EpochOf(j.events, e.at)
      BY <1>3 DEF RecordsEvent
    <2>2. KeptHistory # None /\ j.next.config = Promised.config
      BY <1>3 DEF RecordsEvent
    <2>3. KeptHistory' # None
      BY <2>1, <2>2
    <2>4. H!Record
      BY <2>1, <2>2, <2>3, SameReplay DEF H!Record, H!Kept
    <2> QED BY <2>4 DEF H!HNext
  <1>4. CASE ObservesHistory(Promised, KeptHistory, j)
    <2>1. H!Observe
      BY <1>1, <1>4, SameReplay DEF ObservesHistory, H!Observe
    <2> QED BY <2>1 DEF H!HNext
  <1>5. CASE ConfiguresExecution(Promised, KeptHistory, j)
    <2>1. H!Configure
      BY <1>1, <1>5 DEF ConfiguresExecution, H!Configure
    <2> QED BY <2>1 DEF H!HNext
  <1> QED BY <1>2, <1>3, <1>4, <1>5 DEF Prepares

\* The writing of the journal is the change that the command promises.
LEMMA WriteJournalRefines ==
  ASSUME IInv, NEW o \in Operator, WriteJournal(o)
  PROVE  [H!HNext]_H!hVars
  <1> DEFINE j == call[o].journal
  <1>1. call[o].step = "journal" /\ "journal" \in Steps
    BY DEF WriteJournal, At, Steps
  <1>2. j \in Journal /\ journal = None /\ Prepares(manifest, events, j)
    BY <1>1, CallAtStep DEF IInv, Progress
  <1>3. journal' = j /\ UNCHANGED <<manifest, events>>
    BY DEF WriteJournal
  <1>4. /\ Promised = manifest /\ KeptHistory = events
        /\ Promised' = j.next /\ KeptHistory' = j.events
    BY <1>2, <1>3, NoneIsNothing DEF Promised, KeptHistory
  <1>5. manifest \in Manifest /\ events \in Seq(Event) \union {None}
    BY DEF IInv, FilesTyped, TrustTypeOK
  <1> QED BY <1>2, <1>4, <1>5, PreparedRefines

\* Every later step of a commit only does what is promised.
LEMMA StepRefines ==
  ASSUME IInv, NEW o \in Operator, Step(o)
  PROVE  [H!HNext]_H!hVars
  <1> USE NoneIsNothing
  <1>1. CASE WriteManifest(o) \/ WriteEvents(o)
    <2>1. call[o].step \in {"manifest", "events"} /\ call[o].step \in Steps
      BY <1>1 DEF WriteManifest, WriteEvents, At, Steps
    <2>2. journal # None
      BY <2>1, CallAtStep DEF IInv, Progress
    <2>3. UNCHANGED journal
      BY <1>1 DEF WriteManifest, WriteEvents
    <2> QED BY <2>2, <2>3, Stutters DEF Promised, KeptHistory
  <1>2. CASE Unlink(o)
    <2>1. call[o].step = "unlink" /\ call[o].step \in Steps
      BY <1>2 DEF Unlink, At, Steps
    <2>2. /\ journal # None
          /\ manifest = journal.next
          /\ events = journal.events
      BY <2>1, CallAtStep DEF IInv, Progress
    <2>3. journal' = None /\ UNCHANGED <<manifest, events>>
      BY <1>2 DEF Unlink
    <2> QED BY <2>2, <2>3, Stutters DEF Promised, KeptHistory
  <1>3. CASE WriteReceipt(o) \/ RefuseReceipt(o) \/ Fail(o) \/ Tear(o)
    <2>1. UNCHANGED <<manifest, events, journal>>
      BY <1>3 DEF WriteReceipt, RefuseReceipt, Fail, Tear, tFiles
    <2> QED BY <2>1, Stutters DEF Promised, KeptHistory
  <1> QED BY <1>1, <1>2, <1>3, WriteJournalRefines DEF Step

\* Whoever edits the mappings reconfigures the host, or, while a journal is
\* pending, changes nothing that is promised.
LEMMA EditRefines ==
  ASSUME IInv, EditMappings
  PROVE  [H!HNext]_H!hVars
  <1>1. PICK m \in Mapping : manifest' = [manifest EXCEPT !.config.mappings = m]
    BY DEF EditMappings
  <1>2. UNCHANGED <<events, journal>>
    BY DEF EditMappings
  <1>3. CASE journal # None
    BY <1>2, <1>3, Stutters DEF Promised, KeptHistory
  <1>4. CASE journal = None
    <2>1. manifest \in Manifest
      BY DEF IInv, FilesTyped, TrustTypeOK
    <2>2. manifest'.config \in Config /\ manifest'.epoch = manifest.epoch
      BY <1>1, <2>1 DEF Manifest, Config
    <2>3. /\ Promised = manifest /\ Promised' = manifest'
          /\ KeptHistory = events /\ KeptHistory' = events
      BY <1>2, <1>4 DEF Promised, KeptHistory
    <2>4. H!Configure
      BY <2>2, <2>3 DEF H!Configure
    <2> QED BY <2>4 DEF H!HNext
  <1> QED BY <1>3, <1>4

\* Files replaced in any order of failures look like one sealed manifest with
\* one append-only history.
THEOREM ImplementsHistoryHolds == TSpec => ImplementsHistory
  <1>1. TInit => H!HInit
    <2> SUFFICES ASSUME TInit PROVE H!HInit
      OBVIOUS
    <2>1. manifest \in Manifest
      BY InitIInv DEF IInv, FilesTyped, TrustTypeOK
    <2>2. Promised = manifest /\ KeptHistory = None
      BY DEF TInit, Promised, KeptHistory
    <2>3. manifest.config \in Config /\ manifest.epoch \in Epoch
      BY <2>1, ManifestFields
    <2> QED BY <2>2, <2>3, SameReplay DEF H!HInit, H!NoHistory
  <1>2. IInv /\ [TNext]_tVars => [H!HNext]_H!hVars
    <2> SUFFICES ASSUME IInv, [TNext]_tVars PROVE [H!HNext]_H!hVars
      OBVIOUS
    <2>1. CASE UNCHANGED tVars
      BY <2>1, Stutters DEF tVars, Promised, KeptHistory
    <2>2. ASSUME NEW o \in Operator, Command(o) PROVE [H!HNext]_H!hVars
      <3>1. UNCHANGED <<manifest, events, journal>>
        BY <2>2 DEF Command, Bootstrap, Grant, Revoke, RefreshEpoch,
                    SetExecutionEnabled, Recover, AppendEvent, Open, tFiles
      <3> QED BY <3>1, Stutters DEF Promised, KeptHistory
    <2>3. ASSUME (\E h \in Host : Mount(h) \/ Unmount(h)) \/ SetClock
          PROVE  [H!HNext]_H!hVars
      <3>1. UNCHANGED <<manifest, events, journal>>
        BY <2>3 DEF Mount, Unmount, SetClock, tFiles
      <3> QED BY <3>1, Stutters DEF Promised, KeptHistory
    <2> QED BY <2>1, <2>2, <2>3, StepRefines, EditRefines DEF TNext
  <1> QED BY <1>1, <1>2, InvariantHolds, PTL DEF TSpec, ImplementsHistory, H!HSpec
=============================================================================
