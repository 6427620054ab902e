------------------------ MODULE DesktopVersionsProofs ------------------------
(***************************************************************************)
(* The versions of a desktop app, for any plans, builds and bounds, with   *)
(* one phi-app process at a time: the launcher never names what a command  *)
(* removed, and a cleanup that stopped can be reconciled.                  *)
(***************************************************************************)
EXTENDS DesktopVersions, TLAPS

\* There is no lock: two processes at once break everything below.
OneOperator == \A o, q \in AppOperator : o = q

(***************************************************************************)
(* The inductive invariant.                                                *)
(***************************************************************************)

Journal == [of : Binding, tree : BOOLEAN, cleaned : Nat, cancelled : Nat]

FilesTypeOK ==
  /\ entry \in DesktopPlan \union {NoPlan}
  /\ bundle \in [DesktopPlan -> Nat \union {Torn}]
  /\ tree \in [Build -> {"whole", "torn", "absent"}]
  /\ marker \in [DesktopPlan -> Binding \union {NoPlan}]
  /\ updates \subseteq Binding
  /\ cleanups \in Seq(Journal)
  /\ granted \in Nat
  /\ uninstalled \subseteq Build
  /\ unrestored \in BOOLEAN

DTypeOK == FilesTypeOK /\ work \in [AppOperator -> Calls \union {AtRest}]

\* A binding of two versions, with grants that were written.
Bound(b) ==
  /\ BuildOf[b.retained] # BuildOf[b.active]
  /\ b.grant <= granted /\ b.activeGrant <= granted

\* Grants are written once: whatever names one is not newer than the last.
Recorded ==
  /\ \A p \in DesktopPlan : marker[p] # NoPlan => Bound(marker[p]) /\ marker[p].retained = p
  /\ \A j \in DOMAIN cleanups : Bound(cleanups[j].of)
  /\ \A p \in DesktopPlan : bundle[p] \in Nat => bundle[p] <= granted

\* OneUnresolved: the lifecycle gate admits one cleanup at a time.
OneUnresolved == \A i, j \in Unresolved : i = j

\* What the journal of a cleanup is about is as the plan found it, or removed:
\* the marker, then the bundle, then the build.  Once the active version is
\* withdrawn, its grant never comes back.
JournalSound(j) ==
  LET b == cleanups[j].of
      build == BuildOf[b.retained]
  IN  /\ marker[b.retained] \in {NoPlan, b}
      /\ entry = b.active /\ bundle[b.active] = b.activeGrant =>
           /\ bundle[b.retained] \in {0, b.grant, Torn}
           /\ tree[build] = "absent" /\ build \notin uninstalled =>
                bundle[b.retained] = 0 /\ cleanups[j].tree

InstallSound(w) ==
  /\ entry = NoPlan
  /\ w.step \in {"place", "switch", "discard"}
  /\ w.step # "discard" =>
       /\ w.of.activeGrant = granted /\ granted > 0
       /\ Installed(w.of.active)
       /\ \A j \in DOMAIN cleanups : cleanups[j].of.activeGrant < granted
  /\ w.step = "switch" => bundle[w.of.active] = w.of.activeGrant

UpdateSound(w) ==
  LET b == w.of
  IN  /\ Bound(b) /\ b.activeGrant > 0
      /\ Unresolved = {}
      /\ w.step \in {"place", "switch", "mark", "record", "unmark", "restore", "discard"}
      /\ Loads(b.retained)
      /\ w.step \in {"place", "switch"} => entry = b.retained /\ Installed(b.active)
      /\ w.step = "switch" => bundle[b.active] = b.activeGrant
      /\ w.step \in {"mark", "record", "unmark", "restore"} => Launches(b.active)
      /\ w.step = "discard" => unrestored \/ entry = b.retained

RollbackSound(w) ==
  /\ Bound(w.of)
  /\ Unresolved = {}
  /\ w.step \in {"switch", "retire marker", "mark back", "record", "unmark back",
                 "remark", "restore"}
  /\ Loads(w.of.retained) /\ Loads(w.of.active)

\* The journal of a call is open and is about the same.
Journaled(w) ==
  /\ w.journal \in Unresolved
  /\ cleanups[w.journal].of = w.of
  /\ cleanups[w.journal].tree = w.tree

CleanupSound(w) ==
  LET b == w.of
  IN  /\ Bound(b) /\ ActiveVerified(b)
      /\ w.step \in {"journal", "recheck", "retire marker", "remove bundle", "remove tree",
                     "receipt"}
      /\ IF w.step = "journal"
         THEN /\ Unresolved = {}
              /\ marker[b.retained] = b
              /\ Loads(b.retained) /\ bundle[b.retained] = b.grant
         ELSE Journaled(w)
      /\ w.step = "remove tree" => w.tree /\ bundle[b.retained] = 0

CompleteSound(w) ==
  /\ Bound(w.of) /\ ActiveVerified(w.of) /\ Journaled(w)
  /\ w.step \in {"retire marker", "remove bundle", "remove tree", "observe", "receipt"}
  /\ w.step = "remove tree" => w.tree /\ bundle[w.of.retained] = 0

RevokeSound(w) ==
  /\ w.step \in {"withdraw", "remove bundle"}
  /\ w.step = "remove bundle" => entry = NoPlan

CallSound(w) ==
  /\ w.kind = "install" => InstallSound(w)
  /\ w.kind = "update" => UpdateSound(w)
  /\ w.kind = "rollback" => RollbackSound(w)
  /\ w.kind = "cleanup" => CleanupSound(w)
  /\ w.kind = "complete" => CompleteSound(w)
  /\ w.kind = "cancel" => Journaled(w) /\ w.step = "cancel"
  /\ w.kind = "finalize" => Journaled(w) /\ w.step \in {"observe", "receipt"}
  /\ w.kind = "revoke" => RevokeSound(w)

JournalsSound ==
  /\ OneUnresolved
  /\ \A j \in Unresolved : JournalSound(j)

FilesSound == FilesTypeOK /\ Recorded /\ JournalsSound /\ ActiveStands

VInv ==
  /\ DTypeOK
  /\ Recorded
  /\ JournalsSound
  /\ \A o \in AppOperator : CallSound(work[o])
  /\ ActiveStands

(***************************************************************************)
(* Lemmas about calls.                                                     *)
(***************************************************************************)

\* Whether a journal is open is in the journals alone.
LEMMA UnresolvedStays ==
  ASSUME UNCHANGED cleanups
  PROVE  Unresolved' = Unresolved
  BY DEF Unresolved

LEMMA JournalTyped ==
  ASSUME FilesTypeOK, NEW j \in DOMAIN cleanups
  PROVE  /\ cleanups[j] \in Journal /\ cleanups[j].of \in Binding
         /\ cleanups[j].of.retained \in DesktopPlan /\ cleanups[j].of.active \in DesktopPlan
         /\ cleanups[j].of.grant \in Nat /\ cleanups[j].of.activeGrant \in Nat
  <1>1. cleanups \in Seq(Journal)
    BY DEF FilesTypeOK
  <1>2. cleanups[j] \in Journal
    BY <1>1
  <1> QED BY <1>2 DEF Journal, Binding

\* One operator: the step of its call is the step of them all.
LEMMA StepKeeps ==
  ASSUME VInv, OneOperator, NEW o \in AppOperator, NEW w \in Calls \union {AtRest},
         work' = [work EXCEPT ![o] = w], CallSound(w)', FilesSound'
  PROVE  VInv'
  <1>1. work' \in [AppOperator -> Calls \union {AtRest}] /\ work'[o] = w
    BY DEF VInv, DTypeOK
  <1>2. \A q \in AppOperator : q = o
    BY DEF OneOperator
  <1>3. \A q \in AppOperator : CallSound(work[q])'
    BY <1>1, <1>2
  <1> QED BY <1>1, <1>3 DEF VInv, DTypeOK, FilesSound

\* What a call goes on as.
LEMMA GoesOn ==
  ASSUME VInv, NEW o \in AppOperator, work[o] # AtRest, NEW s \in WorkSteps, GoOn(o, s)
  PROVE  \E w \in Calls :
           /\ work' = [work EXCEPT ![o] = w] /\ w.step = s
           /\ w.kind = work[o].kind /\ w.of = work[o].of /\ w.tree = work[o].tree
           /\ w.journal = work[o].journal
  <1> DEFINE w == [work[o] EXCEPT !.step = s]
  <1>1. work[o] \in Calls
    BY DEF VInv, DTypeOK
  <1>2. /\ w \in Calls /\ w.step = s /\ w.kind = work[o].kind /\ w.of = work[o].of
        /\ w.tree = work[o].tree /\ w.journal = work[o].journal
    BY <1>1 DEF Calls
  <1>3. work' = [work EXCEPT ![o] = w]
    BY DEF GoOn
  <1> HIDE DEF w
  <1> QED BY <1>2, <1>3

\* A call under way, with its types and what is known of it.
LEMMA UnderWay ==
  ASSUME VInv, NEW o \in AppOperator, work[o] # AtRest
  PROVE  /\ work[o] \in Calls /\ CallSound(work[o])
         /\ work[o].of \in Binding
         /\ work[o].of.retained \in DesktopPlan /\ work[o].of.active \in DesktopPlan
         /\ work[o].of.grant \in Nat /\ work[o].of.activeGrant \in Nat
  BY DEF VInv, DTypeOK, Calls, Binding

\* Files that stand still stay sound, whatever grants are promised.
LEMMA FilesStand ==
  ASSUME VInv, UNCHANGED <<entry, bundle, tree, marker, cleanups, uninstalled, unrestored>>,
         updates' \subseteq Binding, granted' \in Nat, granted <= granted'
  PROVE  FilesSound'
  <1>1. FilesTypeOK /\ FilesTypeOK'
    BY DEF VInv, DTypeOK, FilesTypeOK
  <1>2. Unresolved' = Unresolved
    BY UnresolvedStays
  <1>3. Recorded'
    <2>1. \A n \in Nat : n <= granted => n <= granted'
      BY <1>1 DEF FilesTypeOK
    <2>2. ASSUME NEW p \in DesktopPlan, marker[p] # NoPlan
          PROVE  Bound(marker[p])' /\ marker'[p].retained = p
      <3>1. marker[p] \in Binding
        BY <1>1, <2>2 DEF FilesTypeOK
      <3>2. marker[p].grant \in Nat /\ marker[p].activeGrant \in Nat
        BY <3>1 DEF Binding
      <3> QED BY <2>1, <2>2, <3>2 DEF VInv, Recorded, Bound
    <2>3. ASSUME NEW j \in DOMAIN cleanups
          PROVE  Bound(cleanups[j].of)'
      <3>1. cleanups[j].of.grant \in Nat /\ cleanups[j].of.activeGrant \in Nat
        BY <1>1, JournalTyped
      <3> QED BY <2>1, <3>1 DEF VInv, Recorded, Bound
    <2>4. \A p \in DesktopPlan : bundle[p] \in Nat => bundle[p] <= granted'
      BY <2>1 DEF VInv, Recorded
    <2> QED BY <2>2, <2>3, <2>4 DEF Recorded
  <1>4. JournalsSound'
    BY <1>2 DEF VInv, JournalsSound, OneUnresolved, JournalSound
  <1>5. ActiveStands'
    BY DEF VInv, ActiveStands, Installed
  <1> QED BY <1>1, <1>3, <1>4, <1>5 DEF FilesSound

\* A call goes on.
LEMMA GoKeeps ==
  ASSUME VInv, OneOperator, NEW o \in AppOperator, work[o] # AtRest, NEW s \in WorkSteps,
         GoOn(o, s), FilesSound',
         \A x \in Calls : /\ x.step = s /\ x.kind = work[o].kind /\ x.of = work[o].of
                         /\ x.tree = work[o].tree /\ x.journal = work[o].journal
                         => CallSound(x)'
  PROVE  VInv'
  <1>1. PICK x \in Calls :
           /\ work' = [work EXCEPT ![o] = x] /\ x.step = s
           /\ x.kind = work[o].kind /\ x.of = work[o].of /\ x.tree = work[o].tree
           /\ x.journal = work[o].journal
    BY GoesOn
  <1>2. CallSound(x)'
    BY <1>1
  <1> QED BY <1>1, <1>2, StepKeeps

\* A call ends.
LEMMA EndKeeps ==
  ASSUME VInv, OneOperator, NEW o \in AppOperator, EndWork(o), FilesSound'
  PROVE  VInv'
  <1>1. PICK w : w = AtRest
    OBVIOUS
  <1>2. CallSound(w)'
    BY <1>1 DEF CallSound, AtRest
  <1>3. work' = [work EXCEPT ![o] = w] /\ w \in Calls \union {AtRest}
    BY <1>1 DEF EndWork
  <1> QED BY <1>2, <1>3, StepKeeps

\* The calls that have a step.
LEMMA KindOfStep ==
  ASSUME NEW w \in Calls, CallSound(w)
  PROVE  /\ w.step = "place" => w.kind \in {"install", "update"}
         /\ w.step = "switch" => w.kind \in {"install", "update", "rollback"}
         /\ w.step \in {"mark", "unmark"} => w.kind = "update"
         /\ w.step = "retire marker" => w.kind \in {"rollback", "cleanup", "complete"}
         /\ w.step \in {"mark back", "unmark back", "remark"} => w.kind = "rollback"
         /\ w.step \in {"record", "restore"} => w.kind \in {"update", "rollback"}
         /\ w.step \in {"journal", "recheck"} => w.kind = "cleanup"
         /\ w.step = "remove bundle" => w.kind \in {"cleanup", "complete", "revoke"}
         /\ w.step = "remove tree" => w.kind \in {"cleanup", "complete"}
         /\ w.step = "observe" => w.kind \in {"complete", "finalize"}
         /\ w.step = "receipt" => w.kind \in {"cleanup", "complete", "finalize"}
         /\ w.step = "cancel" => w.kind = "cancel"
         /\ w.step = "withdraw" => w.kind = "revoke"
         /\ w.step = "discard" => w.kind \in {"install", "update"}
  <1>1. w.kind \in Kinds
    BY DEF Calls
  <1> QED BY <1>1 DEF Kinds, CallSound, InstallSound, UpdateSound, RollbackSound,
       CleanupSound, CompleteSound, RevokeSound

\* Steps from which a call may go on to others with the files it needs in place.
Moves(kind, from, to) ==
  \/ /\ kind = "install" /\ from = "switch" /\ to = "discard"
  \/ /\ kind = "update" /\ from \in {"place", "switch"} /\ to = "discard"
  \/ /\ kind = "update" /\ from \in {"mark", "record", "unmark"}
     /\ to \in {"record", "unmark", "restore"}
  \/ /\ kind = "rollback"
     /\ to \in {"mark back", "record", "unmark back", "remark", "restore"}
  \/ /\ kind \in {"cleanup", "complete"} /\ from \in {"recheck", "retire marker"}
     /\ to \in {"retire marker", "remove bundle"}
  \/ /\ kind \in {"complete", "finalize"} /\ from = "observe" /\ to = "receipt"

LEMMA CallMoves ==
  ASSUME FilesTypeOK, NEW w \in Calls, CallSound(w), NEW x \in Calls,
         x.kind = w.kind, x.of = w.of, x.tree = w.tree, x.journal = w.journal,
         Moves(w.kind, w.step, x.step),
         UNCHANGED <<entry, bundle, tree, cleanups, granted, unrestored>>
  PROVE  CallSound(x)'
  <1>1. Unresolved' = Unresolved /\ w.kind \in Kinds
    BY UnresolvedStays DEF Calls
  <1>2. CASE w.kind = "install"
    <2>1. InstallSound(w) /\ x.step = "discard"
      BY <1>2 DEF CallSound, Moves
    <2>2. InstallSound(x)'
      BY <2>1 DEF InstallSound
    <2> QED BY <1>2, <2>2 DEF CallSound
  <1>3. CASE w.kind = "update"
    <2>1. UpdateSound(w)
      BY <1>3 DEF CallSound
    <2>2. UpdateSound(x)'
      BY <1>1, <1>3, <2>1 DEF UpdateSound, Moves, Bound, Launches, Loads, Installed
    <2> QED BY <1>3, <2>2 DEF CallSound
  <1>4. CASE w.kind = "rollback"
    <2>1. RollbackSound(w)
      BY <1>4 DEF CallSound
    <2>2. RollbackSound(x)'
      BY <1>1, <1>4, <2>1 DEF RollbackSound, Moves, Bound, Loads, Installed
    <2> QED BY <1>4, <2>2 DEF CallSound
  <1>5. CASE w.kind = "cleanup"
    <2>1. CleanupSound(w)
      BY <1>5 DEF CallSound
    <2>2. CleanupSound(x)'
      BY <1>1, <1>5, <2>1
         DEF CleanupSound, Moves, Bound, Journaled, ActiveVerified, Launches, Loads, Installed
    <2> QED BY <1>5, <2>2 DEF CallSound
  <1>6. CASE w.kind = "complete"
    <2>1. CompleteSound(w)
      BY <1>6 DEF CallSound
    <2>2. CompleteSound(x)'
      BY <1>1, <1>6, <2>1
         DEF CompleteSound, Moves, Bound, Journaled, ActiveVerified, Launches, Loads, Installed
    <2> QED BY <1>6, <2>2 DEF CallSound
  <1>7. CASE w.kind = "finalize"
    <2>1. Journaled(w) /\ x.step = "receipt"
      BY <1>7 DEF CallSound, Moves
    <2> QED BY <1>1, <1>7, <2>1 DEF CallSound, Journaled
  <1>8. w.kind \in {"install", "update", "rollback", "cleanup", "complete", "finalize"}
    BY DEF Moves
  <1> QED BY <1>2, <1>3, <1>4, <1>5, <1>6, <1>7, <1>8

(***************************************************************************)
(* Lemmas about files.                                                     *)
(***************************************************************************)

\* A marker is removed, or written while no cleanup is open.
LEMMA MarkerFiles ==
  ASSUME VInv, NEW p \in DesktopPlan, NEW m, marker' = [marker EXCEPT ![p] = m],
         m = NoPlan \/ (m \in Binding /\ Bound(m) /\ m.retained = p /\ Unresolved = {}),
         UNCHANGED <<entry, bundle, tree, cleanups, granted, uninstalled, unrestored>>,
         updates' = updates
  PROVE  FilesSound'
  <1>1. FilesTypeOK
    BY DEF VInv, DTypeOK
  <1>2. FilesTypeOK' /\ \A q \in DesktopPlan : marker'[q] = IF q = p THEN m ELSE marker[q]
    BY <1>1 DEF FilesTypeOK
  <1>3. Unresolved' = Unresolved
    BY UnresolvedStays
  <1>4. Recorded'
    BY <1>2 DEF VInv, Recorded, Bound
  <1>5. JournalsSound'
    <2>1. ASSUME NEW j \in Unresolved PROVE JournalSound(j)'
      <3>1. m = NoPlan /\ cleanups[j].of.retained \in DesktopPlan
        BY <1>1, JournalTyped DEF Unresolved
      <3> QED BY <1>2, <3>1 DEF VInv, JournalsSound, JournalSound
    <2> QED BY <1>3, <2>1 DEF VInv, JournalsSound, OneUnresolved
  <1>6. ActiveStands'
    BY DEF VInv, ActiveStands, Installed
  <1> QED BY <1>2, <1>4, <1>5, <1>6 DEF FilesSound

\* A bundle that is not launched is removed, in whole or in part.
LEMMA BundleFiles ==
  ASSUME VInv, NEW p \in DesktopPlan, NEW v \in {0, Torn},
         bundle' = [bundle EXCEPT ![p] = v],
         v = 0 \/ bundle[p] # 0,
         entry # p \/ (unrestored /\ Unresolved = {}),
         UNCHANGED <<entry, tree, marker, updates, cleanups, granted, uninstalled, unrestored>>
  PROVE  FilesSound'
  <1>1. FilesTypeOK /\ granted \in Nat
    BY DEF VInv, DTypeOK, FilesTypeOK
  <1>2. FilesTypeOK' /\ \A q \in DesktopPlan : bundle'[q] = IF q = p THEN v ELSE bundle[q]
    BY <1>1 DEF FilesTypeOK
  <1>3. Unresolved' = Unresolved
    BY UnresolvedStays
  <1>4. Recorded'
    <2>1. \A q \in DesktopPlan : bundle'[q] \in Nat => bundle'[q] <= granted
      BY <1>1, <1>2, DesktopBounds DEF VInv, Recorded
    <2> QED BY <2>1 DEF VInv, Recorded, Bound
  <1>5. JournalsSound'
    <2>1. ASSUME NEW j \in Unresolved PROVE JournalSound(j)'
      <3>1. /\ cleanups[j].of.retained \in DesktopPlan
            /\ cleanups[j].of.active \in DesktopPlan
        BY <1>1, JournalTyped DEF Unresolved
      <3>2. entry # p /\ JournalSound(j)
        BY DEF VInv, JournalsSound
      <3> QED BY <1>2, <3>1, <3>2 DEF JournalSound
    <2> QED BY <1>3, <2>1 DEF VInv, JournalsSound, OneUnresolved
  <1>6. ActiveStands'
    BY <1>1, <1>2 DEF VInv, ActiveStands, Installed, FilesTypeOK
  <1> QED BY <1>2, <1>4, <1>5, <1>6 DEF FilesSound

\* The launcher is withdrawn, or switched to a version that is there and
\* whose grant is not that of an open journal.
LEMMA EntryFiles ==
  ASSUME VInv, NEW p \in DesktopPlan \union {NoPlan}, entry' = p,
         p # NoPlan => Loads(p),
         p # NoPlan => \A j \in Unresolved : bundle[p] # cleanups[j].of.activeGrant,
         UNCHANGED <<bundle, tree, marker, updates, cleanups, granted, uninstalled, unrestored>>
  PROVE  FilesSound'
  <1>1. FilesTypeOK /\ FilesTypeOK'
    BY DEF VInv, DTypeOK, FilesTypeOK
  <1>2. Unresolved' = Unresolved
    BY UnresolvedStays
  <1>3. Recorded'
    BY DEF VInv, Recorded, Bound
  <1>4. JournalsSound'
    <2>1. ASSUME NEW j \in Unresolved PROVE JournalSound(j)'
      <3>1. cleanups[j].of.active \in DesktopPlan
        BY <1>1, JournalTyped DEF Unresolved
      <3>2. cleanups[j].of.active # NoPlan
        BY <3>1, DesktopBounds
      <3> QED BY <3>2 DEF VInv, JournalsSound, JournalSound
    <2> QED BY <1>2, <2>1 DEF VInv, JournalsSound, OneUnresolved
  <1>5. ActiveStands'
    BY DEF ActiveStands, Loads, Installed
  <1> QED BY <1>1, <1>3, <1>4, <1>5 DEF FilesSound

\* A call begins.
LEMMA BeginKeeps ==
  ASSUME VInv, OneOperator, NEW o \in AppOperator, NEW kind \in Kinds, NEW s \in WorkSteps,
         NEW b \in Binding, NEW t \in BOOLEAN, NEW j \in Nat, Begin(o, kind, s, b, t, j),
         granted' = granted \/ granted' = granted + 1,
         \A x \in Calls : /\ x.kind = kind /\ x.step = s /\ x.of = b
                         /\ x.tree = t /\ x.journal = j
                         => CallSound(x)'
  PROVE  VInv'
  <1>1. PICK x : x = [kind |-> kind, step |-> s, of |-> b, tree |-> t, journal |-> j]
    OBVIOUS
  <1>2. /\ x \in Calls
        /\ x.kind = kind /\ x.step = s /\ x.of = b /\ x.tree = t /\ x.journal = j
    BY <1>1 DEF Calls
  <1>3. CallSound(x)'
    BY <1>2
  <1>4. work' = [work EXCEPT ![o] = x]
    BY <1>1 DEF Begin
  <1>5. FilesSound'
    <2>1. granted' \in Nat /\ granted <= granted'
      BY DEF VInv, DTypeOK, FilesTypeOK
    <2>2. /\ UNCHANGED <<entry, bundle, tree, marker, cleanups, uninstalled, unrestored>>
          /\ updates' \subseteq Binding
      BY DEF Begin, VInv, DTypeOK, FilesTypeOK
    <2> QED BY <2>1, <2>2, FilesStand
  <1> QED BY <1>2, <1>3, <1>4, <1>5, StepKeeps

(***************************************************************************)
(* Commands.                                                               *)
(***************************************************************************)

LEMMA InstallAppKeeps ==
  ASSUME VInv, OneOperator, NEW o \in AppOperator, NEW p \in DesktopPlan, InstallApp(o, p)
  PROVE  VInv'
  <1>0. PICK f \in BOOLEAN : f = FALSE
    OBVIOUS
  <1>1. FilesTypeOK /\ granted \in Nat
    BY DEF VInv, DTypeOK, FilesTypeOK
  <1>2. PICK b : b = [retained |-> p, grant |-> 0, active |-> p, activeGrant |-> granted + 1]
    OBVIOUS
  <1>3. b \in Binding /\ b.active = p /\ b.activeGrant = granted + 1
    BY <1>1, <1>2 DEF Binding
  <1>4. /\ Installed(p) /\ entry = NoPlan /\ granted' = granted + 1
        /\ Begin(o, "install", "place", b, f, 0)
        /\ UNCHANGED <<entry, tree, cleanups>>
    BY <1>0, <1>2 DEF InstallApp, NewGrant, Begin
  <1>5. \A k \in DOMAIN cleanups : cleanups[k].of.activeGrant < granted + 1
    BY <1>1, JournalTyped DEF VInv, Recorded, Bound
  <1>6. ASSUME NEW x \in Calls, x.kind = "install", x.step = "place", x.of = b
        PROVE  CallSound(x)'
    <2>1. InstallSound(x)'
      BY <1>1, <1>3, <1>4, <1>5, <1>6 DEF InstallSound, Installed
    <2> QED BY <1>6, <2>1 DEF CallSound
  <1>7. "install" \in Kinds /\ "place" \in WorkSteps /\ 0 \in Nat
    BY DEF Kinds, WorkSteps
  <1> QED BY <1>3, <1>4, <1>6, <1>7, BeginKeeps

LEMMA UpdateAppKeeps ==
  ASSUME VInv, OneOperator, NEW o \in AppOperator, NEW p \in DesktopPlan, UpdateApp(o, p)
  PROVE  VInv'
  <1>0. PICK f \in BOOLEAN : f = FALSE
    OBVIOUS
  <1>1. FilesTypeOK /\ granted \in Nat
    BY DEF VInv, DTypeOK, FilesTypeOK
  <1>2. PICK b : b = [retained |-> entry, grant |-> bundle[entry],
                      active |-> p, activeGrant |-> granted + 1]
    OBVIOUS
  <1>3. /\ Unresolved = {} /\ entry # NoPlan /\ Launches(entry) /\ Installed(p)
        /\ BuildOf[p] # BuildOf[entry] /\ granted' = granted + 1
        /\ Begin(o, "update", "place", b, f, 0)
        /\ UNCHANGED <<entry, bundle, tree, cleanups>>
    BY <1>0, <1>2 DEF UpdateApp, GateClear, NewGrant, Begin
  <1>4. entry \in DesktopPlan /\ bundle[entry] \in Nat /\ bundle[entry] <= granted
    BY <1>1, <1>3 DEF FilesTypeOK, Launches, Loads, VInv, Recorded
  <1>5. /\ b \in Binding /\ b.retained = entry /\ b.grant = bundle[entry]
        /\ b.active = p /\ b.activeGrant = granted + 1
    BY <1>1, <1>2, <1>4 DEF Binding
  <1>6. ASSUME NEW x \in Calls, x.kind = "update", x.step = "place", x.of = b
        PROVE  CallSound(x)'
    <2>1. Bound(b)'
      BY <1>1, <1>3, <1>4, <1>5 DEF Bound
    <2>2. UpdateSound(x)'
      BY <1>1, <1>3, <1>5, <1>6, <2>1, UnresolvedStays DEF UpdateSound, Installed, Launches, Loads
    <2> QED BY <1>6, <2>2 DEF CallSound
  <1>7. "update" \in Kinds /\ "place" \in WorkSteps /\ 0 \in Nat
    BY DEF Kinds, WorkSteps
  <1> QED BY <1>3, <1>5, <1>6, <1>7, BeginKeeps

LEMMA RollBackAppKeeps ==
  ASSUME VInv, OneOperator, NEW o \in AppOperator, NEW b \in updates, RollBackApp(o, b)
  PROVE  VInv'
  <1>0. PICK f \in BOOLEAN : f = FALSE
    OBVIOUS
  <1>1. FilesTypeOK /\ granted \in Nat /\ b \in Binding
    BY DEF VInv, DTypeOK, FilesTypeOK
  <1>2. /\ Unresolved = {} /\ Proved(b) /\ marker[b.retained] = b
        /\ Begin(o, "rollback", "switch", b, f, 0)
        /\ UNCHANGED <<entry, bundle, tree, cleanups, granted>>
    BY <1>0 DEF RollBackApp, GateClear, Begin
  <1>3. Bound(b)
    BY <1>1, <1>2, NoPlanIsNoBinding DEF VInv, Recorded, Binding
  <1>4. ASSUME NEW x \in Calls, x.kind = "rollback", x.step = "switch", x.of = b
        PROVE  CallSound(x)'
    <2>1. RollbackSound(x)'
      BY <1>2, <1>3, <1>4, UnresolvedStays
         DEF RollbackSound, Bound, Installed, Launches, Loads, Proved
    <2> QED BY <1>4, <2>1 DEF CallSound
  <1>5. "rollback" \in Kinds /\ "switch" \in WorkSteps /\ 0 \in Nat
    BY DEF Kinds, WorkSteps
  <1> QED BY <1>1, <1>2, <1>4, <1>5, BeginKeeps

LEMMA CleanUpKeeps ==
  ASSUME VInv, OneOperator, NEW o \in AppOperator, NEW p \in DesktopPlan,
         NEW t \in BOOLEAN, CleanUp(o, p, t)
  PROVE  VInv'
  <1>1. FilesTypeOK /\ granted \in Nat
    BY DEF VInv, DTypeOK, FilesTypeOK
  <1>2. PICK b : b = marker[p]
    OBVIOUS
  <1>3. /\ Unresolved = {} /\ b # NoPlan /\ Proved(b)
        /\ Begin(o, "cleanup", "journal", b, t, 0)
        /\ UNCHANGED <<entry, bundle, tree, marker, cleanups, granted>>
    BY <1>2 DEF CleanUp, GateClear, Begin
  <1>4. b \in Binding /\ Bound(b) /\ b.retained = p
    BY <1>1, <1>2, <1>3 DEF FilesTypeOK, VInv, Recorded
  <1>5. ASSUME NEW x \in Calls, x.kind = "cleanup", x.step = "journal", x.of = b
        PROVE  CallSound(x)'
    <2>1. CleanupSound(x)'
      BY <1>2, <1>3, <1>4, <1>5, UnresolvedStays
         DEF CleanupSound, Bound, Installed, Launches, Loads, Proved, ActiveVerified
    <2> QED BY <1>5, <2>1 DEF CallSound
  <1>6. "cleanup" \in Kinds /\ "journal" \in WorkSteps /\ 0 \in Nat
    BY DEF Kinds, WorkSteps
  <1> QED BY <1>3, <1>4, <1>5, <1>6, BeginKeeps

\* What a reconciliation observed when it allows an action.
LEMMA AllowedSound ==
  ASSUME NEW j, NEW action \in Allowed(j)
  PROVE  j \in Unresolved /\ ActiveVerified(cleanups[j].of)
         /\ action \in {"cancel", "complete", "finalize"}
  <1>1. Classification(j) # "invalid" /\ action \in {"cancel", "complete", "finalize"}
    BY DEF Allowed
  <1>2. \/ ~ActiveVerified(cleanups[j].of) \/ j \notin Unresolved
        => Classification(j) = "invalid"
    BY DEF Classification
  <1> QED BY <1>1, <1>2

LEMMA ReconcileKeeps ==
  ASSUME VInv, OneOperator, NEW o \in AppOperator, NEW j \in DOMAIN cleanups,
         NEW action \in {"cancel", "complete", "finalize"}, Reconcile(o, j, action)
  PROVE  VInv'
  <1>1. FilesTypeOK /\ granted \in Nat
    BY DEF VInv, DTypeOK, FilesTypeOK
  <1>2. cleanups[j] \in Journal /\ cleanups[j].of \in Binding /\ j \in Nat
    BY <1>1, JournalTyped DEF FilesTypeOK
  <1>3. PICK b \in Binding, t \in BOOLEAN : b = cleanups[j].of /\ t = cleanups[j].tree
    BY <1>2 DEF Journal
  <1>4. PICK s : s = CASE action = "cancel" -> "cancel"
                       [] action = "complete" -> "retire marker"
                       [] OTHER -> "observe"
    OBVIOUS
  <1>5. /\ s \in {"cancel", "retire marker", "observe"}
        /\ action = "cancel" => s = "cancel"
        /\ action = "complete" => s = "retire marker"
        /\ action = "finalize" => s = "observe"
    BY <1>4
  <1>6. /\ action \in Allowed(j) /\ Begin(o, action, s, b, t, j)
        /\ UNCHANGED <<entry, bundle, tree, cleanups, granted>>
    BY <1>3, <1>4 DEF Reconcile, Begin
  <1>7. j \in Unresolved /\ ActiveVerified(b) /\ Bound(b)
    BY <1>3, <1>6, AllowedSound DEF VInv, Recorded
  <1>8. ASSUME NEW x \in Calls, x.kind = action, x.step = s, x.of = b, x.tree = t,
               x.journal = j
        PROVE  CallSound(x)'
    <2>1. Journaled(x)'
      BY <1>3, <1>6, <1>7, <1>8, UnresolvedStays DEF Journaled
    <2>2. ActiveVerified(x.of)' /\ Bound(x.of)'
      BY <1>6, <1>7, <1>8 DEF ActiveVerified, Bound, Launches, Loads, Installed
    <2> QED BY <1>5, <1>8, <2>1, <2>2 DEF CallSound, CompleteSound
  <1>9. action \in Kinds /\ s \in WorkSteps
    BY <1>5 DEF Kinds, WorkSteps
  <1> QED BY <1>2, <1>6, <1>8, <1>9, BeginKeeps

LEMMA RevokeAppKeeps ==
  ASSUME VInv, OneOperator, NEW o \in AppOperator, RevokeApp(o)
  PROVE  VInv'
  <1>0. PICK f \in BOOLEAN : f = FALSE
    OBVIOUS
  <1>1. PICK b : b = [retained |-> entry, grant |-> 0, active |-> entry, activeGrant |-> 0]
    OBVIOUS
  <1>2. entry # NoPlan /\ UNCHANGED granted /\ Begin(o, "revoke", "withdraw", b, f, 0)
    BY <1>0, <1>1 DEF RevokeApp
  <1>3. b \in Binding
    BY <1>1, <1>2 DEF Binding, VInv, DTypeOK, FilesTypeOK
  <1>4. ASSUME NEW x \in Calls, x.kind = "revoke", x.step = "withdraw"
        PROVE  CallSound(x)'
    BY <1>4 DEF CallSound, RevokeSound
  <1>5. "revoke" \in Kinds /\ "withdraw" \in WorkSteps /\ 0 \in Nat
    BY DEF Kinds, WorkSteps
  <1> QED BY <1>2, <1>3, <1>4, <1>5, BeginKeeps

(***************************************************************************)
(* Steps.                                                                      *)
(***************************************************************************)

\* A fresh grant is in no journal, and its bundle is not the launched one.
LEMMA PlaceKeeps ==
  ASSUME VInv, OneOperator, NEW o \in AppOperator, Place(o)
  PROVE  VInv'
  <1>1. PICK w \in Calls : w = work[o] /\ CallSound(w) /\ w.step = "place"
    BY UnderWay DEF Place, AtWork
  <1>2. PICK b \in Binding : b = w.of
    BY <1>1 DEF Calls
  <1>3. /\ work[o] # AtRest /\ bundle[b.active] = 0
        /\ bundle' = [bundle EXCEPT ![b.active] = b.activeGrant] /\ GoOn(o, "switch")
        /\ UNCHANGED <<entry, tree, marker, updates, cleanups, granted, uninstalled, unrestored>>
    BY <1>1, <1>2 DEF Place, AtWork, Same
  <1>4. /\ FilesTypeOK /\ granted \in Nat /\ b.active \in DesktopPlan
        /\ b.retained \in DesktopPlan /\ b.activeGrant \in Nat
    BY DEF VInv, DTypeOK, FilesTypeOK, Binding
  <1>5. /\ FilesTypeOK'
        /\ \A q \in DesktopPlan : bundle'[q] = IF q = b.active THEN b.activeGrant ELSE bundle[q]
    BY <1>3, <1>4 DEF FilesTypeOK
  <1>6. /\ w.kind \in {"install", "update"}
        /\ w.kind = "install" => InstallSound(w)
        /\ w.kind = "update" => UpdateSound(w)
        /\ Unresolved' = Unresolved
    <2>1. w.kind \in {"install", "update"}
      BY <1>1, KindOfStep
    <2>2. Unresolved' = Unresolved
      BY <1>3, UnresolvedStays
    <2> QED BY <1>1, <2>1, <2>2 DEF CallSound
  <1>7. entry # b.active /\ b.activeGrant <= granted /\ (entry = NoPlan \/ Unresolved = {})
    BY <1>1, <1>2, <1>4, <1>6, DesktopBounds DEF InstallSound, UpdateSound, Bound
  <1>8. Recorded'
    <2>1. \A q \in DesktopPlan : bundle'[q] \in Nat => bundle'[q] <= granted
      BY <1>5, <1>7 DEF VInv, Recorded
    <2> QED BY <1>3, <2>1 DEF VInv, Recorded, Bound
  <1>9. JournalsSound'
    <2>1. ASSUME NEW j \in Unresolved PROVE JournalSound(j)'
      <3>1. cleanups[j].of.active \in DesktopPlan
        BY <1>4, JournalTyped DEF Unresolved
      <3>2. entry = NoPlan /\ cleanups[j].of.active # NoPlan
        BY <1>7, <3>1, DesktopBounds
      <3> QED BY <1>3, <3>2 DEF VInv, JournalsSound, JournalSound
    <2> QED BY <1>3, <1>6, <2>1 DEF VInv, JournalsSound, OneUnresolved
  <1>10. ActiveStands'
    BY <1>3, <1>4, <1>5, <1>7 DEF VInv, ActiveStands, Installed, FilesTypeOK
  <1>11. FilesSound'
    BY <1>5, <1>8, <1>9, <1>10 DEF FilesSound
  <1>12. ASSUME NEW x \in Calls, x.step = "switch", x.kind = w.kind, x.of = b
         PROVE  CallSound(x)'
    <2>1. CASE w.kind = "install"
      <3>1. InstallSound(x)'
        BY <1>1, <1>2, <1>3, <1>4, <1>5, <1>6, <1>12, <2>1 DEF InstallSound, Installed
      <3> QED BY <1>12, <2>1, <3>1 DEF CallSound
    <2>2. CASE w.kind = "update"
      <3>1. UpdateSound(x)'
        BY <1>1, <1>2, <1>3, <1>4, <1>5, <1>6, <1>7, <1>12, <2>2
           DEF UpdateSound, Bound, Loads, Installed
      <3> QED BY <1>12, <2>2, <3>1 DEF CallSound
    <2> QED BY <1>6, <2>1, <2>2
  <1>13. "switch" \in WorkSteps
    BY DEF WorkSteps
  <1> QED BY <1>1, <1>2, <1>3, <1>11, <1>12, <1>13, GoKeeps

LEMMA SwitchEntryKeeps ==
  ASSUME VInv, OneOperator, NEW o \in AppOperator, SwitchEntry(o)
  PROVE  VInv'
  <1>1. PICK w \in Calls : w = work[o] /\ CallSound(w) /\ w.step = "switch"
    BY UnderWay DEF SwitchEntry, AtWork
  <1>2. PICK b \in Binding : b = w.of
    BY <1>1 DEF Calls
  <1>3. /\ work[o] # AtRest
        /\ entry' = IF w.kind = "rollback" THEN b.retained ELSE b.active
        /\ w.kind = "install" => EndWork(o)
        /\ w.kind = "update" => GoOn(o, "mark")
        /\ w.kind = "rollback" => GoOn(o, "retire marker")
        /\ UNCHANGED <<bundle, tree, marker, updates, cleanups, granted, uninstalled, unrestored>>
    BY <1>1, <1>2 DEF SwitchEntry, AtWork, Same
  <1>4. /\ FilesTypeOK /\ granted \in Nat /\ b.active \in DesktopPlan
        /\ b.retained \in DesktopPlan /\ b.activeGrant \in Nat
    BY DEF VInv, DTypeOK, FilesTypeOK, Binding
  <1>5. w.kind \in {"install", "update", "rollback"} /\ Unresolved' = Unresolved
    BY <1>1, <1>3, KindOfStep, UnresolvedStays
  <1>6. CASE w.kind = "install"
    <2>1. InstallSound(w)
      BY <1>1, <1>6 DEF CallSound
    <2>2. \A j \in Unresolved : bundle[b.active] # cleanups[j].of.activeGrant
      <3>1. \A j \in Unresolved : cleanups[j].of.activeGrant \in Nat /\ j \in DOMAIN cleanups
        BY <1>4, JournalTyped DEF Unresolved
      <3> QED BY <1>1, <1>2, <1>4, <2>1, <3>1 DEF InstallSound
    <2>3. Loads(b.active) /\ entry' = b.active
      BY <1>1, <1>2, <1>3, <1>4, <1>6, <2>1 DEF InstallSound, Loads
    <2>4. FilesSound'
      BY <1>3, <1>4, <2>2, <2>3, EntryFiles
    <2> QED BY <1>3, <1>6, <2>4, EndKeeps
  <1>7. CASE w.kind = "update"
    <2>1. UpdateSound(w)
      BY <1>1, <1>7 DEF CallSound
    <2>2. Unresolved = {} /\ Loads(b.active) /\ Loads(b.retained) /\ entry' = b.active
      BY <1>1, <1>2, <1>3, <1>4, <1>7, <2>1 DEF UpdateSound, Loads
    <2>3. FilesSound'
      BY <1>3, <1>4, <2>2, EntryFiles
    <2>4. ASSUME NEW x \in Calls, x.step = "mark", x.kind = "update", x.of = b
          PROVE  CallSound(x)'
      <3>1. UpdateSound(x)'
        BY <1>2, <1>3, <1>5, <2>1, <2>2, <2>4 DEF UpdateSound, Bound, Loads, Launches, Installed
      <3> QED BY <2>4, <3>1 DEF CallSound
    <2>5. "mark" \in WorkSteps
      BY DEF WorkSteps
    <2> QED BY <1>1, <1>2, <1>3, <1>7, <2>3, <2>4, <2>5, GoKeeps
  <1>8. CASE w.kind = "rollback"
    <2>1. RollbackSound(w)
      BY <1>1, <1>8 DEF CallSound
    <2>2. Unresolved = {} /\ Loads(b.retained) /\ entry' = b.retained
      BY <1>2, <1>3, <1>8, <2>1 DEF RollbackSound
    <2>3. FilesSound'
      BY <1>3, <1>4, <2>2, EntryFiles
    <2>4. ASSUME NEW x \in Calls, x.step = "retire marker", x.kind = "rollback", x.of = b
          PROVE  CallSound(x)'
      <3>1. RollbackSound(x)'
        BY <1>2, <1>3, <1>5, <2>1, <2>4 DEF RollbackSound, Bound, Loads, Installed
      <3> QED BY <2>4, <3>1 DEF CallSound
    <2>5. PICK s \in WorkSteps : s = "retire marker"
      BY DEF WorkSteps
    <2>6. /\ GoOn(o, s) /\ work[o] # AtRest /\ work[o].kind = "rollback" /\ work[o].of = b
      BY <1>1, <1>2, <1>3, <1>8, <2>5
    <2>7. \A x \in Calls : /\ x.step = s /\ x.kind = work[o].kind /\ x.of = work[o].of
                         => CallSound(x)'
      BY <2>4, <2>5, <2>6
    <2> QED BY <2>3, <2>6, <2>7, GoKeeps
  <1> QED BY <1>5, <1>6, <1>7, <1>8

\* A step that touches markers and update receipts only.
LEMMA MoveKeeps ==
  ASSUME VInv, OneOperator, NEW o \in AppOperator, work[o] # AtRest, NEW s \in WorkSteps,
         GoOn(o, s), Moves(work[o].kind, work[o].step, s), FilesSound',
         UNCHANGED <<entry, bundle, tree, cleanups, granted, unrestored>>
  PROVE  VInv'
  <1>1. PICK w \in Calls : w = work[o] /\ CallSound(w)
    BY UnderWay
  <1>2. FilesTypeOK
    BY DEF VInv, DTypeOK
  <1>3. ASSUME NEW x \in Calls, x.step = s, x.kind = work[o].kind, x.of = work[o].of,
               x.tree = work[o].tree, x.journal = work[o].journal
        PROVE  CallSound(x)'
    BY <1>1, <1>2, <1>3, CallMoves
  <1> QED BY <1>3, GoKeeps

\* The file an update or a rollback writes or removes beside the launcher.
LEMMA MarksKeep ==
  ASSUME VInv, OneOperator, NEW o \in AppOperator,
         \/ MarkRetained(o) \/ MarkBack(o) \/ Unmark(o) \/ UnmarkBack(o) \/ Remark(o)
  PROVE  VInv'
  <1>1. PICK w \in Calls : /\ w = work[o] /\ CallSound(w) /\ work[o] # AtRest
                          /\ w.step \in {"mark", "mark back", "unmark", "unmark back", "remark"}
    BY UnderWay DEF MarkRetained, MarkBack, Unmark, UnmarkBack, Remark, AtWork
  <1>2. PICK b \in Binding : b = w.of
    BY <1>1 DEF Calls
  <1>3. /\ b.active \in DesktopPlan /\ b.retained \in DesktopPlan
        /\ b.grant \in Nat /\ b.activeGrant \in Nat
    BY DEF Binding
  <1>4. /\ w.kind \in {"update", "rollback"}
        /\ w.step \in {"mark", "unmark"} => w.kind = "update"
        /\ w.step \in {"mark back", "unmark back", "remark"} => w.kind = "rollback"
    BY <1>1, KindOfStep
  <1>5. Unresolved = {} /\ Bound(b)
    BY <1>1, <1>2, <1>4 DEF CallSound, UpdateSound, RollbackSound
  <1>6. Reversed(b) \in Binding /\ Bound(Reversed(b)) /\ Reversed(b).retained = b.active
    BY <1>3, <1>5 DEF Reversed, Binding, Bound
  <1>7. PICK s \in WorkSteps : s = CASE w.step = "mark" -> "record"
                                [] w.step = "mark back" -> "record"
                                [] w.step = "unmark" -> "restore"
                                [] w.step = "unmark back" -> "remark"
                                [] w.step = "remark" -> "restore"
    BY <1>1 DEF WorkSteps
  <1>8. Moves(w.kind, w.step, s)
    BY <1>1, <1>4, <1>7 DEF Moves
  <1>9. /\ UNCHANGED <<entry, bundle, tree, cleanups, granted, unrestored>>
        /\ updates' = updates /\ uninstalled' = uninstalled
    BY DEF MarkRetained, MarkBack, Unmark, UnmarkBack, Remark, Same
  <1>10. PICK p \in DesktopPlan, m \in Binding \union {NoPlan} :
           /\ marker' = marker \/ marker' = [marker EXCEPT ![p] = m]
           /\ m = NoPlan \/ (Bound(m) /\ m.retained = p)
           /\ GoOn(o, s)
    <2>1. CASE w.step = "mark"
      BY <1>1, <1>2, <1>3, <1>5, <1>7, <2>1 DEF MarkRetained, MarkBack, Unmark, UnmarkBack, Remark, AtWork
    <2>2. CASE w.step = "mark back"
      BY <1>1, <1>2, <1>3, <1>6, <1>7, <2>2 DEF MarkRetained, MarkBack, Unmark, UnmarkBack, Remark, AtWork
    <2>3. CASE w.step \in {"unmark", "unmark back"}
      BY <1>1, <1>2, <1>3, <1>7, <2>3 DEF MarkRetained, MarkBack, Unmark, UnmarkBack, Remark, AtWork
    <2>4. CASE w.step = "remark"
      BY <1>1, <1>2, <1>3, <1>5, <1>7, <2>4 DEF MarkRetained, MarkBack, Unmark, UnmarkBack, Remark, AtWork
    <2> QED BY <1>1, <2>1, <2>2, <2>3, <2>4
  <1>11. FilesSound'
    <2>1. CASE marker' = marker
      <3>1. granted' \in Nat /\ granted <= granted' /\ updates' \subseteq Binding
        BY <1>9 DEF VInv, DTypeOK, FilesTypeOK
      <3> QED BY <1>9, <2>1, <3>1, FilesStand
    <2>2. CASE marker' = [marker EXCEPT ![p] = m]
      BY <1>5, <1>9, <1>10, <2>2, MarkerFiles
    <2> QED BY <1>10, <2>1, <2>2
  <1> QED BY <1>1, <1>8, <1>9, <1>10, <1>11, MoveKeeps

LEMMA RetireMarkerKeeps ==
  ASSUME VInv, OneOperator, NEW o \in AppOperator, RetireMarker(o)
  PROVE  VInv'
  <1>1. PICK w \in Calls : /\ w = work[o] /\ CallSound(w) /\ work[o] # AtRest
                          /\ w.step = "retire marker"
    BY UnderWay DEF RetireMarker, AtWork
  <1>2. PICK p \in DesktopPlan : p = w.of.retained
    BY <1>1, UnderWay
  <1>3. w.kind \in {"rollback", "cleanup", "complete"}
    BY <1>1, KindOfStep
  <1>4. PICK s \in WorkSteps : s = IF w.kind = "rollback" THEN "mark back" ELSE "remove bundle"
    BY DEF WorkSteps
  <1>5. Moves(w.kind, w.step, s)
    BY <1>1, <1>3, <1>4 DEF Moves
  <1>6. PICK m : m = NoPlan
    OBVIOUS
  <1>7. /\ marker' = [marker EXCEPT ![p] = m] /\ GoOn(o, s)
        /\ UNCHANGED <<entry, bundle, tree, cleanups, granted, uninstalled, unrestored>>
        /\ updates' = updates
    BY <1>1, <1>2, <1>4, <1>6 DEF RetireMarker, Same
  <1>8. FilesSound'
    BY <1>6, <1>7, MarkerFiles
  <1> QED BY <1>1, <1>5, <1>7, <1>8, MoveKeeps

LEMMA RecordSwitchKeeps ==
  ASSUME VInv, OneOperator, NEW o \in AppOperator, RecordSwitch(o)
  PROVE  VInv'
  <1>1. work[o].of \in Binding
    BY UnderWay DEF RecordSwitch, AtWork
  <1>2. /\ updates' \subseteq Binding /\ granted' \in Nat /\ granted <= granted'
        /\ UNCHANGED <<entry, bundle, tree, marker, cleanups, uninstalled, unrestored>>
        /\ EndWork(o)
    BY <1>1 DEF RecordSwitch, Same, VInv, DTypeOK, FilesTypeOK
  <1>3. FilesSound'
    BY <1>2, FilesStand
  <1> QED BY <1>2, <1>3, EndKeeps

\* WorkSteps that read, and a step that raises.
LEMMA ReadsKeep ==
  ASSUME VInv, OneOperator, NEW o \in AppOperator,
         RecheckCleanup(o) \/ ObserveAgain(o) \/ Raise(o) \/ KillApp(o)
  PROVE  VInv'
  <1>1. PICK w \in Calls : w = work[o] /\ CallSound(w) /\ work[o] # AtRest
    BY UnderWay DEF RecheckCleanup, ObserveAgain, Raise, KillApp, AtWork
  <1>2. UNCHANGED <<entry, bundle, tree, marker, updates, cleanups, granted, uninstalled, unrestored>>
    BY DEF RecheckCleanup, ObserveAgain, Raise, KillApp, Same
  <1>3. FilesSound'
    <2>1. updates' \subseteq Binding /\ granted' \in Nat /\ granted <= granted'
      BY <1>2 DEF VInv, DTypeOK, FilesTypeOK
    <2> QED BY <1>2, <2>1, FilesStand
  <1>4. CASE EndWork(o)
    BY <1>3, <1>4, EndKeeps
  <1>5. ASSUME NEW s \in WorkSteps, GoOn(o, s), Moves(w.kind, w.step, s)
        PROVE  VInv'
    BY <1>1, <1>2, <1>3, <1>5, MoveKeeps
  <1>6. CASE RecheckCleanup(o)
    <2>1. PICK s \in WorkSteps : s = "retire marker"
      BY DEF WorkSteps
    <2>2. GoOn(o, s) /\ w.step = "recheck" /\ w.kind = "cleanup"
      BY <1>1, <1>6, <2>1, KindOfStep DEF RecheckCleanup, AtWork
    <2>3. Moves(w.kind, w.step, s)
      BY <2>1, <2>2 DEF Moves
    <2> QED BY <1>5, <2>2, <2>3
  <1>7. CASE ObserveAgain(o)
    <2>1. PICK s \in WorkSteps : s = "receipt"
      BY DEF WorkSteps
    <2>2. GoOn(o, s) /\ w.step = "observe" /\ w.kind \in {"complete", "finalize"}
      BY <1>1, <1>7, <2>1, KindOfStep DEF ObserveAgain, AtWork
    <2>3. Moves(w.kind, w.step, s)
      BY <2>1, <2>2 DEF Moves
    <2> QED BY <1>5, <2>2, <2>3
  <1>8. CASE Raise(o)
    <2>1. PICK s : s = HandlerOf(w.kind, w.step)
      OBVIOUS
    <2>2. IF s = "raised" THEN EndWork(o) ELSE GoOn(o, s)
      BY <1>1, <1>8, <2>1 DEF Raise
    <2>3. s # "raised" => s \in WorkSteps /\ Moves(w.kind, w.step, s)
      <3>1. w.step = "place" => w.kind \in {"install", "update"}
        BY <1>1, KindOfStep
      <3> QED BY <2>1, <3>1 DEF HandlerOf, Moves, WorkSteps
    <2> QED BY <1>4, <1>5, <2>2, <2>3
  <1>9. CASE KillApp(o)
    BY <1>4, <1>9 DEF KillApp
  <1> QED BY <1>6, <1>7, <1>8, <1>9

LEMMA WriteCleanupJournalKeeps ==
  ASSUME VInv, OneOperator, NEW o \in AppOperator, WriteCleanupJournal(o)
  PROVE  VInv'
  <1>1. PICK w \in Calls : /\ w = work[o] /\ CallSound(w) /\ work[o] # AtRest
                          /\ w.step = "journal"
    BY UnderWay DEF WriteCleanupJournal, AtWork
  <1>2. PICK b \in Binding : b = w.of
    BY <1>1 DEF Calls
  <1>3. w.kind = "cleanup" /\ CleanupSound(w)
    BY <1>1, KindOfStep DEF CallSound
  <1>4. /\ Unresolved = {} /\ marker[b.retained] = b /\ Bound(b) /\ ActiveVerified(b)
        /\ Loads(b.retained) /\ bundle[b.retained] = b.grant
    BY <1>1, <1>2, <1>3 DEF CleanupSound
  <1>5. PICK row : row = [of |-> b, tree |-> w.tree, cleaned |-> 0, cancelled |-> 0]
    OBVIOUS
  <1>6. /\ row \in Journal /\ row.of = b /\ row.tree = w.tree
        /\ row.cleaned = 0 /\ row.cancelled = 0
    BY <1>5 DEF Calls, Journal
  <1>7. /\ cleanups' = Append(cleanups, row)
        /\ UNCHANGED <<entry, bundle, tree, marker, updates, granted, uninstalled, unrestored>>
    BY <1>1, <1>2, <1>5 DEF WriteCleanupJournal, Same
  <1>8. FilesTypeOK
    BY DEF VInv, DTypeOK
  <1>9. PICK n \in Nat :
          /\ n = Len(cleanups)
          /\ DOMAIN cleanups = 1..n /\ DOMAIN cleanups' = 1..(n + 1)
          /\ \A j \in 1..n : cleanups'[j] = cleanups[j]
          /\ cleanups'[n + 1] = row /\ cleanups' \in Seq(Journal)
    <2>1. cleanups \in Seq(Journal) /\ cleanups' = Append(cleanups, row)
      BY <1>7, <1>8 DEF FilesTypeOK
    <2>2. PICK n \in Nat : n = Len(cleanups)
      BY <2>1
    <2> QED BY <1>6, <2>1, <2>2
  <1>10. \A j \in Unresolved' : j = n + 1
    BY <1>4, <1>9 DEF Unresolved
  <1>11. n + 1 \in Unresolved'
    BY <1>6, <1>9 DEF Unresolved
  <1>12. FilesTypeOK'
    BY <1>7, <1>8, <1>9 DEF FilesTypeOK
  <1>13. Recorded'
    <2>1. \A j \in DOMAIN cleanups' : Bound(cleanups'[j].of)
      BY <1>4, <1>6, <1>9 DEF VInv, Recorded
    <2> QED BY <1>7, <2>1 DEF VInv, Recorded, Bound
  <1>14. JournalsSound'
    <2>1. JournalSound(n + 1)'
      <3>1. tree[BuildOf[b.retained]] # "absent" /\ marker' = marker /\ bundle' = bundle
        BY <1>4, <1>7 DEF Loads, Installed
      <3> QED BY <1>4, <1>6, <1>7, <1>9, <3>1 DEF JournalSound
    <2>2. n' = n
      OBVIOUS
    <2> QED BY <1>10, <2>1 DEF JournalsSound, OneUnresolved
  <1>15. ActiveStands'
    BY <1>7 DEF VInv, ActiveStands, Installed
  <1>16. FilesSound'
    BY <1>12, <1>13, <1>14, <1>15 DEF FilesSound
  <1>17. PICK s \in WorkSteps : s = "recheck"
    BY DEF WorkSteps
  <1>18. PICK x \in Calls :
           /\ work' = [work EXCEPT ![o] = x] /\ x.step = s /\ x.journal = n + 1
           /\ x.kind = w.kind /\ x.of = w.of /\ x.tree = w.tree
    <2> DEFINE y == [work[o] EXCEPT !.step = s, !.journal = n + 1]
    <2>1. work[o] \in Calls
      BY <1>1
    <2>2. /\ y \in Calls /\ y.step = s /\ y.kind = work[o].kind /\ y.of = work[o].of
          /\ y.tree = work[o].tree /\ y.journal = n + 1
      <3>1. PICK v \in Calls : v = work[o]
        BY <2>1
      <3>2. PICK k \in Nat : k = n + 1
        OBVIOUS
      <3>3. PICK z : z = [v EXCEPT !.step = s, !.journal = k]
        OBVIOUS
      <3>4. z \in Calls
        BY <3>3 DEF Calls
      <3>5. z.step = s /\ z.kind = v.kind /\ z.of = v.of /\ z.tree = v.tree /\ z.journal = k
        BY <3>3 DEF Calls
      <3> QED BY <3>1, <3>2, <3>3, <3>4, <3>5
    <2>3. work' = [work EXCEPT ![o] = y]
      BY <1>9, <1>17 DEF WriteCleanupJournal
    <2> HIDE DEF y
    <2> QED BY <1>1, <2>2, <2>3
  <1>19. CallSound(x)'
    <2>1. Journaled(x)'
      BY <1>2, <1>6, <1>9, <1>11, <1>18 DEF Journaled
    <2>2. CleanupSound(x)'
      BY <1>2, <1>4, <1>7, <1>17, <1>18, <2>1
         DEF CleanupSound, Bound, ActiveVerified, Launches, Loads, Installed
    <2> QED BY <1>3, <1>18, <2>2 DEF CallSound
  <1> QED BY <1>16, <1>18, <1>19, StepKeeps

\* The receipt that closes a journal.
LEMMA ClosesKeep ==
  ASSUME VInv, OneOperator, NEW o \in AppOperator,
         WriteCleanupReceipt(o) \/ WriteCancellation(o)
  PROVE  VInv'
  <1>1. PICK w \in Calls : /\ w = work[o] /\ CallSound(w) /\ work[o] # AtRest
                          /\ w.step \in {"receipt", "cancel"}
    BY UnderWay DEF WriteCleanupReceipt, WriteCancellation, AtWork
  <1>2. w.kind \in {"cleanup", "complete", "finalize", "cancel"}
    BY <1>1, KindOfStep
  <1>3. Journaled(w)
    BY <1>1, <1>2 DEF CallSound, CleanupSound, CompleteSound
  <1>4. PICK j \in DOMAIN cleanups : j = w.journal
    BY <1>3 DEF Journaled, Unresolved
  <1>5. /\ FilesTypeOK /\ cleanups \in Seq(Journal) /\ cleanups[j] \in Journal
        /\ cleanups[j].cleaned \in Nat /\ cleanups[j].cancelled \in Nat
    BY JournalTyped DEF VInv, DTypeOK, FilesTypeOK, Journal
  <1>6. PICK row \in Journal :
          /\ cleanups' = [cleanups EXCEPT ![j] = row]
          /\ row.of = cleanups[j].of /\ row.tree = cleanups[j].tree
          /\ row.cleaned # 0 \/ row.cancelled # 0
    <2>1. CASE w.step = "receipt"
      <3> DEFINE row == [cleanups[j] EXCEPT !.cleaned = @ + 1]
      <3>1. cleanups[j] \in Journal
        BY <1>5
      <3>2. /\ row \in Journal /\ row.of = cleanups[j].of /\ row.tree = cleanups[j].tree
            /\ row.cleaned # 0
        BY <3>1 DEF Journal
      <3>3. cleanups' = [cleanups EXCEPT ![j] = row]
        BY <1>1, <1>4, <2>1 DEF WriteCleanupReceipt, WriteCancellation, AtWork
      <3> HIDE DEF row
      <3> QED BY <3>2, <3>3
    <2>2. CASE w.step = "cancel"
      <3> DEFINE row == [cleanups[j] EXCEPT !.cancelled = @ + 1]
      <3>1. cleanups[j] \in Journal
        BY <1>5
      <3>2. /\ row \in Journal /\ row.of = cleanups[j].of /\ row.tree = cleanups[j].tree
            /\ row.cancelled # 0
        BY <3>1 DEF Journal
      <3>3. cleanups' = [cleanups EXCEPT ![j] = row]
        BY <1>1, <1>4, <2>2 DEF WriteCleanupReceipt, WriteCancellation, AtWork
      <3> HIDE DEF row
      <3> QED BY <3>2, <3>3
    <2> QED BY <1>1, <2>1, <2>2
  <1>7. /\ UNCHANGED <<entry, bundle, tree, marker, updates, granted, uninstalled, unrestored>>
        /\ EndWork(o)
    BY DEF WriteCleanupReceipt, WriteCancellation, Same
  <1>8. /\ cleanups' \in Seq(Journal) /\ DOMAIN cleanups' = DOMAIN cleanups
        /\ \A i \in DOMAIN cleanups : cleanups'[i] = IF i = j THEN row ELSE cleanups[i]
    BY <1>5, <1>6
  <1>9. /\ \A i \in DOMAIN cleanups : /\ cleanups'[i].of = cleanups[i].of
                                       /\ cleanups'[i].tree = cleanups[i].tree
        /\ Unresolved' \subseteq Unresolved
        /\ Unresolved \subseteq DOMAIN cleanups
    BY <1>6, <1>8 DEF Unresolved
  <1>10. FilesTypeOK'
    BY <1>5, <1>7, <1>8 DEF FilesTypeOK
  <1>11. Recorded'
    <2>1. \A i \in DOMAIN cleanups' : Bound(cleanups'[i].of)
      BY <1>8, <1>9 DEF VInv, Recorded
    <2> QED BY <1>7, <2>1 DEF VInv, Recorded, Bound
  <1>12. JournalsSound'
    <2>1. ASSUME NEW i \in Unresolved PROVE JournalSound(i)'
      BY <1>7, <1>9 DEF VInv, JournalsSound, JournalSound
    <2> QED BY <1>9, <2>1 DEF VInv, JournalsSound, OneUnresolved
  <1>13. ActiveStands'
    BY <1>7 DEF VInv, ActiveStands, Installed
  <1>14. FilesSound'
    BY <1>10, <1>11, <1>12, <1>13 DEF FilesSound
  <1> QED BY <1>7, <1>14, EndKeeps

\* The bundle of a cleanup is not the launched one, whatever the step.
LEMMA CleanupAside ==
  ASSUME VInv, NEW w \in Calls, CallSound(w), w.kind \in {"cleanup", "complete"}
  PROVE  /\ Bound(w.of) /\ ActiveVerified(w.of)
         /\ entry = w.of.active /\ w.of.retained # entry
         /\ BuildOf[w.of.retained] # BuildOf[entry]
  <1>1. Bound(w.of) /\ ActiveVerified(w.of)
    BY DEF CallSound, CleanupSound, CompleteSound
  <1> QED BY <1>1 DEF Bound, ActiveVerified, Launches

LEMMA RemoveBundleKeeps ==
  ASSUME VInv, OneOperator, NEW o \in AppOperator, RemoveBundle(o)
  PROVE  VInv'
  <1>1. PICK w \in Calls : /\ w = work[o] /\ CallSound(w) /\ work[o] # AtRest
                          /\ w.step = "remove bundle"
    BY UnderWay DEF RemoveBundle, AtWork
  <1>2. PICK b \in Binding : b = w.of
    BY <1>1 DEF Calls
  <1>3. b.retained \in DesktopPlan /\ b.active \in DesktopPlan
    BY DEF Binding
  <1>4. w.kind \in {"cleanup", "complete", "revoke"}
    BY <1>1, KindOfStep
  <1>5. PICK s \in WorkSteps : s = IF w.tree THEN "remove tree"
                              ELSE IF w.kind = "complete" THEN "observe" ELSE "receipt"
    BY DEF WorkSteps
  <1>6. PICK v \in {0, Torn} : v = 0
    OBVIOUS
  <1>7. /\ bundle' = [bundle EXCEPT ![b.retained] = v]
        /\ UNCHANGED <<entry, tree, marker, updates, cleanups, granted, uninstalled, unrestored>>
        /\ IF w.kind = "revoke" THEN EndWork(o) ELSE GoOn(o, s)
    BY <1>1, <1>2, <1>5, <1>6 DEF RemoveBundle, Same
  <1>8. entry # b.retained
    <2>1. CASE w.kind = "revoke"
      BY <1>1, <1>3, <2>1, DesktopBounds DEF CallSound, RevokeSound
    <2>2. CASE w.kind # "revoke"
      BY <1>1, <1>2, <1>4, <2>2, CleanupAside
    <2> QED BY <2>1, <2>2
  <1>9. FilesSound'
    BY <1>3, <1>6, <1>7, <1>8, BundleFiles
  <1>10. CASE w.kind = "revoke"
    BY <1>7, <1>9, <1>10, EndKeeps
  <1>11. CASE w.kind # "revoke"
    <2>1. /\ Bound(b) /\ ActiveVerified(b) /\ entry = b.active /\ b.retained # entry
      BY <1>1, <1>2, <1>4, <1>11, CleanupAside
    <2>2. Journaled(w)
      BY <1>1, <1>4, <1>11 DEF CallSound, CleanupSound, CompleteSound
    <2>3. FilesTypeOK /\ Unresolved' = Unresolved
      BY <1>7, UnresolvedStays DEF VInv, DTypeOK
    <2>4. bundle'[b.retained] = 0 /\ bundle'[b.active] = bundle[b.active]
      BY <1>3, <1>6, <1>7, <2>1, <2>3 DEF FilesTypeOK
    <2>5. ASSUME NEW x \in Calls, x.step = s, x.kind = work[o].kind, x.of = work[o].of,
                 x.tree = work[o].tree, x.journal = work[o].journal
          PROVE  CallSound(x)'
      <3>1. Journaled(x)' /\ Bound(x.of)' /\ ActiveVerified(x.of)'
        BY <1>1, <1>2, <1>7, <2>1, <2>2, <2>3, <2>4, <2>5
           DEF Journaled, Bound, ActiveVerified, Launches, Loads, Installed
      <3>2. x.step = "remove tree" => x.tree /\ bundle'[x.of.retained] = 0
        BY <1>1, <1>2, <1>5, <2>4, <2>5
      <3>3. x.kind = "cleanup" => x.step \in {"remove tree", "receipt"}
        BY <1>1, <1>5, <2>5
      <3>4. x.step \in {"remove tree", "observe", "receipt"}
        BY <1>5, <2>5
      <3>5. x.kind = "cleanup" => CleanupSound(x)'
        BY <3>1, <3>2, <3>3 DEF CleanupSound
      <3>6. x.kind = "complete" => CompleteSound(x)'
        BY <3>1, <3>2, <3>4 DEF CompleteSound
      <3> QED BY <1>1, <1>4, <1>11, <2>5, <3>5, <3>6 DEF CallSound
    <2> QED BY <1>1, <1>7, <1>9, <1>11, <2>5, GoKeeps
  <1> QED BY <1>10, <1>11

\* The build of a cleanup is that of another version than the launched one.
LEMMA CleanupTreeFiles ==
  ASSUME VInv, NEW w \in Calls, CallSound(w), w.kind \in {"cleanup", "complete"},
         w.step = "remove tree", NEW v \in {"absent", "torn"},
         tree' = [tree EXCEPT ![BuildOf[w.of.retained]] = v],
         UNCHANGED <<entry, bundle, marker, updates, cleanups, granted, uninstalled, unrestored>>
  PROVE  FilesSound'
  <1>1. FilesTypeOK /\ w.of \in Binding
    BY DEF VInv, DTypeOK, Calls
  <1>2. PICK c \in Build : c = BuildOf[w.of.retained]
    BY <1>1, DesktopBounds DEF Binding
  <1>3. FilesTypeOK' /\ \A d \in Build : tree'[d] = IF d = c THEN v ELSE tree[d]
    BY <1>1, <1>2 DEF FilesTypeOK
  <1>4. Unresolved' = Unresolved
    BY UnresolvedStays
  <1>5. /\ entry \in DesktopPlan /\ BuildOf[entry] \in Build /\ BuildOf[entry] # c
    BY <1>1, <1>2, CleanupAside, DesktopBounds DEF Binding
  <1>6. Journaled(w) /\ w.tree /\ bundle[w.of.retained] = 0
    BY DEF CallSound, CleanupSound, CompleteSound
  <1>7. Recorded'
    BY DEF VInv, Recorded, Bound
  <1>8. JournalsSound'
    <2>1. ASSUME NEW j \in Unresolved PROVE JournalSound(j)'
      <3>1. j = w.journal
        BY <1>6 DEF VInv, JournalsSound, OneUnresolved, Journaled
      <3>2. cleanups[j].of = w.of /\ cleanups[j].tree
        BY <1>6, <3>1 DEF Journaled
      <3> QED BY <1>6, <3>2 DEF VInv, JournalsSound, JournalSound
    <2> QED BY <1>4, <2>1 DEF VInv, JournalsSound, OneUnresolved
  <1>9. ActiveStands'
    BY <1>3, <1>5 DEF VInv, ActiveStands, Installed
  <1> QED BY <1>3, <1>7, <1>8, <1>9 DEF FilesSound

LEMMA RemoveTreeKeeps ==
  ASSUME VInv, OneOperator, NEW o \in AppOperator, RemoveTree(o)
  PROVE  VInv'
  <1>1. PICK w \in Calls : /\ w = work[o] /\ CallSound(w) /\ work[o] # AtRest
                          /\ w.step = "remove tree"
    BY UnderWay DEF RemoveTree, AtWork
  <1>2. PICK b \in Binding : b = w.of
    BY <1>1 DEF Calls
  <1>3. w.kind \in {"cleanup", "complete"}
    BY <1>1, KindOfStep
  <1>4. PICK s \in WorkSteps : s = IF w.kind = "complete" THEN "observe" ELSE "receipt"
    BY DEF WorkSteps
  <1>5. PICK v \in {"absent", "torn"} : v = "absent"
    OBVIOUS
  <1>6. /\ tree' = [tree EXCEPT ![BuildOf[w.of.retained]] = v] /\ GoOn(o, s)
        /\ UNCHANGED <<entry, bundle, marker, updates, cleanups, granted, uninstalled, unrestored>>
    BY <1>1, <1>4, <1>5 DEF RemoveTree, Same
  <1>7. FilesSound'
    BY <1>1, <1>3, <1>6, CleanupTreeFiles
  <1>8. /\ Bound(b) /\ ActiveVerified(b) /\ BuildOf[b.retained] # BuildOf[b.active]
        /\ Journaled(w) /\ Unresolved' = Unresolved
    <2>1. Journaled(w) /\ Unresolved' = Unresolved
      BY <1>1, <1>3, <1>6, UnresolvedStays DEF CallSound, CleanupSound, CompleteSound
    <2> QED BY <1>1, <1>2, <1>3, <2>1, CleanupAside
  <1>9. tree'[BuildOf[b.active]] = tree[BuildOf[b.active]]
    BY <1>2, <1>6, <1>8, DesktopBounds DEF Binding, VInv, DTypeOK, FilesTypeOK
  <1>10. ASSUME NEW x \in Calls, x.step = s, x.kind = work[o].kind, x.of = work[o].of,
                x.tree = work[o].tree, x.journal = work[o].journal
         PROVE  CallSound(x)'
    <2>1. Journaled(x)' /\ Bound(x.of)' /\ ActiveVerified(x.of)'
      BY <1>1, <1>2, <1>6, <1>8, <1>9, <1>10
         DEF Journaled, Bound, ActiveVerified, Launches, Loads, Installed
    <2>2. x.kind = "cleanup" => x.step = "receipt"
      BY <1>1, <1>4, <1>10
    <2>3. x.step \in {"observe", "receipt"}
      BY <1>4, <1>10
    <2>4. x.kind = "cleanup" => CleanupSound(x)'
      BY <2>1, <2>2 DEF CleanupSound
    <2>5. x.kind = "complete" => CompleteSound(x)'
      BY <2>1, <2>3 DEF CompleteSound
    <2> QED BY <1>1, <1>3, <1>10, <2>4, <2>5 DEF CallSound
  <1> QED BY <1>1, <1>6, <1>7, <1>10, GoKeeps

LEMMA WithdrawEntryKeeps ==
  ASSUME VInv, OneOperator, NEW o \in AppOperator, WithdrawEntry(o)
  PROVE  VInv'
  <1>1. PICK w \in Calls : /\ w = work[o] /\ CallSound(w) /\ work[o] # AtRest
                          /\ w.step = "withdraw"
    BY UnderWay DEF WithdrawEntry, AtWork
  <1>2. w.kind = "revoke"
    BY <1>1, KindOfStep
  <1>3. PICK s \in WorkSteps : s = "remove bundle"
    BY DEF WorkSteps
  <1>4. /\ entry' = NoPlan /\ GoOn(o, s)
        /\ UNCHANGED <<bundle, tree, marker, updates, cleanups, granted, uninstalled, unrestored>>
    BY <1>3 DEF WithdrawEntry, Same
  <1>5. FilesSound'
    BY <1>4, EntryFiles
  <1>6. ASSUME NEW x \in Calls, x.step = s, x.kind = work[o].kind, x.of = work[o].of,
               x.tree = work[o].tree, x.journal = work[o].journal
        PROVE  CallSound(x)'
    BY <1>1, <1>2, <1>3, <1>4, <1>6 DEF CallSound, RevokeSound
  <1> QED BY <1>1, <1>4, <1>5, <1>6, GoKeeps

\* The undo of a switch: the launcher is written back, or is lost.
LEMMA RestoresKeep ==
  ASSUME VInv, OneOperator, NEW o \in AppOperator, RestoreEntry(o) \/ LoseEntry(o)
  PROVE  VInv'
  <1>1. PICK w \in Calls : /\ w = work[o] /\ CallSound(w) /\ work[o] # AtRest
                          /\ w.step = "restore"
    BY UnderWay DEF RestoreEntry, LoseEntry, AtWork
  <1>2. PICK b \in Binding : b = w.of
    BY <1>1 DEF Calls
  <1>3. b.retained \in DesktopPlan /\ b.active \in DesktopPlan
    BY DEF Binding
  <1>4. /\ w.kind \in {"update", "rollback"}
        /\ w.kind = "update" => UpdateSound(w)
        /\ w.kind = "rollback" => RollbackSound(w)
    <2>1. w.kind \in {"update", "rollback"}
      BY <1>1, KindOfStep
    <2> QED BY <1>1, <2>1 DEF CallSound
  <1>5. PICK s \in WorkSteps : s = "discard"
    BY DEF WorkSteps
  <1>6. /\ UNCHANGED <<bundle, tree, marker, updates, cleanups, granted, uninstalled>>
        /\ IF w.kind = "update" THEN GoOn(o, s) ELSE EndWork(o)
    BY <1>1, <1>5 DEF RestoreEntry, LoseEntry, Same, AfterRestore
  <1>7. /\ Unresolved = {} /\ Unresolved' = Unresolved /\ Loads(b.retained)
        /\ w.kind = "rollback" => Loads(b.active)
    BY <1>2, <1>4, <1>6, UnresolvedStays DEF UpdateSound, RollbackSound
  <1>8. \/ /\ entry' = IF w.kind = "update" THEN b.retained ELSE b.active
           /\ unrestored' = unrestored
        \/ entry' = entry /\ unrestored' = TRUE
    BY <1>1, <1>2 DEF RestoreEntry, LoseEntry, Same
  <1>9. FilesSound'
    <2>1. CASE /\ entry' = IF w.kind = "update" THEN b.retained ELSE b.active
               /\ unrestored' = unrestored
      <3>1. PICK p \in DesktopPlan : p = entry' /\ Loads(p)
        BY <1>3, <1>4, <1>7, <2>1
      <3> QED BY <1>6, <1>7, <2>1, <3>1, EntryFiles
    <2>2. CASE entry' = entry /\ unrestored' = TRUE
      <3>1. FilesTypeOK'
        BY <1>6, <2>2 DEF VInv, DTypeOK, FilesTypeOK
      <3>2. Recorded'
        BY <1>6 DEF VInv, Recorded, Bound
      <3>3. JournalsSound'
        BY <1>7 DEF JournalsSound, OneUnresolved
      <3>4. ActiveStands'
        BY <2>2 DEF ActiveStands
      <3> QED BY <3>1, <3>2, <3>3, <3>4 DEF FilesSound
    <2> QED BY <1>8, <2>1, <2>2
  <1>10. CASE w.kind = "rollback"
    BY <1>6, <1>9, <1>10, EndKeeps
  <1>11. CASE w.kind = "update"
    <2>1. ASSUME NEW x \in Calls, x.step = s, x.kind = work[o].kind, x.of = work[o].of,
                 x.tree = work[o].tree, x.journal = work[o].journal
          PROVE  CallSound(x)'
      <3>1. UpdateSound(x)'
        BY <1>1, <1>2, <1>4, <1>5, <1>6, <1>7, <1>8, <1>11, <2>1
           DEF UpdateSound, Bound, Loads, Installed
      <3> QED BY <1>1, <1>11, <2>1, <3>1 DEF CallSound
    <2> QED BY <1>1, <1>6, <1>9, <1>11, <2>1, GoKeeps
  <1> QED BY <1>4, <1>10, <1>11

\* A candidate is not launched when it is discarded, unless its launcher is lost.
LEMMA DiscardAside ==
  ASSUME VInv, NEW w \in Calls, CallSound(w), w.step = "discard"
  PROVE  entry # w.of.active \/ (unrestored /\ Unresolved = {})
  <1>1. w.of.active \in DesktopPlan
    BY DEF Calls, Binding
  <1>2. w.kind \in {"install", "update"}
    BY KindOfStep
  <1>3. CASE w.kind = "install"
    BY <1>1, <1>3, DesktopBounds DEF CallSound, InstallSound
  <1>4. CASE w.kind = "update"
    BY <1>4 DEF CallSound, UpdateSound, Bound
  <1> QED BY <1>2, <1>3, <1>4

LEMMA DiscardCandidateKeeps ==
  ASSUME VInv, OneOperator, NEW o \in AppOperator, DiscardCandidate(o)
  PROVE  VInv'
  <1>1. PICK w \in Calls : /\ w = work[o] /\ CallSound(w) /\ work[o] # AtRest
                          /\ w.step = "discard"
    BY UnderWay DEF DiscardCandidate, AtWork
  <1>2. PICK p \in DesktopPlan : p = w.of.active
    BY <1>1, UnderWay
  <1>3. PICK v \in {0, Torn} : v = 0
    OBVIOUS
  <1>4. /\ bundle' = [bundle EXCEPT ![p] = v] /\ EndWork(o)
        /\ UNCHANGED <<entry, tree, marker, updates, cleanups, granted, uninstalled, unrestored>>
    BY <1>1, <1>2, <1>3 DEF DiscardCandidate, Same
  <1>5. entry # p \/ (unrestored /\ Unresolved = {})
    BY <1>1, <1>2, DiscardAside
  <1>6. FilesSound'
    BY <1>3, <1>4, <1>5, BundleFiles
  <1> QED BY <1>4, <1>6, EndKeeps

LEMMA TearRemovalKeeps ==
  ASSUME VInv, OneOperator, NEW o \in AppOperator, TearRemoval(o)
  PROVE  VInv'
  <1>1. PICK w \in Calls : /\ w = work[o] /\ CallSound(w) /\ work[o] # AtRest
                          /\ w.step \in {"remove bundle", "discard", "remove tree"}
    BY UnderWay DEF TearRemoval, AtWork
  <1>2. w.of.retained \in DesktopPlan /\ w.of.active \in DesktopPlan
    BY DEF Calls, Binding
  <1>3. /\ EndWork(o)
        /\ UNCHANGED <<entry, marker, updates, cleanups, granted, uninstalled, unrestored>>
    BY DEF TearRemoval, Same
  <1>4. CASE w.step = "remove tree"
    <2>1. w.kind \in {"cleanup", "complete"}
      BY <1>1, <1>4, KindOfStep
    <2>2. PICK v \in {"absent", "torn"} : v = "torn"
      OBVIOUS
    <2>3. tree' = [tree EXCEPT ![BuildOf[w.of.retained]] = v] /\ bundle' = bundle
      BY <1>1, <1>4, <2>2 DEF TearRemoval, AtWork
    <2>4. FilesSound'
      BY <1>1, <1>3, <1>4, <2>1, <2>3, CleanupTreeFiles
    <2> QED BY <1>3, <2>4, EndKeeps
  <1>5. CASE w.step \in {"remove bundle", "discard"}
    <2>1. PICK p \in DesktopPlan :
            /\ p = IF w.step = "discard" THEN w.of.active ELSE w.of.retained
            /\ bundle[p] # 0
      BY <1>1, <1>2, <1>5 DEF TearRemoval, AtWork
    <2>2. PICK v \in {0, Torn} : v = Torn
      OBVIOUS
    <2>3. bundle' = [bundle EXCEPT ![p] = v] /\ tree' = tree
      BY <1>1, <1>5, <2>1, <2>2 DEF TearRemoval, AtWork
    <2>4. entry # p \/ (unrestored /\ Unresolved = {})
      <3>1. CASE w.step = "discard"
        BY <1>1, <2>1, <3>1, DiscardAside
      <3>2. CASE w.step = "remove bundle"
        <4>1. w.kind \in {"cleanup", "complete", "revoke"}
          BY <1>1, <3>2, KindOfStep
        <4>2. CASE w.kind = "revoke"
          BY <1>1, <1>2, <2>1, <3>2, <4>2, DesktopBounds DEF CallSound, RevokeSound
        <4>3. CASE w.kind # "revoke"
          BY <1>1, <2>1, <3>2, <4>1, <4>3, CleanupAside
        <4> QED BY <4>2, <4>3
      <3> QED BY <1>5, <3>1, <3>2
    <2>5. FilesSound'
      BY <1>3, <2>1, <2>3, <2>4, BundleFiles
    <2> QED BY <1>3, <2>5, EndKeeps
  <1> QED BY <1>1, <1>4, <1>5

\* The package installer, between two commands.
LEMMA PackagesKeep ==
  ASSUME VInv, OneOperator, NEW o \in AppOperator, NEW c \in Build,
         InstallPackage(o, c) \/ UninstallPackage(o, c)
  PROVE  VInv'
  <1>1. /\ work[o] = AtRest /\ work' = work
        /\ UNCHANGED <<entry, bundle, marker, updates, cleanups, granted, unrestored>>
    BY DEF InstallPackage, UninstallPackage
  <1>2. FilesTypeOK
    BY DEF VInv, DTypeOK
  <1>3. PICK v \in {"whole", "torn", "absent"} :
          /\ tree' = [tree EXCEPT ![c] = v]
          /\ IF v = "whole" THEN uninstalled' = uninstalled \ {c}
                            ELSE uninstalled' = uninstalled \union {c}
    BY DEF InstallPackage, UninstallPackage
  <1>4. FilesTypeOK' /\ \A d \in Build : tree'[d] = IF d = c THEN v ELSE tree[d]
    BY <1>1, <1>2, <1>3 DEF FilesTypeOK
  <1>5. Unresolved' = Unresolved
    BY <1>1, UnresolvedStays
  <1>6. Recorded'
    BY <1>1 DEF VInv, Recorded, Bound
  <1>7. JournalsSound'
    <2>1. ASSUME NEW j \in Unresolved PROVE JournalSound(j)'
      <3>1. cleanups[j].of.retained \in DesktopPlan
        BY <1>2, JournalTyped DEF Unresolved
      <3>2. BuildOf[cleanups[j].of.retained] \in Build
        BY <3>1, DesktopBounds
      <3>3. JournalSound(j)
        BY DEF VInv, JournalsSound
      <3> QED BY <1>1, <1>3, <1>4, <3>2, <3>3 DEF JournalSound
    <2> QED BY <1>5, <2>1 DEF VInv, JournalsSound, OneUnresolved
  <1>8. ActiveStands'
    <2>1. entry # NoPlan => BuildOf[entry] \in Build
      BY <1>2, DesktopBounds DEF FilesTypeOK
    <2> QED BY <1>1, <1>3, <1>4, <2>1 DEF VInv, ActiveStands, Installed
  <1>9. FilesSound'
    BY <1>4, <1>6, <1>7, <1>8 DEF FilesSound
  <1>10. EndWork(o)
    BY <1>1 DEF EndWork, VInv, DTypeOK
  <1> QED BY <1>9, <1>10, EndKeeps

(***************************************************************************)
(* The theorems.                                                           *)
(***************************************************************************)

LEMMA DInitSound == DInit => VInv
  <1> SUFFICES ASSUME DInit PROVE VInv
    OBVIOUS
  <1> USE DEF DInit
  <1>1. cleanups \in Seq(Journal) /\ DOMAIN cleanups = {} /\ Unresolved = {}
    BY DEF Unresolved
  <1>2. DTypeOK
    BY <1>1, DesktopBounds DEF DTypeOK, FilesTypeOK
  <1>3. Recorded
    BY <1>1 DEF Recorded
  <1>4. JournalsSound
    BY <1>1 DEF JournalsSound, OneUnresolved
  <1>5. \A o \in AppOperator : CallSound(work[o])
    BY DEF CallSound, AtRest
  <1>6. ActiveStands
    BY DEF ActiveStands
  <1> QED BY <1>2, <1>3, <1>4, <1>5, <1>6 DEF VInv

LEMMA StutterSound ==
  ASSUME VInv, UNCHANGED dVars
  PROVE  VInv'
  <1>1. /\ UNCHANGED <<entry, bundle, tree, marker, updates, cleanups, work, granted>>
        /\ UNCHANGED <<uninstalled, unrestored>>
    BY DEF dVars
  <1>2. Unresolved' = Unresolved
    BY <1>1, UnresolvedStays
  <1>3. DTypeOK' /\ Recorded' /\ ActiveStands'
    BY <1>1 DEF VInv, DTypeOK, FilesTypeOK, Recorded, Bound, ActiveStands, Installed
  <1>4. JournalsSound'
    BY <1>1, <1>2 DEF VInv, JournalsSound, OneUnresolved, JournalSound
  <1>5. ASSUME NEW o \in AppOperator
        PROVE  CallSound(work[o])'
    <2>1. PICK w : w = work[o] /\ work'[o] = w /\ CallSound(w)
      BY <1>1 DEF VInv
    <2>2. InstallSound(w) => InstallSound(w)'
      BY <1>1 DEF InstallSound, Installed
    <2>3. UpdateSound(w) => UpdateSound(w)'
      BY <1>1, <1>2 DEF UpdateSound, Bound, Loads, Launches, Installed
    <2>4. RollbackSound(w) => RollbackSound(w)'
      BY <1>1, <1>2 DEF RollbackSound, Bound, Loads, Installed
    <2>5. Journaled(w) => Journaled(w)'
      BY <1>1, <1>2 DEF Journaled
    <2>6. CleanupSound(w) => CleanupSound(w)'
      BY <1>1, <1>2, <2>5
         DEF CleanupSound, Bound, Loads, Launches, Installed, ActiveVerified
    <2>7. CompleteSound(w) => CompleteSound(w)'
      BY <1>1, <1>2, <2>5
         DEF CompleteSound, Bound, Loads, Launches, Installed, ActiveVerified
    <2>8. RevokeSound(w) => RevokeSound(w)'
      BY <1>1 DEF RevokeSound
    <2>9. CallSound(w)'
      BY <2>1, <2>2, <2>3, <2>4, <2>5, <2>6, <2>7, <2>8 DEF CallSound
    <2> QED BY <2>1, <2>9
  <1> QED BY <1>3, <1>4, <1>5 DEF VInv

LEMMA DNextSound ==
  ASSUME VInv, OneOperator, [DNext]_dVars
  PROVE  VInv'
  <1>1. CASE UNCHANGED dVars
    BY <1>1, StutterSound
  <1>2. CASE DNext
    <2>1. PICK o \in AppOperator :
            \/ \E p \in DesktopPlan : InstallApp(o, p) \/ UpdateApp(o, p)
            \/ \E b \in updates : RollBackApp(o, b)
            \/ \E p \in DesktopPlan, t \in BOOLEAN : CleanUp(o, p, t)
            \/ \E j \in DOMAIN cleanups, a \in {"cancel", "complete", "finalize"} :
                  Reconcile(o, j, a)
            \/ RevokeApp(o)
            \/ Place(o) \/ SwitchEntry(o) \/ MarkRetained(o) \/ RetireMarker(o)
            \/ MarkBack(o) \/ RecordSwitch(o) \/ WriteCleanupJournal(o)
            \/ RecheckCleanup(o) \/ RemoveBundle(o) \/ RemoveTree(o) \/ ObserveAgain(o)
            \/ WriteCleanupReceipt(o) \/ WriteCancellation(o) \/ WithdrawEntry(o)
            \/ Raise(o) \/ Unmark(o) \/ UnmarkBack(o) \/ Remark(o)
            \/ RestoreEntry(o) \/ LoseEntry(o) \/ DiscardCandidate(o)
            \/ TearRemoval(o) \/ KillApp(o)
            \/ \E c \in Build : InstallPackage(o, c) \/ UninstallPackage(o, c)
      BY <1>2 DEF DNext
    <2>2. CASE \E p \in DesktopPlan : InstallApp(o, p) \/ UpdateApp(o, p)
      BY <2>2, InstallAppKeeps, UpdateAppKeeps
    <2>3. CASE \E b \in updates : RollBackApp(o, b)
      BY <2>3, RollBackAppKeeps
    <2>4. CASE \E p \in DesktopPlan, t \in BOOLEAN : CleanUp(o, p, t)
      BY <2>4, CleanUpKeeps
    <2>5. CASE \E j \in DOMAIN cleanups, a \in {"cancel", "complete", "finalize"} :
                 Reconcile(o, j, a)
      BY <2>5, ReconcileKeeps
    <2>6. CASE RevokeApp(o) \/ WithdrawEntry(o)
      BY <2>6, RevokeAppKeeps, WithdrawEntryKeeps
    <2>7. CASE Place(o) \/ SwitchEntry(o) \/ RestoreEntry(o) \/ LoseEntry(o)
      BY <2>7, PlaceKeeps, SwitchEntryKeeps, RestoresKeep
    <2>8. CASE \/ MarkRetained(o) \/ RetireMarker(o) \/ MarkBack(o) \/ Unmark(o)
               \/ UnmarkBack(o) \/ Remark(o)
      BY <2>8, MarksKeep, RetireMarkerKeeps
    <2>9. CASE RecordSwitch(o) \/ WriteCleanupJournal(o)
      BY <2>9, RecordSwitchKeeps, WriteCleanupJournalKeeps
    <2>10. CASE WriteCleanupReceipt(o) \/ WriteCancellation(o)
      BY <2>10, ClosesKeep
    <2>11. CASE RecheckCleanup(o) \/ ObserveAgain(o) \/ Raise(o) \/ KillApp(o)
      BY <2>11, ReadsKeep
    <2>12. CASE RemoveBundle(o) \/ RemoveTree(o) \/ DiscardCandidate(o) \/ TearRemoval(o)
      BY <2>12, RemoveBundleKeeps, RemoveTreeKeeps, DiscardCandidateKeeps, TearRemovalKeeps
    <2>13. CASE \E c \in Build : InstallPackage(o, c) \/ UninstallPackage(o, c)
      BY <2>13, PackagesKeep
    <2> QED BY <2>1, <2>2, <2>3, <2>4, <2>5, <2>6, <2>7, <2>8, <2>9, <2>10, <2>11, <2>12, <2>13
  <1> QED BY <1>1, <1>2

LEMMA VInvariant ==
  ASSUME OneOperator
  PROVE  DSpec => []VInv
  <1>1. DInit => VInv
    BY DInitSound
  <1>2. VInv /\ [DNext]_dVars => VInv'
    BY DNextSound
  <1> QED BY <1>1, <1>2, PTL DEF DSpec

\* What is known of an open journal leaves nothing invalid to observe.
LEMMA OpenIsRecoverable == VInv => InterruptedRecoverable
  <1> SUFFICES ASSUME VInv, NEW j \in Unresolved,
                      ActiveVerified(cleanups[j].of),
                      bundle[cleanups[j].of.retained] # Torn,
                      tree[BuildOf[cleanups[j].of.retained]] # "torn",
                      BuildOf[cleanups[j].of.retained] \notin uninstalled
               PROVE  Allowed(j) # {}
    BY DEF InterruptedRecoverable
  <1>1. PICK b \in Binding : b = cleanups[j].of
    BY JournalTyped DEF Unresolved, VInv, DTypeOK
  <1>2. /\ b.retained \in DesktopPlan /\ b # NoPlan
        /\ tree[BuildOf[b.retained]] \in {"whole", "torn", "absent"}
    BY DesktopBounds, NoPlanIsNoBinding DEF Binding, VInv, DTypeOK, FilesTypeOK
  <1>3. JournalSound(j) /\ entry = b.active /\ bundle[b.active] = b.activeGrant
    BY <1>1 DEF VInv, JournalsSound, ActiveVerified, Launches
  <1>4. /\ marker[b.retained] \in {NoPlan, b}
        /\ bundle[b.retained] \in {0, b.grant}
        /\ tree[BuildOf[b.retained]] \in {"whole", "absent"}
        /\ tree[BuildOf[b.retained]] = "absent" => bundle[b.retained] = 0 /\ cleanups[j].tree
    BY <1>1, <1>2, <1>3 DEF JournalSound
  <1>5. MarkerState(b) # "invalid"
    BY <1>2, <1>4 DEF MarkerState
  <1>6. BundleState(b) # "invalid"
    <2>1. CASE bundle[b.retained] = 0
      BY <2>1 DEF BundleState, Loads
    <2>2. CASE bundle[b.retained] # 0
      <3>1. Loads(b.retained) /\ bundle[b.retained] = b.grant
        BY <1>4, <2>2 DEF Loads, Installed, Binding
      <3> QED BY <2>2, <3>1 DEF BundleState
    <2> QED BY <2>1, <2>2
  <1>7. /\ TreeState(b) \in {"absent", "verified"}
        /\ ~cleanups[j].tree => TreeState(b) = "verified"
    BY <1>4 DEF TreeState
  <1>8. Classification(j) \in {"untouched", "effectively complete", "partial"}
    <2>1. PICK states : states = {MarkerState(b), BundleState(b)}
                          \union (IF cleanups[j].tree THEN {TreeState(b)} ELSE {})
      OBVIOUS
    <2>2. "invalid" \notin states
      BY <1>5, <1>6, <1>7, <2>1
    <2>3. Classification(j) = CASE states = {"verified"} -> "untouched"
                                [] states = {"absent"} -> "effectively complete"
                                [] OTHER -> "partial"
      BY <1>1, <1>7, <2>1, <2>2 DEF Classification
    <2> QED BY <2>3
  <1> QED BY <1>8 DEF Allowed

\* Types, and grants that are never newer than the last written: for one
\* phi-app process at a time.
THEOREM DesktopTypeCorrect ==
  ASSUME OneOperator
  PROVE  DSpec => []DTypeOK
  <1>1. VInv => DTypeOK
    BY DEF VInv
  <1> QED BY <1>1, VInvariant, PTL

\* One open cleanup journal at a time: plan_desktop_update, plan_desktop_rollback
\* and plan_retained_cleanup all ask the lifecycle gate.
THEOREM OneUnresolvedHolds ==
  ASSUME OneOperator
  PROVE  DSpec => []OneUnresolved
  <1>1. VInv => OneUnresolved
    BY DEF VInv, JournalsSound
  <1> QED BY <1>1, VInvariant, PTL

\* Whatever command is interrupted, and wherever, the launcher starts a bundle
\* that is whole, of a build that was not removed behind the app's back.
THEOREM ActiveStandsHolds ==
  ASSUME OneOperator
  PROVE  DSpec => []ActiveStands
  <1>1. VInv => ActiveStands
    BY DEF VInv
  <1> QED BY <1>1, VInvariant, PTL

\* A cleanup that stopped between two removals always has a reconciliation
\* that observe_cleanup_reconciliation allows.
THEOREM InterruptedRecoverableHolds ==
  ASSUME OneOperator
  PROVE  DSpec => []InterruptedRecoverable
  <1>1. VInv => InterruptedRecoverable
    BY OpenIsRecoverable
  <1> QED BY <1>1, VInvariant, PTL
=============================================================================
