--------------------------- MODULE DesktopVersions ---------------------------
(***************************************************************************)
(* The versions of one desktop app (phios/apps): registration, update,     *)
(* rollback, cleanup of a retained version, reconciliation of a cleanup    *)
(* that was interrupted, and revocation.  There is no lock: the launcher   *)
(* is switched by one atomic replace, everything beside it is written      *)
(* before or after, undone when a later step raises, or left to the        *)
(* lifecycle gate (lifecycle_gate.py).  A reviewed plan is recomputed when *)
(* it is executed and has to be the same; here it is made at execution.    *)
(***************************************************************************)
EXTENDS Naturals, Sequences

CONSTANTS DesktopPlan,  \* digests of desktop plans, which name their bundles
          Build,        \* installed versions, one build of each
          BuildOf,      \* the version a desktop plan launches
          AppOperator,  \* phi-app processes
          MaxGrant,     \* bound: launch grants written
          MaxCleanup,   \* bound: cleanup journals written
          Torn,         \* a directory that was removed in part
          NoPlan        \* no launcher, no marker

ASSUME DesktopBounds ==
  /\ BuildOf \in [DesktopPlan -> Build]
  /\ MaxGrant \in Nat
  /\ MaxCleanup \in Nat
  /\ Torn \notin Nat
  /\ NoPlan \notin DesktopPlan

VARIABLES entry,       \* the XDG launcher: the plan whose bundle it starts
          bundle,      \* per plan: its bundle's grant; 0 if there is none, or Torn
          tree,        \* per build: "whole", "torn" or "absent"
          marker,      \* per plan: .retained-<plan>.json
          updates,     \* update receipts
          cleanups,    \* cleanup journals with the receipts that bind them
          work,        \* per operator: the call under way
          granted,     \* history: the grants written
          uninstalled, \* history: builds removed by phi-app uninstall
          unrestored   \* history: an undo could not write the launcher back

dVars == <<entry, bundle, tree, marker, updates, cleanups, work, granted,
           uninstalled, unrestored>>

\* What markers, update receipts, cleanup plans and calls are about: the
\* retained bundle and the active one, each with its grant.
Binding == [retained : DesktopPlan, grant : Nat, active : DesktopPlan, activeGrant : Nat]

ASSUME NoPlanIsNoBinding == NoPlan \notin Binding

Kinds == {"install", "revoke", "update", "rollback", "cleanup",
          "cancel", "complete", "finalize"}
WorkSteps == {"place", "switch", "mark", "retire marker", "mark back", "record",
          "journal", "recheck", "remove bundle", "remove tree", "observe", "receipt",
          "cancel", "withdraw", "unmark", "unmark back", "remark", "restore", "discard"}

\* A call: "tree" is the cleanup scope desktop_bundle_and_install.
Calls == [kind : Kinds, step : WorkSteps, of : Binding, tree : BOOLEAN, journal : Nat]

AtRest == [kind |-> "none"]

DInit ==
  /\ entry = NoPlan
  /\ bundle = [p \in DesktopPlan |-> 0]
  /\ tree = [b \in Build |-> "whole"]
  /\ marker = [p \in DesktopPlan |-> NoPlan]
  /\ updates = {}
  /\ cleanups = <<>>
  /\ work = [o \in AppOperator |-> AtRest]
  /\ granted = 0
  /\ uninstalled = {}
  /\ unrestored = FALSE

(***************************************************************************)
(* What plans check.                                                       *)
(***************************************************************************)

\* plan_desktop_app: the installed tree is the one of the install receipt.
Installed(p) == tree[BuildOf[p]] = "whole"

\* _load_bundle and _verify_current_bundle.
Loads(p) == bundle[p] \in Nat \ {0} /\ Installed(p)

\* The launch of a bundle proves the same of the one the launcher names.
Launches(p) == entry = p /\ Loads(p)

\* Both bundles verify, with these grants, and the launcher starts the active one.
Proved(b) ==
  /\ Launches(b.active) /\ bundle[b.active] = b.activeGrant
  /\ Loads(b.retained) /\ bundle[b.retained] = b.grant

Unresolved == {j \in DOMAIN cleanups : cleanups[j].cleaned = 0 /\ cleanups[j].cancelled = 0}

\* assert_lifecycle_clear.
GateClear == Unresolved = {}

(***************************************************************************)
(* The commands.                                                           *)
(***************************************************************************)

Begin(o, kind, step, b, withTree, j) ==
  /\ work[o] = AtRest
  /\ work' = [work EXCEPT ![o] =
       [kind |-> kind, step |-> step, of |-> b, tree |-> withTree, journal |-> j]]
  /\ UNCHANGED <<entry, bundle, tree, marker, updates, cleanups, uninstalled, unrestored>>

NewGrant == granted < MaxGrant /\ granted' = granted + 1

\* DesktopAppInstaller.install: the first bundle; it is not gated.
InstallApp(o, p) ==
  /\ Installed(p)
  /\ bundle[p] = 0
  /\ entry = NoPlan
  /\ NewGrant
  /\ Begin(o, "install", "place",
           [retained |-> p, grant |-> 0, active |-> p, activeGrant |-> granted + 1], FALSE, 0)

\* plan_desktop_update: another version, whose bundle does not exist.
UpdateApp(o, p) ==
  /\ GateClear
  /\ entry # NoPlan
  /\ Launches(entry)
  /\ Installed(p)
  /\ BuildOf[p] # BuildOf[entry]
  /\ bundle[p] = 0
  /\ NewGrant
  /\ Begin(o, "update", "place",
           [retained |-> entry, grant |-> bundle[entry],
            active |-> p, activeGrant |-> granted + 1], FALSE, 0)

\* plan_desktop_rollback: the update of a receipt is still in place.
RollBackApp(o, b) ==
  /\ GateClear
  /\ Proved(b)
  /\ marker[b.retained] = b
  /\ marker[b.active] = NoPlan
  /\ Begin(o, "rollback", "switch", b, FALSE, 0)
  /\ UNCHANGED granted

\* Mutant: the gate is not asked.
CleanUpUngated(o, p, withTree) ==
  /\ marker[p] # NoPlan
  /\ Proved(marker[p])
  /\ Len(cleanups) < MaxCleanup
  /\ Begin(o, "cleanup", "journal", marker[p], withTree, 0)
  /\ UNCHANGED granted

\* plan_retained_cleanup.
CleanUp(o, p, withTree) ==
  /\ GateClear
  /\ marker[p] # NoPlan
  /\ Proved(marker[p])
  /\ Len(cleanups) < MaxCleanup
  /\ Begin(o, "cleanup", "journal", marker[p], withTree, 0)
  /\ UNCHANGED granted

\* revoke: the launcher and the bundle it starts are removed, ungated.
RevokeApp(o) ==
  /\ entry # NoPlan
  /\ bundle[entry] # 0
  /\ Begin(o, "revoke", "withdraw",
           [retained |-> entry, grant |-> 0, active |-> entry, activeGrant |-> 0], FALSE, 0)
  /\ UNCHANGED granted

(***************************************************************************)
(* observe_cleanup_reconciliation.                                         *)
(***************************************************************************)

\* _observe_active.
ActiveVerified(b) == Launches(b.active) /\ bundle[b.active] = b.activeGrant

\* _observe_marker, _observe_retained_bundle, _observe_retained_install.
MarkerState(b) ==
  CASE marker[b.retained] = NoPlan -> "absent"
    [] marker[b.retained] = b -> "verified"
    [] OTHER -> "invalid"
BundleState(b) ==
  CASE bundle[b.retained] = 0 -> "absent"
    [] Loads(b.retained) /\ bundle[b.retained] = b.grant -> "verified"
    [] OTHER -> "invalid"
TreeState(b) ==
  CASE tree[BuildOf[b.retained]] = "absent" -> "absent"
    [] tree[BuildOf[b.retained]] = "whole" -> "verified"
    [] OTHER -> "invalid"

\* _classify.
Classification(j) ==
  LET b == cleanups[j].of
      states == {MarkerState(b), BundleState(b)}
                  \union (IF cleanups[j].tree THEN {TreeState(b)} ELSE {})
  IN  IF \/ ~ActiveVerified(b)
         \/ j \notin Unresolved
         \/ "invalid" \in states
         \/ (~cleanups[j].tree /\ TreeState(b) # "verified")
      THEN "invalid"
      ELSE CASE states = {"verified"} -> "untouched"
             [] states = {"absent"} -> "effectively complete"
             [] OTHER -> "partial"

\* _allowed_actions.
Allowed(j) ==
  CASE Classification(j) = "untouched" -> {"cancel", "complete"}
    [] Classification(j) = "partial" -> {"complete"}
    [] Classification(j) = "effectively complete" -> {"finalize"}
    [] OTHER -> {}

\* CleanupReconciliationService.execute.
Reconcile(o, j, action) ==
  /\ action \in Allowed(j)
  /\ Begin(o, action,
           CASE action = "cancel" -> "cancel"
             [] action = "complete" -> "retire marker"
             [] OTHER -> "observe",
           cleanups[j].of, cleanups[j].tree, j)
  /\ UNCHANGED granted

(***************************************************************************)
(* Their steps, one file operation each.                                   *)
(***************************************************************************)

AtWork(o, s) == work[o] # AtRest /\ work[o].step = s
GoOn(o, s) == work' = [work EXCEPT ![o].step = s]
EndWork(o) == work' = [work EXCEPT ![o] = AtRest]

Same(o) == UNCHANGED <<granted, uninstalled, unrestored>>

\* The staged bundle is renamed into place.
Place(o) ==
  LET b == work[o].of
  IN  /\ AtWork(o, "place")
      /\ bundle[b.active] = 0
      /\ bundle' = [bundle EXCEPT ![b.active] = b.activeGrant]
      /\ GoOn(o, "switch")
      /\ UNCHANGED <<entry, tree, marker, updates, cleanups>>
      /\ Same(o)

\* _write_text_atomic of the launcher.
SwitchEntry(o) ==
  LET b == work[o].of
  IN  /\ AtWork(o, "switch")
      /\ entry' = IF work[o].kind = "rollback" THEN b.retained ELSE b.active
      /\ CASE work[o].kind = "install" -> EndWork(o)
           [] work[o].kind = "update" -> GoOn(o, "mark")
           [] OTHER -> GoOn(o, "retire marker")
      /\ UNCHANGED <<bundle, tree, marker, updates, cleanups>>
      /\ Same(o)

\* The retention marker of the version an update left.
MarkRetained(o) ==
  LET b == work[o].of
  IN  /\ AtWork(o, "mark")
      /\ marker[b.retained] = NoPlan
      /\ marker' = [marker EXCEPT ![b.retained] = b]
      /\ GoOn(o, "record")
      /\ UNCHANGED <<entry, bundle, tree, updates, cleanups>>
      /\ Same(o)

\* The marker of a rollback's target or of a cleanup's is removed first.
RetireMarker(o) ==
  LET b == work[o].of
  IN  /\ AtWork(o, "retire marker")
      /\ work[o].kind # "complete" => marker[b.retained] # NoPlan
      /\ marker' = [marker EXCEPT ![b.retained] = NoPlan]
      /\ GoOn(o, IF work[o].kind = "rollback" THEN "mark back" ELSE "remove bundle")
      /\ UNCHANGED <<entry, bundle, tree, updates, cleanups>>
      /\ Same(o)

\* After a rollback the version it left is the retained one.
Reversed(b) == [retained |-> b.active, grant |-> b.activeGrant,
                active |-> b.retained, activeGrant |-> b.grant]

MarkBack(o) ==
  LET b == work[o].of
  IN  /\ AtWork(o, "mark back")
      /\ marker' = [marker EXCEPT ![b.active] = Reversed(b)]
      /\ GoOn(o, "record")
      /\ UNCHANGED <<entry, bundle, tree, updates, cleanups>>
      /\ Same(o)

\* The receipt; rollback reads those of updates, nothing those of rollbacks.
RecordSwitch(o) ==
  /\ AtWork(o, "record")
  /\ updates' = IF work[o].kind = "update" THEN updates \union {work[o].of} ELSE updates
  /\ EndWork(o)
  /\ UNCHANGED <<entry, bundle, tree, marker, cleanups>>
  /\ Same(o)

WriteCleanupJournal(o) ==
  /\ AtWork(o, "journal")
  /\ cleanups' = Append(cleanups, [of |-> work[o].of, tree |-> work[o].tree,
                                   cleaned |-> 0, cancelled |-> 0])
  /\ work' = [work EXCEPT ![o].step = "recheck", ![o].journal = Len(cleanups) + 1]
  /\ UNCHANGED <<entry, bundle, tree, marker, updates>>
  /\ Same(o)

\* The plan is made again before anything is removed.
RecheckCleanup(o) ==
  LET b == work[o].of
  IN  /\ AtWork(o, "recheck")
      /\ marker[b.retained] = b
      /\ Proved(b)
      /\ GoOn(o, "retire marker")
      /\ UNCHANGED <<entry, bundle, tree, marker, updates, cleanups>>
      /\ Same(o)

\* shutil.rmtree of the retained bundle, or of the one that is revoked.
RemoveBundle(o) ==
  /\ AtWork(o, "remove bundle")
  /\ bundle' = [bundle EXCEPT ![work[o].of.retained] = 0]
  /\ CASE work[o].kind = "revoke" -> EndWork(o)
       [] work[o].kind # "revoke" /\ work[o].tree -> GoOn(o, "remove tree")
       [] OTHER -> GoOn(o, IF work[o].kind = "complete" THEN "observe" ELSE "receipt")
  /\ UNCHANGED <<entry, tree, marker, updates, cleanups>>
  /\ Same(o)

RemoveTree(o) ==
  /\ AtWork(o, "remove tree")
  /\ tree' = [tree EXCEPT ![BuildOf[work[o].of.retained]] = "absent"]
  /\ GoOn(o, IF work[o].kind = "complete" THEN "observe" ELSE "receipt")
  /\ UNCHANGED <<entry, bundle, marker, updates, cleanups>>
  /\ Same(o)

\* The post-observation of a reconciliation.
ObserveAgain(o) ==
  /\ AtWork(o, "observe")
  /\ Classification(work[o].journal) = "effectively complete"
  /\ GoOn(o, "receipt")
  /\ UNCHANGED <<entry, bundle, tree, marker, updates, cleanups>>
  /\ Same(o)

\* The cleanup receipt, which resolves the journal; the reconciliation
\* receipt that a reconciliation writes after it resolves nothing more.
WriteCleanupReceipt(o) ==
  /\ AtWork(o, "receipt")
  /\ cleanups' = [cleanups EXCEPT ![work[o].journal].cleaned = @ + 1]
  /\ EndWork(o)
  /\ UNCHANGED <<entry, bundle, tree, marker, updates>>
  /\ Same(o)

\* The reconciliation receipt of a cancellation.
WriteCancellation(o) ==
  /\ AtWork(o, "cancel")
  /\ cleanups' = [cleanups EXCEPT ![work[o].journal].cancelled = @ + 1]
  /\ EndWork(o)
  /\ UNCHANGED <<entry, bundle, tree, marker, updates>>
  /\ Same(o)

\* The launcher of a revoked grant.
WithdrawEntry(o) ==
  /\ AtWork(o, "withdraw")
  /\ entry' = NoPlan
  /\ GoOn(o, "remove bundle")
  /\ UNCHANGED <<bundle, tree, marker, updates, cleanups>>
  /\ Same(o)

(***************************************************************************)
(* Failures.                                                               *)
(***************************************************************************)

\* Where the except clause of a raised step begins; a cleanup has none.
HandlerOf(kind, step) ==
  CASE kind = "install" /\ step = "switch" -> "discard"
    [] kind = "update" /\ step \in {"place", "switch"} -> "discard"
    [] kind = "update" /\ step \in {"mark", "record"} -> "unmark"
    [] kind = "rollback" /\ step = "retire marker" -> "restore"
    [] kind = "rollback" /\ step = "mark back" -> "remark"
    [] kind = "rollback" /\ step = "record" -> "unmark back"
    [] OTHER -> "raised"

UndoSteps == {"unmark", "unmark back", "remark", "restore", "discard"}

\* A step raises: an OSError, a refused recheck, a file that is there.
Raise(o) ==
  /\ work[o] # AtRest
  /\ work[o].step \notin UndoSteps
  /\ LET s == HandlerOf(work[o].kind, work[o].step)
     IN  IF s = "raised" THEN EndWork(o) ELSE GoOn(o, s)
  /\ UNCHANGED <<entry, bundle, tree, marker, updates, cleanups>>
  /\ Same(o)

\* Mutant: the launcher is not written back.
UnmarkAndDiscard(o) ==
  /\ AtWork(o, "unmark")
  /\ marker' = [marker EXCEPT ![work[o].of.retained] = NoPlan]
  /\ GoOn(o, "discard")
  /\ UNCHANGED <<entry, bundle, tree, updates, cleanups>>
  /\ Same(o)

\* An update's undo removes the marker, its own or one it found there.
Unmark(o) ==
  /\ AtWork(o, "unmark")
  /\ marker' = [marker EXCEPT ![work[o].of.retained] = NoPlan]
  /\ GoOn(o, "restore")
  /\ UNCHANGED <<entry, bundle, tree, updates, cleanups>>
  /\ Same(o)

UnmarkBack(o) ==
  /\ AtWork(o, "unmark back")
  /\ marker' = [marker EXCEPT ![work[o].of.active] = NoPlan]
  /\ GoOn(o, "remark")
  /\ UNCHANGED <<entry, bundle, tree, updates, cleanups>>
  /\ Same(o)

\* The marker a rollback removed is written again; an OSError is swallowed.
Remark(o) ==
  /\ AtWork(o, "remark")
  /\ \/ marker' = [marker EXCEPT ![work[o].of.retained] = work[o].of]
     \/ UNCHANGED marker
  /\ GoOn(o, "restore")
  /\ UNCHANGED <<entry, bundle, tree, updates, cleanups>>
  /\ Same(o)

AfterRestore(o) == IF work[o].kind = "update" THEN GoOn(o, "discard") ELSE EndWork(o)

\* The previous launcher is written again.
RestoreEntry(o) ==
  LET b == work[o].of
  IN  /\ AtWork(o, "restore")
      /\ entry' = IF work[o].kind = "update" THEN b.retained ELSE b.active
      /\ AfterRestore(o)
      /\ UNCHANGED <<bundle, tree, marker, updates, cleanups>>
      /\ Same(o)

\* An OSError of that write is swallowed.
LoseEntry(o) ==
  /\ AtWork(o, "restore")
  /\ unrestored' = TRUE
  /\ AfterRestore(o)
  /\ UNCHANGED <<entry, bundle, tree, marker, updates, cleanups, granted, uninstalled>>

\* shutil.rmtree(ignore_errors=True) of the candidate.
DiscardCandidate(o) ==
  /\ AtWork(o, "discard")
  /\ bundle' = [bundle EXCEPT ![work[o].of.active] = 0]
  /\ EndWork(o)
  /\ UNCHANGED <<entry, tree, marker, updates, cleanups>>
  /\ Same(o)

\* A removal that fails, or is killed, half way.
TearRemoval(o) ==
  LET b == work[o].of
  IN  /\ \/ AtWork(o, "remove bundle")
            /\ bundle[b.retained] # 0
            /\ bundle' = [bundle EXCEPT ![b.retained] = Torn]
            /\ UNCHANGED tree
         \/ AtWork(o, "discard")
            /\ bundle[b.active] # 0
            /\ bundle' = [bundle EXCEPT ![b.active] = Torn]
            /\ UNCHANGED tree
         \/ AtWork(o, "remove tree")
            /\ tree[BuildOf[b.retained]] # "absent"
            /\ tree' = [tree EXCEPT ![BuildOf[b.retained]] = "torn"]
            /\ UNCHANGED bundle
      /\ EndWork(o)
      /\ UNCHANGED <<entry, marker, updates, cleanups>>
      /\ Same(o)

\* The process is killed between two steps.
KillApp(o) ==
  /\ work[o] # AtRest
  /\ EndWork(o)
  /\ UNCHANGED <<entry, bundle, tree, marker, updates, cleanups>>
  /\ Same(o)

(***************************************************************************)
(* The package installer, which knows nothing of desktop bundles.          *)
(***************************************************************************)

\* AppInstallService.install, which promotes a staged tree.
InstallPackage(o, b) ==
  /\ work[o] = AtRest
  /\ tree[b] = "absent"
  /\ tree' = [tree EXCEPT ![b] = "whole"]
  /\ uninstalled' = uninstalled \ {b}
  /\ UNCHANGED <<entry, bundle, marker, updates, cleanups, work, granted, unrestored>>

\* AppUninstallService.uninstall, of any version.
UninstallPackage(o, b) ==
  /\ work[o] = AtRest
  /\ tree[b] = "whole"
  /\ \E left \in {"absent", "torn"} : tree' = [tree EXCEPT ![b] = left]
  /\ uninstalled' = uninstalled \union {b}
  /\ UNCHANGED <<entry, bundle, marker, updates, cleanups, work, granted, unrestored>>

DNext ==
  \E o \in AppOperator :
    \/ \E p \in DesktopPlan : InstallApp(o, p) \/ UpdateApp(o, p)
    \/ \E b \in updates : RollBackApp(o, b)
    \/ \E p \in DesktopPlan, t \in BOOLEAN : CleanUp(o, p, t)
    \/ \E j \in DOMAIN cleanups, a \in {"cancel", "complete", "finalize"} : Reconcile(o, j, a)
    \/ RevokeApp(o)
    \/ Place(o) \/ SwitchEntry(o) \/ MarkRetained(o) \/ RetireMarker(o)
    \/ MarkBack(o) \/ RecordSwitch(o) \/ WriteCleanupJournal(o)
    \/ RecheckCleanup(o) \/ RemoveBundle(o) \/ RemoveTree(o) \/ ObserveAgain(o)
    \/ WriteCleanupReceipt(o) \/ WriteCancellation(o) \/ WithdrawEntry(o)
    \/ Raise(o) \/ Unmark(o) \/ UnmarkBack(o) \/ Remark(o)
    \/ RestoreEntry(o) \/ LoseEntry(o) \/ DiscardCandidate(o)
    \/ TearRemoval(o) \/ KillApp(o)
    \/ \E b \in Build : InstallPackage(o, b) \/ UninstallPackage(o, b)

DSpec == DInit /\ [][DNext]_dVars

(***************************************************************************)
(* Properties.                                                             *)
(***************************************************************************)

\* The launcher never names a bundle that an update, rollback, cleanup or
\* reconciliation, interrupted anywhere, removed or left in part, nor one
\* whose build they removed.
ActiveStands ==
  ~unrestored /\ entry # NoPlan =>
    /\ bundle[entry] \in Nat \ {0}
    /\ Installed(entry) \/ BuildOf[entry] \in uninstalled

\* A cleanup that stopped anywhere but inside a removal can be reconciled,
\* as long as the version it left active is still launched.
InterruptedRecoverable ==
  \A j \in Unresolved :
    LET b == cleanups[j].of
    IN  /\ \A o \in AppOperator : work[o] = AtRest
        /\ ActiveVerified(b)
        /\ bundle[b.retained] # Torn
        /\ tree[BuildOf[b.retained]] # "torn"
        /\ BuildOf[b.retained] \notin uninstalled
        => Allowed(j) # {}
=============================================================================
