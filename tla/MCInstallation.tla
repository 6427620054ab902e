--------------------------- MODULE MCInstallation ---------------------------
(* What an operator does to one installation: phi-trust or phi-app on the   *)
(* running system, or offline maintenance of its disk from live media.  The *)
(* three touch different files (maintenance leaves the home directory       *)
(* alone), so each behaviour is a session of one kind.                      *)
EXTENDS MCTrustOperator, OsUpdate, DesktopVersions

CONSTANTS t1, t2, a1, p1, p2, q1, b1, b2

VARIABLE session

TwoTerminals == {t1, t2}

\* Two desktop plans of one version and one of another.
TwoVersions == p1 :> b1 @@ p2 :> b1 @@ q1 :> b2

\* A session has only one of the three pairs at work, so one permutation
\* that swaps all of them is as good as every combination.
InstallationSymmetry ==
  {f \in Permutations({o1, o2, t1, t2, p1, p2}) :
     \/ \A x \in DOMAIN f : f[x] = x
     \/ /\ f[o1] = o2 /\ f[o2] = o1
        /\ f[t1] = t2 /\ f[t2] = t1
        /\ f[p1] = p2 /\ f[p2] = p1}

InstallationInit ==
  /\ TInit
  /\ OInit
  /\ DInit
  /\ \/ session = "trust" /\ active = FALSE
     \/ /\ session = "maintenance"
        /\ manifest.epoch.grants = {}
        /\ manifest.epoch.next = Never
     \/ /\ session = "apps"
        /\ active = FALSE
        /\ manifest.epoch.grants = {}
        /\ manifest.epoch.next = Never

\* Nobody has to run phi-app: with its bounds used up there may be no command left.
AppsAtRest == \A o \in AppOperator : work[o] = AtRest

InstallationNext ==
  /\ \/ session = "trust" /\ TNext /\ UNCHANGED <<oVars, dVars>>
     \/ session = "maintenance" /\ ONext /\ UNCHANGED <<tVars, dVars>>
     \/ session = "apps" /\ DNext /\ UNCHANGED <<tVars, oVars>>
     \/ session = "apps" /\ AppsAtRest /\ UNCHANGED <<tVars, oVars, dVars>>
  /\ UNCHANGED session

InstallationSpec ==
  InstallationInit /\ [][InstallationNext]_<<tVars, oVars, dVars, session>>
=============================================================================
