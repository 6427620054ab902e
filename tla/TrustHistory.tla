----------------------------- MODULE TrustHistory -----------------------------
(***************************************************************************)
(* What the trust operator promises, without locks, files or journals: a   *)
(* sealed manifest changes as a whole, its authority is always the replay  *)
(* of one append-only history, the history never shrinks and is never      *)
(* observed backwards, and only a grant adds a permission.                 *)
(***************************************************************************)
EXTENDS AuthorityReplay

CONSTANT Config     \* the static trust configurations of a manifest

VARIABLES config,   \* the static configuration
          epoch,    \* the AuthorityEpoch in force
          history   \* the authoritative events; << >> with adopted = FALSE
                    \* while no history is kept

hVars == <<config, epoch, history>>

NoHistory == [kept |-> FALSE, log |-> <<>>]
Kept(log) == [kept |-> TRUE, log |-> log]

HInit ==
  /\ config \in Config
  /\ epoch \in Epoch
  /\ history = NoHistory

\* A history is adopted: it grants what the epoch granted, and no more.
Adopt ==
  /\ ~history.kept
  /\ history' = Kept(history'.log)
  /\ history'.log \in Seq(Event)
  /\ epoch'.at >= epoch.at
  /\ epoch' = EpochOf(history'.log, epoch'.at)
  /\ epoch'.grants = epoch.grants
  /\ UNCHANGED config

\* One event is appended and the epoch is that of the longer history.
Record ==
  /\ history.kept
  /\ \E e \in Event :
       /\ e.at >= epoch.at
       /\ history' = Kept(Append(history.log, e))
       /\ epoch' = EpochOf(history'.log, e.at)
  /\ UNCHANGED config

\* The history is replayed at a later instant.
Observe ==
  /\ history.kept
  /\ \E t \in Time : t >= epoch.at /\ epoch' = EpochOf(history.log, t)
  /\ UNCHANGED <<config, history>>

Configure == config' \in Config /\ UNCHANGED <<epoch, history>>

HNext == Configure \/ Adopt \/ Record \/ Observe

HSpec == HInit /\ [][HNext]_hVars
=============================================================================
