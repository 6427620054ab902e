--------------------------- MODULE MCRecordChain ---------------------------
(* What the per-process locks of the Ghost-Walk services are worth: two      *)
(* handlers at the record chain, in one console or in two, or two callers of *)
(* one host at the leases.  The two halves touch different ledgers - a lease *)
(* call reads the chain as "bound" and "stale" - so each behaviour is a      *)
(* session of one of them.                                                   *)
EXTENDS MCLeaseHandoff, RecordChain

CONSTANTS s1, s2, k1, k2, open, closed

VARIABLE session

\* One environment admits every code for a request, one lists none.
TwoProfiles == open :> {k1, k2} @@ closed :> {}

\* Callers, consoles and codes may each be swapped.
ChainSymmetry ==
  {f \in Permutations({t1, t2, s1, s2, k1, k2}) :
     \A S \in {{t1, t2}, {s1, s2}, {k1, k2}} : {f[x] : x \in S} = S}

\* Restarts lead from the open profile to every other combination.  A session
\* of leases needs only one start of the record chain, and the other way round.
ChainInit ==
  /\ RInit /\ Init
  /\ profile = [s \in Console |-> open]
  /\ \/ session = "records" /\ ~manifest.epoch.granted
     \/ session = "leases" /\ \A g, h \in Handler : seat[g] = seat[h]

ChainNext ==
  /\ \/ session = "records" /\ RNext /\ UNCHANGED vars
     \/ session = "leases" /\ Next /\ UNCHANGED rVars
  /\ UNCHANGED session

ChainSpec ==
  ChainInit /\ [][ChainNext]_<<rVars, vars, session>>
=============================================================================
