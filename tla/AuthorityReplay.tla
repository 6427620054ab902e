--------------------------- MODULE AuthorityReplay ---------------------------
(***************************************************************************)
(* Authoritative grant and revoke events and the AuthorityEpoch that their *)
(* replay materializes at an instant (phios/authority_epoch.py and         *)
(* phios/mandala/authority_projection.py).  A history is a sequence of     *)
(* events; digests are the records they are taken of.                      *)
(***************************************************************************)
EXTENDS Naturals, Sequences

CONSTANTS Permission,   \* the frozen authority ceiling
          MaxTime       \* bound: the last instant of the wall clock

ASSUME MaxTimeAssumption == MaxTime \in Nat

Time == 0..MaxTime
Never == MaxTime + 1    \* no expiry, no known transition

Event == [kind : {"grant", "revoke"}, permission : Permission,
          at : Time, until : Time \union {Never}]

\* event.effective_at <= observed_at: the replay passes over later events.
Applied(e, t) == e.at <= t

\* Mutant: a revocation is taken up before it is effective.
SupersededEarly(last, e, t) ==
  LET others == {g \in last : g.permission # e.permission}
  IN  CASE e.kind = "revoke" -> others
        [] e.kind = "grant" /\ Applied(e, t) -> others \union {e}
        [] e.kind = "grant" /\ ~Applied(e, t) -> last

\* What one event makes of last_grant, the dictionary of the last grant per
\* permission: it is passed over, or takes the entry of its permission.
Superseded(last, e, t) ==
  LET others == {g \in last : g.permission # e.permission}
  IN  CASE ~Applied(e, t) -> last
        [] Applied(e, t) /\ e.kind = "revoke" -> others
        [] Applied(e, t) /\ e.kind = "grant" -> others \union {e}

\* last_grant after the replay of the whole history.
Replay(log, t) ==
  LET after[i \in 0..Len(log)] ==
        IF i = 0 THEN {} ELSE Superseded(after[i - 1], log[i], t)
  IN  after[Len(log)]

\* The i-th event is the grant that decides about its permission at t: no
\* applied event about the permission follows it.
LastGrant(log, i, t) ==
  /\ log[i].kind = "grant"
  /\ Applied(log[i], t)
  /\ \A j \in DOMAIN log :
       /\ j > i
       /\ log[j].permission = log[i].permission
       => ~Applied(log[j], t)

Unexpired(e, t) == t < e.until

ActiveGrants(log, t) ==
  {i \in DOMAIN log : LastGrant(log, i, t) /\ Unexpired(log[i], t)}

\* AuthorityProjection.project: the permissions held at t, as the code computes
\* them; Granted says which they are, and TrustOperatorProofs that both agree.
Projected(log, t) == {g.permission : g \in {e \in Replay(log, t) : Unexpired(e, t)}}

Granted(log, t) == {log[i].permission : i \in ActiveGrants(log, t)}

\* Mutant: expiries are not transitions.
TransitionsOfEvents(log, t) ==
  {log[i].at : i \in {j \in DOMAIN log : ~Applied(log[j], t)}}

\* _next_known_transition: the first instant after t at which the replay
\* changes without a new event.
Transitions(log, t) ==
  {log[i].at : i \in {j \in DOMAIN log : ~Applied(log[j], t)}}
  \union ({log[i].until : i \in ActiveGrants(log, t)} \ {Never})

NextTransition(log, t) ==
  IF Transitions(log, t) = {} THEN Never
  ELSE CHOOSE n \in Transitions(log, t) :
         \A m \in Transitions(log, t) : n <= m

\* AuthorityEpoch.build: the epoch a history materializes at t.
EpochOf(log, t) ==
  [at |-> t, log |-> log, grants |-> Granted(log, t),
   next |-> NextTransition(log, t)]

Epoch == [at : Time, log : Seq(Event), grants : SUBSET Permission,
          next : Time \union {Never}]
=============================================================================
