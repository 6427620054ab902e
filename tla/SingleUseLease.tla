--------------------------- MODULE SingleUseLease ---------------------------
(***************************************************************************)
(* What the leased execution path promises about ActionLeases, and nothing *)
(* about how: a lease may be reserved, a reservation may be given back     *)
(* before the executor is entered, and the executor is entered at most     *)
(* once per lease, only under a reservation, which is then never given     *)
(* back (max_uses = 1, phios/action_lease.py).                             *)
(***************************************************************************)
EXTENDS Naturals, Sequences

CONSTANT LeaseId

VARIABLES reserved,   \* leases reserved for an execution attempt
          used        \* executor entries, in order

uVars == <<reserved, used>>

Spent(l) == \E i \in DOMAIN used : used[i] = l

UInit == reserved = {} /\ used = <<>>

Reserve(l) ==
  /\ l \notin reserved
  /\ ~Spent(l)
  /\ reserved' = reserved \union {l}
  /\ UNCHANGED used

GiveBack(l) ==
  /\ l \in reserved
  /\ ~Spent(l)
  /\ reserved' = reserved \ {l}
  /\ UNCHANGED used

EnterExecutor(l) ==
  /\ l \in reserved
  /\ ~Spent(l)
  /\ used' = Append(used, l)
  /\ UNCHANGED reserved

UNext == \E l \in LeaseId : Reserve(l) \/ GiveBack(l) \/ EnterExecutor(l)

USpec == UInit /\ [][UNext]_uVars
=============================================================================
