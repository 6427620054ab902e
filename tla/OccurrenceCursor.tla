-------------------------- MODULE OccurrenceCursor --------------------------
(***************************************************************************)
(* What a schedule promises about its occurrences, without workers, locks, *)
(* leases, claims or ledgers: a cursor moves forward over elapsed time, by *)
(* windows of bounded length, and whatever is done about an occurrence is  *)
(* done while it lies between the cursor and the clock: it is taken and    *)
(* started at most once, and the cursor passes no selected occurrence that *)
(* was neither taken nor refused.                                          *)
(***************************************************************************)
EXTENDS Naturals, Sequences

CONSTANTS Due,          \* due instants
          FirstCursors, \* where the cursor may begin
          MaxWindow     \* the longest window

VARIABLES latestOnly,   \* whether only the latest occurrence of a window counts
          now,          \* the clock
          cursors,      \* the cursor, with all the cursors before it
          taken,        \* occurrences taken for a start
          started,      \* occurrences whose run was started
          refused       \* occurrences refused by a policy

cVars == <<latestOnly, now, cursors, taken, started, refused>>

CInit ==
  /\ latestOnly \in BOOLEAN
  /\ now = 0
  /\ cursors = <<>>
  /\ taken = {}
  /\ started = {}
  /\ refused = {}

CursorNow == cursors[Len(cursors)]

\* The instants that the cursor may move to.
Windows == {c \in 0..now : CursorNow < c /\ c <= CursorNow + MaxWindow}

\* The occurrences something may be done about.
Open == IF cursors = <<>> THEN {} ELSE Due \intersect Windows

Selection(after, through) ==
  LET window == {o \in Due : after < o /\ o <= through}
  IN  IF latestOnly THEN {o \in window : \A p \in window : p <= o} ELSE window

PassTime ==
  /\ now' = now + 1
  /\ UNCHANGED <<latestOnly, cursors, taken, started, refused>>

Begin ==
  /\ cursors = <<>>
  /\ \E c \in FirstCursors : cursors' = <<c>>
  /\ UNCHANGED <<latestOnly, now, taken, started, refused>>

Take(o) ==
  /\ o \notin taken
  /\ taken' = taken \union {o}
  /\ UNCHANGED <<latestOnly, now, cursors, started, refused>>

Start(o) ==
  /\ o \in taken \ started
  /\ started' = started \union {o}
  /\ UNCHANGED <<latestOnly, now, cursors, taken, refused>>

Refuse(o) ==
  /\ refused' = refused \union {o}
  /\ UNCHANGED <<latestOnly, now, cursors, taken, started>>

\* The window is held: its occurrences stay open.
Hold ==
  /\ cursors # <<>>
  /\ cursors' = Append(cursors, CursorNow)
  /\ UNCHANGED <<latestOnly, now, taken, started, refused>>

Advance ==
  /\ cursors # <<>>
  /\ \E c \in Windows :
       /\ Selection(CursorNow, c) \subseteq taken \union refused
       /\ cursors' = Append(cursors, c)
  /\ UNCHANGED <<latestOnly, now, taken, started, refused>>

CNext ==
  \/ PassTime \/ Begin \/ Hold \/ Advance
  \/ \E o \in Open : Take(o) \/ Start(o) \/ Refuse(o)

CSpec == CInit /\ [][CNext]_cVars
=============================================================================
