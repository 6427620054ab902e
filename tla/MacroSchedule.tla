---------------------------- MODULE MacroSchedule -----------------------------
(***************************************************************************)
(* One schedule service and the workers that drive it                      *)
(* (phios/macro_schedule_service.py, phios/macro_schedule_worker.py, and   *)
(* the window of phios/macro_schedule.py), over the start gate of          *)
(* MacroStart.                                                             *)
(*                                                                         *)
(* A worker process takes a flock, records a lease and an event, and then  *)
(* ticks: each tick reads the persistent cursor, admits the occurrences of *)
(* one bounded window through the gate, and appends the new cursor.  The   *)
(* operating system frees the lock of a process that dies; everything that *)
(* process had claimed or appended stays.                                  *)
(*                                                                         *)
(* An occurrence is its due instant; the request, run and trigger derived  *)
(* from it are that instant again (ScheduleService.request_for).           *)
(***************************************************************************)
EXTENDS MacroStart, FiniteSets

CONSTANTS
  NoWorker,      \* nobody holds the lock
  Due,           \* due instants of the schedule
  Policies,      \* what the policies callers pass in make of a request
  Misfires,      \* misfire policies of the schedule: TRUE is LATEST_ONLY,
                 \* FALSE is CATCH_UP
  MaxPerPoll,    \* schedule.max_occurrences_per_poll
  LeaseTime,     \* lease_seconds
  MaxTick,       \* max_tick_seconds
  FirstCursors,  \* cursors a service may be started with
  MaxTime,       \* bound on the clock
  MaxLeases, MaxEvents, MaxTicks, MaxStates \* bounds on the ledgers

ASSUME OccurrenceAssumption ==
  /\ Due \subseteq Nat
  /\ RunId = Due /\ Trigger = Due
  /\ Requests = {[run |-> o, trigger |-> o] : o \in Due}
  /\ NoWorker \notin Callers
ASSUME ScheduleAssumption ==
  /\ Policies \subseteq Verdicts \ {"mismatch"}
  /\ Misfires \subseteq BOOLEAN
  /\ {MaxPerPoll, LeaseTime, MaxTick} \subseteq Nat \ {0}
  /\ FirstCursors \subseteq Nat
  /\ {MaxTime, MaxLeases, MaxEvents, MaxTicks, MaxStates} \subseteq Nat

\* A row of schedule-service-state.jsonl, schedule-worker-leases.jsonl,
\* schedule-worker-events.jsonl and schedule-worker-ticks.jsonl.
StateRow == [sequence : Nat, cursor : Nat]
LeaseRow == [generation : Nat, renewal : Nat, until : Nat]
EventKinds == {"ACQUIRED", "ORPHAN_TAKEOVER", "ACQUIRE_HELD", "RENEWED", "RELEASED"}
TickRow == [index : Nat, before : Nat, after : Nat]

WorkerPhases ==
  {"out", "refused", "locked", "leased", "owner", "ticking", "polling",
   "reporting", "renewing", "releasing"}

\* A worker: the policy and lease it was given, and the locals of its tick:
\* cycle index, rows read by tick and by poll, end of the window, occurrences
\* still to admit, and whether an admission was held for a retry.
Worker ==
  [phase : WorkerPhases, policy : Verdicts, at : Nat, lease : LeaseRow,
   index : Nat, before : Nat, seen : Nat, through : Nat, todo : SUBSET Due,
   blocked : BOOLEAN]

VARIABLES
  latestOnly, \* misfire policy of the schedule, which is immutable
  clock,     \* wall clock
  policy,    \* the admission policy callers pass in
  states,    \* schedule-service-state.jsonl
  lock,      \* holder of the flock
  leases,    \* schedule-worker-leases.jsonl
  events,    \* schedule-worker-events.jsonl, kinds only
  ticks,     \* schedule-worker-ticks.jsonl
  rejected,  \* occurrences with a REJECTED receipt
  worker     \* per caller: its worker

scheduleVars ==
  <<latestOnly, clock, policy, states, lock, leases, events, ticks, rejected,
    worker>>
vars == <<startVars, scheduleVars>>

NoLease == [generation |-> 0, renewal |-> 0, until |-> 0]

OutWorker ==
  [phase |-> "out", policy |-> "disabled", at |-> 0, lease |-> NoLease,
   index |-> 0, before |-> 0, seen |-> 0, through |-> 0, todo |-> {},
   blocked |-> FALSE]

ScheduleTypeOK ==
  /\ StartTypeOK
  /\ latestOnly \in BOOLEAN
  /\ clock \in Nat
  /\ policy \in Verdicts
  /\ states \in Seq(StateRow)
  /\ lock \in Callers \union {NoWorker}
  /\ leases \in Seq(LeaseRow)
  /\ events \in Seq(EventKinds)
  /\ ticks \in Seq(TickRow)
  /\ rejected \subseteq Due
  /\ worker \in [Callers -> Worker]

Init ==
  /\ StartInit
  /\ latestOnly \in Misfires
  /\ clock = 0
  /\ policy \in Policies
  /\ states = <<>>
  /\ lock = NoWorker
  /\ leases = <<>>
  /\ events = <<>>
  /\ ticks = <<>>
  /\ rejected = {}
  /\ worker = [w \in Callers |-> OutWorker]

Last(s) == s[Len(s)]

Become(w, phase) == worker' = [worker EXCEPT ![w].phase = phase]

\* The call raises; the ScheduleWorker lives on and keeps the lock.
RaiseToOwner(w) == worker' = [worker EXCEPT ![w] =
  [OutWorker EXCEPT !.phase = "owner", !.policy = worker[w].policy,
                    !.lease = worker[w].lease]]

\* acquire raises: the lock's file object is dropped, which frees the flock.
RaiseFromAcquire(w) ==
  /\ worker' = [worker EXCEPT ![w] = OutWorker]
  /\ lock' = NoWorker

-----------------------------------------------------------------------------
(* Environment.                                                            *)

PassTime ==
  /\ clock < MaxTime
  /\ clock' = clock + 1
  /\ UNCHANGED <<startVars, latestOnly, policy, states, lock, leases, events, ticks,
                 rejected, worker>>

\* The operator revises the policy, under the same policy_id.
RevisePolicy ==
  /\ policy' \in Policies
  /\ UNCHANGED <<startVars, latestOnly, clock, states, lock, leases, events, ticks,
                 rejected, worker>>

\* ScheduleService.start
StartService ==
  /\ states = <<>>
  /\ \E cursor \in FirstCursors :
       states' = <<[sequence |-> 0, cursor |-> cursor]>>
  /\ UNCHANGED <<startVars, latestOnly, clock, policy, lock, leases, events, ticks,
                 rejected, worker>>

-----------------------------------------------------------------------------
(* ScheduleWorkerManager.acquire and ScheduleWorker.release                *)

\* ScheduleService.current answers: the chain validates and is not empty.
Readable ==
  /\ states # <<>>
  /\ \A i \in DOMAIN states : states[i].sequence = i - 1
  /\ \A i \in DOMAIN states : i > 1 => states[i - 1].cursor <= states[i].cursor

\* Mutant: the lock file is opened but not locked.
AcquireUnlocked(w) ==
  /\ worker[w].phase = "out"
  /\ Readable
  /\ Len(leases) < MaxLeases
  /\ lock' = w
  /\ worker' = [worker EXCEPT ![w].phase = "locked",
                              ![w].policy = policy, ![w].at = clock]
  /\ UNCHANGED <<startVars, latestOnly, clock, policy, states, leases, events, ticks,
                 rejected>>

\* The policy object given here is the worker's for its lifetime.
Acquire(w) ==
  /\ worker[w].phase = "out"
  /\ Readable
  /\ Len(leases) < MaxLeases
  /\ \/ /\ lock = NoWorker
        /\ lock' = w
        /\ worker' = [worker EXCEPT ![w].phase = "locked",
                                    ![w].policy = policy, ![w].at = clock]
     \/ /\ lock # NoWorker
        /\ Len(events) < MaxEvents
        /\ Become(w, "refused")
        /\ UNCHANGED lock
  /\ UNCHANGED <<startVars, latestOnly, clock, policy, states, leases, events,
                 ticks, rejected>>

\* The failed attempt is recorded after the lock was tried.
RecordRefusal(w) ==
  /\ worker[w].phase = "refused"
  /\ events' = Append(events, "ACQUIRE_HELD") \/ (CanFail /\ UNCHANGED events)
  /\ worker' = [worker EXCEPT ![w] = OutWorker]
  /\ UNCHANGED <<startVars, latestOnly, clock, policy, states, lock, leases, ticks,
                 rejected>>

RecordLease(w) ==
  LET previous == IF leases = <<>> THEN NoLease ELSE Last(leases)
      lease == [generation |-> previous.generation + 1, renewal |-> 0,
                until |-> worker[w].at + LeaseTime]
  IN  /\ worker[w].phase = "locked"
      /\ \/ /\ leases' = Append(leases, lease)
            /\ worker' = [worker EXCEPT ![w].phase = "leased", ![w].lease = lease]
            /\ UNCHANGED lock
         \/ CanFail /\ RaiseFromAcquire(w) /\ UNCHANGED leases
      /\ UNCHANGED <<startVars, latestOnly, clock, policy, states, events, ticks,
                     rejected>>

\* Mutant: only an ACQUIRED event is taken for an open predecessor.
PriorOpenIfAcquired == events # <<>> /\ Last(events) = "ACQUIRED"

\* The last event of the service is not RELEASED.
PriorOpen == events # <<>> /\ Last(events) # "RELEASED"

\* (The events are read just before the append; an ACQUIRE_HELD that comes
\* between the two changes neither this kind nor the next one.)
RecordOwnership(w) ==
  /\ worker[w].phase = "leased"
  /\ \/ /\ events' = Append(events, IF PriorOpen THEN "ORPHAN_TAKEOVER" ELSE "ACQUIRED")
        /\ RaiseToOwner(w)
        /\ UNCHANGED lock
     \/ CanFail /\ RaiseFromAcquire(w) /\ UNCHANGED events
  /\ UNCHANGED <<startVars, latestOnly, clock, policy, states, leases, ticks, rejected>>

\* release records first and unlocks then.
Release(w) ==
  /\ worker[w].phase = "owner"
  /\ events' = Append(events, "RELEASED")
  /\ Become(w, "releasing")
  /\ UNCHANGED <<startVars, latestOnly, clock, policy, states, lock, leases, ticks,
                 rejected>>

Unlock(w) ==
  /\ worker[w].phase = "releasing"
  /\ lock' = NoWorker
  /\ worker' = [worker EXCEPT ![w] = OutWorker]
  /\ UNCHANGED <<startVars, latestOnly, clock, policy, states, leases, events,
                 ticks, rejected>>

-----------------------------------------------------------------------------
(* ScheduleWorker.renew                                                    *)

Unexpired(w) == clock <= worker[w].lease.until

RenewLease(w) ==
  /\ worker[w].phase = "owner"
  /\ lock = w
  /\ Unexpired(w)
  /\ Len(leases) < MaxLeases
  /\ leases' = Append(leases, [worker[w].lease EXCEPT
                                 !.renewal = @ + 1, !.until = clock + LeaseTime])
  /\ Become(w, "renewing")
  /\ UNCHANGED <<startVars, latestOnly, clock, policy, states, lock, events, ticks,
                 rejected>>

\* The worker takes up the renewed lease only after the event was recorded.
RecordRenewal(w) ==
  /\ worker[w].phase = "renewing"
  /\ \/ /\ events' = Append(events, "RENEWED")
        /\ worker' = [worker EXCEPT ![w].phase = "owner", ![w].lease = Last(leases)]
     \/ CanFail /\ RaiseToOwner(w) /\ UNCHANGED events
  /\ UNCHANGED <<startVars, latestOnly, clock, policy, states, lock, leases, ticks,
                 rejected>>

-----------------------------------------------------------------------------
(* ScheduleWorker.tick and ScheduleService.poll                            *)

Cursor == Last(states).cursor

\* Mutant: the window is taken to have elapsed.
TickUnelapsed(w) ==
  /\ worker[w].phase = "owner"
  /\ lock = w
  /\ Unexpired(w)
  /\ Readable
  /\ Len(states) < MaxStates /\ Len(ticks) < MaxTicks
  /\ clock > Cursor
  /\ worker' = [worker EXCEPT ![w].phase = "ticking", ![w].index = Len(ticks),
                              ![w].before = Len(states), ![w].through = Cursor + MaxTick]
  /\ UNCHANGED <<startVars, latestOnly, clock, policy, states, lock, leases,
                 events, ticks, rejected>>

\* An expired lease, an unreadable chain or a gap in the cycle indices raises.
Tick(w) ==
  /\ worker[w].phase = "owner"
  /\ lock = w
  /\ Unexpired(w)
  /\ Readable
  /\ Len(states) < MaxStates /\ Len(ticks) < MaxTicks
  /\ \A i \in DOMAIN ticks : ticks[i].index = i - 1
  /\ LET end == Cursor + MaxTick
         begun == [worker[w] EXCEPT !.index = Len(ticks), !.before = Len(states)]
     IN  worker' = [worker EXCEPT ![w] =
           IF clock <= Cursor
           THEN [begun EXCEPT !.phase = "reporting", !.seen = 0]
           ELSE [begun EXCEPT !.phase = "ticking",
                              !.through = IF clock < end THEN clock ELSE end]]
  /\ UNCHANGED <<startVars, latestOnly, clock, policy, states, lock, leases,
                 events, ticks, rejected>>

\* WallClockScheduleProducer.poll over (after, through].
Selected(after, through) ==
  LET window == {o \in Due : after < o /\ o <= through}
  IN  IF latestOnly THEN {o \in window : \A p \in window : p <= o} ELSE window

\* poll reads the head again and selects the occurrences of the window; too
\* many of them, or a cursor beyond the window, raise.
Poll(w) ==
  LET due == Selected(Cursor, worker[w].through)
      fits == Cursor <= worker[w].through /\ Cardinality(due) <= MaxPerPoll
  IN  /\ worker[w].phase = "ticking"
      /\ \/ /\ Readable /\ fits
            /\ worker' = [worker EXCEPT ![w].phase = "polling",
                                        ![w].seen = Len(states),
                                        ![w].todo = due]
         \/ ~(Readable /\ fits) /\ RaiseToOwner(w)
      /\ UNCHANGED <<startVars, latestOnly, clock, policy, states, lock, leases, events,
                     ticks, rejected>>

Earliest(todo) == CHOOSE o \in todo : \A p \in todo : o <= p

\* _admit_trigger for the earliest occurrence that is left.
AdmitNext(w) ==
  LET o == Earliest(worker[w].todo)
  IN  /\ worker[w].phase = "polling"
      /\ worker[w].todo # {}
      /\ Admit(w, [run |-> o, trigger |-> o], worker[w].policy)
      /\ UNCHANGED scheduleVars

AdmissionStep(w) == Proceed(w) /\ UNCHANGED scheduleVars

Retryable == {"start_policy_disabled", "run_id_claimed"}

Collected(w) ==
  /\ op[w].phase = "answered"
  /\ worker' = [worker EXCEPT ![w].todo = @ \ {op[w].run},
                              ![w].blocked = @ \/ op[w].reason \in Retryable]
  /\ rejected' = IF op[w].reason = "rejected" THEN rejected \union {op[w].run}
                                              ELSE rejected

\* The admission answers, or its exception leaves the poll and the tick.
CollectAdmission(w) ==
  /\ \/ Collected(w)
     \/ op[w].phase = "raised" /\ RaiseToOwner(w) /\ UNCHANGED rejected
  /\ Collect(w)
  /\ UNCHANGED <<latestOnly, clock, policy, states, lock, leases, events, ticks>>

\* Mutant: the cursor moves past occurrences that are held for a retry.
CommitAlways(w) ==
  /\ worker[w].phase = "polling"
  /\ worker[w].todo = {} /\ op[w].phase = "idle"
  /\ states' = Append(states, [sequence |-> worker[w].seen,
                               cursor |-> worker[w].through])
  /\ Become(w, "reporting")
  /\ UNCHANGED <<startVars, latestOnly, clock, policy, lock, leases, events, ticks,
                 rejected>>

\* The poll receipt and the next state are appended; a held window keeps the
\* cursor the poll began with.
Commit(w) ==
  /\ worker[w].phase = "polling"
  /\ worker[w].todo = {} /\ op[w].phase = "idle"
  /\ \/ /\ states' = Append(states,
             [sequence |-> worker[w].seen,
              cursor |-> IF worker[w].blocked THEN states[worker[w].seen].cursor
                                              ELSE worker[w].through])
        /\ Become(w, "reporting")
     \/ CanFail /\ RaiseToOwner(w) /\ UNCHANGED states
  /\ UNCHANGED <<startVars, latestOnly, clock, policy, lock, leases, events, ticks,
                 rejected>>

\* Mutant: the state after the tick is taken for a zero-based row.
ReportZeroBased(w) ==
  /\ worker[w].phase = "reporting"
  /\ ticks' = Append(ticks, [index |-> worker[w].index,
                             before |-> worker[w].before,
                             after |-> worker[w].seen - 1])
  /\ RaiseToOwner(w)
  /\ UNCHANGED <<startVars, latestOnly, clock, policy, states, lock, leases,
                 events, rejected>>

\* The tick receipt binds the states before and after; seen = 0 is a NOOP.
Report(w) ==
  LET after == IF worker[w].seen = 0 THEN worker[w].before ELSE worker[w].seen + 1
  IN  /\ worker[w].phase = "reporting"
      /\ \/ ticks' = Append(ticks, [index |-> worker[w].index,
                                    before |-> worker[w].before, after |-> after])
         \/ CanFail /\ UNCHANGED ticks
      /\ RaiseToOwner(w)
      /\ UNCHANGED <<startVars, latestOnly, clock, policy, states, lock, leases,
                 events, rejected>>

\* The worker's process is killed; the operating system frees its lock.
Kill(w) ==
  /\ "crash" \in Faults
  /\ worker[w].phase # "out"
  /\ KillOperation(w)
  /\ worker' = [worker EXCEPT ![w] = OutWorker]
  /\ lock' = IF lock = w THEN NoWorker ELSE lock
  /\ UNCHANGED <<latestOnly, clock, policy, states, leases, events, ticks, rejected>>

-----------------------------------------------------------------------------
WorkerStep(w) ==
  \/ Acquire(w) \/ RecordRefusal(w) \/ RecordLease(w) \/ RecordOwnership(w)
  \/ Release(w) \/ Unlock(w) \/ RenewLease(w) \/ RecordRenewal(w)
  \/ Tick(w) \/ Poll(w) \/ AdmitNext(w) \/ AdmissionStep(w)
  \/ CollectAdmission(w) \/ Commit(w) \/ Report(w) \/ Kill(w)

Step == PassTime \/ RevisePolicy \/ StartService \/ \E w \in Callers : WorkerStep(w)

Spec == Init /\ [][Step]_vars

-----------------------------------------------------------------------------
(* What must hold.                                                         *)

\* Whatever workers come, die, fail and take over, the service's history stays
\* one chain: no two polls continue the same state, no two ticks take the same
\* cycle index (macro_schedule_worker.py holds the flock for both).
OneHistory ==
  /\ states # <<>> => Readable
  /\ \A i \in DOMAIN ticks : ticks[i].index = i - 1

\* Each tick receipt binds adjacent states, and later ticks continue where
\* earlier ones ended or, if a receipt was lost, after it (WORKER-002).
TicksBindStates ==
  \A i \in DOMAIN ticks :
    /\ ticks[i].after \in {ticks[i].before, ticks[i].before + 1}
    /\ i > 1 => ticks[i - 1].after <= ticks[i].before

\* The worker that may tick is the one the lease ledger names last, and no
\* other worker stands between acquire and release.
OwnerIsRecorded ==
  \A w \in Callers :
    worker[w].phase \notin {"out", "refused"} =>
      /\ lock = w
      /\ worker[w].phase # "locked" =>
           Last(leases).generation = worker[w].lease.generation

\* Each lease row continues the one before: a renewal, or a new generation.
LeaseLineage ==
  \A i \in DOMAIN leases : i > 1 =>
    \/ /\ leases[i].generation = leases[i - 1].generation
       /\ leases[i].renewal = leases[i - 1].renewal + 1
    \/ /\ leases[i].generation = leases[i - 1].generation + 1
       /\ leases[i].renewal = 0

Ownership == {"ACQUIRED", "ORPHAN_TAKEOVER", "RENEWED"}

\* The event at i finds a predecessor that owned the service and did not
\* release it.
FollowsOpenOwner(i) ==
  \E j \in 1..(i - 1) :
    /\ events[j] \in Ownership
    /\ \A k \in (j + 1)..(i - 1) : events[k] # "RELEASED"

\* An owner that died is never overlooked: ACQUIRED is recorded only when the
\* previous owner on record released the service.
OrphansReported ==
  \A i \in DOMAIN events : events[i] = "ACQUIRED" => ~FollowsOpenOwner(i)

\* The occurrences that the misfire policy selects in the windows the
\* persistent cursor has passed.
Passed ==
  UNION {Selected(states[i - 1].cursor, states[i].cursor) :
           i \in DOMAIN states \ {1}}

\* No occurrence is skipped: whatever the cursor has passed was claimed by an
\* admission, or refused by the policy.
NothingSkipped == Passed \subseteq triggerClaims \union rejected

\* MACRO_RUNTIME_V0.10: "HELD WINDOW != LOST WINDOW": whatever the cursor has
\* passed started its run, or was refused by the policy.
NothingLost ==
  \A o \in Passed :
    o \in rejected \/ Starts(o, journal[o]) # {}

-----------------------------------------------------------------------------
(* The abstract promise.                                                   *)

\* The cursors on record, and the occurrences whose run was started.
Cursors == [i \in DOMAIN states |-> states[i].cursor]
Started == {o \in Due : Starts(o, journal[o]) # {}}

Occurrences == INSTANCE OccurrenceCursor
                 WITH MaxWindow <- MaxTick,
                      now <- clock,
                      cursors <- Cursors,
                      taken <- triggerClaims,
                      started <- Started,
                      refused <- rejected

\* Through failed appends, kills and takeovers the schedule decides about each
\* occurrence while it lies between cursor and clock, and never afterwards; it
\* takes it once, starts it once, and passes none it has not settled.
ImplementsCursor == Occurrences!CSpec
=============================================================================
