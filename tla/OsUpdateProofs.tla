--------------------------- MODULE OsUpdateProofs ---------------------------
(***************************************************************************)
(* Offline maintenance, for any releases, terminals and bounds, and any    *)
(* interleaving of terminals that have the disk mounted at once: what a    *)
(* switch that shares its mount with no other is sure of, and, as long as  *)
(* no switch has shared its mount, that no trust policy older than the     *)
(* newest returns and, if the operator heeds the manual, that roots and    *)
(* boot files stay matched.                                                *)
(***************************************************************************)
EXTENDS OsUpdate, TLAPS

(***************************************************************************)
(* Jobs: a reviewed plan until the disk is mounted to write, and then a    *)
(* checkpoint or the switch of root and boot files.                        *)
(***************************************************************************)

PlanSteps == {"checkpoint", "checked", "saved"}
CheckpointPlan ==
  [step : PlanSteps, op : {"checkpoint"}, release : Release, efi : Content,
   saved : Root \union {Absent}]
UpdatePlan ==
  [step : PlanSteps \union {"recheck"}, op : {"update"}, release : Release, efi : Content,
   saved : Root \union {Absent}, base : Nat, to : Release, trust : Nat]
RestorePlan == [step : {"restore"}, op : {"restore"}, from : Nat, next : Nat]

WrittenSteps == {"set aside", "activate", "copy", "verify"}
SwitchSteps == {"counter"} \union WrittenSteps
Switch == [step : SwitchSteps, op : {"update", "restore"}, efi : Content, target : Root]

Job == {NoJob} \union CheckpointPlan \union UpdatePlan \union RestorePlan \union Switch

JobTyped(x) ==
  /\ x.step = "restore" => x.from \in DOMAIN checkpoints
  /\ x.step = "saved" => x.saved \in Root

JobsTyped ==
  /\ job \in [Terminal -> Job]
  /\ \A t \in Terminal : JobTyped(job[t])

\* Whoever is past a recheck has the disk mounted; who has it alone has nobody
\* in conflict; and nobody ever shared it while nothing has crossed.
MountsSound ==
  /\ \A t \in Terminal : job[t].step \in SwitchSteps => Mounted(t)
  /\ \A t, u \in Terminal :
       u # t /\ mounts[t] = "alone" /\ Mounted(u) => ~Conflict(job[t], job[u])
  /\ ~crossed => \A t \in Terminal : mounts[t] # "shared"

OTyped == OsTypeOK /\ JobsTyped /\ MountsSound

(***************************************************************************)
(* What a switch that is alone may rely on, whatever happened before: its  *)
(* sequence is ahead of the counter until it writes it, and an update's    *)
(* base is in place until it sets it aside.                                *)
(***************************************************************************)

LoneOf(x) ==
  x.step \in SwitchSteps =>
    /\ x.step = "counter" => counter.sequence < x.target.sequence
    /\ x.op = "update" /\ x.step \in {"counter", "set aside"} =>
         root # Absent /\ root.sequence + 1 = x.target.sequence

LoneSound == \A t \in Terminal : mounts[t] = "alone" => LoneOf(job[t])

(***************************************************************************)
(* What holds while nothing has crossed.                                   *)
(***************************************************************************)

\* A plan that was overtaken has a base below the counter; one that was not
\* has seen the newest policy.  What the manual is heeded for: a plan's boot
\* files are those of its root.
PlanSound(x) ==
  /\ x \in UpdatePlan =>
       /\ x.base <= counter.sequence
       /\ x.trust <= trust
       /\ x.base = counter.sequence => newest <= x.trust
  /\ Heeds /\ x.step \in PlanSteps => x.efi = x.release
  /\ x.step = "saved" => x.saved.sequence <= counter.sequence

\* The counter has the sequence of the switch that wrote it, and its target is
\* active while the boot files are copied.
SwitchSound(x) ==
  x.step \in SwitchSteps =>
    /\ x.target.trust = 0 \/ (newest <= x.target.trust /\ x.target.trust <= trust)
    /\ Heeds => x.efi = x.target.release
    /\ x.step \in WrittenSteps => counter.sequence = x.target.sequence
    /\ x.step \in {"activate", "copy", "verify"} => unfinished
    /\ x.step \in {"copy", "verify"} => root = x.target

JobsSound == \A t \in Terminal : PlanSound(job[t]) /\ SwitchSound(job[t])

\* Once a switch has written the counter, every reviewed update is overtaken.
Overtaken ==
  \A t, u \in Terminal :
    job[t].step \in WrittenSteps /\ job[u] \in UpdatePlan => job[u].base < counter.sequence

\* No root, active or saved, is ahead of the counter.
CounterLeads ==
  /\ root # Absent => root.sequence <= counter.sequence
  /\ \A c \in DOMAIN checkpoints : checkpoints[c].root.sequence <= counter.sequence

RootTrusted == root # Absent => root.trust \in {0, newest}
SavedMatched == \A c \in DOMAIN checkpoints : checkpoints[c].efi = checkpoints[c].root.release
DiskMatched == ~unfinished => root # Absent /\ efi = root.release

DiskSound ==
  /\ CounterLeads
  /\ RootTrusted
  /\ newest <= trust
  /\ Heeds => SavedMatched /\ DiskMatched

Calm == JobsSound /\ Overtaken /\ DiskSound

OInv == OTyped /\ LoneSound /\ (~crossed => Calm)

(***************************************************************************)
(* Lemmas about jobs.                                                      *)
(***************************************************************************)

\* The kinds of jobs differ in their steps.
LEMMA JobKinds ==
  ASSUME NEW x \in Job
  PROVE  /\ x.step \in SwitchSteps => x \in Switch /\ x \notin UpdatePlan
         /\ x.step = "recheck" => x \in UpdatePlan
         /\ x.step \in PlanSteps => x \in CheckpointPlan \union UpdatePlan
         /\ x.step \in PlanSteps /\ x.op = "update" => x \in UpdatePlan
         /\ x.step \in PlanSteps /\ x.op # "update" => x \in CheckpointPlan
         /\ x.step = "restore" => x \in RestorePlan
         /\ x \in UpdatePlan => x.step \notin SwitchSteps
         /\ x.step \in SwitchSteps => Switches(x) /\ ~Checkpoints(x)
         /\ x = NoJob <=> x.step = "idle"
  <1>1. /\ x \in UpdatePlan => x.step \in PlanSteps \union {"recheck"} /\ x.op = "update"
        /\ x \in CheckpointPlan => x.step \in PlanSteps /\ x.op = "checkpoint"
        /\ x \in RestorePlan => x.step = "restore"
        /\ x \in Switch => x.step \in SwitchSteps
        /\ x = NoJob => x.step = "idle"
    BY DEF NoJob, CheckpointPlan, UpdatePlan, RestorePlan, Switch
  <1>2. \/ x = NoJob \/ x \in CheckpointPlan \/ x \in UpdatePlan \/ x \in RestorePlan
        \/ x \in Switch
    BY DEF Job
  <1> QED BY <1>1, <1>2 DEF SwitchSteps, WrittenSteps, PlanSteps, Switches, Checkpoints

\* A terminal that has the disk alone, and not for a checkpoint, is the only
\* one that switches.
LEMMA NoOther ==
  ASSUME OTyped, NEW t \in Terminal, mounts[t] = "alone", ~Checkpoints(job[t])
  PROVE  \A u \in Terminal : u # t => job[u].step \notin SwitchSteps
  <1> SUFFICES ASSUME NEW u \in Terminal, u # t, job[u].step \in SwitchSteps PROVE FALSE
    OBVIOUS
  <1>1. Switches(job[u]) /\ ~Checkpoints(job[u])
    BY JobKinds DEF OTyped, JobsTyped
  <1>2. Mounted(u)
    BY DEF OTyped, MountsSound
  <1>3. Conflict(job[t], job[u])
    BY <1>1 DEF Conflict
  <1> QED BY <1>2, <1>3 DEF OTyped, MountsSound

\* While nothing has crossed, whoever has the disk mounted has it alone.
LEMMA MountedAlone ==
  ASSUME OTyped, ~crossed, NEW t \in Terminal, Mounted(t)
  PROVE  mounts[t] = "alone"
  BY DEF OTyped, MountsSound, Mounted

\* What is known of a terminal that switches.
LEMMA Switching ==
  ASSUME OTyped, NEW t \in Terminal, job[t].step \in SwitchSteps
  PROVE  /\ job[t] \in Switch /\ Mounted(t) /\ Switches(job[t]) /\ ~Checkpoints(job[t])
         /\ job[t].target \in Root /\ job[t].efi \in Content
         /\ job[t].target.release \in Release /\ job[t].target.sequence \in Nat
         /\ job[t].target.trust \in Nat
         /\ counter.sequence \in Nat /\ newest \in Nat /\ trust \in Nat
         /\ root \in Root \union {Absent}
         /\ root # Absent => root.sequence \in Nat /\ root.trust \in Nat
  <1>1. job[t] \in Switch /\ Switches(job[t]) /\ ~Checkpoints(job[t]) /\ Mounted(t)
    BY JobKinds DEF OTyped, JobsTyped, MountsSound
  <1>2. job[t].target \in Root /\ job[t].efi \in Content
    BY <1>1 DEF Switch
  <1> QED BY <1>1, <1>2 DEF Root, OTyped, OsTypeOK, Counter

\* While nothing has crossed it is the only one.
LEMMA OneSwitch ==
  ASSUME OTyped, ~crossed, NEW t \in Terminal, job[t].step \in SwitchSteps
  PROVE  mounts[t] = "alone" /\ \A u \in Terminal : u # t => job[u].step \notin SwitchSteps
  BY Switching, MountedAlone, NoOther

\* The job that a step of a switch leaves.
LEMMA SwitchProceeds ==
  ASSUME OTyped, NEW t \in Terminal, job[t].step \in SwitchSteps, NEW s \in SwitchSteps,
         Proceed(t, s)
  PROVE  \E x \in Switch :
           /\ job' = [job EXCEPT ![t] = x] /\ x.step = s /\ x.op = job[t].op
           /\ x.efi = job[t].efi /\ x.target = job[t].target
  <1> DEFINE x == [job[t] EXCEPT !.step = s]
  <1>1. job[t] \in Switch
    BY Switching
  <1>2. /\ x \in Switch /\ x.step = s /\ x.op = job[t].op
        /\ x.efi = job[t].efi /\ x.target = job[t].target
    BY <1>1 DEF Switch
  <1>3. job' = [job EXCEPT ![t] = x]
    BY DEF Proceed
  <1> HIDE DEF x
  <1> QED BY <1>2, <1>3

(***************************************************************************)
(* A step of one job.                                                      *)
(***************************************************************************)

\* It either unmounts the disk, or the mount goes on for what it was for.
MountKept(t, x) ==
  \/ mounts' = [mounts EXCEPT ![t] = "out"] /\ x.step \notin SwitchSteps
  \/ /\ mounts' = mounts
     /\ x.step \in SwitchSteps => Mounted(t)
     /\ Switches(x) <=> Switches(job[t])
     /\ Checkpoints(x) <=> Checkpoints(job[t])

\* The jobs keep their types and the mounts their exclusions.
LEMMA TypedStep ==
  ASSUME OTyped, NEW t \in Terminal, NEW x \in Job, job' = [job EXCEPT ![t] = x],
         JobTyped(x)', OsTypeOK', DOMAIN checkpoints \subseteq DOMAIN checkpoints',
         crossed' = crossed, MountKept(t, x)
  PROVE  /\ OTyped'
         /\ job'[t] = x /\ \A u \in Terminal : u # t => job'[u] = job[u]
         /\ \A u \in Terminal : mounts'[u] = mounts[u] \/ (u = t /\ mounts'[u] = "out")
  <1>1. job' \in [Terminal -> Job] /\ job'[t] = x /\ \A u \in Terminal : u # t => job'[u] = job[u]
    BY DEF OTyped, JobsTyped
  <1>2. \A u \in Terminal : JobTyped(job[u])'
    <2>1. \A u \in Terminal : u # t => JobTyped(job[u])'
      BY <1>1 DEF OTyped, JobsTyped, JobTyped
    <2>2. JobTyped(job[t])'
      BY <1>1 DEF JobTyped
    <2> QED BY <2>1, <2>2
  <1>3. JobsTyped'
    BY <1>1, <1>2 DEF JobsTyped
  <1>4. \A u \in Terminal : mounts'[u] = mounts[u] \/ (u = t /\ mounts'[u] = "out")
    BY DEF MountKept, OTyped, OsTypeOK
  <1>5. MountsSound'
    <2>1. \A u \in Terminal : Mounted(u)' => Mounted(u) /\ mounts'[u] = mounts[u]
      BY <1>4 DEF Mounted
    <2>2. \A u \in Terminal : job'[u].step \in SwitchSteps => Mounted(u)'
      <3>1. ASSUME NEW u \in Terminal, u # t, job'[u].step \in SwitchSteps PROVE Mounted(u)'
        BY <1>1, <1>4, <3>1 DEF OTyped, MountsSound, Mounted
      <3>2. job'[t].step \in SwitchSteps => Mounted(t)'
        BY <1>1 DEF MountKept, Mounted
      <3> QED BY <3>1, <3>2
    <2>3. Mounted(t)' => /\ Switches(x) <=> Switches(job[t])
                         /\ Checkpoints(x) <=> Checkpoints(job[t])
      <3>1. CASE mounts' = [mounts EXCEPT ![t] = "out"]
        BY <3>1 DEF Mounted, OTyped, OsTypeOK
      <3>2. CASE mounts' # [mounts EXCEPT ![t] = "out"]
        BY <3>2 DEF MountKept
      <3> QED BY <3>1, <3>2
    <2>4. \A u \in Terminal :
            Mounted(u)' => /\ Switches(job'[u]) <=> Switches(job[u])
                           /\ Checkpoints(job'[u]) <=> Checkpoints(job[u])
      <3>1. ASSUME NEW u \in Terminal, Mounted(u)'
            PROVE  /\ Switches(job'[u]) <=> Switches(job[u])
                   /\ Checkpoints(job'[u]) <=> Checkpoints(job[u])
        <4>1. CASE u = t
          BY <1>1, <2>3, <3>1, <4>1
        <4>2. CASE u # t
          BY <1>1, <4>2
        <4> QED BY <4>1, <4>2
      <3> QED BY <3>1
    <2>5. ASSUME NEW u \in Terminal, NEW v \in Terminal,
                 v # u, mounts'[u] = "alone", Mounted(v)'
          PROVE  ~Conflict(job'[u], job'[v])
      <3>1. mounts[u] = "alone" /\ Mounted(v) /\ Mounted(u)'
        BY <1>4, <2>1, <2>5 DEF Mounted
      <3>2. ~Conflict(job[u], job[v])
        BY <2>5, <3>1 DEF OTyped, MountsSound
      <3> QED BY <2>4, <2>5, <3>1, <3>2 DEF Conflict
    <2>6. ~crossed' => \A u \in Terminal : mounts'[u] # "shared"
      BY <1>4 DEF OTyped, MountsSound
    <2> QED BY <2>2, <2>5, <2>6 DEF MountsSound
  <1> QED BY <1>1, <1>3, <1>4, <1>5 DEF OTyped

\* A step of one job leaves the others that are alone what they rely on: what
\* it changes of root and counter it changes as a switch.
LEMMA JobStep ==
  ASSUME OInv, NEW t \in Terminal, NEW x \in Job, job' = [job EXCEPT ![t] = x],
         JobTyped(x)', OsTypeOK', DOMAIN checkpoints \subseteq DOMAIN checkpoints',
         crossed' = crossed, MountKept(t, x),
         job[t].step \in SwitchSteps \/ UNCHANGED <<root, counter>>,
         mounts'[t] = "alone" => LoneOf(x)',
         ~crossed => Calm'
  PROVE  OInv'
  <1>1. /\ OTyped' /\ OTyped
        /\ job'[t] = x /\ \A u \in Terminal : u # t => job'[u] = job[u]
        /\ \A u \in Terminal : mounts'[u] = mounts[u] \/ (u = t /\ mounts'[u] = "out")
    BY TypedStep DEF OInv
  <1>2. ASSUME NEW u \in Terminal, mounts'[u] = "alone" PROVE LoneOf(job[u])'
    <2>1. CASE u = t
      BY <1>1, <1>2, <2>1 DEF LoneOf
    <2>2. CASE u # t
      <3>1. mounts[u] = "alone" /\ job'[u] = job[u] /\ LoneOf(job[u])
        BY <1>1, <1>2, <2>2 DEF OInv, LoneSound
      <3>2. CASE job[u].step \in SwitchSteps
        <4>1. job[t].step \notin SwitchSteps
          BY <1>1, <2>2, <3>1, <3>2, Switching, NoOther
        <4> QED BY <3>1, <4>1 DEF LoneOf
      <3>3. CASE job[u].step \notin SwitchSteps
        BY <3>1, <3>3 DEF LoneOf
      <3> QED BY <3>2, <3>3
    <2> QED BY <2>1, <2>2
  <1>3. LoneSound'
    BY <1>2 DEF LoneSound
  <1> QED BY <1>1, <1>3 DEF OInv

(***************************************************************************)
(* Steps while nothing has crossed.                                        *)
(***************************************************************************)

\* A plan stays sound while counter and policies only grow, if a newer policy
\* came with a transition that overtook it.
LEMMA PlanStands ==
  ASSUME OsTypeOK, OsTypeOK', NEW x \in Job, JobTyped(x), PlanSound(x),
         counter.sequence <= counter'.sequence, trust <= trust',
         newest' = newest \/ (x \in UpdatePlan => x.base < counter'.sequence)
  PROVE  PlanSound(x)'
  <1>1. counter.sequence \in Nat /\ counter'.sequence \in Nat /\ trust \in Nat /\ trust' \in Nat
        /\ newest \in Nat /\ newest' \in Nat
    BY DEF OsTypeOK, Counter
  <1>2. x \in UpdatePlan => x.base \in Nat /\ x.trust \in Nat
    BY DEF UpdatePlan
  <1>3. x.step = "saved" => x.saved.sequence \in Nat
    BY DEF JobTyped, Root
  <1> QED BY <1>1, <1>2, <1>3 DEF PlanSound

\* A switch stays sound while the disk does.
LEMMA SwitchStands ==
  ASSUME OsTypeOK, OsTypeOK', NEW x \in Job, SwitchSound(x), trust <= trust',
         UNCHANGED <<root, counter, newest, unfinished>>
  PROVE  SwitchSound(x)'
  <1>1. x.step \in SwitchSteps => x.target.trust \in Nat
    <2>1. x.step \in SwitchSteps => x \in Switch
      BY JobKinds
    <2> QED BY <2>1 DEF Switch, Root
  <1>2. PICK p \in Nat, q \in Nat : p = trust /\ q = trust' /\ p <= q
    BY DEF OsTypeOK
  <1>3. x.step \in SwitchSteps /\ x.target.trust <= trust => x.target.trust <= trust'
    BY <1>1, <1>2
  <1> QED BY <1>3 DEF SwitchSound

\* The others' jobs stand while the disk does.
LEMMA JobStands ==
  ASSUME OTyped, OsTypeOK', Calm, NEW u \in Terminal,
         UNCHANGED <<root, counter, newest, unfinished>>, trust <= trust', job'[u] = job[u]
  PROVE  PlanSound(job[u])' /\ SwitchSound(job[u])'
  <1>1. PICK y \in Job : y = job[u] /\ JobTyped(y) /\ PlanSound(y) /\ SwitchSound(y)
    BY DEF OTyped, JobsTyped, Calm, JobsSound
  <1>2. counter.sequence <= counter'.sequence /\ newest' = newest /\ OsTypeOK
    <2>1. counter.sequence \in Nat /\ counter' = counter
      BY DEF OTyped, OsTypeOK, Counter
    <2> QED BY <2>1 DEF OTyped
  <1>3. PlanSound(y)'
    BY <1>1, <1>2, PlanStands
  <1>4. SwitchSound(y)'
    BY <1>1, <1>2, SwitchStands
  <1> QED BY <1>1, <1>3, <1>4 DEF PlanSound, SwitchSound

\* A step of one job: the others stand by their own lights.
LEMMA CalmStep ==
  ASSUME OTyped, NEW t \in Terminal, NEW x \in Job, job' = [job EXCEPT ![t] = x],
         PlanSound(x)', SwitchSound(x)', Overtaken', DiskSound',
         \A u \in Terminal : u # t => PlanSound(job[u])' /\ SwitchSound(job[u])'
  PROVE  Calm'
  <1>1. job'[t] = x
    BY DEF OTyped, JobsTyped
  <1>2. PlanSound(job[t])' /\ SwitchSound(job[t])'
    BY <1>1 DEF PlanSound, SwitchSound
  <1> QED BY <1>2 DEF Calm, JobsSound

\* A step that leaves the disk alone leaves it sound.
LEMMA DiskStays ==
  ASSUME OTyped, Calm, OsTypeOK', trust <= trust',
         UNCHANGED <<root, counter, efi, checkpoints, newest, unfinished>>
  PROVE  DiskSound'
  <1>1. newest \in Nat /\ trust \in Nat /\ trust' \in Nat
    BY DEF OTyped, OsTypeOK
  <1> QED BY <1>1 DEF Calm, DiskSound, CounterLeads, RootTrusted, SavedMatched, DiskMatched

\* A step of one job that leaves the disk alone; one that begins to write the
\* counter or to plan an update is no case of it.
LEMMA CalmQuiet ==
  ASSUME OTyped, Calm, OsTypeOK', NEW t \in Terminal, NEW x \in Job,
         job' = [job EXCEPT ![t] = x],
         UNCHANGED <<root, counter, efi, checkpoints, trust, newest, unfinished>>,
         PlanSound(x), SwitchSound(x),
         x.step \notin WrittenSteps,
         \/ x \notin UpdatePlan
         \/ job[t] \in UpdatePlan /\ x.base = job[t].base
         \/ \A u \in Terminal : u # t => job[u].step \notin SwitchSteps
  PROVE  Calm'
  <1>1. /\ job'[t] = x /\ \A u \in Terminal : u # t => job'[u] = job[u]
    BY DEF OTyped, JobsTyped
  <1>2. trust <= trust'
    BY DEF OTyped, OsTypeOK
  <1>3. \A u \in Terminal : u # t => PlanSound(job[u])' /\ SwitchSound(job[u])'
    BY <1>1, <1>2, JobStands
  <1>4. PlanSound(x)' /\ SwitchSound(x)'
    BY DEF PlanSound, SwitchSound
  <1>5. Overtaken'
    BY <1>1 DEF Calm, Overtaken, SwitchSteps
  <1>6. DiskSound'
    BY <1>2, DiskStays
  <1> QED BY <1>3, <1>4, <1>5, <1>6, CalmStep

\* A step of one job that leaves the disk and the live environment alone.
LEMMA QuietStep ==
  ASSUME OInv, NEW t \in Terminal, NEW x \in Job, job' = [job EXCEPT ![t] = x],
         UNCHANGED <<oDisk, trust, active, unfinished, newest, crossed>>,
         JobTyped(x), MountKept(t, x), x.step \notin WrittenSteps,
         mounts[t] = "alone" /\ x.step = "counter" => LoneOf(x),
         ~crossed => /\ PlanSound(x) /\ SwitchSound(x)
                     /\ \/ x \notin UpdatePlan
                        \/ job[t] \in UpdatePlan /\ x.base = job[t].base
                        \/ \A u \in Terminal : u # t => job[u].step \notin SwitchSteps
  PROVE  OInv'
  <1>1. OTyped /\ OsTypeOK
    BY DEF OInv, OTyped
  <1>2. OsTypeOK'
    <2>1. mounts' \in [Terminal -> {"out", "looked", "alone", "shared"}]
      BY <1>1 DEF OsTypeOK, MountKept
    <2> QED BY <1>1, <2>1 DEF OsTypeOK, oDisk
  <1>3. JobTyped(x)'
    BY DEF JobTyped, oDisk
  <1>4. mounts'[t] = "alone" => LoneOf(x)'
    <2>1. ASSUME mounts'[t] = "alone", x.step \in SwitchSteps PROVE LoneOf(x)
      BY <1>1, <2>1 DEF MountKept, OsTypeOK, SwitchSteps
    <2> QED BY <2>1 DEF LoneOf, oDisk
  <1>5. ~crossed => Calm'
    BY <1>1, <1>2, CalmQuiet DEF OInv, oDisk
  <1> QED BY <1>2, <1>3, <1>4, <1>5, JobStep DEF oDisk

(***************************************************************************)
(* Plans.                                                                  *)
(***************************************************************************)

\* A plan is made from the disk as it is while the terminal has it mounted.
LEMMA ReviewKeeps ==
  ASSUME OInv, NEW t \in Terminal, NEW x \in Job, Review(t, x), JobTyped(x),
         x.step \notin SwitchSteps, ~crossed => PlanSound(x)
  PROVE  OInv'
  <1>1. /\ OTyped /\ job[t] = NoJob /\ Mounted(t) /\ job' = [job EXCEPT ![t] = x]
        /\ mounts' = [mounts EXCEPT ![t] = "out"]
        /\ UNCHANGED <<oDisk, trust, active, unfinished, newest, crossed>>
    BY DEF OInv, Review, UnmountDisk
  <1>2. ~crossed => \A u \in Terminal : u # t => job[u].step \notin SwitchSteps
    <2>1. ~Checkpoints(job[t])
      BY <1>1 DEF Checkpoints, NoJob
    <2> QED BY <1>1, <2>1, MountedAlone, NoOther
  <1>3. MountKept(t, x)
    BY <1>1 DEF MountKept
  <1>4. SwitchSound(x) /\ LoneOf(x) /\ x.step \notin WrittenSteps
    BY DEF SwitchSound, LoneOf, SwitchSteps
  <1> QED BY <1>1, <1>2, <1>3, <1>4, QuietStep

\* The sequence of a recovery is above the counter.
LEMMA RecoverySequenceAbove ==
  ASSUME OTyped, NEW c \in DOMAIN checkpoints
  PROVE  RecoverySequence(c) \in Nat /\ RecoverySequence(c) > counter.sequence
  <1>1. checkpoints[c] \in Checkpoint
    BY DEF OTyped, OsTypeOK
  <1>2. checkpoints[c].root \in Root
    BY <1>1 DEF Checkpoint
  <1>3. /\ checkpoints[c].root.sequence \in Nat /\ counter.sequence \in Nat
        /\ root # Absent => root.sequence \in Nat
    BY <1>2 DEF OTyped, OsTypeOK, Root, Counter
  <1> QED BY <1>3 DEF RecoverySequence, MaxOf

LEMMA PlansKeep ==
  ASSUME OInv, NEW t \in Terminal,
         \/ PlanCheckpoint(t)
         \/ \E r \in Release : PlanUpdate(t, r)
         \/ \E c \in DOMAIN checkpoints : PlanRestore(t, c)
  PROVE  OInv'
  <1>1. /\ OTyped /\ root \in Root \union {Absent} /\ efi \in Content
        /\ trust \in Nat /\ newest \in Nat /\ counter.sequence \in Nat
    BY DEF OInv, OTyped, OsTypeOK, Counter
  <1>2. ~crossed => newest <= trust
    BY DEF OInv, Calm, DiskSound
  <1>3. ~crossed /\ Heeds /\ ~unfinished => efi = root.release
    BY DEF OInv, Calm, DiskSound, DiskMatched
  <1>4. CASE PlanCheckpoint(t)
    <2>1. PICK x : x = [step |-> "checkpoint", op |-> "checkpoint",
                        release |-> root.release, efi |-> efi, saved |-> Absent]
      OBVIOUS
    <2>2. root.release \in Release
      BY <1>1, <1>4 DEF PlanCheckpoint, Maintainable, Root
    <2>3. /\ x \in CheckpointPlan /\ x.step = "checkpoint" /\ x.op = "checkpoint"
          /\ x.efi = efi /\ x.release = root.release
      BY <1>1, <2>1, <2>2 DEF CheckpointPlan, PlanSteps
    <2>4. x \in Job /\ x \notin UpdatePlan /\ x.step \notin SwitchSteps /\ JobTyped(x)
      BY <2>3 DEF Job, UpdatePlan, SwitchSteps, WrittenSteps, JobTyped
    <2>5. ~crossed => PlanSound(x)
      BY <1>3, <1>4, <2>3, <2>4 DEF PlanSound, PlanCheckpoint, Heeded
    <2>6. Review(t, x)
      BY <1>4, <2>1 DEF PlanCheckpoint
    <2> QED BY <2>4, <2>5, <2>6, ReviewKeeps
  <1>5. ASSUME NEW to \in Release, PlanUpdate(t, to) PROVE OInv'
    <2>1. PICK x : x = [step |-> "checkpoint", op |-> "update", release |-> root.release,
                        efi |-> efi, saved |-> Absent, base |-> root.sequence, to |-> to,
                        trust |-> trust]
      OBVIOUS
    <2>2. root.release \in Release /\ root.sequence \in Nat
      BY <1>1, <1>5 DEF PlanUpdate, Maintainable, Root
    <2>3. /\ x \in UpdatePlan /\ x.step = "checkpoint" /\ x.op = "update"
          /\ x.efi = efi /\ x.release = root.release /\ x.base = root.sequence
          /\ x.trust = trust
      BY <1>1, <2>1, <2>2 DEF UpdatePlan, PlanSteps
    <2>4. x \in Job /\ x.step \notin SwitchSteps /\ JobTyped(x)
      BY <2>3 DEF Job, SwitchSteps, WrittenSteps, JobTyped
    <2>5. root.sequence = counter.sequence /\ (Heeds => ~unfinished)
      BY <1>5 DEF PlanUpdate, InStep, Heeded
    <2>6. ~crossed => PlanSound(x)
      BY <1>1, <1>2, <1>3, <2>3, <2>5 DEF PlanSound
    <2>7. Review(t, x)
      BY <1>5, <2>1 DEF PlanUpdate
    <2> QED BY <2>4, <2>6, <2>7, ReviewKeeps
  <1>6. ASSUME NEW c \in DOMAIN checkpoints, PlanRestore(t, c) PROVE OInv'
    <2>1. PICK n \in Nat : n = RecoverySequence(c)
      BY <1>1, RecoverySequenceAbove
    <2>2. PICK x : x = [step |-> "restore", op |-> "restore", from |-> c, next |-> n]
      OBVIOUS
    <2>3. c \in Nat
      BY <1>1 DEF OTyped, OsTypeOK
    <2>4. x \in RestorePlan /\ x.step = "restore" /\ x.op = "restore" /\ x.from = c
      BY <2>2, <2>3 DEF RestorePlan
    <2>5. /\ x \in Job /\ x \notin UpdatePlan /\ x.step \notin SwitchSteps
          /\ x.step \notin PlanSteps /\ JobTyped(x)
      BY <2>4 DEF Job, UpdatePlan, SwitchSteps, WrittenSteps, PlanSteps, JobTyped
    <2>6. PlanSound(x)
      BY <2>4, <2>5 DEF PlanSound, PlanSteps
    <2>7. Review(t, x)
      BY <1>6, <2>1, <2>2 DEF PlanRestore
    <2> QED BY <2>5, <2>6, <2>7, ReviewKeeps
  <1> QED BY <1>4, <1>5, <1>6

(***************************************************************************)
(* Checkpoints.                                                            *)
(***************************************************************************)

\* The job that a step of a checkpoint leaves.
PlanAt(y, s, r) == [y EXCEPT !.step = s, !.saved = r]

LEMMA PlanProceeds ==
  ASSUME OTyped, NEW t \in Terminal, job[t].step \in PlanSteps,
         NEW s \in PlanSteps \union {"recheck"}, NEW r \in Root \union {Absent},
         s = "recheck" => job[t].op = "update",
         NEW x, x = PlanAt(job[t], s, r)
  PROVE  /\ x \in Job /\ x.step = s /\ x.op = job[t].op /\ x.saved = r
         /\ x.release = job[t].release /\ x.efi = job[t].efi
         /\ x \in UpdatePlan => /\ job[t] \in UpdatePlan
                                /\ x.base = job[t].base /\ x.trust = job[t].trust
  <1>1. job[t] \in Job
    BY DEF OTyped, JobsTyped
  <1>2. CASE job[t].op = "update"
    <2>1. job[t] \in UpdatePlan
      BY <1>1, <1>2, JobKinds
    <2>2. /\ x \in UpdatePlan /\ x.step = s /\ x.op = job[t].op /\ x.saved = r
          /\ x.release = job[t].release /\ x.efi = job[t].efi
          /\ x.base = job[t].base /\ x.trust = job[t].trust
      BY <2>1 DEF UpdatePlan, PlanAt
    <2> QED BY <2>1, <2>2 DEF Job
  <1>3. CASE job[t].op # "update"
    <2>1. job[t] \in CheckpointPlan
      BY <1>1, <1>3, JobKinds
    <2>2. /\ x \in CheckpointPlan /\ x.step = s /\ x.op = job[t].op /\ x.saved = r
          /\ x.release = job[t].release /\ x.efi = job[t].efi
      BY <1>3, <2>1 DEF CheckpointPlan, PlanAt
    <2>3. x \notin UpdatePlan
      BY <2>2 DEF CheckpointPlan, UpdatePlan
    <2> QED BY <2>2, <2>3 DEF Job
  <1> QED BY <1>2, <1>3

\* The recheck and the snapshot, which is of a root that the counter leads.
LEMMA SnapshotsKeep ==
  ASSUME OInv, NEW t \in Terminal, RecheckPlan(t) \/ SnapshotRoot(t)
  PROVE  OInv'
  <1>1. OTyped /\ job[t].step \in PlanSteps /\ job[t] \in Job
    BY DEF RecheckPlan, SnapshotRoot, AtStage, PlanSteps, OInv, OTyped, JobsTyped
  <1>2. /\ job[t] \in CheckpointPlan \union UpdatePlan
        /\ job[t].saved \in Root \union {Absent}
        /\ root \in Root \union {Absent}
        /\ job[t] = [job[t] EXCEPT !.saved = job[t].saved]
    BY <1>1, JobKinds DEF CheckpointPlan, UpdatePlan, OTyped, OsTypeOK
  <1>3. ~crossed => PlanSound(job[t])
    BY DEF OInv, Calm, JobsSound
  <1>4. CASE RecheckPlan(t)
    <2>1. PICK x : x = PlanAt(job[t], "checked", job[t].saved)
      OBVIOUS
    <2>2. /\ x \in Job /\ x.step = "checked" /\ x.op = job[t].op
          /\ x.release = job[t].release /\ x.efi = job[t].efi
          /\ x \in UpdatePlan => /\ job[t] \in UpdatePlan
                                 /\ x.base = job[t].base /\ x.trust = job[t].trust
      <3>1. "checked" \in PlanSteps \union {"recheck"} /\ "checked" # "recheck"
        BY DEF PlanSteps
      <3> QED BY <1>1, <1>2, <2>1, <3>1, PlanProceeds
    <2>3. x = [job[t] EXCEPT !.step = "checked"]
      BY <1>2, <2>1 DEF CheckpointPlan, UpdatePlan, PlanAt
    <2>4. /\ job' = [job EXCEPT ![t] = x] /\ Mounted(t) /\ mounts' = mounts
          /\ UNCHANGED <<oDisk, trust, active, unfinished, newest, crossed>>
      BY <1>4, <2>3 DEF RecheckPlan, Proceed
    <2>5. JobTyped(x) /\ x.step \notin WrittenSteps /\ x.step # "counter"
      BY <2>2 DEF JobTyped, WrittenSteps
    <2>6. MountKept(t, x)
      BY <1>1, <1>4, <2>2, <2>4 DEF MountKept, Switches, Checkpoints, NoJob, RecheckPlan, AtStage
    <2>7. ~crossed => PlanSound(x) /\ SwitchSound(x)
      BY <1>1, <1>3, <2>2 DEF PlanSound, SwitchSound, PlanSteps, SwitchSteps, WrittenSteps
    <2> QED BY <2>2, <2>4, <2>5, <2>6, <2>7, QuietStep
  <1>5. CASE SnapshotRoot(t)
    <2>1. PICK x : x = PlanAt(job[t], "saved", root)
      OBVIOUS
    <2>2. /\ x \in Job /\ x.step = "saved" /\ x.op = job[t].op /\ x.saved = root
          /\ x.release = job[t].release /\ x.efi = job[t].efi
          /\ x \in UpdatePlan => /\ job[t] \in UpdatePlan
                                 /\ x.base = job[t].base /\ x.trust = job[t].trust
      <3>1. "saved" \in PlanSteps \union {"recheck"} /\ "saved" # "recheck"
        BY DEF PlanSteps
      <3> QED BY <1>1, <1>2, <2>1, <3>1, PlanProceeds
    <2>3. /\ job' = [job EXCEPT ![t] = x] /\ mounts' = mounts /\ root # Absent
          /\ UNCHANGED <<oDisk, trust, active, unfinished, newest, crossed>>
      BY <1>5, <2>1 DEF SnapshotRoot, PlanAt
    <2>4. JobTyped(x) /\ x.step \notin WrittenSteps /\ x.step # "counter"
      BY <1>2, <2>2, <2>3 DEF JobTyped, WrittenSteps
    <2>5. MountKept(t, x)
      BY <1>1, <1>5, <2>2, <2>3
         DEF MountKept, Switches, Checkpoints, NoJob, SnapshotRoot, AtStage, SwitchSteps, WrittenSteps
    <2>6. ~crossed => PlanSound(x) /\ SwitchSound(x)
      <3>1. ~crossed => root.sequence <= counter.sequence
        BY <2>3 DEF OInv, Calm, DiskSound, CounterLeads
      <3> QED BY <1>1, <1>3, <2>2, <3>1 DEF PlanSound, SwitchSound, PlanSteps, SwitchSteps, WrittenSteps
    <2> QED BY <2>2, <2>3, <2>4, <2>5, <2>6, QuietStep
  <1> QED BY <1>4, <1>5

\* A row of the checkpoints is added, or none.
LEMMA CheckpointsGrow ==
  ASSUME OTyped, NEW row \in Checkpoint, NEW b \in BOOLEAN,
         checkpoints' = IF b THEN Append(checkpoints, row) ELSE checkpoints
  PROVE  /\ checkpoints' \in Seq(Checkpoint)
         /\ DOMAIN checkpoints \subseteq DOMAIN checkpoints'
         /\ \A c \in DOMAIN checkpoints' :
              \/ c \in DOMAIN checkpoints /\ checkpoints'[c] = checkpoints[c]
              \/ b /\ checkpoints'[c] = row
  <1>1. checkpoints \in Seq(Checkpoint)
    BY DEF OTyped, OsTypeOK
  <1>2. CASE b
    <2>1. PICK n \in Nat : n = Len(checkpoints)
      BY <1>1
    <2>2. /\ DOMAIN checkpoints = 1..n /\ DOMAIN checkpoints' = 1..(n + 1)
          /\ \A c \in 1..n : checkpoints'[c] = checkpoints[c]
          /\ checkpoints'[n + 1] = row /\ checkpoints' \in Seq(Checkpoint)
      BY <1>1, <1>2, <2>1
    <2>3. \A c \in 1..(n + 1) : c \in 1..n \/ c = n + 1
      OBVIOUS
    <2> QED BY <1>2, <2>2, <2>3
  <1>3. CASE ~b
    BY <1>1, <1>3
  <1> QED BY <1>2, <1>3

\* A checkpoint pairs the saved root with the reviewed boot files.
LEMMA TakeCheckpointKeeps ==
  ASSUME OInv, NEW t \in Terminal, TakeCheckpoint(t)
  PROVE  OInv'
  <1>1. /\ OTyped /\ job[t].step = "saved" /\ job[t].step \in PlanSteps
        /\ efi = job[t].efi
        /\ mounts' = [mounts EXCEPT ![t] = "out"]
        /\ UNCHANGED <<root, counter, efi, trust, active, unfinished, newest, crossed>>
    BY DEF OInv, TakeCheckpoint, WriteCheckpoint, UnmountDisk, AtStage, PlanSteps
  <1>2. PICK y \in Job : y = job[t] /\ y.saved \in Root /\ y.step = "saved" /\ y.efi = efi
    BY <1>1 DEF OTyped, JobsTyped, JobTyped
  <1>3. PICK row : row = [root |-> y.saved, efi |-> efi]
    OBVIOUS
  <1>4. row \in Checkpoint /\ row.root = y.saved /\ row.efi = efi
    BY <1>1, <1>2, <1>3 DEF OTyped, OsTypeOK, Checkpoint
  <1>5. PICK b \in BOOLEAN : b <=> y.saved.release = y.release
    OBVIOUS
  <1>6. /\ checkpoints' \in Seq(Checkpoint)
        /\ DOMAIN checkpoints \subseteq DOMAIN checkpoints'
        /\ \A c \in DOMAIN checkpoints' :
             \/ c \in DOMAIN checkpoints /\ checkpoints'[c] = checkpoints[c]
             \/ b /\ checkpoints'[c] = row
    <2>1. checkpoints' = IF b THEN Append(checkpoints, row) ELSE checkpoints
      BY <1>2, <1>3, <1>5 DEF TakeCheckpoint, WriteCheckpoint
    <2> QED BY <1>1, <1>4, <2>1, CheckpointsGrow
  <1>7. OsTypeOK'
    BY <1>1, <1>6 DEF OTyped, OsTypeOK
  <1>8. PICK x \in Job :
          /\ job' = [job EXCEPT ![t] = x]
          /\ x.step \in {"idle", "recheck"}
          /\ x \in UpdatePlan => y \in UpdatePlan /\ x.base = y.base /\ x.trust = y.trust
    <2>1. CASE y.op = "update"
      <3>1. PICK x : x = PlanAt(y, "recheck", Absent)
        OBVIOUS
      <3>2. /\ x \in Job /\ x.step = "recheck"
            /\ x \in UpdatePlan => y \in UpdatePlan /\ x.base = y.base /\ x.trust = y.trust
        <4>1. "recheck" \in PlanSteps \union {"recheck"} /\ Absent \in Root \union {Absent}
          OBVIOUS
        <4> QED BY <1>1, <1>2, <2>1, <3>1, <4>1, PlanProceeds
      <3>3. job' = [job EXCEPT ![t] = x]
        BY <1>2, <2>1, <3>1 DEF TakeCheckpoint, WriteCheckpoint, PlanAt
      <3> QED BY <3>2, <3>3
    <2>2. CASE y.op # "update"
      <3>1. job' = [job EXCEPT ![t] = NoJob]
        BY <1>2, <2>2 DEF TakeCheckpoint, WriteCheckpoint
      <3>2. NoJob \in Job /\ NoJob.step = "idle" /\ NoJob \notin UpdatePlan
        BY DEF Job, NoJob, UpdatePlan
      <3> QED BY <3>1, <3>2
    <2> QED BY <2>1, <2>2
  <1>9. x.step \notin SwitchSteps /\ x.step \notin WrittenSteps /\ x.step \notin PlanSteps
    BY <1>8 DEF SwitchSteps, WrittenSteps, PlanSteps
  <1>10. ~crossed => Calm'
    <2>1. SUFFICES ASSUME ~crossed PROVE Calm'
      OBVIOUS
    <2>2. Calm /\ PlanSound(y)
      BY <1>2, <2>1 DEF OInv, Calm, JobsSound
    <2>3. trust <= trust' /\ \A u \in Terminal : u # t => job'[u] = job[u]
      BY <1>1, <1>8 DEF OTyped, OsTypeOK, JobsTyped
    <2>4. PlanSound(x)' /\ SwitchSound(x)'
      BY <1>1, <1>8, <1>9, <2>2 DEF PlanSound, SwitchSound, PlanSteps
    <2>5. \A u \in Terminal : u # t => PlanSound(job[u])' /\ SwitchSound(job[u])'
      BY <1>1, <1>7, <2>2, <2>3, JobStands
    <2>6. Overtaken'
      <3>1. job'[t] = x
        BY <1>1, <1>8 DEF OTyped, JobsTyped
      <3> QED BY <1>1, <1>2, <1>8, <1>9, <2>2, <2>3, <3>1 DEF Calm, Overtaken
    <2>7. DiskSound'
      <3>1. CounterLeads'
        BY <1>1, <1>2, <1>4, <1>6, <2>2 DEF Calm, DiskSound, CounterLeads, PlanSound
      <3>2. Heeds => SavedMatched'
        BY <1>1, <1>2, <1>4, <1>5, <1>6, <2>2 DEF Calm, DiskSound, SavedMatched, PlanSound
      <3> QED BY <1>1, <2>2, <3>1, <3>2 DEF Calm, DiskSound, RootTrusted, DiskMatched
    <2> QED BY <1>1, <1>8, <2>4, <2>5, <2>6, <2>7, CalmStep
  <1>11. JobTyped(x)' /\ MountKept(t, x) /\ mounts'[t] # "alone"
    BY <1>1, <1>8, <1>9 DEF JobTyped, MountKept, OTyped, OsTypeOK
  <1> QED BY <1>1, <1>6, <1>7, <1>8, <1>10, <1>11, JobStep

(***************************************************************************)
(* Switches.                                                               *)
(***************************************************************************)

\* The record of a root.
LEMMA RootRecord ==
  ASSUME NEW a \in Release, NEW n \in Nat, NEW p \in Nat
  PROVE  \E r \in Root : /\ r = [release |-> a, sequence |-> n, trust |-> p]
                         /\ r.release = a /\ r.sequence = n /\ r.trust = p
  <1> DEFINE r == [release |-> a, sequence |-> n, trust |-> p]
  <1>1. r \in Root /\ r.release = a /\ r.sequence = n /\ r.trust = p
    BY DEF Root
  <1> HIDE DEF r
  <1>2. r = [release |-> a, sequence |-> n, trust |-> p]
    BY DEF r
  <1> QED BY <1>1, <1>2

\* The switch begins before its counter.
LEMMA StageKeeps ==
  ASSUME OInv, NEW t \in Terminal, NEW x \in Switch, job' = [job EXCEPT ![t] = x],
         UNCHANGED <<oDisk, trust, mounts, active, unfinished, newest, crossed>>,
         Mounted(t), Switches(job[t]), ~Checkpoints(job[t]), x.step = "counter",
         LoneOf(x),
         ~crossed => /\ x.target.trust = 0 \/ (newest <= x.target.trust /\ x.target.trust <= trust)
                     /\ Heeds => x.efi = x.target.release
  PROVE  OInv'
  <1>1. x \in Job /\ x \notin UpdatePlan
    BY JobKinds DEF Job, SwitchSteps
  <1>2. JobTyped(x) /\ x.step \notin WrittenSteps
    BY DEF JobTyped, WrittenSteps
  <1>3. MountKept(t, x)
    <2>1. Switches(x) /\ ~Checkpoints(x)
      BY <1>1, JobKinds DEF SwitchSteps
    <2> QED BY <2>1 DEF MountKept
  <1>4. ~crossed => PlanSound(x) /\ SwitchSound(x)
    BY <1>1, <1>2 DEF PlanSound, SwitchSound, PlanSteps, WrittenSteps
  <1> QED BY <1>1, <1>2, <1>3, <1>4, QuietStep

\* An update is staged on its own base, a restore above every sequence.
LEMMA StagesKeep ==
  ASSUME OInv, NEW t \in Terminal, StageUpdate(t) \/ StageRestore(t)
  PROVE  OInv'
  <1>1. PICK y \in Job :
          /\ y = job[t] /\ y.step \in {"recheck", "restore"} /\ JobTyped(y)
          /\ ~crossed => Calm /\ PlanSound(y)
    BY DEF StageUpdate, StageRestore, AtStage, OInv, OTyped, JobsTyped, Calm, JobsSound
  <1>2. /\ OTyped /\ Mounted(t) /\ Switches(job[t]) /\ ~Checkpoints(job[t])
        /\ UNCHANGED <<oDisk, trust, mounts, active, unfinished, newest, crossed>>
    BY <1>1 DEF StageUpdate, StageRestore, OInv, Switches, Checkpoints, NoJob
  <1>3. counter.sequence \in Nat /\ trust \in Nat /\ newest \in Nat
    BY <1>2 DEF OTyped, OsTypeOK, Counter
  <1>4. CASE StageUpdate(t)
    <2>1. /\ y \in UpdatePlan /\ root # Absent /\ y.base = root.sequence
          /\ root.sequence = counter.sequence
      BY <1>1, <1>4, JobKinds DEF StageUpdate, AtStage, Maintainable, InStep
    <2>2. /\ y.base \in Nat /\ y.trust \in Nat /\ y.to \in Release
          /\ ~crossed => newest <= y.trust /\ y.trust <= trust
      BY <1>1, <2>1 DEF PlanSound, UpdatePlan
    <2>3. PICK r \in Root : /\ r = [release |-> y.to, sequence |-> y.base + 1, trust |-> y.trust]
                            /\ r.release = y.to /\ r.sequence = y.base + 1 /\ r.trust = y.trust
      <3>1. y.base + 1 \in Nat
        BY <2>2
      <3> QED BY <2>2, <3>1, RootRecord
    <2>4. PICK x : x = [step |-> "counter", op |-> "update", efi |-> y.to, target |-> r]
      OBVIOUS
    <2>5. /\ x \in Switch /\ x.step = "counter" /\ x.op = "update" /\ x.efi = y.to
          /\ x.target = r
      BY <2>2, <2>4 DEF Switch, SwitchSteps, Content
    <2>6. job' = [job EXCEPT ![t] = x]
      BY <1>1, <1>4, <2>3, <2>4 DEF StageUpdate
    <2>7. counter.sequence < r.sequence /\ root.sequence + 1 = r.sequence
      BY <1>3, <2>1, <2>3
    <2>8. LoneOf(x)
      BY <2>1, <2>5, <2>7 DEF LoneOf
    <2> QED BY <1>2, <2>2, <2>3, <2>5, <2>6, <2>8, StageKeeps
  <1>5. CASE StageRestore(t)
    <2>1. y \in RestorePlan /\ y.from \in DOMAIN checkpoints /\ RecoverySequence(y.from) = y.next
      BY <1>1, <1>5, JobKinds DEF StageRestore, AtStage, JobTyped
    <2>2. checkpoints[y.from] \in Checkpoint
      BY <1>2, <2>1 DEF OTyped, OsTypeOK
    <2>3. PICK saved \in Checkpoint :
            /\ saved = checkpoints[y.from] /\ saved.root.release \in Release /\ saved.efi \in Content
            /\ ~crossed /\ Heeds => saved.efi = saved.root.release
      BY <1>1, <2>1, <2>2 DEF Checkpoint, Root, Calm, DiskSound, SavedMatched
    <2>4. y.next \in Nat /\ counter.sequence < y.next
      BY <1>2, <1>3, <2>1, RecoverySequenceAbove
    <2>5. PICK r \in Root : /\ r = [release |-> saved.root.release, sequence |-> y.next, trust |-> 0]
                            /\ r.release = saved.root.release /\ r.sequence = y.next /\ r.trust = 0
      <3>1. 0 \in Nat
        OBVIOUS
      <3> QED BY <2>3, <2>4, <3>1, RootRecord
    <2>6. PICK x : x = [step |-> "counter", op |-> "restore", efi |-> saved.efi, target |-> r]
      OBVIOUS
    <2>7. /\ x \in Switch /\ x.step = "counter" /\ x.op = "restore" /\ x.efi = saved.efi
          /\ x.target = r
      BY <2>3, <2>6 DEF Switch, SwitchSteps
    <2>8. job' = [job EXCEPT ![t] = x]
      BY <1>1, <1>5, <2>3, <2>5, <2>6 DEF StageRestore
    <2>9. LoneOf(x)
      BY <2>4, <2>5, <2>7 DEF LoneOf
    <2> QED BY <1>2, <2>3, <2>5, <2>7, <2>8, <2>9, StageKeeps
  <1> QED BY <1>4, <1>5

\* A step of the switch itself: while nothing has crossed it is the only one,
\* and every reviewed update is overtaken by now.
LEMMA SwitchStepKeeps ==
  ASSUME OInv, NEW t \in Terminal, job[t].step \in SwitchSteps, NEW x \in Switch,
         job' = [job EXCEPT ![t] = x], OsTypeOK',
         UNCHANGED <<checkpoints, trust, mounts, crossed>>,
         mounts[t] = "alone" => LoneOf(x)',
         ~crossed =>
           /\ counter.sequence <= counter'.sequence
           /\ \A u \in Terminal : job[u] \in UpdatePlan => job[u].base < counter'.sequence
           /\ SwitchSound(x)' /\ DiskSound'
  PROVE  OInv'
  <1>1. x.step \in SwitchSteps /\ x \in Job
    BY DEF Switch, Job
  <1>2. x \notin UpdatePlan /\ Switches(x) /\ ~Checkpoints(x)
    BY <1>1, JobKinds
  <1>3. JobTyped(x)' /\ x.step \notin PlanSteps
    BY <1>1 DEF JobTyped, SwitchSteps, WrittenSteps, PlanSteps
  <1>4. OTyped
    BY DEF OInv
  <1>5. MountKept(t, x)
    BY <1>2, <1>4, Switching DEF MountKept
  <1>6. ~crossed => Calm'
    <2>1. SUFFICES ASSUME ~crossed PROVE Calm'
      OBVIOUS
    <2>2. \A u \in Terminal : u # t => job'[u] = job[u] /\ job[u].step \notin SwitchSteps
      BY <1>4, <2>1, OneSwitch DEF OTyped, JobsTyped
    <2>3. ASSUME NEW u \in Terminal, u # t PROVE PlanSound(job[u])' /\ SwitchSound(job[u])'
      <3>1. PICK y \in Job : y = job[u] /\ JobTyped(y) /\ PlanSound(y)
        BY <2>1 DEF OInv, OTyped, JobsTyped, Calm, JobsSound
      <3>2. trust <= trust' /\ OsTypeOK
        BY <1>4 DEF OTyped, OsTypeOK
      <3>3. y \in UpdatePlan => y.base < counter'.sequence
        BY <2>1, <3>1
      <3>4. PlanSound(y)'
        BY <2>1, <3>1, <3>2, <3>3, PlanStands
      <3>5. job'[u] = y /\ y.step \notin SwitchSteps
        BY <2>2, <2>3, <3>1
      <3> QED BY <3>4, <3>5 DEF PlanSound, SwitchSound
    <2>4. PlanSound(x)'
      BY <1>2, <1>3 DEF PlanSound, PlanSteps
    <2>5. Overtaken'
      <3>1. job'[t] = x
        BY <1>4 DEF OTyped, JobsTyped
      <3> QED BY <1>2, <2>1, <2>2, <3>1 DEF Overtaken
    <2> QED BY <1>1, <1>4, <2>1, <2>3, <2>4, <2>5, CalmStep
  <1> QED BY <1>1, <1>3, <1>5, <1>6, JobStep

\* What a switch knows of itself.
LEMMA SwitchKnows ==
  ASSUME OInv, NEW t \in Terminal, job[t].step \in SwitchSteps
  PROVE  /\ OTyped
         /\ mounts[t] = "alone" => LoneOf(job[t])
         /\ ~crossed => mounts[t] = "alone" /\ SwitchSound(job[t]) /\ Calm
  BY OneSwitch DEF OInv, LoneSound, Calm, JobsSound

\* The counter comes first and leaves every root behind it.
LEMMA WriteCounterKeeps ==
  ASSUME OInv, NEW t \in Terminal, WriteCounter(t)
  PROVE  OInv' /\ (mounts[t] = "alone" => counter'.sequence > counter.sequence)
  <1>1. /\ job[t].step = "counter" /\ job[t].step \in SwitchSteps
        /\ counter' = [release |-> job[t].target.release, sequence |-> job[t].target.sequence]
        /\ Proceed(t, "set aside") /\ "set aside" \in SwitchSteps
        /\ UNCHANGED <<root, efi, checkpoints, trust, mounts, active, unfinished, newest, crossed>>
    BY DEF WriteCounter, AtStage, SwitchSteps, WrittenSteps
  <1>2. /\ OTyped /\ (mounts[t] = "alone" => LoneOf(job[t]))
        /\ ~crossed => mounts[t] = "alone" /\ SwitchSound(job[t]) /\ Calm
    BY <1>1, SwitchKnows
  <1>3. PICK x \in Switch :
          /\ job' = [job EXCEPT ![t] = x] /\ x.step = "set aside" /\ x.op = job[t].op
          /\ x.efi = job[t].efi /\ x.target = job[t].target
    BY <1>1, <1>2, SwitchProceeds
  <1>4. /\ x.target \in Root
        /\ x.target.release \in Release /\ x.target.sequence \in Nat /\ counter.sequence \in Nat
        /\ root # Absent => root.sequence \in Nat
    BY <1>1, <1>2, <1>3, Switching
  <1>5. /\ counter' \in Counter /\ counter'.sequence = x.target.sequence
        /\ mounts[t] = "alone" => counter.sequence < x.target.sequence
    BY <1>1, <1>2, <1>3, <1>4 DEF Counter, LoneOf
  <1>6. OsTypeOK'
    BY <1>1, <1>2, <1>5 DEF OTyped, OsTypeOK
  <1>7. mounts[t] = "alone" => LoneOf(x)'
    BY <1>1, <1>2, <1>3 DEF LoneOf
  <1>8. ASSUME ~crossed
        PROVE  /\ counter.sequence <= counter'.sequence
               /\ \A u \in Terminal : job[u] \in UpdatePlan => job[u].base < counter'.sequence
               /\ SwitchSound(x)' /\ DiskSound'
    <2>1. counter.sequence < counter'.sequence /\ counter'.sequence \in Nat
      BY <1>2, <1>4, <1>5, <1>8
    <2>2. \A u \in Terminal : job[u] \in UpdatePlan => job[u].base < counter'.sequence
      <3>1. \A u \in Terminal : job[u] \in UpdatePlan =>
              job[u].base \in Nat /\ job[u].base <= counter.sequence
        BY <1>2, <1>8 DEF Calm, JobsSound, PlanSound, UpdatePlan
      <3> QED BY <1>4, <2>1, <3>1
    <2>3. SwitchSound(x)'
      BY <1>1, <1>2, <1>3, <1>5, <1>8 DEF SwitchSound
    <2>4. CounterLeads'
      <3>1. \A c \in DOMAIN checkpoints : checkpoints[c].root.sequence \in Nat
        <4>1. \A c \in DOMAIN checkpoints : checkpoints[c] \in Checkpoint
          BY <1>2 DEF OTyped, OsTypeOK
        <4> QED BY <4>1 DEF Checkpoint, Root
      <3>2. /\ root # Absent => root.sequence <= counter.sequence
            /\ \A c \in DOMAIN checkpoints : checkpoints[c].root.sequence <= counter.sequence
        BY <1>2, <1>8 DEF Calm, DiskSound, CounterLeads
      <3>3. PICK m \in Nat, n \in Nat : m = counter.sequence /\ n = counter'.sequence /\ m < n
        BY <1>4, <2>1
      <3>4. /\ root # Absent => root.sequence <= n
            /\ \A c \in DOMAIN checkpoints : checkpoints[c].root.sequence <= n
        BY <1>4, <3>1, <3>2, <3>3
      <3> QED BY <1>1, <3>3, <3>4 DEF CounterLeads
    <2>5. DiskSound'
      BY <1>1, <1>2, <1>8, <2>4 DEF Calm, DiskSound, RootTrusted, SavedMatched, DiskMatched
    <2> QED BY <1>4, <2>1, <2>2, <2>3, <2>5
  <1>9. OInv'
    BY <1>1, <1>3, <1>6, <1>7, <1>8, SwitchStepKeeps
  <1> QED BY <1>4, <1>5, <1>9

\* The later steps leave the counter where it is: every reviewed update is
\* behind it.
LEMMA LaterStepKeeps ==
  ASSUME OInv, NEW t \in Terminal, job[t].step \in WrittenSteps, NEW x \in Switch,
         job' = [job EXCEPT ![t] = x], OsTypeOK',
         UNCHANGED <<counter, checkpoints, trust, mounts, crossed>>,
         x.step \in {"activate", "copy", "verify"},
         ~crossed => SwitchSound(x)' /\ DiskSound'
  PROVE  OInv'
  <1>1. job[t].step \in SwitchSteps /\ OTyped /\ (~crossed => Calm)
    BY DEF SwitchSteps, OInv
  <1>2. LoneOf(x)'
    BY DEF LoneOf
  <1>3. counter.sequence <= counter'.sequence
    BY <1>1 DEF OTyped, OsTypeOK, Counter
  <1>4. ~crossed =>
          \A u \in Terminal : job[u] \in UpdatePlan => job[u].base < counter'.sequence
    BY <1>1 DEF Calm, Overtaken
  <1> QED BY <1>1, <1>2, <1>3, <1>4, SwitchStepKeeps

\* The steps between the counter and the verified copy.
LEMMA SetAsideKeeps ==
  ASSUME OInv, NEW t \in Terminal, SetAside(t)
  PROVE  OInv'
  <1>1. /\ job[t].step = "set aside" /\ job[t].step \in SwitchSteps /\ job[t].step \in WrittenSteps
        /\ root' = Absent /\ unfinished' = TRUE
        /\ Proceed(t, "activate") /\ "activate" \in SwitchSteps
        /\ UNCHANGED <<counter, efi, checkpoints, trust, mounts, active, newest, crossed>>
    BY DEF SetAside, AtStage, SwitchSteps, WrittenSteps
  <1>2. OTyped /\ (~crossed => SwitchSound(job[t]) /\ Calm)
    BY <1>1, SwitchKnows
  <1>3. PICK x \in Switch :
          /\ job' = [job EXCEPT ![t] = x] /\ x.step = "activate" /\ x.op = job[t].op
          /\ x.efi = job[t].efi /\ x.target = job[t].target
    BY <1>1, <1>2, SwitchProceeds
  <1>4. OsTypeOK'
    BY <1>1, <1>2 DEF OTyped, OsTypeOK
  <1>5. ~crossed => SwitchSound(x)'
    BY <1>1, <1>2, <1>3 DEF SwitchSound
  <1>6. ~crossed => DiskSound'
    BY <1>1, <1>2 DEF Calm, DiskSound, CounterLeads, RootTrusted, SavedMatched, DiskMatched
  <1> QED BY <1>1, <1>3, <1>4, <1>5, <1>6, LaterStepKeeps

LEMMA ActivateKeeps ==
  ASSUME OInv, NEW t \in Terminal, Activate(t)
  PROVE  OInv'
  <1>1. /\ job[t].step = "activate" /\ job[t].step \in SwitchSteps /\ job[t].step \in WrittenSteps
        /\ root' = job[t].target /\ newest' = MaxOf(newest, job[t].target.trust)
        /\ Proceed(t, "copy") /\ "copy" \in SwitchSteps
        /\ UNCHANGED <<counter, efi, checkpoints, trust, mounts, active, unfinished, crossed>>
    BY DEF Activate, AtStage, SwitchSteps, WrittenSteps
  <1>2. OTyped /\ (~crossed => SwitchSound(job[t]) /\ Calm)
    BY <1>1, SwitchKnows
  <1>3. PICK x \in Switch :
          /\ job' = [job EXCEPT ![t] = x] /\ x.step = "copy" /\ x.op = job[t].op
          /\ x.efi = job[t].efi /\ x.target = job[t].target
    BY <1>1, <1>2, SwitchProceeds
  <1>4. /\ x.target \in Root /\ counter.sequence \in Nat /\ x.target.sequence \in Nat
        /\ x.target.trust \in Nat /\ newest \in Nat /\ trust \in Nat
    BY <1>1, <1>2, <1>3, Switching
  <1>5. newest' \in Nat
    BY <1>1, <1>3, <1>4 DEF MaxOf
  <1>6. OsTypeOK'
    BY <1>1, <1>2, <1>3, <1>4, <1>5 DEF OTyped, OsTypeOK
  <1>7. ASSUME ~crossed PROVE SwitchSound(x)' /\ DiskSound'
    <2>1. newest <= trust /\ unfinished /\ counter.sequence = x.target.sequence
      BY <1>1, <1>2, <1>3, <1>7 DEF Calm, DiskSound, SwitchSound
    <2>2. /\ newest' <= trust
          /\ x.target.trust = 0 \/ (newest' = x.target.trust /\ x.target.trust <= trust)
      BY <1>1, <1>2, <1>3, <1>4, <1>7, <2>1 DEF MaxOf, SwitchSound
    <2>3. SwitchSound(x)'
      <3>1. x.target.trust = 0 \/ (newest' <= x.target.trust /\ x.target.trust <= trust')
        BY <1>1, <1>4, <2>2
      <3> QED BY <1>1, <1>2, <1>3, <1>7, <2>1, <3>1 DEF SwitchSound
    <2>4. CounterLeads'
      BY <1>1, <1>2, <1>3, <1>4, <1>7, <2>1 DEF Calm, DiskSound, CounterLeads
    <2>5. RootTrusted'
      BY <1>1, <1>3, <2>2 DEF RootTrusted
    <2> QED BY <1>1, <1>2, <1>7, <2>1, <2>2, <2>3, <2>4, <2>5
            DEF Calm, DiskSound, SavedMatched, DiskMatched
  <1> QED BY <1>1, <1>3, <1>6, <1>7, LaterStepKeeps

LEMMA BeginCopyKeeps ==
  ASSUME OInv, NEW t \in Terminal, BeginCopy(t)
  PROVE  OInv'
  <1>1. /\ job[t].step \in {"copy", "verify"}
        /\ job[t].step \in SwitchSteps /\ job[t].step \in WrittenSteps
        /\ efi' = Mixed
        /\ Proceed(t, "verify") /\ "verify" \in SwitchSteps
        /\ UNCHANGED <<root, counter, checkpoints, trust, mounts, active, unfinished, newest, crossed>>
    BY DEF BeginCopy, AtStage, SwitchSteps, WrittenSteps
  <1>2. OTyped /\ (~crossed => SwitchSound(job[t]) /\ Calm)
    BY <1>1, SwitchKnows
  <1>3. PICK x \in Switch :
          /\ job' = [job EXCEPT ![t] = x] /\ x.step = "verify" /\ x.op = job[t].op
          /\ x.efi = job[t].efi /\ x.target = job[t].target
    BY <1>1, <1>2, SwitchProceeds
  <1>4. OsTypeOK'
    BY <1>1, <1>2 DEF OTyped, OsTypeOK, Content
  <1>5. ~crossed => unfinished
    BY <1>1, <1>2 DEF SwitchSound
  <1>6. ~crossed => SwitchSound(x)'
    BY <1>1, <1>2, <1>3, <1>5 DEF SwitchSound
  <1>7. ~crossed => DiskSound'
    BY <1>1, <1>2, <1>5 DEF Calm, DiskSound, CounterLeads, RootTrusted, SavedMatched, DiskMatched
  <1> QED BY <1>1, <1>3, <1>4, <1>6, <1>7, LaterStepKeeps

(***************************************************************************)
(* Jobs that end, mounts, power, and the live environment.                 *)
(***************************************************************************)

\* No job claims nothing.
LEMMA NoJobSound ==
  /\ NoJob \in Job /\ NoJob \notin UpdatePlan /\ NoJob.step = "idle"
  /\ NoJob.step \notin SwitchSteps /\ NoJob.step \notin WrittenSteps
  /\ JobTyped(NoJob) /\ LoneOf(NoJob) /\ PlanSound(NoJob) /\ SwitchSound(NoJob)
  <1>1. /\ NoJob \in Job /\ NoJob \notin UpdatePlan /\ NoJob.step = "idle"
        /\ NoJob.step \notin SwitchSteps /\ NoJob.step \notin PlanSteps
        /\ NoJob.step \notin WrittenSteps
    BY DEF NoJob, Job, UpdatePlan, SwitchSteps, WrittenSteps, PlanSteps
  <1> QED BY <1>1 DEF JobTyped, LoneOf, PlanSound, SwitchSound

\* The verified copy matches the root that was activated.
LEMMA EndCopyKeeps ==
  ASSUME OInv, NEW t \in Terminal, EndCopy(t)
  PROVE  OInv'
  <1>1. /\ job[t].step = "verify" /\ job[t].step \in SwitchSteps
        /\ efi' = job[t].efi
        /\ unfinished' = \E u \in Terminal \ {t} : job[u].step \in {"activate", "copy", "verify"}
        /\ mounts' = [mounts EXCEPT ![t] = "out"]
        /\ job' = [job EXCEPT ![t] = NoJob]
        /\ UNCHANGED <<root, counter, checkpoints, trust, active, newest, crossed>>
    BY DEF EndCopy, EndSwitch, Finish, UnmountDisk, AtStage, SwitchSteps, WrittenSteps
  <1>2. OTyped /\ (~crossed => SwitchSound(job[t]) /\ Calm)
    BY <1>1, SwitchKnows
  <1>3. job[t].target \in Root /\ job[t].efi \in Content
    BY <1>1, <1>2, Switching
  <1>4. OsTypeOK'
    <2>1. unfinished' \in BOOLEAN
      BY <1>1
    <2> QED BY <1>1, <1>2, <1>3, <2>1 DEF OTyped, OsTypeOK
  <1>5. ~crossed => Calm'
    <2>1. SUFFICES ASSUME ~crossed PROVE Calm'
      OBVIOUS
    <2>2. \A u \in Terminal : u # t => job'[u] = job[u] /\ job[u].step \notin SwitchSteps
      BY <1>1, <1>2, <2>1, OneSwitch DEF OTyped, JobsTyped
    <2>3. PlanSound(NoJob)' /\ SwitchSound(NoJob)' /\ NoJob.step \notin WrittenSteps
      BY NoJobSound DEF PlanSound, SwitchSound, SwitchSteps, WrittenSteps, PlanSteps
    <2>4. \A u \in Terminal : u # t => PlanSound(job[u])' /\ SwitchSound(job[u])'
      BY <1>1, <1>2, <2>1, <2>2 DEF Calm, JobsSound, PlanSound, SwitchSound
    <2>5. Overtaken'
      <3>1. job'[t] = NoJob
        BY <1>1, <1>2 DEF OTyped, JobsTyped
      <3> QED BY <2>2, <2>3, <3>1 DEF Overtaken, SwitchSteps
    <2>6. root # Absent /\ (Heeds => efi' = root.release)
      BY <1>1, <1>2, <1>3, <2>1, AbsentIsNoRoot DEF SwitchSound
    <2>7. DiskSound'
      BY <1>1, <1>2, <2>1, <2>6 DEF Calm, DiskSound, CounterLeads, RootTrusted, SavedMatched, DiskMatched
    <2> QED BY <1>1, <1>2, <2>3, <2>4, <2>5, <2>7, NoJobSound, CalmStep
  <1>6. /\ JobTyped(NoJob)' /\ MountKept(t, NoJob) /\ mounts'[t] # "alone"
    BY <1>1, <1>2, NoJobSound DEF JobTyped, MountKept, OTyped, OsTypeOK
  <1> QED BY <1>1, <1>4, <1>5, <1>6, NoJobSound, JobStep

\* A job is given up.
LEMMA AbandonKeeps ==
  ASSUME OInv, NEW t \in Terminal, Abandon(t)
  PROVE  OInv'
  <1>1. /\ job' = [job EXCEPT ![t] = NoJob] /\ mounts' = [mounts EXCEPT ![t] = "out"]
        /\ UNCHANGED <<oDisk, trust, active, unfinished, newest, crossed>>
    BY DEF Abandon, Finish, UnmountDisk
  <1>2. MountKept(t, NoJob)
    BY <1>1, NoJobSound DEF MountKept
  <1> QED BY <1>1, <1>2, NoJobSound, QuietStep

\* A conflict is one for both.
LEMMA ConflictOfBoth ==
  ASSUME NEW x, NEW y
  PROVE  Conflict(x, y) <=> Conflict(y, x)
  BY DEF Conflict

\* What somebody else mounts changes nothing for a switch that stays alone.
LEMMA MountsMove ==
  ASSUME OInv, UNCHANGED <<oDisk, trust, job, active, unfinished, newest>>,
         mounts' \in [Terminal -> {"out", "looked", "alone", "shared"}],
         crossed' \in BOOLEAN, crossed => crossed', MountsSound',
         \A u \in Terminal :
           mounts'[u] = "alone" => mounts[u] = "alone" \/ job[u].step \notin SwitchSteps
  PROVE  OInv'
  <1>1. OsTypeOK'
    BY DEF OInv, OTyped, OsTypeOK, oDisk
  <1>2. JobsTyped'
    BY DEF OInv, OTyped, JobsTyped, JobTyped, oDisk
  <1>3. LoneSound'
    BY DEF OInv, LoneSound, LoneOf, oDisk
  <1>4. ~crossed' => Calm'
    BY DEF OInv, Calm, JobsSound, PlanSound, SwitchSound, Overtaken, DiskSound, CounterLeads,
           RootTrusted, SavedMatched, DiskMatched, oDisk
  <1> QED BY <1>1, <1>2, <1>3, <1>4 DEF OInv, OTyped

LEMMA LookAtDiskKeeps ==
  ASSUME OInv, NEW t \in Terminal, LookAtDisk(t)
  PROVE  OInv'
  <1>1. /\ mounts[t] = "out" /\ mounts' = [mounts EXCEPT ![t] = "looked"]
        /\ UNCHANGED <<oDisk, trust, job, active, unfinished, newest, crossed>>
    BY DEF LookAtDisk
  <1>2. /\ mounts \in [Terminal -> {"out", "looked", "alone", "shared"}]
        /\ crossed \in BOOLEAN /\ MountsSound
    BY DEF OInv, OTyped, OsTypeOK
  <1>3. \A u \in Terminal : (Mounted(u)' <=> Mounted(u)) /\ (Mounted(u) => mounts'[u] = mounts[u])
    BY <1>1, <1>2 DEF Mounted
  <1>4. MountsSound'
    <2>1. \A u \in Terminal : job'[u].step \in SwitchSteps => Mounted(u)'
      BY <1>1, <1>2, <1>3 DEF MountsSound
    <2>2. ASSUME NEW u \in Terminal, NEW v \in Terminal, v # u, mounts'[u] = "alone", Mounted(v)'
          PROVE  ~Conflict(job'[u], job'[v])
      <3>1. mounts[u] = "alone" /\ Mounted(v)
        BY <1>1, <1>2, <1>3, <2>2
      <3> QED BY <1>1, <1>2, <2>2, <3>1 DEF MountsSound
    <2>3. ~crossed' => \A u \in Terminal : mounts'[u] # "shared"
      BY <1>1, <1>2 DEF MountsSound
    <2> QED BY <2>1, <2>2, <2>3 DEF MountsSound
  <1>5. \A u \in Terminal : mounts'[u] = "alone" => mounts[u] = "alone"
    BY <1>1, <1>2
  <1> QED BY <1>1, <1>2, <1>4, <1>5, MountsMove

\* Whoever mounts the disk has it alone, or shares it with all it meets.
LEMMA MountDiskKeeps ==
  ASSUME OInv, NEW t \in Terminal, MountDisk(t)
  PROVE  OInv'
  <1> DEFINE met == {u \in Terminal : Meets(t, u)}
  <1>1. /\ mounts[t] = "looked"
        /\ mounts' = [u \in Terminal |->
                       IF u \in met \/ (u = t /\ met # {}) THEN "shared"
                       ELSE IF u = t THEN "alone" ELSE mounts[u]]
        /\ crossed' = (crossed \/ met # {})
        /\ UNCHANGED <<oDisk, trust, job, active, unfinished, newest>>
    BY DEF MountDisk
  <1>2. /\ mounts \in [Terminal -> {"out", "looked", "alone", "shared"}]
        /\ crossed \in BOOLEAN /\ MountsSound
    BY DEF OInv, OTyped, OsTypeOK
  <1>3. ~Mounted(t) /\ t \notin met
    BY <1>1 DEF Mounted, Meets
  <1>4. \A u \in Terminal : u \in met <=> u # t /\ Mounted(u) /\ Conflict(job[t], job[u])
    BY DEF Meets
  <1> HIDE DEF met
  <1>5. \A u \in Terminal :
          /\ mounts'[u] = "alone" =>
               \/ u = t /\ met = {}
               \/ u # t /\ u \notin met /\ mounts[u] = "alone"
          /\ u # t => (Mounted(u)' <=> Mounted(u))
          /\ Mounted(t)'
    BY <1>1, <1>2, <1>4 DEF Mounted
  <1>6. MountsSound'
    <2>1. \A u \in Terminal : job'[u].step \in SwitchSteps => Mounted(u)'
      BY <1>1, <1>2, <1>5 DEF MountsSound
    <2>2. ASSUME NEW u \in Terminal, NEW v \in Terminal, v # u, mounts'[u] = "alone", Mounted(v)'
          PROVE  ~Conflict(job'[u], job'[v])
      <3>1. CASE u = t
        BY <1>1, <1>4, <1>5, <2>2, <3>1
      <3>2. CASE u # t /\ v = t
        <4>1. u \notin met /\ Mounted(u)
          BY <1>5, <2>2, <3>2 DEF Mounted
        <4>2. ~Conflict(job[t], job[u])
          BY <1>4, <3>2, <4>1
        <4> QED BY <1>1, <3>2, <4>2, ConflictOfBoth
      <3>3. CASE u # t /\ v # t
        BY <1>1, <1>2, <1>5, <2>2, <3>3 DEF MountsSound
      <3> QED BY <3>1, <3>2, <3>3
    <2>3. ~crossed' => \A u \in Terminal : mounts'[u] # "shared"
      BY <1>1, <1>2 DEF MountsSound
    <2> QED BY <2>1, <2>2, <2>3 DEF MountsSound
  <1>7. mounts' \in [Terminal -> {"out", "looked", "alone", "shared"}] /\ crossed' \in BOOLEAN
    BY <1>1, <1>2
  <1>8. job[t].step \notin SwitchSteps
    BY <1>2, <1>3 DEF MountsSound
  <1> QED BY <1>1, <1>5, <1>6, <1>7, <1>8, MountsMove

\* Every job ends.
LEMMA RebootKeeps ==
  ASSUME OInv, Reboot
  PROVE  OInv'
  <1>1. /\ job' = [t \in Terminal |-> NoJob] /\ mounts' = [t \in Terminal |-> "out"]
        /\ active' \in BOOLEAN
        /\ UNCHANGED <<oDisk, trust, unfinished, newest, crossed>>
    BY DEF Reboot
  <1>2. OTyped /\ OsTypeOK'
    BY <1>1 DEF OInv, OTyped, OsTypeOK, oDisk
  <1>3. job' \in [Terminal -> Job] /\ \A u \in Terminal : job'[u] = NoJob /\ mounts'[u] = "out"
    BY <1>1, NoJobSound
  <1>4. JobsTyped' /\ MountsSound' /\ LoneSound'
    <2>1. \A u \in Terminal : JobTyped(job[u])'
      BY <1>3, NoJobSound DEF JobTyped
    <2> QED BY <1>3, <2>1, NoJobSound DEF JobsTyped, MountsSound, LoneSound, Mounted
  <1>5. ~crossed' => Calm'
    <2>1. SUFFICES ASSUME ~crossed PROVE Calm'
      BY <1>1
    <2>2. JobsSound'
      <3>1. PlanSound(NoJob)' /\ SwitchSound(NoJob)'
        BY NoJobSound DEF PlanSound, SwitchSound, SwitchSteps, PlanSteps
      <3> QED BY <1>3, <3>1 DEF JobsSound, PlanSound, SwitchSound
    <2>3. Overtaken'
      BY <1>3, NoJobSound DEF Overtaken
    <2>4. DiskSound'
      <3>1. Calm /\ trust <= trust' /\ UNCHANGED <<root, counter, efi, checkpoints, newest, unfinished>>
        BY <1>1, <1>2, <2>1 DEF OInv, OTyped, OsTypeOK, oDisk
      <3> QED BY <1>2, <3>1, DiskStays
    <2> QED BY <2>2, <2>3, <2>4 DEF Calm
  <1> QED BY <1>2, <1>4, <1>5 DEF OInv, OTyped

LEMMA EnrollKeeps ==
  ASSUME OInv, Enroll
  PROVE  OInv'
  <1>1. /\ trust' = trust + 1
        /\ UNCHANGED <<root, counter, efi, checkpoints, job, mounts, active, unfinished, newest, crossed>>
    BY DEF Enroll, oDisk
  <1>2. OTyped /\ OsTypeOK' /\ trust <= trust'
    BY <1>1 DEF OInv, OTyped, OsTypeOK
  <1>3. JobsTyped' /\ MountsSound' /\ LoneSound'
    BY <1>1 DEF OInv, OTyped, JobsTyped, JobTyped, MountsSound, Mounted, LoneSound, LoneOf
  <1>4. ~crossed' => Calm'
    <2>1. SUFFICES ASSUME ~crossed PROVE Calm'
      BY <1>1
    <2>2. Calm
      BY <2>1 DEF OInv
    <2>3. \A u \in Terminal : PlanSound(job[u])' /\ SwitchSound(job[u])'
      BY <1>1, <1>2, <2>2, JobStands
    <2>4. Overtaken'
      BY <1>1, <2>2 DEF Calm, Overtaken
    <2>5. DiskSound'
      BY <1>1, <1>2, <2>2, DiskStays
    <2> QED BY <2>3, <2>4, <2>5 DEF Calm, JobsSound
  <1> QED BY <1>2, <1>3, <1>4 DEF OInv, OTyped

(***************************************************************************)
(* The invariant and the theorems.                                         *)
(***************************************************************************)

LEMMA OInvInit == OInit => OInv
  <1> SUFFICES ASSUME OInit PROVE OInv
    OBVIOUS
  <1>1. PICK r \in Root : /\ r = [release |-> FirstRelease, sequence |-> 0, trust |-> 0]
                          /\ r.release = FirstRelease /\ r.sequence = 0 /\ r.trust = 0
    <2>1. FirstRelease \in Release /\ 0 \in Nat
      BY OsBounds
    <2> QED BY <2>1, RootRecord
  <1>2. counter \in Counter /\ counter.sequence = 0
    BY OsBounds DEF OInit, Counter
  <1>3. /\ root = r /\ efi = FirstRelease /\ checkpoints = <<>> /\ trust = 0 /\ newest = 0
        /\ job = [t \in Terminal |-> NoJob] /\ mounts = [t \in Terminal |-> "out"]
        /\ active \in BOOLEAN /\ unfinished = FALSE /\ crossed = FALSE
    BY <1>1 DEF OInit
  <1>4. OsTypeOK
    <2>1. root \in Root /\ efi \in Content /\ trust \in Nat /\ newest \in Nat
      BY <1>3, OsBounds DEF Content
    <2>2. checkpoints \in Seq(Checkpoint)
      BY <1>3
    <2> QED BY <1>2, <1>3, <2>1, <2>2 DEF OsTypeOK
  <1>5. job \in [Terminal -> Job] /\ \A t \in Terminal : job[t] = NoJob /\ mounts[t] = "out"
    BY <1>3, NoJobSound
  <1>6. JobsTyped /\ MountsSound /\ LoneSound
    BY <1>5, NoJobSound DEF JobsTyped, MountsSound, LoneSound, Mounted
  <1>7. JobsSound /\ Overtaken
    BY <1>5, NoJobSound DEF JobsSound, Overtaken
  <1>8. DiskSound
    <2>1. r # Absent
      BY AbsentIsNoRoot
    <2> QED BY <1>1, <1>2, <1>3, <2>1
            DEF DiskSound, CounterLeads, RootTrusted, SavedMatched, DiskMatched
  <1> QED BY <1>4, <1>6, <1>7, <1>8 DEF OInv, OTyped, Calm

LEMMA OInvNext == OInv /\ [ONext]_oVars => OInv'
  <1> SUFFICES ASSUME OInv, [ONext]_oVars PROVE OInv'
    OBVIOUS
  <1>1. CASE UNCHANGED oVars
    <2>1. UNCHANGED <<oDisk, trust, job, mounts, active, unfinished, newest, crossed>>
      BY <1>1 DEF oVars, oDisk
    <2>2. /\ mounts \in [Terminal -> {"out", "looked", "alone", "shared"}]
          /\ crossed \in BOOLEAN /\ MountsSound
      BY DEF OInv, OTyped, OsTypeOK
    <2>3. MountsSound'
      BY <2>1, <2>2 DEF MountsSound, Mounted
    <2> QED BY <2>1, <2>2, <2>3, MountsMove
  <1>2. ASSUME NEW t \in Terminal,
               \/ PlanCheckpoint(t)
               \/ \E r \in Release : PlanUpdate(t, r)
               \/ \E c \in DOMAIN checkpoints : PlanRestore(t, c)
        PROVE OInv'
    BY <1>2, PlansKeep
  <1>3. ASSUME NEW t \in Terminal,
               \/ LookAtDisk(t) \/ MountDisk(t)
               \/ RecheckPlan(t) \/ SnapshotRoot(t) \/ TakeCheckpoint(t)
               \/ StageUpdate(t) \/ StageRestore(t)
        PROVE OInv'
    BY <1>3, LookAtDiskKeeps, MountDiskKeeps, SnapshotsKeep, TakeCheckpointKeeps, StagesKeep
  <1>4. ASSUME NEW t \in Terminal,
               \/ WriteCounter(t) \/ SetAside(t) \/ Activate(t)
               \/ BeginCopy(t) \/ EndCopy(t) \/ Abandon(t)
        PROVE OInv'
    BY <1>4, WriteCounterKeeps, SetAsideKeeps, ActivateKeeps, BeginCopyKeeps, EndCopyKeeps,
       AbandonKeeps
  <1>5. CASE Reboot
    BY <1>5, RebootKeeps
  <1>6. CASE Enroll
    BY <1>6, EnrollKeeps
  <1> QED BY <1>1, <1>2, <1>3, <1>4, <1>5, <1>6 DEF ONext

\* The invariant holds through any interruption and overlap of recover.py and
\* apply.py.
LEMMA OInvAlways == OSpec => []OInv
  BY OInvInit, OInvNext, PTL DEF OSpec

\* A terminal's job is changed by its own steps, all of them or the power.
LEMMA OwnSteps ==
  ASSUME OInv, ONext, NEW t \in Terminal, job[t].step \in SwitchSteps,
         job'[t].step \in SwitchSteps, job'[t].step # job[t].step
  PROVE  \/ WriteCounter(t) \/ SetAside(t) \/ Activate(t) \/ BeginCopy(t)
  <1>1. job \in [Terminal -> Job] /\ job[t].step # "idle"
    BY DEF OInv, OTyped, JobsTyped, SwitchSteps, WrittenSteps
  <1>2. /\ job[t].step \notin {"checkpoint", "checked", "saved", "recheck", "restore"}
        /\ job[t] # NoJob /\ job'[t] # NoJob
    BY NoJobSound DEF SwitchSteps, WrittenSteps
  <1>3. ASSUME NEW u \in Terminal,
               \/ LookAtDisk(u) \/ MountDisk(u) \/ Abandon(u) \/ EndCopy(u)
               \/ PlanCheckpoint(u)
               \/ \E r \in Release : PlanUpdate(u, r)
               \/ \E c \in DOMAIN checkpoints : PlanRestore(u, c)
        PROVE FALSE
    BY <1>1, <1>2, <1>3 DEF LookAtDisk, MountDisk, Abandon, EndCopy, EndSwitch, Finish, PlanCheckpoint,
         PlanUpdate, PlanRestore, Review
  <1>4. ASSUME NEW u \in Terminal,
               \/ RecheckPlan(u) \/ SnapshotRoot(u) \/ TakeCheckpoint(u)
               \/ StageUpdate(u) \/ StageRestore(u)
        PROVE FALSE
    BY <1>1, <1>2, <1>4 DEF RecheckPlan, SnapshotRoot, TakeCheckpoint, WriteCheckpoint,
         StageUpdate, StageRestore, AtStage, Proceed
  <1>5. ASSUME NEW u \in Terminal,
               WriteCounter(u) \/ SetAside(u) \/ Activate(u) \/ BeginCopy(u)
        PROVE u = t
    BY <1>1, <1>5 DEF WriteCounter, SetAside, Activate, BeginCopy, Proceed
  <1>6. ~Reboot /\ ~Enroll
    BY <1>2 DEF Reboot, Enroll
  <1> QED BY <1>3, <1>4, <1>5, <1>6 DEF ONext

\* Only the step that writes the counter leads to the roots, and it counts on.
LEMMA CounterCountsOn ==
  OInv /\ [ONext]_oVars =>
    [\A t \in Terminal :
       AtStage(t, "counter") /\ job'[t].step = "set aside" /\ mounts[t] = "alone"
         => counter'.sequence > counter.sequence]_oVars
  <1> SUFFICES ASSUME OInv, ONext, NEW t \in Terminal, job[t].step = "counter",
                      job'[t].step = "set aside", mounts[t] = "alone"
               PROVE  counter'.sequence > counter.sequence
    BY DEF AtStage
  <1>1. WriteCounter(t)
    <2>1. job[t].step \in SwitchSteps /\ job'[t].step \in SwitchSteps
      BY DEF SwitchSteps, WrittenSteps
    <2> QED BY <2>1, OwnSteps DEF SetAside, Activate, BeginCopy, AtStage
  <1> QED BY <1>1, WriteCounterKeeps

\* An update that is alone and about to set the root aside finds its base.
LEMMA BaseInPlace ==
  OInv =>
    [\A t \in Terminal :
       /\ AtStage(t, "set aside") /\ job'[t].step = "activate"
       /\ job[t].op = "update" /\ mounts[t] = "alone"
       => root # Absent /\ root.sequence + 1 = job[t].target.sequence]_oVars
  BY DEF OInv, LoneSound, LoneOf, AtStage, SwitchSteps, WrittenSteps

\* The disk, its checkpoints and the live environment keep their types through
\* every step of recover.py and apply.py.
THEOREM OsTypeCorrect == OSpec => []OsTypeOK
  BY OInvAlways, PTL DEF OInv, OTyped

\* A switch that has the disk to itself writes os-update-counter.json above
\* what it finds, whatever was interrupted, restored or crossed before, and
\* whoever takes a checkpoint meanwhile.
THEOREM SequenceNeverReusedHolds == OSpec => SequenceNeverReused
  BY CounterCountsOn, OInvAlways, PTL DEF OSpec, SequenceNeverReused

\* apply.py, if no other switch shares its mount, replaces the very root that
\* its signed manifest was made for.
THEOREM UpdatesTheirBaseHolds == OSpec => UpdatesTheirBase
  BY BaseInPlace, OInvAlways, PTL DEF UpdatesTheirBase

\* As long as no switch has shared its mount, a restored root of recover.py
\* carries no trust policy and an updated one of apply.py the newest.
THEOREM NoStaleTrustHolds == OSpec => []NoStaleTrust
  <1>1. OInv => NoStaleTrust
    BY DEF OInv, OTyped, OsTypeOK, Calm, DiskSound, RootTrusted, NoStaleTrust
  <1> QED BY <1>1, OInvAlways, PTL

\* As long as no switch has shared its mount, and if the operator restores
\* after an interruption, as the manual asks, every checkpoint of recover.py
\* pairs a root with its own boot files, also one taken during a switch.
THEOREM CheckpointsMatchedHolds == ASSUME Heeds PROVE OSpec => []CheckpointsMatched
  <1>1. OInv => CheckpointsMatched
    BY DEF OInv, Calm, DiskSound, SavedMatched, CheckpointsMatched
  <1> QED BY <1>1, OInvAlways, PTL

\* And the disk boots one release whenever no switch is unfinished.
THEOREM SwitchesMatchedHolds == ASSUME Heeds PROVE OSpec => []SwitchesMatched
  <1>1. OInv => SwitchesMatched
    BY DEF OInv, Calm, DiskSound, DiskMatched, SwitchesMatched
  <1> QED BY <1>1, OInvAlways, PTL
=============================================================================
