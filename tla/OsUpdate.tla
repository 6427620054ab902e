------------------------------- MODULE OsUpdate -------------------------------
(***************************************************************************)
(* Offline maintenance of an installed disk from live media: checkpoint,   *)
(* restore and the signed update (packaging/linux/updates/recover.py,      *)
(* apply.py).  A release stands for a source commit, its packages and its  *)
(* boot files.  Root and EFI are switched one after the other, and any     *)
(* step may be the last one before the power goes.  Nothing locks the disk *)
(* between the look at what is mounted and the mount: two terminals may    *)
(* have it mounted at once, and then their steps interleave.               *)
(***************************************************************************)
EXTENDS Naturals, Sequences

CONSTANTS Release,          \* what can be installed
          FirstRelease,     \* what the installer left
          Terminal,         \* maintenance programs on the live media
          MaxSequence,      \* bound: the largest sequence handed out
          MaxCheckpoint,    \* bound: checkpoints
          MaxTrust,         \* bound: trust policies enrolled one after another
          MaxShared,        \* bound: the largest sequence handed out once mounts were shared
          Heeds,            \* whether an unfinished switch is only restored
          Mixed,            \* EFI contents of no release
          Absent            \* no root

ASSUME OsBounds ==
  /\ FirstRelease \in Release
  /\ Mixed \notin Release
  /\ MaxSequence \in Nat
  /\ MaxCheckpoint \in Nat
  /\ MaxTrust \in Nat
  /\ MaxShared \in Nat
  /\ Heeds \in BOOLEAN

VARIABLES root,         \* the subvolume @root, or Absent between two renames
          counter,      \* @snapshots/os-update-counter.json
          efi,          \* the EFI system partition
          checkpoints,  \* @snapshots/recovery, complete ones in order
          trust,        \* the policy enrolled in the live environment
          job,          \* per terminal: its reviewed plan and where it is
          mounts,       \* per terminal: whether it has the disk mounted, and how
          active,       \* the disk's user state holds active authority
          unfinished,   \* a switch of root and EFI began and did not end
          newest,       \* history: the newest policy a root has carried
          crossed       \* history: a switch has shared its mount

oDisk == <<root, counter, efi, checkpoints>>
oVars == <<root, counter, efi, checkpoints, trust, job, mounts, active,
           unfinished, newest, crossed>>

\* No record of a sequence reads as 0, no trust policy as 0.
Root == [release : Release, sequence : Nat, trust : Nat]
Counter == [release : Release, sequence : Nat]
Content == Release \union {Mixed}
Checkpoint == [root : Root, efi : Content]

ASSUME AbsentIsNoRoot == Absent \notin Root

NoJob == [step |-> "idle"]

OInit ==
  /\ root = [release |-> FirstRelease, sequence |-> 0, trust |-> 0]
  /\ counter = [release |-> FirstRelease, sequence |-> 0]
  /\ efi = FirstRelease
  /\ checkpoints = <<>>
  /\ trust = 0
  /\ job = [t \in Terminal |-> NoJob]
  /\ mounts = [t \in Terminal |-> "out"]
  /\ active \in BOOLEAN
  /\ unfinished = FALSE
  /\ newest = 0
  /\ crossed = FALSE

(***************************************************************************)
(* mounted(): inventory finds the disk unmounted, and then it is mounted.  *)
(***************************************************************************)

Proceed(t, s) == job' = [job EXCEPT ![t].step = s]
AtStage(t, s) == job[t].step = s

Mounted(t) == mounts[t] \in {"alone", "shared"}
UnmountDisk(t) == mounts' = [mounts EXCEPT ![t] = "out"]
Finish(t) == job' = [job EXCEPT ![t] = NoJob] /\ UnmountDisk(t)

\* What a mount is for: a checkpoint only adds to the disk, a switch changes
\* what the others read, and no job is the reading of a plan.
Checkpoints(x) == x.step \in {"checkpoint", "checked", "saved"}
Switches(x) == x # NoJob /\ ~Checkpoints(x)

\* One of two switches the disk while the other switches it or reads a plan.
Conflict(x, y) ==
  /\ Switches(x) \/ Switches(y)
  /\ ~Checkpoints(x) /\ ~Checkpoints(y)

\* u has mounted the disk that t mounts now.
Meets(t, u) == u # t /\ Mounted(u) /\ Conflict(job[t], job[u])

\* inventory: nobody has the disk mounted at the instant of lsblk.  An update
\* that was confirmed has compared the enrolled policy just before.
LookAtDisk(t) ==
  /\ mounts[t] = "out"
  /\ AtStage(t, "checkpoint") /\ job[t].op = "update" => trust = job[t].trust
  /\ \A u \in Terminal : ~Mounted(u)
  /\ mounts' = [mounts EXCEPT ![t] = "looked"]
  /\ UNCHANGED <<oDisk, trust, job, active, unfinished, newest, crossed>>

\* The two mounts, whoever came between.  (One that the kernel refuses is a
\* failing step.)
MountDisk(t) ==
  LET met == {u \in Terminal : Meets(t, u)}
  IN  /\ mounts[t] = "looked"
      /\ mounts' = [u \in Terminal |->
                     IF u \in met \/ (u = t /\ met # {}) THEN "shared"
                     ELSE IF u = t THEN "alone" ELSE mounts[u]]
      /\ crossed' = (crossed \/ met # {})
      /\ UNCHANGED <<oDisk, trust, job, active, unfinished, newest>>

(***************************************************************************)
(* Plans are read from the mounted disk and confirmed at the terminal.     *)
(***************************************************************************)

\* sequence(): root and counter agree.
InStep == root.sequence = counter.sequence /\ root.release = counter.release

\* installed() finds a root, and no authority is active.
Maintainable == root # Absent /\ ~active

\* What the manual asks after an interruption: another restore.
Heeded == Heeds => ~unfinished

Review(t, plan) ==
  /\ job[t] = NoJob
  /\ Mounted(t)
  /\ job' = [job EXCEPT ![t] = plan]
  /\ UnmountDisk(t)
  /\ UNCHANGED <<oDisk, trust, active, unfinished, newest, crossed>>

PlanCheckpoint(t) ==
  /\ Maintainable
  /\ Heeded
  /\ Review(t, [step |-> "checkpoint", op |-> "checkpoint",
                release |-> root.release, efi |-> efi, saved |-> Absent])

\* A bundle whose manifest names this root and sequence and a target.
PlanUpdate(t, to) ==
  /\ Maintainable
  /\ Heeded
  /\ InStep
  /\ trust > 0
  /\ Review(t, [step |-> "checkpoint", op |-> "update", release |-> root.release,
                efi |-> efi, saved |-> Absent, base |-> root.sequence, to |-> to,
                trust |-> trust])

MaxOf(a, b) == IF a >= b THEN a ELSE b

\* Mutant: the counter outside the roots is not consulted.
RecoverySequenceOfRoots(c) ==
  1 + MaxOf(checkpoints[c].root.sequence, IF root = Absent THEN 0 ELSE root.sequence)

\* recovery_sequence: above the counter, the root if any and the saved root.
RecoverySequence(c) ==
  1 + MaxOf(checkpoints[c].root.sequence,
            IF root = Absent THEN counter.sequence
            ELSE MaxOf(counter.sequence, root.sequence))

PlanRestore(t, c) ==
  /\ ~active
  /\ Review(t, [step |-> "restore", op |-> "restore", from |-> c,
                next |-> RecoverySequence(c)])

(***************************************************************************)
(* execute: the disk is mounted again, the plan rechecked and carried out. *)
(***************************************************************************)

\* recover.execute("checkpoint"): the plan is compared with the disk.
RecheckPlan(t) ==
  /\ AtStage(t, "checkpoint")
  /\ Mounted(t)
  /\ Maintainable
  /\ root.release = job[t].release
  /\ efi = job[t].efi
  /\ Proceed(t, "checked")
  /\ UNCHANGED <<oDisk, trust, mounts, active, unfinished, newest, crossed>>

\* The root is snapshot, whichever it is by now.
SnapshotRoot(t) ==
  /\ AtStage(t, "checked")
  /\ root # Absent
  /\ job' = [job EXCEPT ![t].step = "saved", ![t].saved = root]
  /\ UNCHANGED <<oDisk, trust, mounts, active, unfinished, newest, crossed>>

\* The checkpoint is written: one whose snapshot is not of the reviewed source
\* is refused by checkpoint_data.  An update goes on from here.
WriteCheckpoint(t) ==
  /\ Len(checkpoints) < MaxCheckpoint
  /\ checkpoints' = IF job[t].saved.release = job[t].release
                    THEN Append(checkpoints, [root |-> job[t].saved, efi |-> efi])
                    ELSE checkpoints
  /\ job' = [job EXCEPT ![t] =
       IF job[t].op = "update" THEN [job[t] EXCEPT !.step = "recheck", !.saved = Absent]
       ELSE NoJob]
  /\ UnmountDisk(t)
  /\ UNCHANGED <<root, counter, efi, trust, active, unfinished, newest, crossed>>

\* Mutant: the copied boot files are not compared with the reviewed ones.
TakeCheckpointOfAny(t) ==
  /\ AtStage(t, "saved")
  /\ WriteCheckpoint(t)

\* The copied boot files are the reviewed ones, and checkpoint.json is written
\* last, so that an interrupted checkpoint is none.
TakeCheckpoint(t) ==
  /\ AtStage(t, "saved")
  /\ efi = job[t].efi
  /\ WriteCheckpoint(t)

\* (The bounds on sequences.)
SequenceLimit == IF crossed THEN MaxShared ELSE MaxSequence

\* Mutant: the sequence of the root is not compared again.
StageUpdateOfRelease(t) ==
  /\ AtStage(t, "recheck")
  /\ Mounted(t)
  /\ Maintainable
  /\ root.release = job[t].release
  /\ efi = job[t].efi
  /\ job[t].base < SequenceLimit
  /\ job' = [job EXCEPT ![t] =
       [step |-> "counter", op |-> "update", efi |-> job[t].to,
        target |-> [release |-> job[t].to, sequence |-> job[t].base + 1,
                    trust |-> job[t].trust]]]
  /\ UNCHANGED <<oDisk, trust, mounts, active, unfinished, newest, crossed>>

\* The disk was unmounted in between: source, inventory, sequence and boot
\* files are compared again before the new root is staged.
StageUpdate(t) ==
  /\ AtStage(t, "recheck")
  /\ Mounted(t)
  /\ Maintainable
  /\ root.release = job[t].release
  /\ InStep
  /\ root.sequence = job[t].base
  /\ efi = job[t].efi
  /\ job[t].base < SequenceLimit
  /\ job' = [job EXCEPT ![t] =
       [step |-> "counter", op |-> "update", efi |-> job[t].to,
        target |-> [release |-> job[t].to, sequence |-> job[t].base + 1,
                    trust |-> job[t].trust]]]
  /\ UNCHANGED <<oDisk, trust, mounts, active, unfinished, newest, crossed>>

\* Mutant: the restored root keeps the trust policy it was saved with.
StageRestoreWithTrust(t) ==
  LET c == job[t].from
  IN  /\ AtStage(t, "restore")
      /\ Mounted(t)
      /\ ~active
      /\ RecoverySequence(c) = job[t].next
      /\ job[t].next <= SequenceLimit
      /\ job' = [job EXCEPT ![t] =
           [step |-> "counter", op |-> "restore", efi |-> checkpoints[c].efi,
            target |-> [checkpoints[c].root EXCEPT !.sequence = job[t].next]]]
      /\ UNCHANGED <<oDisk, trust, mounts, active, unfinished, newest, crossed>>

\* The saved root is cloned, loses its trust policy and is given a sequence
\* that nothing has carried.
StageRestore(t) ==
  LET c == job[t].from
  IN  /\ AtStage(t, "restore")
      /\ Mounted(t)
      /\ ~active
      /\ RecoverySequence(c) = job[t].next
      /\ job[t].next <= SequenceLimit
      /\ job' = [job EXCEPT ![t] =
           [step |-> "counter", op |-> "restore", efi |-> checkpoints[c].efi,
            target |-> [release |-> checkpoints[c].root.release,
                        sequence |-> job[t].next, trust |-> 0]]]
      /\ UNCHANGED <<oDisk, trust, mounts, active, unfinished, newest, crossed>>

\* The counter is flushed before the roots change places.
WriteCounter(t) ==
  /\ AtStage(t, "counter")
  /\ counter' = [release |-> job[t].target.release, sequence |-> job[t].target.sequence]
  /\ Proceed(t, "set aside")
  /\ UNCHANGED <<root, efi, checkpoints, trust, mounts, active, unfinished, newest, crossed>>

\* rename(@root, @previous-...), which finds a root; or @failed-..., if any.
SetAside(t) ==
  /\ AtStage(t, "set aside")
  /\ job[t].op = "update" => root # Absent
  /\ root' = Absent
  /\ unfinished' = TRUE
  /\ Proceed(t, "activate")
  /\ UNCHANGED <<counter, efi, checkpoints, trust, mounts, active, newest, crossed>>

\* rename(staged, @root), over nothing.
Activate(t) ==
  /\ AtStage(t, "activate")
  /\ root = Absent
  /\ root' = job[t].target
  /\ newest' = MaxOf(newest, job[t].target.trust)
  /\ Proceed(t, "copy")
  /\ UNCHANGED <<counter, efi, checkpoints, trust, mounts, active, unfinished, crossed>>

\* rsync over the EFI partition has begun, or goes on after another's ended.
BeginCopy(t) ==
  /\ AtStage(t, "copy") \/ AtStage(t, "verify")
  /\ efi' = Mixed
  /\ Proceed(t, "verify")
  /\ UNCHANGED <<root, counter, checkpoints, trust, mounts, active, unfinished, newest, crossed>>

\* The switch of t ends; another may be under way.
EndSwitch(t) ==
  /\ unfinished' = \E u \in Terminal \ {t} : job[u].step \in {"activate", "copy", "verify"}
  /\ Finish(t)
  /\ UNCHANGED <<root, counter, checkpoints, trust, active, newest, crossed>>

\* Mutant: the copied inventory is not compared.
EndCopyUnverified(t) ==
  /\ AtStage(t, "verify")
  /\ efi' \in {job[t].efi, Mixed}
  /\ EndSwitch(t)

\* The copied inventory equals the expected one.
EndCopy(t) ==
  /\ AtStage(t, "verify")
  /\ efi' = job[t].efi
  /\ EndSwitch(t)

(***************************************************************************)
(* Cancellation, failures, power, and the live environment.                *)
(***************************************************************************)

\* A refused recheck, a failing step or Ctrl-C ends a job.
Abandon(t) ==
  /\ job[t] # NoJob \/ mounts[t] # "out"
  /\ Finish(t)
  /\ UNCHANGED <<oDisk, trust, active, unfinished, newest, crossed>>

\* The power goes; the enrolled policy was in memory.  The installed system
\* may run before the next live session and leave authority active.
Reboot ==
  /\ job' = [t \in Terminal |-> NoJob]
  /\ mounts' = [t \in Terminal |-> "out"]
  /\ active' \in BOOLEAN
  /\ UNCHANGED <<oDisk, trust, unfinished, newest, crossed>>

\* phios-update-enroll: policies are numbered in the order of enrollment.
Enroll ==
  /\ trust < MaxTrust
  /\ trust' = trust + 1
  /\ UNCHANGED <<oDisk, job, mounts, active, unfinished, newest, crossed>>

ONext ==
  \/ \E t \in Terminal :
       \/ LookAtDisk(t) \/ MountDisk(t)
       \/ PlanCheckpoint(t)
       \/ \E r \in Release : PlanUpdate(t, r)
       \/ \E c \in DOMAIN checkpoints : PlanRestore(t, c)
       \/ RecheckPlan(t) \/ SnapshotRoot(t) \/ TakeCheckpoint(t)
       \/ StageUpdate(t) \/ StageRestore(t)
       \/ WriteCounter(t) \/ SetAside(t) \/ Activate(t)
       \/ BeginCopy(t) \/ EndCopy(t) \/ Abandon(t)
  \/ Reboot
  \/ Enroll

OSpec == OInit /\ [][ONext]_oVars

(***************************************************************************)
(* Properties.                                                             *)
(***************************************************************************)

OsTypeOK ==
  /\ root \in Root \union {Absent}
  /\ counter \in Counter
  /\ efi \in Content
  /\ checkpoints \in Seq(Checkpoint)
  /\ trust \in Nat /\ newest \in Nat
  /\ mounts \in [Terminal -> {"out", "looked", "alone", "shared"}]
  /\ active \in BOOLEAN /\ unfinished \in BOOLEAN /\ crossed \in BOOLEAN

\* A switch that shares its mount with no other switch counts on, through every
\* interruption, restore of an old root and missing root, and from whatever
\* crossed switches left: while none crossed, a sequence is handed out once.
SequenceNeverReused ==
  [][\A t \in Terminal :
       AtStage(t, "counter") /\ job'[t].step = "set aside" /\ mounts[t] = "alone"
         => counter'.sequence > counter.sequence]_oVars

\* A signed transition that shares its mount with no other switch replaces the
\* very root its manifest was made for: one that was reviewed and overtaken
\* before it mounted the disk again is not applied.
UpdatesTheirBase ==
  [][\A t \in Terminal :
       /\ AtStage(t, "set aside") /\ job'[t].step = "activate"
       /\ job[t].op = "update" /\ mounts[t] = "alone"
       => root # Absent /\ root.sequence + 1 = job[t].target.sequence]_oVars

\* A restored root never brings back a policy older than one that was in
\* force, nor does an update, as long as no switch has shared its mount.
NoStaleTrust == root # Absent => root.trust \in {0, newest} \/ crossed

\* A checkpoint that can be restored pairs a root with its own boot files,
\* also one taken while another terminal switches; so does the disk when no
\* switch is unfinished.  (While no switch has shared its mount.)
CheckpointsMatched ==
  ~crossed => \A c \in DOMAIN checkpoints : checkpoints[c].efi = checkpoints[c].root.release

SwitchesMatched == ~unfinished /\ ~crossed => root # Absent /\ efi = root.release
=============================================================================
