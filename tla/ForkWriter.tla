----------------------------- MODULE ForkWriter -----------------------------
(***************************************************************************)
(* ForkSnapshotWriter with several callers.  DUMP SAVE, DUMP STATUS, the   *)
(* scheduler's tick, GET /dump/status and the shutdown all call CheckChild *)
(* on one writer, which keeps one current_result_; its mutex is released   *)
(* between the look at the status, waitpid, the new status, the checkpoint *)
(* and the truncation.  A save is its number, which stands for a path of   *)
(* its own; the log sequence it captures is the rank of its fork.          *)
(***************************************************************************)
EXTENDS Naturals, FiniteSets

CONSTANTS
  Callers,    \* threads that start saves and reap children
  MaxChildren \* bound on the number of saves

ASSUME ForkWriterAssumption == IsFiniteSet(Callers) /\ MaxChildren \in Nat

VARIABLES
  result,     \* current_result_: status, save (filepath), wal_sequence, child_pid
  caller,     \* where each thread is, and what it read before an unlock
  child,      \* each child process
  captured,   \* the log sequence each image holds; 0 before the fork
  image,      \* saves whose image is at its path
  sidecar,    \* the sequence in the checkpoint of each image; 0 if it has none
  walFloor,   \* the log is truncated up to here
  misfiled,   \* history: a status was written over that of another save
  overlapped  \* history: two saves were between reservation and publication

forkVars == <<result, caller, child, captured, image, sidecar, walFloor, misfiled, overlapped>>

Saves == 1..MaxChildren
NoChild == 0
AtRest == [pc |-> "idle", pid |-> NoChild, got |-> "none", save |-> 0, seq |-> 0]

ForkInit ==
  /\ result = [status |-> "idle", save |-> 0, seq |-> 0, pid |-> NoChild]
  /\ caller = [c \in Callers |-> AtRest]
  /\ child = [s \in Saves |-> "none"]
  /\ captured = [s \in Saves |-> 0] /\ sidecar = [s \in Saves |-> 0]
  /\ image = {}
  /\ walFloor = 0
  /\ misfiled = FALSE /\ overlapped = FALSE

CallerAt(c, pc) == caller[c].pc = pc
Misfile(s) == misfiled' = (misfiled \/ s # result.save)
Starting(c) == CallerAt(c, "fork") \/ CallerAt(c, "publish")
Forks == Cardinality({s \in Saves : captured[s] > 0})

-----------------------------------------------------------------------------
(* StartBackgroundSave: reserve, fork under the store locks, publish the   *)
(* child.                                                                  *)

Reserve(c) ==
  /\ CallerAt(c, "idle") /\ result.status # "running"
  /\ \E s \in Saves :
       /\ child[s] = "none" /\ \A r \in 1..s-1 : child[r] # "none"
       /\ child' = [child EXCEPT ![s] = "reserved"]
       /\ result' = [status |-> "running", save |-> s, seq |-> 0, pid |-> NoChild]
       /\ caller' = [caller EXCEPT ![c] = [AtRest EXCEPT !.pc = "fork", !.save = s]]
  /\ overlapped' = (overlapped \/ \E d \in Callers : Starting(d))
  /\ UNCHANGED <<captured, image, sidecar, walFloor, misfiled>>

Fork(c) ==
  /\ CallerAt(c, "fork")
  /\ child' = [child EXCEPT ![caller[c].save] = "alive"]
  /\ captured' = [captured EXCEPT ![caller[c].save] = Forks + 1]
  /\ caller' = [caller EXCEPT ![c].pc = "publish"]
  /\ UNCHANGED <<result, image, sidecar, walFloor, misfiled, overlapped>>

ForkFails(c) ==
  /\ CallerAt(c, "fork")
  /\ child' = [child EXCEPT ![caller[c].save] = "reaped"]
  /\ result' = [result EXCEPT !.status = "failed"]
  /\ caller' = [caller EXCEPT ![c] = AtRest]
  /\ Misfile(caller[c].save)
  /\ UNCHANGED <<captured, image, sidecar, walFloor, overlapped>>

\* Mutant: the child's pid is not published.
PublishWithoutPid(c) ==
  /\ CallerAt(c, "publish")
  /\ caller' = [caller EXCEPT ![c] = AtRest]
  /\ UNCHANGED <<result, child, captured, image, sidecar, walFloor, misfiled, overlapped>>

\* The current result, whose it is by now.
PublishChild(c) ==
  /\ CallerAt(c, "publish")
  /\ result' = [result EXCEPT !.pid = caller[c].save, !.seq = captured[caller[c].save]]
  /\ caller' = [caller EXCEPT ![c] = AtRest]
  /\ Misfile(caller[c].save)
  /\ UNCHANGED <<child, captured, image, sidecar, walFloor, overlapped>>

-----------------------------------------------------------------------------
(* The child writes its image (temporary file and rename) and exits, or    *)
(* fails, or WaitForChild kills it at the end of its patience.             *)

ChildSucceeds(s) ==
  /\ child[s] = "alive"
  /\ child' = [child EXCEPT ![s] = "ok"]
  /\ image' = image \cup {s}
  /\ UNCHANGED <<result, caller, captured, sidecar, walFloor, misfiled, overlapped>>

ChildFails(s) ==
  /\ child[s] = "alive"
  /\ child' = [child EXCEPT ![s] = "bad"]
  /\ UNCHANGED <<result, caller, captured, image, sidecar, walFloor, misfiled, overlapped>>

-----------------------------------------------------------------------------
(* CheckChild. *)

\* The look at the status, under the mutex; nothing to do is no step.
Look(c) ==
  /\ CallerAt(c, "idle") /\ result.status = "running" /\ result.pid # NoChild
  /\ caller' = [caller EXCEPT ![c] = [AtRest EXCEPT !.pc = "wait", !.pid = result.pid]]
  /\ UNCHANGED <<result, child, captured, image, sidecar, walFloor, misfiled, overlapped>>

\* waitpid(WNOHANG) without the mutex: an exit status goes to one caller, the
\* others get ECHILD.
WaitPid(c) ==
  LET s == caller[c].pid
  IN  /\ CallerAt(c, "wait")
      /\ IF child[s] = "alive"
         THEN caller' = [caller EXCEPT ![c] = AtRest]
         ELSE caller' = [caller EXCEPT ![c].pc = "settle", ![c].got = child[s]]
      /\ child' = IF child[s] \in {"ok", "bad"} THEN [child EXCEPT ![s] = "reaped"] ELSE child
      /\ UNCHANGED <<result, captured, image, sidecar, walFloor, misfiled, overlapped>>

\* The new status, under the mutex, for whatever save is current by now.
Settle(c) ==
  LET done == caller[c].got = "ok"
  IN  /\ CallerAt(c, "settle")
      /\ result' = [result EXCEPT !.status = IF done THEN "completed" ELSE "failed"]
      /\ caller' = [caller EXCEPT ![c] = IF done THEN [AtRest EXCEPT !.pc = "checkpoint",
                                                                          !.save = result.save, !.seq = result.seq]
                                              ELSE AtRest]
      /\ Misfile(caller[c].pid)
      /\ UNCHANGED <<child, captured, image, sidecar, walFloor, overlapped>>

\* Mutant: the log is truncated whether or not the checkpoint was written.
CheckpointIgnored(c) ==
  LET s == caller[c].save
  IN  /\ CallerAt(c, "checkpoint")
      /\ sidecar' = IF s \in image THEN [sidecar EXCEPT ![s] = caller[c].seq] ELSE sidecar
      /\ caller' = [caller EXCEPT ![c].pc = "truncate"]
      /\ UNCHANGED <<result, child, captured, image, walFloor, misfiled, overlapped>>

\* WriteWalCheckpoint reads the image first: without one it fails, and the
\* log is not truncated.
Checkpoint(c) ==
  LET s == caller[c].save
  IN  /\ CallerAt(c, "checkpoint")
      /\ \/ /\ s \in image
            /\ sidecar' = [sidecar EXCEPT ![s] = caller[c].seq]
            /\ caller' = [caller EXCEPT ![c].pc = "truncate"]
            /\ UNCHANGED <<result, misfiled>>
         \/ /\ result' = [result EXCEPT !.status = "failed"]
            /\ caller' = [caller EXCEPT ![c] = AtRest]
            /\ Misfile(s)
            /\ UNCHANGED sidecar
      /\ UNCHANGED <<child, captured, image, walFloor, overlapped>>

Truncate(c) ==
  /\ CallerAt(c, "truncate")
  /\ walFloor' = IF caller[c].seq > walFloor THEN caller[c].seq ELSE walFloor
  /\ caller' = [caller EXCEPT ![c] = AtRest]
  /\ UNCHANGED <<result, child, captured, image, sidecar, misfiled, overlapped>>

TruncateFails(c) ==
  /\ CallerAt(c, "truncate")
  /\ result' = [result EXCEPT !.status = "failed"]
  /\ caller' = [caller EXCEPT ![c] = AtRest]
  /\ Misfile(caller[c].save)
  /\ UNCHANGED <<child, captured, image, sidecar, walFloor, overlapped>>

-----------------------------------------------------------------------------
ForkStep(c) ==
  \/ Fork(c) \/ ForkFails(c) \/ PublishChild(c)
  \/ Look(c) \/ WaitPid(c) \/ Settle(c) \/ Checkpoint(c) \/ Truncate(c) \/ TruncateFails(c)

ChildExits(s) == ChildSucceeds(s) \/ ChildFails(s)

ForkNext ==
  \/ \E c \in Callers : Reserve(c) \/ ForkStep(c)
  \/ \E s \in Saves : ChildExits(s)

\* The scheduler's thread ticks for as long as the server runs, and a child
\* that is not stuck ends; nobody has to ask for a save.
ForkFairness ==
  /\ \A c \in Callers : WF_forkVars(ForkStep(c))
  /\ \A s \in Saves : WF_forkVars(ChildExits(s))

ForkSpec == ForkInit /\ [][ForkNext]_forkVars /\ ForkFairness

-----------------------------------------------------------------------------
\* The shape of the state.
ForkTypeOK ==
  /\ result \in [status : {"idle", "running", "completed", "failed"}, save : 0..MaxChildren,
                  seq : 0..MaxChildren, pid : 0..MaxChildren]
  /\ caller \in [Callers -> [pc : {"idle", "fork", "publish", "wait", "settle", "checkpoint", "truncate"},
                             pid : 0..MaxChildren, got : {"none", "ok", "bad", "reaped"},
                             save : 0..MaxChildren, seq : 0..MaxChildren]]
  /\ child \in [Saves -> {"none", "reserved", "alive", "ok", "bad", "reaped"}]
  /\ {captured, sidecar} \subseteq [Saves -> 0..MaxChildren]
  /\ image \subseteq Saves /\ walFloor \in 0..MaxChildren
  /\ {misfiled, overlapped} \subseteq BOOLEAN

\* The log is never cut beyond what a published snapshot holds, nor beyond what
\* the checkpoint beside a snapshot says of it, although the caller that settles a
\* save takes its path and sequence from whatever save is current after waitpid
\* (ForkSnapshotWriter::CheckChild).  The first may fail only when a stale failure
\* let a second save be reserved while the first was still starting; the second
\* only when a caller wrote a status or a checkpoint for a save that was not its
\* own: with three callers, sequence 0 of an unpublished save over a checkpoint
\* that was truncated to.
LogCoversUnsaved ==
  walFloor > 0 =>
    /\ overlapped \/ \E s \in image : captured[s] >= walFloor
    /\ misfiled \/ \E s \in image : captured[s] = sidecar[s] /\ sidecar[s] >= walFloor

\* Every child is reaped, in whatever order the callers come, unless a caller
\* wrote the outcome of an earlier save over the status of the current one:
\* the loser of a waitpid, or a late failure of the checkpoint or of the
\* truncation (SnapshotScheduler::SchedulerLoop, CheckChild).
ChildrenReaped ==
  []<>(\A s \in Saves : child[s] \in {"none", "reaped"} \/ misfiled)
=============================================================================
