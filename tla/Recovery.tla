------------------------------ MODULE Recovery ------------------------------
(***************************************************************************)
(* Durability of the server: the write path (append to the WAL, then apply), *)
(* snapshots with their checkpoint sidecars, DUMP SAVE in lock and in fork   *)
(* mode, DUMP LOAD, automatic snapshots with retention, and the recovery at  *)
(* startup (nvecd_server.cpp, dump_handler.cpp, snapshot_fork.cpp,           *)
(* snapshot_lock.cpp, snapshot_scheduler.cpp, wal_checkpoint.cpp).           *)
(*                                                                         *)
(* Abstraction.  The state of the stores is the list of the operations        *)
(* applied to them; a snapshot image is such a list.  The gates appear as     *)
(* guards: `writer' holds snapshot_write_gate shared and                      *)
(* write_serialization_gate, `job' holds the former exclusively.              *)
(***************************************************************************)
EXTENDS Wal, FiniteSets, SequencesExt

CONSTANTS
  ManualPaths,  \* snapshot files named by DUMP SAVE
  AutoPaths,    \* snapshot files auto_*.nvec; none: interval_sec = 0
  Modes,        \* values of snapshot.mode considered
  Loads,        \* whether an operator issues DUMP LOAD
  Overwrites,   \* whether DUMP SAVE is given the name of an existing snapshot
  Retain,       \* snapshot.retain
  MaxStarts     \* bound: process starts

ASSUME RecoveryConstants ==
  /\ Ops = 1..Cardinality(Ops)
  /\ Modes \subseteq {"lock", "fork"}
  /\ Loads \in BOOLEAN
  /\ Overwrites \in BOOLEAN
  /\ Retain \in Nat
  /\ MaxStarts \in Nat

VARIABLES
  mode,       \* snapshot.mode, fixed
  store,      \* operations applied to the stores of the running process
  writer,     \* operation appended and not applied yet, or 0
  read_only,
  loading,
  job,        \* the save or load that holds the gate exclusively
  snap,       \* path -> snapshot file and sidecar
  byAge,      \* the existing snapshot files, oldest mtime first
  status,     \* ForkSnapshotWriter::current_result_.status
  child,      \* the forked child
  reap,       \* a CheckChild call past waitpid: its local copies
  proc,       \* "down", "up" or "refused"
  starts,     \* process starts so far
  issued,     \* write requests so far; each is an operation of its own
  expect,     \* history: the states that a recovery may produce
  gaps        \* history: windows of the protocol that were hit (see Gaps)

snapVars == <<snap, byAge>>
forkVars == <<status, child, reap>>
ctlVars  == <<writer, read_only, loading, job>>
srvVars  == <<mode, store, writer, read_only, loading, job, snap, byAge, status, child, reap,
              proc, starts, issued, expect, gaps>>
vars == <<walVars, srvVars>>

Paths == ManualPaths \cup AutoPaths

\* side: the .walseq sidecar is missing, names another image, or binds this one.
NoSnapshot == [img |-> <<>>, side |-> "none", seq |-> 0]
NoJob   == [pc |-> "idle", path |-> "", seq |-> 0]
NoChild == [st |-> "none", path |-> "", img |-> <<>>, seq |-> 0]
NoReap  == [pc |-> "none", by |-> "", path |-> "", seq |-> 0]

\* The windows in which the files on disk do not describe one state:
\*   "floor":    a start cannot check that the log continues its base
\*   "load":     a load has touched its snapshot and not yet replaced the sidecar
\*   "inflight": a load or a locking save ran while an older background save was unfinished
\*   "race":     an automatic snapshot forked between an append and its apply
\*   "retire":   retention removed the recovery base for a file without sidecar
Gaps == {"floor", "load", "inflight", "race", "retire"}

\* The mtime order once p has been written or touched.
Newest(p, age) == Append(SelectSeq(age, LAMBDA q : q # p), p)

Init ==
  /\ WalInit
  /\ mode \in Modes
  /\ store = <<>>
  /\ writer = 0
  /\ read_only = FALSE
  /\ loading = FALSE
  /\ job = NoJob
  /\ snap = [p \in Paths |-> NoSnapshot]
  /\ byAge = <<>>
  /\ status = "idle"
  /\ child = NoChild
  /\ reap = NoReap
  /\ proc = "down"
  /\ starts = 0
  /\ issued = 0
  /\ expect = {<<>>}
  /\ gaps = {}
-----------------------------------------------------------------------------
(* The write path.                                                          *)

\* Nobody holds a gate that keeps a writer out, and no lifecycle flag rejects it.
WriterAdmitted ==
  /\ proc = "up" /\ writer = 0 /\ job.pc = "idle"
  /\ ~loading /\ ~read_only
  /\ issued < Cardinality(Ops)

\* AppendToWal accepts the record; the stores do not have it yet.
LogWrite ==
  /\ WriterAdmitted
  /\ AppendOk(issued + 1)
  /\ writer' = issued + 1
  /\ issued' = issued + 1
  /\ expect' = {store, Append(store, issued + 1)}
  /\ UNCHANGED <<mode, store, read_only, loading, job, snapVars, forkVars, proc, starts, gaps>>

\* AppendToWal fails: the request is refused and the server becomes read-only.
LogWriteFails ==
  /\ WriterAdmitted
  /\ \/ \E residue \in AppendResidue(issued + 1) : AppendPoisoned(issued + 1, residue)
     \/ \E why \in {"old", "closed", "gone", "bare"} : RotateFails(why)
  /\ read_only' = TRUE
  /\ issued' = issued + 1
  /\ expect' = {store, Append(store, issued + 1)}
  /\ UNCHANGED <<mode, store, writer, loading, job, snapVars, forkVars, proc, starts, gaps>>

\* Fault: the handler applies a write that was never logged.
ApplyUnlogged ==
  /\ proc = "up"
  /\ store' = Append(store, writer)
  /\ writer' = 0
  /\ expect' = {store'}
  /\ UNCHANGED <<walVars, mode, read_only, loading, job, snapVars, forkVars, proc, starts,
                 issued, gaps>>

\* The handler changes the stores, then the client sees OK.
ApplyWrite ==
  /\ proc = "up" /\ writer # 0
  /\ store' = Append(store, writer)
  /\ writer' = 0
  /\ expect' = {store'}
  /\ UNCHANGED <<walVars, mode, read_only, loading, job, snapVars, forkVars, proc, starts,
                 issued, gaps>>

-----------------------------------------------------------------------------
(* Snapshot files.                                                          *)

\* WriteSnapshotV1 renames the finished image over the path.  A sidecar left
\* from an earlier image binds its size and CRC, so it no longer matches.
Published(p, img) ==
  [snap EXCEPT ![p] = [img |-> img,
                       side |-> IF @.side = "none" THEN "none" ELSE "stale",
                       seq |-> @.seq]]

\* WriteWalCheckpoint replaces the sidecar; it reads the snapshot, so it fails
\* when the file is gone.
Checkpointed(p, seq) == [snap EXCEPT ![p].side = "ok", ![p].seq = seq]

\* FindSnapshotCandidates with require_checkpoint.
Candidates == SelectSeq(byAge, LAMBDA p : snap[p].side # "none")
Usable     == SelectSeq(byAge, LAMBDA p : snap[p].side = "ok")

\* The default name of a snapshot is a timestamp; a client may choose its own.
SavePath(p) == (p \in ManualPaths /\ Overwrites) \/ p \notin ToSet(byAge)

\* DUMP SAVE in lock mode: read_only, then the exclusive gate, which drains the
\* writer, then the captured sequence number and the image.
SaveLocked(p) ==
  /\ proc = "up" /\ mode = "lock" /\ job.pc = "idle"
  /\ ~loading /\ ~read_only /\ writer = 0
  /\ SavePath(p)
  /\ read_only' = TRUE
  /\ snap' = Published(p, store)
  /\ byAge' = Newest(p, byAge)
  /\ job' = [pc |-> "save_checkpoint", path |-> p, seq |-> current_sequence_]
  /\ gaps' = IF child.st = "running" /\ child.seq < current_sequence_
             THEN gaps \cup {"inflight"} ELSE gaps
  /\ UNCHANGED <<walVars, mode, store, writer, loading, forkVars, proc, starts, issued, expect>>

\* Fault: the log is truncated although the sidecar could not be written.
SaveCheckpointIgnored(ok) ==
  /\ proc = "up" /\ job.pc = "save_checkpoint"
  /\ ok => job.path \in ToSet(byAge)
  /\ snap' = IF ok THEN Checkpointed(job.path, job.seq) ELSE snap
  /\ job' = [job EXCEPT !.pc = "save_truncate"]
  /\ UNCHANGED <<walVars, mode, store, writer, read_only, loading, byAge, forkVars, proc, starts, issued,
                 expect, gaps>>

\* A sidecar that cannot be written is logged, and the save reports success.
SaveCheckpoint(ok) ==
  /\ proc = "up" /\ job.pc = "save_checkpoint"
  /\ ok => job.path \in ToSet(byAge)
  /\ IF ok THEN /\ snap' = Checkpointed(job.path, job.seq)
                /\ job' = [job EXCEPT !.pc = "save_truncate"]
                /\ UNCHANGED read_only
           ELSE /\ job' = NoJob
                /\ read_only' = FALSE
                /\ UNCHANGED snap
  /\ UNCHANGED <<walVars, mode, store, writer, loading, byAge, forkVars, proc, starts, issued,
                 expect, gaps>>

\* Truncate returns an error: an unlink failed, or the fsync of the directory did.
TruncateFails(upTo, stuck, synced) == stuck # {} \/ (~synced /\ Truncatable(upTo) # {})

SaveTruncate ==
  /\ proc = "up" /\ job.pc = "save_truncate"
  /\ \E stuck \in SUBSET Truncatable(job.seq) : Truncate(job.seq, stuck)
  /\ job' = NoJob
  /\ read_only' = FALSE
  /\ UNCHANGED <<mode, store, writer, loading, snapVars, forkVars, proc, starts, issued, expect,
                 gaps>>

-----------------------------------------------------------------------------
(* DUMP LOAD: stage and swap, then make the snapshot the recovery base.     *)

LoadSwap(p) ==
  /\ Loads
  /\ proc = "up" /\ job.pc = "idle" /\ writer = 0
  /\ ~loading /\ ~read_only
  /\ p \in ToSet(byAge)
  /\ loading' = TRUE
  /\ store' = snap[p].img
  /\ expect' = {store, store'}
  /\ job' = [pc |-> "load_touch", path |-> p, seq |-> current_sequence_]
  /\ gaps' = IF child.st # "none" \/ reap.pc \in {"checkpoint", "truncate"}
             THEN gaps \cup {"inflight"} ELSE gaps
  /\ UNCHANGED <<walVars, mode, writer, read_only, snapVars, forkVars, proc, starts, issued>>

\* fail_stop: both flags stay set until a restart.
FailStop ==
  /\ read_only' = TRUE
  /\ job' = NoJob
  /\ UNCHANGED <<loading, expect>>

\* last_write_time: the snapshot becomes the newest candidate.  It fails if
\* retention has removed the file since it was read.
LoadTouch ==
  /\ proc = "up" /\ job.pc = "load_touch"
  /\ IF job.path \in ToSet(byAge)
     THEN /\ byAge' = Newest(job.path, byAge)
          /\ job' = [job EXCEPT !.pc = "load_checkpoint"]
          /\ gaps' = gaps \cup {"load"}
          /\ UNCHANGED <<read_only, loading, expect>>
     ELSE FailStop /\ UNCHANGED <<byAge, gaps>>
  /\ UNCHANGED <<walVars, mode, store, writer, snap, forkVars, proc, starts, issued>>

LoadCheckpoint(ok) ==
  /\ proc = "up" /\ job.pc = "load_checkpoint"
  /\ ok => job.path \in ToSet(byAge)
  /\ IF ok THEN /\ snap' = Checkpointed(job.path, job.seq)
                /\ job' = [job EXCEPT !.pc = "load_truncate"]
                /\ gaps' = gaps \ {"load"}
                /\ UNCHANGED <<read_only, loading, expect>>
           ELSE FailStop /\ UNCHANGED <<snap, gaps>>
  /\ UNCHANGED <<walVars, mode, store, writer, byAge, forkVars, proc, starts, issued>>

LoadTruncate ==
  /\ proc = "up" /\ job.pc = "load_truncate"
  /\ \E stuck \in SUBSET Truncatable(job.seq), synced \in BOOLEAN :
       /\ Truncate(job.seq, stuck)
       /\ IF TruncateFails(job.seq, stuck, synced)
          THEN FailStop
          ELSE /\ loading' = FALSE
               /\ job' = NoJob
               /\ expect' = {store}
               /\ UNCHANGED read_only
  /\ UNCHANGED <<mode, store, writer, snapVars, forkVars, proc, starts, issued, gaps>>

-----------------------------------------------------------------------------
(* Background saves: ForkSnapshotWriter.                                    *)

\* StartBackgroundSave: reserve the status, capture the sequence number under
\* the store read locks, fork.  Bound: one child at a time, an orphan included.
StartBackgroundSave(p, forked) ==
  /\ SavePath(p)
  /\ status # "in_progress"
  /\ child.st = "none"
  /\ IF forked
     THEN /\ status' = "in_progress"
          /\ child' = [st |-> "running", path |-> p, img |-> store, seq |-> current_sequence_]
     ELSE /\ status' = "failed"
          /\ UNCHANGED child
  /\ UNCHANGED reap

\* DUMP SAVE in fork mode holds the gates of a writer while it forks.  It does
\* not look at read_only (the HTTP handler calls it directly).
SaveForked(p) ==
  /\ proc = "up" /\ mode = "fork" /\ job.pc = "idle"
  /\ ~loading /\ writer = 0
  /\ \E forked \in BOOLEAN : StartBackgroundSave(p, forked)
  /\ UNCHANGED <<walVars, mode, store, writer, read_only, loading, job, snapVars, proc, starts,
                 issued, expect, gaps>>

\* SnapshotScheduler::TakeSnapshot takes no gate: only the read_only flag, which
\* it clears again when the child has been forked.
TakeSnapshot(p) ==
  /\ proc = "up" /\ ~read_only
  /\ reap.by # "scheduler"
  /\ \E forked \in BOOLEAN : StartBackgroundSave(p, forked)
  /\ gaps' = IF writer # 0 THEN gaps \cup {"race"} ELSE gaps
  /\ UNCHANGED <<walVars, mode, store, writer, read_only, loading, job, snapVars, proc, starts,
                 issued, expect>>

\* The child finishes on its own, even when its parent is gone.
ChildExits(ok) ==
  /\ child.st \in {"running", "orphan"}
  /\ IF ok THEN /\ snap' = Published(child.path, child.img)
                /\ byAge' = Newest(child.path, byAge)
           ELSE UNCHANGED snapVars
  /\ child' = IF child.st = "orphan" THEN NoChild
              ELSE [child EXCEPT !.st = IF ok THEN "exited" ELSE "died"]
  /\ UNCHANGED <<walVars, mode, store, ctlVars, status, reap, proc, starts, issued, expect, gaps>>

\* CheckChild collects the exit status.  A client's DUMP SAVE or DUMP STATUS and
\* the scheduler call it, without a gate; only the scheduler then applies retention.
CheckChild(by) ==
  /\ proc = "up" /\ status = "in_progress"
  /\ child.st \in {"exited", "died"}
  /\ reap.pc = "none"
  /\ status' = IF child.st = "exited" THEN "completed" ELSE "failed"
  /\ reap' = IF child.st = "died" /\ by = "client" THEN NoReap
             ELSE [pc |-> IF child.st = "died" THEN "retire" ELSE "checkpoint",
                   by |-> by, path |-> child.path, seq |-> child.seq]
  /\ child' = NoChild
  /\ UNCHANGED <<walVars, mode, store, ctlVars, snapVars, proc, starts, issued, expect, gaps>>

\* What CheckChild's caller does when it returns.
ReapDone == IF reap.by = "scheduler" THEN [reap EXCEPT !.pc = "retire"] ELSE NoReap

\* Fault: the log is truncated although the sidecar could not be written.
ReapCheckpointIgnored(ok) ==
  /\ proc = "up" /\ reap.pc = "checkpoint"
  /\ ok => reap.path \in ToSet(byAge)
  /\ snap' = IF ok THEN Checkpointed(reap.path, reap.seq) ELSE snap
  /\ reap' = [reap EXCEPT !.pc = "truncate"]
  /\ UNCHANGED <<walVars, mode, store, ctlVars, byAge, status, child, proc, starts, issued,
                 expect, gaps>>

\* No truncation without a sidecar.
ReapCheckpoint(ok) ==
  /\ proc = "up" /\ reap.pc = "checkpoint"
  /\ ok => reap.path \in ToSet(byAge)
  /\ IF ok THEN /\ snap' = Checkpointed(reap.path, reap.seq)
                /\ reap' = [reap EXCEPT !.pc = "truncate"]
                /\ UNCHANGED status
           ELSE /\ status' = "failed"
                /\ reap' = ReapDone
                /\ UNCHANGED snap
  /\ UNCHANGED <<walVars, mode, store, ctlVars, byAge, child, proc, starts, issued, expect, gaps>>

ReapTruncate ==
  /\ proc = "up" /\ reap.pc = "truncate"
  /\ \E stuck \in SUBSET Truncatable(reap.seq), synced \in BOOLEAN :
       /\ Truncate(reap.seq, stuck)
       /\ status' = IF TruncateFails(reap.seq, stuck, synced) THEN "failed" ELSE status
  /\ reap' = ReapDone
  /\ UNCHANGED <<mode, store, ctlVars, snapVars, child, proc, starts, issued, expect, gaps>>

\* CleanupOldSnapshots: of the automatic snapshots the Retain newest stay.  The
\* sidecars of the others are left behind.
Autos   == SelectSeq(byAge, LAMBDA p : p \in AutoPaths)
Expired == IF Retain = 0 THEN {} ELSE {Autos[i] : i \in 1..(Len(Autos) - Retain)}

CleanupOldSnapshots ==
  /\ proc = "up" /\ reap.pc = "retire"
  /\ byAge' = SelectSeq(byAge, LAMBDA p : p \notin Expired)
  /\ snap' = [p \in Paths |-> IF p \in Expired THEN [snap[p] EXCEPT !.img = <<>>] ELSE snap[p]]
  /\ gaps' = IF Usable # <<>> /\ Last(Usable) \in Expired
             THEN gaps \cup {"retire"} ELSE gaps
  /\ reap' = NoReap
  /\ UNCHANGED <<walVars, mode, store, ctlVars, status, child, proc, starts, issued, expect>>

-----------------------------------------------------------------------------
(* Crash and recovery.                                                      *)

Crash ==
  /\ proc = "up"
  /\ ProcessCrash
  /\ proc' = "down"
  /\ store' = <<>> /\ writer' = 0
  /\ read_only' = FALSE /\ loading' = FALSE
  /\ job' = NoJob
  /\ status' = "idle" /\ reap' = NoReap
  /\ child' = IF child.st = "running" THEN [child EXCEPT !.st = "orphan"]
              ELSE IF child.st = "orphan" THEN child ELSE NoChild
  /\ UNCHANGED <<mode, snapVars, starts, issued, expect, gaps>>

\* load_newest_valid_snapshot: skip the candidates whose sidecar is invalid, and
\* fail when there were candidates and none was valid.
BaseExists == Candidates # <<>> => Usable # <<>>
Base == IF Usable = <<>> THEN NoSnapshot ELSE snap[Last(Usable)]

\* Fault: replay starts with the checkpointed record itself.
ReplayFromCheckpoint == Base.seq

ReplayFrom == IF Base.seq = 0 THEN 0 ELSE Base.seq + 1

\* The operations of a set of records, in sequence order.
InOrder(recs) ==
  [i \in 1..Cardinality(recs) |->
     (CHOOSE r \in recs : Cardinality({q \in recs : q.seq < r.seq}) = i - 1).op]

\* Replay does not check that the log reaches back to the record after the
\* checkpoint when that record lies beyond the end of the log.
FloorUnchecked(top) == Base.seq > top

Start ==
  /\ proc = "down" /\ starts < MaxStarts
  /\ BaseExists
  /\ \E m \in 0..MaxSeq, k \in 0..MaxFiles : Open(m, k)
  /\ starts' = starts + 1
  /\ IF ReplayAccepts(disk', files_', current_sequence_', ReplayFrom)
     THEN /\ proc' = "up"
          /\ store' = Base.img \o InOrder(Replayed(disk', files_', ReplayFrom))
          /\ expect' = {store'}
          /\ gaps' = (gaps \ {"load"})
                      \cup (IF FloorUnchecked(current_sequence_') THEN {"floor"} ELSE {})
     ELSE /\ proc' = "refused"
          /\ UNCHANGED <<store, expect, gaps>>
  /\ UNCHANGED <<mode, ctlVars, snapVars, forkVars, issued>>

\* Open cannot create its new segment: startup fails, and the next one finds the
\* repaired directory, perhaps with a segment that has no header.
StartFails ==
  /\ proc = "down" /\ starts < MaxStarts
  /\ BaseExists
  /\ \E m \in 0..MaxSeq, k \in 0..MaxFiles, left \in {Absent, Bare} : OpenRotateFails(m, k, left)
  /\ starts' = starts + 1
  /\ UNCHANGED <<mode, store, ctlVars, snapVars, forkVars, proc, issued, expect, gaps>>

\* No valid base among the candidates, or a log that Open rejects.
StartRefused ==
  /\ proc = "down" /\ starts < MaxStarts
  /\ ~BaseExists \/ ~ScanAccepts(disk)
  /\ proc' = "refused"
  /\ starts' = starts + 1
  /\ UNCHANGED <<walVars, mode, store, ctlVars, snapVars, forkVars, issued, expect, gaps>>

Next ==
  \/ LogWrite \/ LogWriteFails \/ ApplyWrite
  \/ \E p \in ManualPaths : SaveLocked(p) \/ SaveForked(p)
  \/ \E ok \in BOOLEAN : SaveCheckpoint(ok) \/ LoadCheckpoint(ok) \/ ReapCheckpoint(ok)
  \/ SaveTruncate
  \/ \E p \in Paths : LoadSwap(p)
  \/ LoadTouch \/ LoadTruncate
  \/ \E p \in AutoPaths : TakeSnapshot(p)
  \/ \E ok \in BOOLEAN : ChildExits(ok)
  \/ \E by \in {"client"} \cup (IF AutoPaths = {} THEN {} ELSE {"scheduler"}) : CheckChild(by)
  \/ ReapTruncate \/ CleanupOldSnapshots
  \/ Crash \/ Start \/ StartFails \/ StartRefused

Spec == Init /\ [][Next]_vars

-----------------------------------------------------------------------------
Recovers == proc = "down" /\ proc' = "up"

\* One more window: a snapshot was written over an older one and its sidecar has
\* not been replaced, so that neither image is a recovery base.
StaleSidecar == \E p \in ToSet(byAge) : snap[p].side = "stale"

TypeOK ==
  /\ mode \in Modes
  /\ store \in Seq(Ops)
  /\ writer \in Ops \cup {0}
  /\ read_only \in BOOLEAN /\ loading \in BOOLEAN
  /\ job.pc \in {"idle", "save_checkpoint", "save_truncate", "load_touch", "load_checkpoint",
                 "load_truncate"}
  /\ \A p \in Paths : snap[p].side \in {"none", "stale", "ok"} /\ snap[p].img \in Seq(Ops)
  /\ ToSet(byAge) \subseteq Paths
  /\ status \in {"idle", "in_progress", "completed", "failed"}
  /\ proc \in {"down", "up", "refused"}
  /\ gaps \subseteq Gaps

\* A restart brings back exactly the acknowledged writes that no load rolled
\* back, and at most the one write that was in flight, unless one of the known
\* windows was hit (InitializeComponents, HandleDumpSave, HandleDumpLoad, CheckChild).
RecoversExactly ==
  [][Recovers => store' \in expect \/ gaps \cup gaps' # {} \/ StaleSidecar]_vars

\* Startup fails only on a log that the scan rejects or after one of the known
\* windows: no order of saves, loads, truncations and crashes outside them
\* removes a record that the newest usable snapshot still needs (Replay's floor).
StartsUnlessGap == proc = "refused" => ~ScanAccepts(disk) \/ gaps # {} \/ StaleSidecar

\* README.md: on restart, writes since the last snapshot are recovered by
\* replaying the WAL.
NothingLost == [][Recovers => \E s \in expect : ToSet(s) \subseteq ToSet(store')]_vars

\* dump_handler.cpp: a restart does not replay mutations that the operator
\* deliberately rolled back with DUMP LOAD.
NothingResurrected == [][Recovers => \E s \in expect : ToSet(store') \subseteq ToSet(s)]_vars

=============================================================================
