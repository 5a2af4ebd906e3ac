---------------------------- MODULE WalLifecycle ----------------------------
(***************************************************************************)
(* The write-ahead log under any caller: appends, truncations and restarts   *)
(* in any order, with I/O errors, process crashes and power loss between     *)
(* them.  History variables record what the callers were promised.           *)
(***************************************************************************)
EXTENDS Wal

VARIABLES
  proc,     \* "down", "up", or "refused": startup failed with an error
  owed,     \* records that Append acknowledged and no truncation covered
  damage    \* what happened to the directory that Open does not repair

lifeVars == <<proc, owed, damage>>
vars == <<walVars, lifeVars>>

Damages == {"bare", "gap", "tail"}

Init ==
  /\ WalInit
  /\ proc = "down"
  /\ owed = {}
  /\ damage = {}

\* Some segment has no complete header.
LeftBare == IF \E n \in Files : disk'[n].st = "bare" THEN {"bare"} ELSE {}

Start ==
  /\ proc = "down"
  /\ \E m \in 0..MaxSeq, k \in 0..MaxFiles : Open(m, k)
  /\ proc' = "up"
  /\ UNCHANGED <<owed, damage>>

StartFails ==
  /\ proc = "down"
  /\ \E m \in 0..MaxSeq, k \in 0..MaxFiles, left \in {Absent, Bare} : OpenRotateFails(m, k, left)
  /\ damage' = damage \cup LeftBare
  /\ UNCHANGED <<proc, owed>>

StartRefused ==
  /\ proc = "down"
  /\ OpenRejected
  /\ proc' = "refused"
  /\ UNCHANGED <<owed, damage>>

Acknowledge(op) ==
  /\ proc = "up"
  /\ AppendOk(op)
  /\ owed' = owed \cup {NextRecord(op)}
  /\ UNCHANGED <<proc, damage>>

AppendError(op) ==
  /\ proc = "up"
  /\ \E residue \in AppendResidue(op) : AppendPoisoned(op, residue)
  /\ UNCHANGED lifeVars

RotateError ==
  /\ proc = "up"
  /\ \E why \in {"old", "closed", "gone", "bare"} : RotateFails(why)
  /\ damage' = damage \cup LeftBare
  /\ UNCHANGED <<proc, owed>>

Sync ==
  /\ proc = "up"
  /\ \E ok \in BOOLEAN : SyncLoop(ok)
  /\ UNCHANGED lifeVars

\* A snapshot covers the log up to upTo; unlinking may fail for some segments,
\* and a gap opens when a later one is removed all the same.
Checkpoint(upTo, stuck) ==
  /\ proc = "up"
  /\ upTo <= current_sequence_
  /\ Truncate(upTo, stuck)
  /\ owed' = {r \in owed : r.seq > upTo}
  /\ damage' = damage \cup
       (IF \E m \in stuck, n \in Truncatable(upTo) \ stuck : m < n THEN {"gap"} ELSE {})
  /\ UNCHANGED proc

Stop ==
  /\ proc = "up"
  /\ Close
  /\ proc' = "down"
  /\ UNCHANGED <<owed, damage>>

Crash ==
  /\ proc = "up"
  /\ ProcessCrash
  /\ proc' = "down"
  /\ UNCHANGED <<owed, damage>>

\* With batched fsync the records of the last interval are not promised.  A
\* segment other than the newest one may lose records too: those that a crashed
\* process wrote and nobody has synced since.
LosePower ==
  /\ proc \in {"up", "down"}
  /\ PowerLoss
  /\ proc' = "down"
  /\ owed' = IF sync_on_write THEN owed ELSE {r \in owed : r \in DiskRecords(disk')}
  /\ damage' = damage \cup
       (IF \E n \in Files : Len(disk[n].recs) > 0 /\ disk'[n].recs # disk[n].recs
                            /\ ~IsLatest(disk, n) THEN {"tail"} ELSE {})

Next ==
  \/ Start \/ StartFails \/ StartRefused
  \/ \E op \in Ops : Acknowledge(op) \/ AppendError(op)
  \/ RotateError
  \/ Sync
  \/ \E upTo \in 1..MaxSeq : \E stuck \in SUBSET Truncatable(upTo) : Checkpoint(upTo, stuck)
  \/ Stop \/ Crash \/ LosePower

Spec == Init /\ [][Next]_vars

-----------------------------------------------------------------------------
TypeOK ==
  /\ sync_on_write \in BOOLEAN
  /\ disk \in [Files -> Segment]
  /\ open_ \in BOOLEAN
  /\ current_fd_ \in BOOLEAN
  /\ current_sequence_ \in 0..MaxSeq
  /\ current_file_number_ \in 0..MaxFiles
  /\ files_ \in [Files -> Nat \cup {NotListed}]
  /\ needs_sync_ \in BOOLEAN
  /\ proc \in {"down", "up", "refused"}
  /\ owed \subseteq Record
  /\ damage \subseteq Damages

\* Truncation, repair, rotation and crashes never remove an acknowledged record
\* that no checkpoint covers (WriteAheadLog::Truncate, ScanExistingFiles, Open).
AckedOnDisk == owed \subseteq DiskRecords(disk)

\* Whatever crashed before, a process that started can replay every record it
\* owes, from that record on, without hitting a gap or a missing floor
\* (WriteAheadLog::ReplayValidated).
AckedReplayable ==
  proc = "up" => \A r \in owed : /\ ReplayAccepts(disk, files_, current_sequence_, r.seq)
                                 /\ r \in Replayed(disk, files_, r.seq)

\* The next sequence number is above that of every record still owed, so that
\* no new record can hide behind an old checkpoint or collide with a live
\* one (the recovery of current_sequence_ in ScanExistingFiles).
OwedBelowNext == proc = "up" => \A r \in owed : r.seq <= current_sequence_

\* Startup refuses the directory only after one of the three events that the
\* code does not repair: a segment without header, an unlink that failed below
\* a removed segment, the loss of an unsynced tail under a newer segment.
RefusalExplained == proc = "refused" => damage # {}

\* README.md says that on restart the writes since the last snapshot are recovered
\* by replaying the WAL: no crash or I/O error keeps the server from starting.
AlwaysStarts == proc # "refused"

=============================================================================
