-------------------------------- MODULE Wal --------------------------------
(***************************************************************************)
(* The write-ahead log of nvecd (storage/wal.cpp): numbered segment files   *)
(* on disk and the catalogue that WriteAheadLog keeps of them in memory.    *)
(*                                                                         *)
(* This module holds the state and one action per operation, each with its  *)
(* error outcomes.  WalLifecycle drives it with an arbitrary caller, Recovery *)
(* composes it with the snapshots.                                          *)
(*                                                                         *)
(* Abstraction.  A record is its sequence number and its operation; a file   *)
(* is the list of the records in it; sizes count records, all of one size.   *)
(* Torn stands for the bytes that a short write leaves at the tail.          *)
(***************************************************************************)
EXTENDS Integers, Sequences

CONSTANTS
  Ops,          \* the operations a record may carry
  MaxSeq,       \* bound: sequence numbers handed out (the code: 2^64 - 1)
  MaxFiles,     \* bound: segment file numbers (the code: 2^32 - 1)
  SegRecs,      \* Config::max_file_size, in records
  SyncModes     \* the values of Config::sync_on_write considered

ASSUME WalConstants ==
  /\ Ops \subseteq Nat \ {0}
  /\ MaxSeq \in Nat
  /\ MaxFiles \in Nat
  /\ SegRecs \in Nat \ {0}
  /\ SyncModes \subseteq BOOLEAN

VARIABLES
  sync_on_write,         \* Config::sync_on_write, fixed for good
  disk,                  \* file number -> segment, as the page cache has it
  open_,                 \* WriteAheadLog::open_
  current_fd_,           \* current_fd_ >= 0
  current_sequence_,
  current_file_number_,
  files_,                \* catalogue: file number -> max_sequence, or NotListed
  needs_sync_

walVars == <<sync_on_write, disk, open_, current_fd_, current_sequence_, current_file_number_,
             files_, needs_sync_>>

Files == 1..MaxFiles

\* Sequence numbers start at 1, so 0 marks the torn bytes.
Record == [seq : 1..MaxSeq, op : Ops]
Torn == [seq |-> 0, op |-> 0]

\* "bare": the file exists and its 8-byte header is not complete.
\* "ready": header written and synced.  recs[1..synced] have been fsynced.
Segment == [st : {"absent", "bare", "ready"}, recs : Seq(Record \cup {Torn}), synced : Nat]

Absent == [st |-> "absent", recs |-> <<>>, synced |-> 0]
Bare   == [st |-> "bare",   recs |-> <<>>, synced |-> 0]
Fresh  == [st |-> "ready",  recs |-> <<>>, synced |-> 0]

NotListed == -1

Exists(d, n) == d[n].st # "absent"

\* What one segment, or the whole disk, holds of complete records.
SegmentRecords(s) == {r \in {s.recs[i] : i \in 1..Len(s.recs)} : r.seq > 0}
DiskRecords(d) == UNION {SegmentRecords(d[n]) : n \in Files}

WalInit ==
  /\ sync_on_write \in SyncModes
  /\ disk = [n \in Files |-> Absent]
  /\ open_ = FALSE
  /\ current_fd_ = FALSE
  /\ current_sequence_ = 0
  /\ current_file_number_ = 0
  /\ files_ = [n \in Files |-> NotListed]
  /\ needs_sync_ = FALSE

-----------------------------------------------------------------------------
(* Opening: ScanExistingFiles, then the removal of header-only segments,    *)
(* then RotateFile.                                                         *)

IsLatest(d, n) == Exists(d, n) /\ \A m \in Files : m > n => ~Exists(d, m)

HasTornTail(s) == Len(s.recs) > 0 /\ s.recs[Len(s.recs)] = Torn

\* Fault: the torn tail is skipped and not cut off.
RepairedNot(s) == s.recs

\* The records of a segment once ftruncate has dropped a torn tail.
Repaired(s) == IF HasTornTail(s) THEN SubSeq(s.recs, 1, Len(s.recs) - 1) ELSE s.recs

RepairedDisk(d) ==
  [n \in Files |->
     [d[n] EXCEPT !.recs = Repaired(d[n]),
                  !.synced = IF @ > Len(Repaired(d[n])) THEN Len(Repaired(d[n])) ELSE @]]

\* The sequence numbers of one segment, and of the non-empty segments in file
\* order, are contiguous.
ContiguousIn(s) ==
  \A i \in 1..Len(s.recs) : s.recs[i].seq = s.recs[1].seq + i - 1

Adjacent(d, m, n) ==
  /\ m < n
  /\ Len(d[m].recs) > 0 /\ Len(d[n].recs) > 0
  /\ \A k \in Files : m < k /\ k < n => Len(d[k].recs) = 0

ContiguousAcross(d) ==
  \A m, n \in Files :
    Adjacent(d, m, n) => d[n].recs[1].seq = d[m].recs[Len(d[m].recs)].seq + 1

\* ScanExistingFiles accepts the directory: every header is valid, a torn tail
\* stands in the latest segment only, and the numbers are contiguous.
ScanAccepts(d) ==
  /\ \A n \in Files : d[n].st # "bare"
  /\ \A n \in Files : HasTornTail(d[n]) => IsLatest(d, n)
  /\ LET r == RepairedDisk(d) IN
       /\ \A n \in Files : \A i \in 1..Len(r[n].recs) : r[n].recs[i] # Torn
       /\ \A n \in Files : ContiguousIn(r[n])
       /\ ContiguousAcross(r)

\* Open drops the header-only segments it found.
WithoutEmpty(d) ==
  [n \in Files |-> IF d[n].st = "ready" /\ Len(d[n].recs) = 0 THEN Absent ELSE d[n]]

ScannedDisk(d) == WithoutEmpty(RepairedDisk(d))

LastSeq(s) == IF Len(s.recs) = 0 THEN 0 ELSE s.recs[Len(s.recs)].seq

\* Fault: only the newest segment is looked at.
HighestOfLatest(d, m) ==
  \/ \E n \in Files : IsLatest(d, n) /\ m = LastSeq(d[n])
  \/ (\A n \in Files : ~Exists(d, n)) /\ m = 0

\* m is the highest sequence number of the directory, 0 if it has no record.
IsHighestSeq(d, m) ==
  /\ \A n \in Files : LastSeq(d[n]) <= m
  /\ m = 0 \/ \E n \in Files : LastSeq(d[n]) = m

\* k is the highest file number of the directory, 0 if it is empty.
IsHighestFile(d, k) ==
  /\ \A n \in Files : Exists(d, n) => n <= k
  /\ k = 0 \/ (k \in Files /\ Exists(d, k))

\* The catalogue the scan builds.
Listed(d) == [n \in Files |-> IF Exists(d, n) THEN LastSeq(d[n]) ELSE NotListed]

Open(m, k) ==
  /\ ~open_ /\ ~current_fd_
  /\ IsHighestFile(disk, k)
  /\ ScanAccepts(disk)
  /\ IsHighestSeq(RepairedDisk(disk), m)
  /\ k + 1 \in Files
  /\ disk' = [ScannedDisk(disk) EXCEPT ![k + 1] = Fresh]
  /\ files_' = [Listed(ScannedDisk(disk)) EXCEPT ![k + 1] = 0]
  /\ current_sequence_' = m
  /\ current_file_number_' = k + 1
  /\ open_' = TRUE
  /\ current_fd_' = TRUE
  /\ UNCHANGED <<needs_sync_, sync_on_write>>

\* Open fails in RotateFile: the directory is repaired, the new segment is
\* missing, or left without its header when the header write failed.
OpenRotateFails(m, k, left) ==
  /\ ~open_ /\ ~current_fd_
  /\ IsHighestFile(disk, k)
  /\ ScanAccepts(disk)
  /\ IsHighestSeq(RepairedDisk(disk), m)
  /\ k + 1 \in Files
  /\ left \in {Absent, Bare}
  /\ disk' = [ScannedDisk(disk) EXCEPT ![k + 1] = left]
  /\ files_' = Listed(ScannedDisk(disk))
  /\ current_sequence_' = m
  /\ current_file_number_' = k + 1
  /\ UNCHANGED <<open_, current_fd_, needs_sync_, sync_on_write>>

\* The scan rejects the directory (files already visited stay as they are).
OpenRejected ==
  /\ ~open_ /\ ~current_fd_
  /\ ~ScanAccepts(disk)
  /\ UNCHANGED walVars

-----------------------------------------------------------------------------
(* Append and the rotation inside it.                                       *)

CurrentLen == Len(disk[current_file_number_].recs)

\* The record does not fit and the segment is not header-only.
MustRotate == CurrentLen >= SegRecs

\* Fault: no test for an exhausted sequence number space.
AppendUnbounded ==
  /\ open_ /\ current_fd_
  /\ MustRotate => current_file_number_ + 1 \in Files

AppendReady ==
  /\ open_ /\ current_fd_
  /\ current_sequence_ < MaxSeq
  /\ MustRotate => current_file_number_ + 1 \in Files

\* State after the rotation that an append may need: the old segment is
\* fsynced, the new one has its header, and both are in the catalogue.
RotatedFile == IF MustRotate THEN current_file_number_ + 1 ELSE current_file_number_

RotatedDisk ==
  IF MustRotate
  THEN [disk EXCEPT ![current_file_number_].synced = CurrentLen, ![RotatedFile] = Fresh]
  ELSE disk

NextRecord(op) == [seq |-> current_sequence_ + 1, op |-> op]

\* Append returns the sequence number.
AppendOk(op) ==
  /\ AppendReady
  /\ disk' = [RotatedDisk EXCEPT
                ![RotatedFile].recs = Append(@, NextRecord(op)),
                ![RotatedFile].synced =
                    IF sync_on_write THEN Len(RotatedDisk[RotatedFile].recs) + 1 ELSE @]
  /\ files_' = [files_ EXCEPT ![RotatedFile] = current_sequence_ + 1]
  /\ current_sequence_' = current_sequence_ + 1
  /\ current_file_number_' = RotatedFile
  /\ needs_sync_' = (needs_sync_ \/ ~sync_on_write)
  /\ UNCHANGED <<open_, current_fd_, sync_on_write>>

\* What a failed write or fsync leaves behind: nothing, some bytes, or, when
\* only the fsync failed, the whole record.
AppendResidue(op) ==
  {<<>>, <<Torn>>} \cup (IF sync_on_write THEN {<<NextRecord(op)>>} ELSE {})

\* poison_current_segment: the number is burnt and the log closed.
AppendPoisoned(op, residue) ==
  /\ AppendReady
  /\ residue \in AppendResidue(op)
  /\ disk' = [RotatedDisk EXCEPT ![RotatedFile].recs = @ \o residue]
  /\ files_' = [files_ EXCEPT
       ![RotatedFile] = IF residue = <<NextRecord(op)>> THEN current_sequence_ + 1
                        ELSE IF MustRotate THEN 0 ELSE @]
  /\ current_sequence_' = current_sequence_ + 1
  /\ current_file_number_' = RotatedFile
  /\ open_' = FALSE
  /\ current_fd_' = FALSE
  /\ UNCHANGED <<needs_sync_, sync_on_write>>

\* RotateFile fails inside Append, which returns its error with open_ still set.
\*   "old":    fsync of the full segment fails, the descriptor stays usable
\*   "closed": close(2) fails after the fsync
\*   "gone":   the new segment is not created, or unlinked again
\*   "bare":   its header write fails and the file stays
RotateFails(why) ==
  /\ AppendReady /\ MustRotate
  /\ why \in {"old", "closed", "gone", "bare"}
  /\ disk' = [disk EXCEPT
                ![current_file_number_].synced = IF why = "old" THEN @ ELSE CurrentLen,
                ![current_file_number_ + 1] = IF why = "bare" THEN Bare ELSE @]
  /\ current_fd_' = (why = "old")
  /\ current_file_number_' = IF why \in {"gone", "bare"} THEN current_file_number_ + 1
                                                       ELSE current_file_number_
  /\ UNCHANGED <<open_, current_sequence_, files_, needs_sync_, sync_on_write>>

-----------------------------------------------------------------------------
(* SyncLoop, Truncate, Close, and the failures of the machine.              *)

SyncLoop(ok) ==
  /\ ~sync_on_write
  /\ needs_sync_
  /\ needs_sync_' = FALSE
  /\ IF current_fd_ /\ ok
     THEN /\ disk' = [disk EXCEPT ![current_file_number_].synced = CurrentLen]
          /\ UNCHANGED <<open_, current_fd_>>
     ELSE /\ open_' = (open_ /\ ~current_fd_)
          /\ current_fd_' = FALSE
          /\ UNCHANGED disk
  /\ UNCHANGED <<current_sequence_, current_file_number_, files_, sync_on_write>>

\* Fault: a segment is removed when its last record is just above the checkpoint.
TruncatableOneMore(upTo) ==
  {n \in Files : files_[n] > 0 /\ files_[n] <= upTo + 1 /\ n # current_file_number_}

\* The segments that Truncate tries to unlink.
Truncatable(upTo) ==
  {n \in Files : files_[n] > 0 /\ files_[n] <= upTo /\ n # current_file_number_}

\* stuck: the segments whose unlink(2) fails; the loop goes on after them.
Truncate(upTo, stuck) ==
  /\ stuck \subseteq Truncatable(upTo)
  /\ disk' = [n \in Files |-> IF n \in Truncatable(upTo) \ stuck THEN Absent ELSE disk[n]]
  /\ files_' = [n \in Files |-> IF n \in Truncatable(upTo) \ stuck THEN NotListed ELSE files_[n]]
  /\ UNCHANGED <<open_, current_fd_, current_sequence_, current_file_number_, needs_sync_,
                 sync_on_write>>

Close ==
  /\ disk' = IF current_fd_ THEN [disk EXCEPT ![current_file_number_].synced = CurrentLen]
                            ELSE disk
  /\ open_' = FALSE
  /\ current_fd_' = FALSE
  /\ UNCHANGED <<current_sequence_, current_file_number_, files_, needs_sync_, sync_on_write>>

\* The process dies.  The page cache survives it; the sequence number, the file
\* number and the catalogue are not read again before Open overwrites them.
ProcessCrash ==
  /\ open_' = FALSE
  /\ current_fd_' = FALSE
  /\ needs_sync_' = FALSE
  /\ UNCHANGED <<disk, current_sequence_, current_file_number_, files_, sync_on_write>>

\* What a segment may be after the machine lost power: at least its fsynced
\* prefix, and perhaps some bytes of the first record that is lost.
Survivors(s) ==
  {SubSeq(s.recs, 1, len) : len \in s.synced..Len(s.recs)}
    \cup {Append(SubSeq(s.recs, 1, len), Torn) : len \in s.synced..(Len(s.recs) - 1)}

\* The segments with records that no fsync has covered.
Unsynced == {n \in Files : disk[n].synced < Len(disk[n].recs)}

PowerLoss ==
  /\ \E recs \in [Unsynced -> UNION {Survivors(disk[n]) : n \in Unsynced}] :
       /\ \A n \in Unsynced : recs[n] \in Survivors(disk[n])
       /\ disk' = [n \in Files |-> IF n \in Unsynced THEN [disk[n] EXCEPT !.recs = recs[n]] ELSE disk[n]]
  /\ open_' = FALSE
  /\ current_fd_' = FALSE
  /\ needs_sync_' = FALSE
  /\ UNCHANGED <<current_sequence_, current_file_number_, files_, sync_on_write>>

-----------------------------------------------------------------------------
(* Replay: what ReplayValidated delivers from a disk d, the catalogue f that  *)
(* Open built of it and the highest sequence number top.                    *)

\* Fault: the segment that ends with the requested record is left out.
ReplayFilesAbove(f, from) == {n \in Files : f[n] # NotListed /\ (f[n] > from \/ f[n] = 0)}

ReplayFiles(f, from) == {n \in Files : f[n] # NotListed /\ (f[n] >= from \/ f[n] = 0)}

Replayed(d, f, from) ==
  {r \in UNION {SegmentRecords(d[n]) : n \in ReplayFiles(f, from)} : r.seq >= from}

ReplayFloorSeen(d, f, from) ==
  \/ from = 0
  \/ \E n \in ReplayFiles(f, from) : \E r \in SegmentRecords(d[n]) : r.seq = from

\* The numbers read are contiguous (a torn tail ends the replay), and the floor
\* is there unless it lies beyond the end of the log.
ReplayAccepts(d, f, top, from) ==
  /\ ContiguousAcross([n \in Files |-> IF n \in ReplayFiles(f, from) THEN RepairedDisk(d)[n]
                                                                    ELSE Absent])
  /\ ReplayFloorSeen(d, f, from) \/ from > top

=============================================================================
