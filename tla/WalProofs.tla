----------------------------- MODULE WalProofs -----------------------------
(***************************************************************************)
(* Theorems about WalLifecycle, for every value of the constants: the type    *)
(* invariant; that no acknowledged record which no checkpoint covers is ever  *)
(* removed from the disk; that a directory which Open refuses was damaged by  *)
(* one of three events; and that a process which started can replay all that  *)
(* it owes.                                                                 *)
(***************************************************************************)
EXTENDS WalLifecycle, WellFoundedInduction, TLAPS

-----------------------------------------------------------------------------
(* The inductive invariant.                                                 *)

\* The record r is in a segment of d; it is in the fsynced part of one.
OnDisk(r, d)  == \E n \in Files : \E i \in 1..Len(d[n].recs) : d[n].recs[i] = r
Durable(r, d) == \E n \in Files : \E i \in 1..Len(d[n].recs) : d[n].recs[i] = r /\ i <= d[n].synced

\* A segment without a complete header is empty, and fsync covers a prefix.
WellFormed(d) ==
  \A n \in Files : /\ d[n].st # "ready" => d[n].recs = <<>>
                   /\ d[n].synced <= Len(d[n].recs)

\* The segment being written is the last one of the directory.
Current ==
  current_fd_ => /\ current_file_number_ \in Files
                 /\ disk[current_file_number_].st = "ready"
                 /\ \A n \in Files : n > current_file_number_ => disk[n].st = "absent"

\* The catalogue of a running process is an upper bound of what its segments
\* hold: without it Truncate could unlink a record above the checkpoint.
CatalogueCovers ==
  proc = "up" =>
    \A n \in Files : \A i \in 1..Len(disk[n].recs) :
      /\ disk[n].recs[i].seq <= current_sequence_
      /\ files_[n] > 0 => disk[n].recs[i].seq <= files_[n]

\* What is owed is on disk, and out of reach of a power loss if the log syncs
\* on every write.
OwedSafe(d) == \A r \in owed : OnDisk(r, d) /\ (sync_on_write => Durable(r, d))

IInv ==
  /\ TypeOK
  /\ WellFormed(disk)
  /\ Current
  /\ CatalogueCovers
  /\ OwedSafe(disk)

-----------------------------------------------------------------------------
(* Facts about the operators.                                               *)

\* e has every complete record of d, at the same place, and as durable as it was:
\* what every step but Truncate and a power loss does to the disk.
Keeps(d, e) ==
  \A n \in Files : \A i \in 1..Len(d[n].recs) :
    d[n].recs[i].seq > 0 => /\ i \in 1..Len(e[n].recs)
                            /\ e[n].recs[i] = d[n].recs[i]
                            /\ i <= d[n].synced => i <= e[n].synced

\* The page cache as a type: what disk is of TypeOK.
Disks == [Files -> Segment]

\* A step that keeps the records of the disk keeps what is owed.
LEMMA KeepsOwed ==
  ASSUME NEW d, NEW e, owed \subseteq Record, Keeps(d, e), OwedSafe(d)
  PROVE  OwedSafe(e)
<1> SUFFICES ASSUME NEW r \in owed
             PROVE  OnDisk(r, e) /\ (sync_on_write => Durable(r, e))
  BY DEF OwedSafe
<1>1. r.seq > 0
  BY DEF Record
<1>2. OnDisk(r, e)
  <2>1. PICK n \in Files : \E i \in 1..Len(d[n].recs) : d[n].recs[i] = r
    BY DEF OwedSafe, OnDisk
  <2> QED  BY <1>1, <2>1 DEF Keeps, OnDisk
<1>3. ASSUME sync_on_write PROVE Durable(r, e)
  <2>1. PICK n \in Files :
          \E i \in 1..Len(d[n].recs) : d[n].recs[i] = r /\ i <= d[n].synced
    BY <1>3 DEF OwedSafe, Durable
  <2> QED  BY <1>1, <2>1 DEF Keeps, Durable
<1> QED  BY <1>2, <1>3

LEMMA EmptySegments ==
  \A s \in {Absent, Bare, Fresh} : s \in Segment /\ s.recs = <<>> /\ s.synced = 0
<1>1. Absent \in Segment /\ Absent.recs = <<>> /\ Absent.synced = 0
  BY DEF Absent, Segment
<1>2. Bare \in Segment /\ Bare.recs = <<>> /\ Bare.synced = 0
  BY DEF Bare, Segment
<1>3. Fresh \in Segment /\ Fresh.recs = <<>> /\ Fresh.synced = 0
  BY DEF Fresh, Segment
<1> QED  BY <1>1, <1>2, <1>3

\* ftruncate drops nothing but a torn tail.
LEMMA RepairedKeeps ==
  ASSUME NEW d \in Disks, WellFormed(d)
  PROVE  /\ RepairedDisk(d) \in Disks
         /\ WellFormed(RepairedDisk(d))
         /\ Keeps(d, RepairedDisk(d))
         /\ \A n \in Files : RepairedDisk(d)[n].st = d[n].st
<1> DEFINE e == RepairedDisk(d)
<1>1. ASSUME NEW n \in Files
      PROVE  /\ e[n] \in Segment
             /\ e[n].st = d[n].st
             /\ e[n].recs = Repaired(d[n])
             /\ e[n].synced <= Len(Repaired(d[n]))
             /\ d[n].st # "ready" => Repaired(d[n]) = <<>>
             /\ \A i \in 1..Len(d[n].recs) :
                  d[n].recs[i].seq > 0 => /\ i \in 1..Len(Repaired(d[n]))
                                          /\ Repaired(d[n])[i] = d[n].recs[i]
                                          /\ i <= d[n].synced => i <= e[n].synced
  <2>1. d[n] \in Segment /\ d[n].recs \in Seq(Record \cup {Torn}) /\ d[n].synced \in Nat
    BY <1>1 DEF Disks, Segment
  <2>2. /\ Repaired(d[n]) \in Seq(Record \cup {Torn})
        /\ \A i \in 1..Len(d[n].recs) :
             d[n].recs[i].seq > 0 => /\ i \in 1..Len(Repaired(d[n]))
                                     /\ Repaired(d[n])[i] = d[n].recs[i]
        /\ d[n].recs = <<>> => Repaired(d[n]) = <<>>
    BY <2>1 DEF Repaired, HasTornTail, Torn
  <2>3. e[n] = [st |-> d[n].st, recs |-> Repaired(d[n]),
                synced |-> IF d[n].synced > Len(Repaired(d[n])) THEN Len(Repaired(d[n]))
                                                                ELSE d[n].synced]
    BY <2>1 DEF RepairedDisk, Segment
  <2> HIDE DEF e
  <2>4. Len(Repaired(d[n])) \in Nat
    BY <2>2
  <2>5. e[n] \in Segment /\ e[n].synced <= Len(Repaired(d[n]))
    BY <2>1, <2>2, <2>3, <2>4 DEF Segment
  <2>6. d[n].st # "ready" => Repaired(d[n]) = <<>>
    BY <1>1, <2>2 DEF WellFormed
  <2> QED  BY <2>1, <2>2, <2>3, <2>4, <2>5, <2>6
<1>2. e \in Disks
  <2>1. e = [n \in Files |-> e[n]]
    BY DEF RepairedDisk
  <2> QED  BY <1>1, <2>1 DEF Disks
<1> QED  BY <1>1, <1>2 DEF WellFormed, Keeps

LEMMA KeepsTransitive ==
  ASSUME NEW c, NEW d, NEW e, Keeps(c, d), Keeps(d, e)
  PROVE  Keeps(c, e)
BY DEF Keeps

\* Replacing one segment by one that has its records first keeps the disk sound.
LEMMA UpdateKeeps ==
  ASSUME NEW d \in Disks, WellFormed(d), NEW k \in Files, NEW s \in Segment,
         s.st # "ready" => s.recs = <<>>,
         s.synced <= Len(s.recs),
         d[k].synced <= s.synced,
         \A i \in 1..Len(d[k].recs) : i \in 1..Len(s.recs) /\ s.recs[i] = d[k].recs[i]
  PROVE  /\ [d EXCEPT ![k] = s] \in Disks
         /\ WellFormed([d EXCEPT ![k] = s])
         /\ Keeps(d, [d EXCEPT ![k] = s])
<1> DEFINE e == [d EXCEPT ![k] = s]
<1>1. e \in Disks
  BY DEF Disks
<1>2. \A n \in Files : e[n] = IF n = k THEN s ELSE d[n]
  BY DEF Disks
<1>3. \A n \in Files : d[n].synced \in Nat /\ d[n].recs \in Seq(Record \cup {Torn})
  BY DEF Disks, Segment
<1>4. s.synced \in Nat /\ s.recs \in Seq(Record \cup {Torn})
  BY DEF Segment
<1> HIDE DEF e
<1>5. WellFormed(e)
  BY <1>2 DEF WellFormed
<1>6. Keeps(d, e)
  BY <1>2, <1>3, <1>4 DEF Keeps
<1> QED  BY <1>1, <1>5, <1>6 DEF e

\* Open's repair of the directory loses no complete record.
LEMMA ScannedKeeps ==
  ASSUME NEW d \in Disks, WellFormed(d)
  PROVE  /\ ScannedDisk(d) \in Disks
         /\ WellFormed(ScannedDisk(d))
         /\ Keeps(d, ScannedDisk(d))
         /\ \A n \in Files : /\ ScannedDisk(d)[n].recs = RepairedDisk(d)[n].recs
                             /\ ~Exists(d, n) => ~Exists(ScannedDisk(d), n)
<1> DEFINE r == RepairedDisk(d)
           e == ScannedDisk(d)
<1>1. r \in Disks /\ WellFormed(r) /\ Keeps(d, r) /\ \A n \in Files : r[n].st = d[n].st
  BY RepairedKeeps
<1>2. e = [n \in Files |-> IF r[n].st = "ready" /\ Len(r[n].recs) = 0 THEN Absent ELSE r[n]]
  BY DEF ScannedDisk, WithoutEmpty
<1> HIDE DEF r, e
<1>3. \A n \in Files : r[n] \in Segment /\ r[n].recs \in Seq(Record \cup {Torn})
  BY <1>1 DEF Disks, Segment
<1>4. Absent \in Segment
  BY DEF Absent, Segment
<1>5. e \in Disks
  BY <1>2, <1>3, <1>4 DEF Disks
<1>6. ASSUME NEW n \in Files
      PROVE  /\ e[n].recs = r[n].recs
             /\ Len(r[n].recs) > 0 => e[n] = r[n]
             /\ d[n].st = "absent" => e[n].st = "absent"
             /\ e[n].st # "ready" => e[n].recs = <<>>
             /\ e[n].synced <= Len(e[n].recs)
  <2>1. CASE r[n].st = "ready" /\ Len(r[n].recs) = 0
    <3>1. e[n] = Absent /\ r[n].recs = <<>>
      BY <1>2, <1>3, <2>1
    <3> QED  BY <2>1, <3>1 DEF Absent
  <2>2. CASE ~(r[n].st = "ready" /\ Len(r[n].recs) = 0)
    <3>1. e[n] = r[n]
      BY <1>2, <2>2
    <3> QED  BY <1>1, <3>1 DEF WellFormed
  <2> QED  BY <2>1, <2>2
<1>7. WellFormed(e)
  BY <1>6 DEF WellFormed
<1>8. Keeps(r, e)
  BY <1>3, <1>6 DEF Keeps
<1> QED  BY <1>1, <1>5, <1>6, <1>7, <1>8, KeepsTransitive DEF Exists, r, e

\* In a directory that the scan accepts, the last record of a segment has its
\* highest sequence number, which is what the catalogue stores.
LEMMA LastSeqCovers ==
  ASSUME NEW d \in Disks, NEW n \in Files, ContiguousIn(d[n]),
         \A i \in 1..Len(d[n].recs) : d[n].recs[i] # Torn,
         NEW i \in 1..Len(d[n].recs)
  PROVE  /\ d[n].recs[i].seq <= LastSeq(d[n])
         /\ LastSeq(d[n]) \in Nat /\ LastSeq(d[n]) > 0
<1>1. d[n].recs \in Seq(Record \cup {Torn})
  BY DEF Disks, Segment
<1>2. \A j \in 1..Len(d[n].recs) : d[n].recs[j].seq \in 1..MaxSeq
  BY <1>1 DEF Record
<1>3. Len(d[n].recs) \in 1..Len(d[n].recs) /\ 1 \in 1..Len(d[n].recs)
  BY <1>1
<1>4. LastSeq(d[n]) = d[n].recs[Len(d[n].recs)].seq
  BY <1>1, <1>3 DEF LastSeq
<1>5. d[n].recs[i].seq <= d[n].recs[Len(d[n].recs)].seq
  <2>1. \A j \in 1..Len(d[n].recs) : d[n].recs[j].seq = d[n].recs[1].seq + j - 1
    BY DEF ContiguousIn
  <2>2. /\ d[n].recs[i].seq = d[n].recs[1].seq + i - 1
        /\ d[n].recs[Len(d[n].recs)].seq = d[n].recs[1].seq + Len(d[n].recs) - 1
    BY <1>3, <2>1
  <2>3. d[n].recs[1].seq \in Int /\ Len(d[n].recs) \in Int /\ i \in Int /\ i <= Len(d[n].recs)
    BY <1>1, <1>2, <1>3
  <2> QED  BY <2>2, <2>3
<1> QED  BY <1>2, <1>3, <1>4, <1>5

-----------------------------------------------------------------------------
(* The steps.                                                               *)

\* The disk and the catalogue after the scan, the removal of the empty segments
\* and the creation of segment k + 1, which is `left'.
LEMMA ScanResult ==
  ASSUME IInv, ScanAccepts(disk), NEW m \in 0..MaxSeq, IsHighestSeq(RepairedDisk(disk), m),
         NEW k \in 0..MaxFiles, IsHighestFile(disk, k), k + 1 \in Files,
         NEW left \in {Absent, Bare, Fresh}
  PROVE  LET e == [ScannedDisk(disk) EXCEPT ![k + 1] = left]
             f == Listed(ScannedDisk(disk))
         IN  /\ e \in Disks /\ WellFormed(e) /\ OwedSafe(e)
             /\ e[k + 1] = left
             /\ \A n \in Files : n > k + 1 => e[n].st = "absent"
             /\ f \in [Files -> Nat \cup {NotListed}]
             /\ \A n \in Files : \A i \in 1..Len(e[n].recs) :
                  n # k + 1 /\ e[n].recs[i].seq <= m /\ e[n].recs[i].seq <= f[n]
<1> DEFINE c == ScannedDisk(disk)
           r == RepairedDisk(disk)
           e == [c EXCEPT ![k + 1] = left]
           f == Listed(c)
<1> SUFFICES /\ e \in Disks /\ WellFormed(e) /\ OwedSafe(e)
             /\ e[k + 1] = left
             /\ \A n \in Files : n > k + 1 => e[n].st = "absent"
             /\ f \in [Files -> Nat \cup {NotListed}]
             /\ \A n \in Files : \A i \in 1..Len(e[n].recs) :
                  n # k + 1 /\ e[n].recs[i].seq <= m /\ e[n].recs[i].seq <= f[n]
  OBVIOUS
<1>1. disk \in Disks /\ WellFormed(disk) /\ owed \subseteq Record /\ OwedSafe(disk)
  BY DEF IInv, TypeOK, Disks
<1>2. /\ c \in Disks /\ WellFormed(c) /\ Keeps(disk, c)
      /\ \A n \in Files : c[n].recs = r[n].recs /\ (~Exists(disk, n) => ~Exists(c, n))
  BY <1>1, ScannedKeeps
<1>3. r \in Disks /\ \A n \in Files : ContiguousIn(r[n])
  BY <1>1, RepairedKeeps DEF ScanAccepts
<1>4. \A n \in Files : \A i \in 1..Len(r[n].recs) : r[n].recs[i] # Torn
  BY DEF ScanAccepts
<1>5. \A n \in Files : LastSeq(r[n]) <= m
  BY DEF IsHighestSeq
<1> HIDE DEF r, c
<1>6. \A n \in Files : n > k => c[n].st = "absent"
  BY <1>2 DEF IsHighestFile, Exists, Files
<1>7. c[k + 1].recs = <<>> /\ c[k + 1].synced = 0
  <2>1. c[k + 1].st = "absent"
    BY <1>6
  <2>2. c[k + 1].recs = <<>> /\ c[k + 1].synced <= Len(c[k + 1].recs)
    BY <1>2, <2>1 DEF WellFormed
  <2>3. c[k + 1].synced \in Nat
    BY <1>2 DEF Disks, Segment
  <2> QED  BY <2>2, <2>3
<1>8. left \in Segment /\ left.recs = <<>> /\ left.synced = 0
  BY EmptySegments
<1>9. e \in Disks /\ WellFormed(e) /\ Keeps(c, e)
  <2>1. \A i \in 1..Len(c[k + 1].recs) : i \in 1..Len(left.recs) /\ left.recs[i] = c[k + 1].recs[i]
    BY <1>7
  <2>2. left.synced <= Len(left.recs) /\ c[k + 1].synced <= left.synced
    BY <1>7, <1>8
  <2> HIDE DEF e
  <2> QED  BY <1>2, <1>8, <2>1, <2>2, UpdateKeeps DEF e
<1>10. OwedSafe(e)
  BY <1>1, <1>2, <1>9, KeepsTransitive, KeepsOwed
<1>11. \A n \in Files : e[n] = IF n = k + 1 THEN left ELSE c[n]
  BY <1>2 DEF Disks
<1>12. e[k + 1] = left /\ \A n \in Files : n > k + 1 => e[n].st = "absent"
  BY <1>6, <1>11 DEF Files
<1>13. ASSUME NEW n \in Files, NEW i \in 1..Len(c[n].recs)
       PROVE  /\ LastSeq(c[n]) = LastSeq(r[n]) /\ Exists(c, n)
              /\ c[n].recs[i].seq <= LastSeq(r[n])
              /\ c[n].recs[i].seq \in Nat /\ LastSeq(r[n]) \in Nat
  <2>1. LastSeq(c[n]) = LastSeq(r[n])
    BY <1>2 DEF LastSeq
  <2>2. c[n].recs[i].seq <= LastSeq(r[n]) /\ LastSeq(r[n]) \in Nat
    BY <1>2, <1>3, <1>4, <1>13, LastSeqCovers
  <2>3. c[n].recs \in Seq(Record \cup {Torn})
    BY <1>2 DEF Disks, Segment
  <2>4. c[n].recs[i] \in Record \cup {Torn}
    BY <2>3
  <2>5. c[n].recs # <<>>
    BY <2>3
  <2> QED  BY <1>2, <2>1, <2>2, <2>4, <2>5 DEF Exists, WellFormed, Record, Torn
<1>14. f \in [Files -> Nat \cup {NotListed}]
  <2>1. \A n \in Files : LastSeq(c[n]) \in Nat
    <3> SUFFICES ASSUME NEW n \in Files PROVE LastSeq(c[n]) \in Nat
      OBVIOUS
    <3>1. c[n].recs \in Seq(Record \cup {Torn})
      BY <1>2 DEF Disks, Segment
    <3>2. CASE Len(c[n].recs) = 0
      BY <3>2 DEF LastSeq
    <3>3. CASE Len(c[n].recs) # 0
      <4>1. Len(c[n].recs) \in 1..Len(c[n].recs)
        BY <3>1, <3>3
      <4> QED  BY <1>13, <4>1
    <3> QED  BY <3>2, <3>3
  <2> QED  BY <2>1 DEF Listed
<1>15. ASSUME NEW n \in Files, NEW i \in 1..Len(e[n].recs)
       PROVE  n # k + 1 /\ e[n].recs[i].seq <= m /\ e[n].recs[i].seq <= f[n]
  <2>1. n # k + 1 /\ e[n] = c[n]
    BY <1>8, <1>11, <1>15
  <2>2. f[n] = LastSeq(c[n])
    BY <1>13, <1>15, <2>1 DEF Listed
  <2>3. m \in Nat /\ LastSeq(r[n]) <= m
    BY <1>5, WalConstants
  <2> HIDE DEF f, e
  <2> QED  BY <1>13, <1>15, <2>1, <2>2, <2>3
<1> HIDE DEF e, f
<1> QED  BY <1>9, <1>10, <1>12, <1>14, <1>15

LEMMA StartStep ==
  ASSUME IInv, Start
  PROVE  IInv'
<1>1. PICK m \in 0..MaxSeq, k \in 0..MaxFiles : Open(m, k)
  BY DEF Start
<1>2. /\ disk' = [ScannedDisk(disk) EXCEPT ![k + 1] = Fresh]
      /\ files_' = [Listed(ScannedDisk(disk)) EXCEPT ![k + 1] = 0]
      /\ current_sequence_' = m /\ current_file_number_' = k + 1
      /\ open_' = TRUE /\ current_fd_' = TRUE /\ proc' = "up"
      /\ UNCHANGED <<needs_sync_, sync_on_write, owed, damage>>
  BY <1>1 DEF Open, Start
<1>3. k + 1 \in Files
  BY <1>1 DEF Open
<1> DEFINE f == Listed(ScannedDisk(disk))
<1>4. /\ disk' \in Disks /\ WellFormed(disk')
      /\ OwedSafe([ScannedDisk(disk) EXCEPT ![k + 1] = Fresh])
      /\ disk'[k + 1] = Fresh
      /\ \A n \in Files : n > k + 1 => disk'[n].st = "absent"
      /\ f \in [Files -> Nat \cup {NotListed}]
      /\ \A n \in Files : \A i \in 1..Len(disk'[n].recs) :
           n # k + 1 /\ disk'[n].recs[i].seq <= m /\ disk'[n].recs[i].seq <= f[n]
  BY <1>1, <1>2, <1>3, ScanResult, ZenonT(40) DEF Open
<1> HIDE DEF f
<1>5. TypeOK'
  <2>1. files_' \in [Files -> Nat \cup {NotListed}]
    BY <1>2, <1>3, <1>4 DEF f
  <2> QED  BY <1>2, <1>3, <1>4, <2>1, WalConstants DEF IInv, TypeOK, Disks, Files
<1>6. Current'
  BY <1>2, <1>3, <1>4 DEF Current, Fresh
<1>7. CatalogueCovers'
  BY <1>2, <1>3, <1>4 DEF CatalogueCovers, f
<1>8. OwedSafe(disk)'
  BY <1>2, <1>4 DEF OwedSafe, OnDisk, Durable
<1> QED  BY <1>4, <1>5, <1>6, <1>7, <1>8 DEF IInv, WellFormed

LEMMA StartFailsStep ==
  ASSUME IInv, StartFails
  PROVE  IInv'
<1>1. PICK m \in 0..MaxSeq, k \in 0..MaxFiles, left \in {Absent, Bare} : OpenRotateFails(m, k, left)
  BY DEF StartFails
<1>2. /\ disk' = [ScannedDisk(disk) EXCEPT ![k + 1] = left]
      /\ files_' = Listed(ScannedDisk(disk))
      /\ current_sequence_' = m /\ current_file_number_' = k + 1
      /\ current_fd_' = FALSE /\ proc' = "down"
      /\ damage' = damage \cup LeftBare
      /\ UNCHANGED <<open_, needs_sync_, sync_on_write, owed>>
  BY <1>1 DEF OpenRotateFails, StartFails, IInv, TypeOK
<1>3. k + 1 \in Files
  BY <1>1 DEF OpenRotateFails
<1>4. /\ disk' \in Disks /\ WellFormed(disk')
      /\ OwedSafe([ScannedDisk(disk) EXCEPT ![k + 1] = left])
      /\ files_' \in [Files -> Nat \cup {NotListed}]
  BY <1>1, <1>2, <1>3, ScanResult DEF OpenRotateFails
<1>5. TypeOK'
  <2>1. damage' \subseteq Damages
    BY <1>2 DEF IInv, TypeOK, LeftBare, Damages
  <2>2. current_sequence_' \in 0..MaxSeq /\ current_file_number_' \in 0..MaxFiles
    BY <1>2, <1>3, WalConstants DEF Files
  <2> QED  BY <1>2, <1>4, <2>1, <2>2 DEF IInv, TypeOK, Disks
<1>6. OwedSafe(disk)'
  BY <1>2, <1>4 DEF OwedSafe, OnDisk, Durable
<1> QED  BY <1>2, <1>4, <1>5, <1>6 DEF IInv, WellFormed, Current, CatalogueCovers

\* An fsync of segment k.
LEMMA SyncKeeps ==
  ASSUME NEW d \in Disks, WellFormed(d), NEW k \in Files
  PROVE  LET e == [d EXCEPT ![k].synced = Len(d[k].recs)]
         IN  /\ e \in Disks /\ WellFormed(e) /\ Keeps(d, e)
             /\ \A n \in Files : e[n].st = d[n].st /\ e[n].recs = d[n].recs
<1> DEFINE s == [d[k] EXCEPT !.synced = Len(d[k].recs)]
           e == [d EXCEPT ![k] = s]
<1>1. d[k].recs \in Seq(Record \cup {Torn}) /\ d[k].synced <= Len(d[k].recs) /\ d[k] \in Segment
  BY DEF Disks, Segment, WellFormed
<1>2. s \in Segment /\ s.recs = d[k].recs /\ s.st = d[k].st /\ s.synced = Len(d[k].recs)
  BY <1>1 DEF Segment
<1>3. s.st # "ready" => s.recs = <<>>
  BY <1>2 DEF WellFormed
<1>4. Len(s.recs) \in Nat
  BY <1>1, <1>2
<1> HIDE DEF s
<1>5. e \in Disks /\ WellFormed(e) /\ Keeps(d, e)
  BY <1>1, <1>2, <1>3, <1>4, UpdateKeeps
<1>6. \A n \in Files : e[n].st = d[n].st /\ e[n].recs = d[n].recs
  BY <1>2 DEF Disks
<1>7. e = [d EXCEPT ![k].synced = Len(d[k].recs)]
  BY DEF s
<1> HIDE DEF e
<1> QED  BY <1>5, <1>6, <1>7

\* The rotation inside Append moves to an empty segment and loses nothing.
LEMMA RotationKeeps ==
  ASSUME IInv, AppendReady
  PROVE  /\ RotatedDisk \in Disks /\ WellFormed(RotatedDisk) /\ Keeps(disk, RotatedDisk)
         /\ RotatedFile \in Files
         /\ RotatedDisk[RotatedFile].st = "ready"
         /\ \A n \in Files : n > RotatedFile => RotatedDisk[n].st = "absent"
         /\ \A n \in Files : RotatedDisk[n].recs = disk[n].recs
<1>1. /\ disk \in Disks /\ WellFormed(disk) /\ current_file_number_ \in Files
      /\ disk[current_file_number_].st = "ready"
      /\ \A n \in Files : n > current_file_number_ => disk[n].st = "absent"
  BY DEF IInv, TypeOK, Disks, Current, AppendReady
<1>2. CASE ~MustRotate
  <2>1. RotatedDisk = disk /\ RotatedFile = current_file_number_
    BY <1>2 DEF RotatedDisk, RotatedFile
  <2>2. Keeps(disk, disk)
    BY DEF Keeps
  <2> QED  BY <1>1, <2>1, <2>2
<1>3. CASE MustRotate
  <2> DEFINE a == current_file_number_
             d == [disk EXCEPT ![a].synced = Len(disk[a].recs)]
             e == [d EXCEPT ![a + 1] = Fresh]
  <2>1. a + 1 \in Files /\ RotatedFile = a + 1
    BY <1>3 DEF AppendReady, RotatedFile
  <2>2. /\ d \in Disks /\ WellFormed(d) /\ Keeps(disk, d)
        /\ \A n \in Files : d[n].st = disk[n].st /\ d[n].recs = disk[n].recs
    BY <1>1, SyncKeeps
  <2>3. RotatedDisk = e
    BY <1>3, <2>1 DEF RotatedDisk, CurrentLen
  <2> HIDE DEF d
  <2>4. d[a + 1].recs = <<>> /\ d[a + 1].synced = 0
    <3>1. d[a + 1].st = "absent"
      BY <1>1, <2>1, <2>2 DEF Files
    <3>2. d[a + 1].recs = <<>> /\ d[a + 1].synced <= Len(d[a + 1].recs)
      BY <2>1, <2>2, <3>1 DEF WellFormed
    <3>3. d[a + 1].synced \in Nat
      BY <2>1, <2>2 DEF Disks, Segment
    <3> QED  BY <3>2, <3>3
  <2>5. Fresh \in Segment /\ Fresh.recs = <<>> /\ Fresh.synced = 0 /\ Fresh.st = "ready"
    BY EmptySegments DEF Fresh
  <2>6. e \in Disks /\ WellFormed(e) /\ Keeps(d, e)
    <3>1. \A i \in 1..Len(d[a + 1].recs) :
            i \in 1..Len(Fresh.recs) /\ Fresh.recs[i] = d[a + 1].recs[i]
      BY <2>4
    <3>2. Fresh.synced <= Len(Fresh.recs) /\ d[a + 1].synced <= Fresh.synced
      BY <2>4, <2>5
    <3> HIDE DEF e
    <3> QED  BY <2>1, <2>2, <2>5, <3>1, <3>2, UpdateKeeps DEF e
  <2>7. \A n \in Files : e[n] = IF n = a + 1 THEN Fresh ELSE d[n]
    BY <2>2 DEF Disks
  <2> HIDE DEF e
  <2>8. \A n \in Files : e[n].recs = disk[n].recs
    BY <2>2, <2>4, <2>5, <2>7
  <2>9. e[a + 1].st = "ready" /\ \A n \in Files : n > a + 1 => e[n].st = "absent"
    BY <1>1, <2>1, <2>2, <2>5, <2>7 DEF Files
  <2> QED  BY <2>1, <2>2, <2>3, <2>6, <2>8, <2>9, KeepsTransitive
<1> QED  BY <1>2, <1>3

LEMMA SyncedUpdate ==
  ASSUME NEW c \in Segment, NEW y \in Nat
  PROVE  [c EXCEPT !.synced = y] = [st |-> c.st, recs |-> c.recs, synced |-> y]
<1> DEFINE s == [c EXCEPT !.synced = y]
<1>1. s \in Segment /\ s.st = c.st /\ s.recs = c.recs /\ s.synced = y
  BY DEF Segment
<1> HIDE DEF s
<1>2. s = [st |-> s.st, recs |-> s.recs, synced |-> s.synced]
  BY <1>1 DEF Segment
<1> QED  BY <1>1, <1>2 DEF s

LEMMA RecsUpdate ==
  ASSUME NEW c \in Segment, NEW x \in Seq(Record \cup {Torn})
  PROVE  [c EXCEPT !.recs = x] = [st |-> c.st, recs |-> x, synced |-> c.synced]
BY DEF Segment

LEMMA SegmentUpdate ==
  ASSUME NEW c \in Segment, NEW x \in Seq(Record \cup {Torn}), NEW y \in Nat
  PROVE  [c EXCEPT !.recs = x, !.synced = y] = [st |-> c.st, recs |-> x, synced |-> y]
<1> DEFINE a == [c EXCEPT !.recs = x]
<1>1. a \in Segment /\ a.st = c.st /\ a.recs = x
  BY RecsUpdate DEF Segment
<1>2. [c EXCEPT !.recs = x, !.synced = y] = [a EXCEPT !.synced = y]
  OBVIOUS
<1> HIDE DEF a
<1>3. [a EXCEPT !.synced = y] = [st |-> a.st, recs |-> a.recs, synced |-> y]
  BY <1>1, SyncedUpdate
<1> QED  BY <1>1, <1>2, <1>3

LEMMA AppendIsConcat ==
  ASSUME NEW x \in Seq(Record \cup {Torn}), NEW r \in Record
  PROVE  /\ <<r>> \in Seq(Record \cup {Torn}) /\ Len(<<r>>) = 1 /\ <<r>>[1] = r
         /\ Append(x, r) = x \o <<r>>
OBVIOUS

\* Appending the records t to the segment being written.
LEMMA AppendKeeps ==
  ASSUME NEW d \in Disks, WellFormed(d), NEW k \in Files, d[k].st = "ready",
         NEW t \in Seq(Record \cup {Torn}),
         NEW e \in Disks, \A n \in Files : n # k => e[n] = d[n],
         e[k].st = d[k].st, e[k].recs = d[k].recs \o t,
         d[k].synced <= e[k].synced, e[k].synced <= Len(d[k].recs) + Len(t)
  PROVE  WellFormed(e) /\ Keeps(d, e) /\ \A n \in Files : e[n].st = d[n].st
<1>1. d[k].recs \in Seq(Record \cup {Torn})
  BY DEF Disks, Segment
<1>2. /\ Len(e[k].recs) = Len(d[k].recs) + Len(t)
      /\ \A i \in 1..Len(d[k].recs) : i \in 1..Len(e[k].recs) /\ e[k].recs[i] = d[k].recs[i]
  BY <1>1
<1>3. \A n \in Files : d[n].synced \in Nat /\ e[n].synced \in Nat
  BY DEF Disks, Segment
<1>4. WellFormed(e)
  BY <1>2 DEF WellFormed
<1>5. ASSUME NEW n \in Files, NEW i \in 1..Len(d[n].recs)
      PROVE  /\ i \in 1..Len(e[n].recs) /\ e[n].recs[i] = d[n].recs[i]
             /\ i <= d[n].synced => i <= e[n].synced
  <2>1. CASE n = k
    <3>1. d[k].synced \in Nat /\ e[k].synced \in Nat /\ i \in Nat
      BY <1>3, <1>5
    <3>2. i <= d[k].synced => i <= e[k].synced
      BY <3>1
    <3> QED
      BY <1>2, <1>5, <2>1, <3>2
  <2>2. CASE n # k
    <3>1. e[n] = d[n]
      BY <1>5, <2>2
    <3> QED
      BY <1>5, <3>1
  <2> QED
    BY <2>1, <2>2
<1> QED  BY <1>4, <1>5 DEF Keeps

\* The catalogue after the records t were written to segment k.
LEMMA AppendCovers ==
  ASSUME IInv, proc = "up", NEW k \in Files, NEW t \in Seq(Record \cup {Torn}),
         \A n \in Files : n # k => disk'[n].recs = disk[n].recs /\ files_'[n] = files_[n],
         disk'[k].recs = disk[k].recs \o t,
         current_sequence_' = current_sequence_ + 1,
         \A j \in 1..Len(t) : t[j].seq <= current_sequence_ + 1,
         \/ files_'[k] = current_sequence_ + 1
         \/ files_'[k] = 0
         \/ files_'[k] = files_[k] /\ \A j \in 1..Len(t) : t[j].seq = 0
  PROVE  CatalogueCovers'
<1>1. /\ disk \in Disks /\ current_sequence_ \in Nat
      /\ \A n \in Files : files_[n] \in Int /\ disk[n].recs \in Seq(Record \cup {Torn})
  BY WalConstants DEF IInv, TypeOK, Disks, Segment, NotListed
<1>2. \A n \in Files : \A i \in 1..Len(disk[n].recs) :
        /\ disk[n].recs[i].seq \in Nat
        /\ disk[n].recs[i].seq <= current_sequence_
        /\ files_[n] > 0 => disk[n].recs[i].seq <= files_[n]
  <2>1. \A n \in Files : \A i \in 1..Len(disk[n].recs) : disk[n].recs[i] \in Record \cup {Torn}
    BY <1>1
  <2> QED  BY <2>1, WalConstants DEF IInv, CatalogueCovers, Record, Torn
<1> SUFFICES ASSUME NEW n \in Files, NEW i \in 1..Len(disk'[n].recs)
             PROVE  /\ disk'[n].recs[i].seq <= current_sequence_'
                    /\ files_'[n] > 0 => disk'[n].recs[i].seq <= files_'[n]
  BY DEF CatalogueCovers
<1>3. CASE n # k
  <2>1. disk'[n].recs = disk[n].recs /\ files_'[n] = files_[n]
    BY <1>3
  <2> QED  BY <1>1, <1>2, <2>1
<1>4. CASE n = k /\ i <= Len(disk[k].recs)
  <2>1. disk'[k].recs[i] = disk[k].recs[i] /\ i \in 1..Len(disk[k].recs)
    BY <1>1, <1>4
  <2>2. /\ disk'[n].recs[i].seq \in Nat
        /\ disk'[n].recs[i].seq <= current_sequence_
        /\ files_[k] > 0 => disk'[n].recs[i].seq <= files_[k]
    BY <1>2, <1>4, <2>1
  <2>3. files_'[n] = files_'[k]
    BY <1>4
  <2>4. current_sequence_ \in Nat /\ files_[k] \in Int
    BY <1>1
  <2> QED  BY <2>2, <2>3, <2>4
<1>5. CASE n = k /\ i > Len(disk[k].recs)
  <2>1. /\ i - Len(disk[k].recs) \in 1..Len(t)
        /\ disk'[k].recs[i] = t[i - Len(disk[k].recs)]
    BY <1>1, <1>5
  <2>2. disk'[k].recs[i].seq \in Nat
    <3>1. t[i - Len(disk[k].recs)] \in Record \cup {Torn}
      BY <2>1
    <3> QED  BY <2>1, <3>1 DEF Record, Torn
  <2>3. /\ disk'[n].recs[i].seq <= current_sequence_ + 1
        /\ files_'[k] = files_[k] =>
             disk'[n].recs[i].seq = 0 \/ files_'[k] = current_sequence_ + 1 \/ files_'[k] = 0
    BY <1>5, <2>1
  <2>4. files_'[n] = files_'[k] /\ disk'[n].recs[i].seq \in Nat
    BY <1>5, <2>2
  <2>5. current_sequence_ \in Nat /\ files_[k] \in Int
    BY <1>1
  <2> QED  BY <2>3, <2>4, <2>5
<1> QED  BY <1>1, <1>3, <1>4, <1>5

LEMMA AcknowledgeStep ==
  ASSUME IInv, NEW op \in Ops, Acknowledge(op)
  PROVE  IInv'
<1> DEFINE d == RotatedDisk
           k == RotatedFile
           r == NextRecord(op)
           y == IF sync_on_write THEN Len(d[k].recs) + 1 ELSE d[k].synced
           t == <<r>>
           s == [st |-> d[k].st, recs |-> d[k].recs \o t, synced |-> y]
<1>1. AppendReady /\ proc = "up" /\ proc' = "up" /\ owed' = owed \cup {r}
  BY DEF Acknowledge, AppendOk
<1>2. /\ d \in Disks /\ WellFormed(d) /\ Keeps(disk, d)
      /\ k \in Files /\ d[k].st = "ready"
      /\ \A n \in Files : n > k => d[n].st = "absent"
      /\ \A n \in Files : d[n].recs = disk[n].recs
  BY <1>1, RotationKeeps
<1>3. /\ disk' = [d EXCEPT ![k].recs = Append(@, r), ![k].synced = IF sync_on_write THEN Len(d[k].recs) + 1 ELSE @]
      /\ files_' = [files_ EXCEPT ![k] = current_sequence_ + 1]
      /\ current_sequence_' = current_sequence_ + 1
      /\ current_file_number_' = k
      /\ needs_sync_' = (needs_sync_ \/ ~sync_on_write)
      /\ UNCHANGED <<open_, current_fd_, sync_on_write, proc, damage>>
  BY DEF Acknowledge, AppendOk
<1> HIDE DEF d, k
<1>4. r \in Record /\ r.seq = current_sequence_ + 1 /\ current_sequence_ + 1 \in 1..MaxSeq
  BY <1>1, WalConstants DEF NextRecord, Record, AppendReady, IInv, TypeOK
<1> HIDE DEF r
<1>5. /\ d[k] \in Segment /\ d[k].recs \in Seq(Record \cup {Torn}) /\ d[k].synced \in Nat
      /\ d[k].synced <= Len(d[k].recs)
  BY <1>2 DEF Disks, Segment, WellFormed
<1>6. /\ t \in Seq(Record \cup {Torn}) /\ Len(t) = 1 /\ t[1] = r
      /\ Append(d[k].recs, r) = d[k].recs \o t
      /\ y \in Nat /\ d[k].synced <= y /\ y <= Len(d[k].recs) + 1
  <2>1. y \in Nat /\ d[k].synced <= y /\ y <= Len(d[k].recs) + 1
    BY <1>5
  <2> QED  BY <1>4, <1>5, <2>1, AppendIsConcat
<1> HIDE DEF t
<1>7. disk' = [d EXCEPT ![k] = s]
  <2>1. disk' = [d EXCEPT ![k] = [d[k] EXCEPT !.recs = Append(d[k].recs, r), !.synced = y]]
    BY <1>2, <1>3 DEF Disks
  <2> HIDE DEF y
  <2>2. d[k].recs \o t \in Seq(Record \cup {Torn})
    BY <1>5, <1>6
  <2>3. s = [d[k] EXCEPT !.recs = d[k].recs \o t, !.synced = y]
    BY <1>5, <1>6, <2>2, SegmentUpdate
  <2> QED  BY <1>6, <2>1, <2>3
<1> HIDE DEF y
<1>8. /\ disk' \in Disks /\ WellFormed(disk') /\ Keeps(d, disk')
      /\ \A n \in Files : disk'[n].st = d[n].st
      /\ \A n \in Files : n # k => disk'[n] = d[n]
      /\ disk'[k].recs = d[k].recs \o t /\ disk'[k].synced = y
  <2>1. d[k].recs \o t \in Seq(Record \cup {Torn}) /\ y <= Len(d[k].recs) + Len(t)
    BY <1>5, <1>6
  <2>2. s \in Segment /\ s.st = d[k].st /\ s.recs = d[k].recs \o t /\ s.synced = y
    BY <1>5, <1>6, <2>1 DEF Segment
  <2> HIDE DEF s
  <2>3. disk' \in Disks /\ disk'[k] = s /\ \A n \in Files : n # k => disk'[n] = d[n]
    BY <1>2, <1>7, <2>2 DEF Disks
  <2>4. WellFormed(disk') /\ Keeps(d, disk') /\ \A n \in Files : disk'[n].st = d[n].st
    BY <1>2, <1>6, <2>1, <2>2, <2>3, AppendKeeps
  <2> QED  BY <2>2, <2>3, <2>4
<1>9. TypeOK'
  <2>1. files_' \in [Files -> Nat \cup {NotListed}]
    BY <1>2, <1>3, <1>4 DEF IInv, TypeOK
  <2>2. current_sequence_' \in 0..MaxSeq /\ current_file_number_' \in 0..MaxFiles
    BY <1>2, <1>3, <1>4, WalConstants DEF Files
  <2>3. owed' \subseteq Record
    BY <1>1, <1>4 DEF IInv, TypeOK
  <2> QED  BY <1>3, <1>8, <2>1, <2>2, <2>3 DEF IInv, TypeOK, Disks
<1>10. Current'
  BY <1>2, <1>3, <1>8 DEF Current
<1>11. CatalogueCovers'
  <2>1. \A n \in Files : n # k => disk'[n].recs = disk[n].recs /\ files_'[n] = files_[n]
    BY <1>2, <1>3, <1>8 DEF IInv, TypeOK
  <2>2. disk'[k].recs = disk[k].recs \o t
    BY <1>2, <1>8
  <2>3. files_'[k] = current_sequence_ + 1
    BY <1>2, <1>3 DEF IInv, TypeOK
  <2>4. \A j \in 1..Len(t) : t[j].seq <= current_sequence_ + 1
    BY <1>4, <1>6
  <2> QED  BY <1>1, <1>2, <1>3, <1>6, <2>1, <2>2, <2>3, <2>4, AppendCovers
<1>12. OwedSafe(disk)'
  <2>1. OwedSafe(disk')
    BY <1>2, <1>8, KeepsTransitive, KeepsOwed DEF IInv, TypeOK
  <2>2. /\ Len(d[k].recs) + 1 \in 1..Len(disk'[k].recs)
        /\ disk'[k].recs[Len(d[k].recs) + 1] = r
    BY <1>5, <1>6, <1>8
  <2>3. sync_on_write => Len(d[k].recs) + 1 <= disk'[k].synced
    BY <1>5, <1>8 DEF y
  <2>4. OnDisk(r, disk') /\ (sync_on_write => Durable(r, disk'))
    BY <1>2, <2>2, <2>3 DEF OnDisk, Durable
  <2>5. \A q \in owed' : OnDisk(q, disk') /\ (sync_on_write' => Durable(q, disk'))
    BY <1>1, <1>3, <2>1, <2>4 DEF OwedSafe
  <2> QED  BY <2>5 DEF OwedSafe, OnDisk, Durable
<1> QED  BY <1>8, <1>9, <1>10, <1>11, <1>12 DEF IInv, WellFormed

LEMMA AppendErrorStep ==
  ASSUME IInv, NEW op \in Ops, AppendError(op)
  PROVE  IInv'
<1> DEFINE d == RotatedDisk
           k == RotatedFile
           r == NextRecord(op)
<1>1. AppendReady /\ proc = "up" /\ UNCHANGED <<proc, owed, damage>>
  BY DEF AppendError, AppendPoisoned, lifeVars
<1>2. PICK t \in AppendResidue(op) : AppendPoisoned(op, t)
  BY DEF AppendError
<1>3. /\ d \in Disks /\ WellFormed(d) /\ Keeps(disk, d)
      /\ k \in Files /\ d[k].st = "ready"
      /\ \A n \in Files : d[n].recs = disk[n].recs
  BY <1>1, RotationKeeps
<1>4. /\ disk' = [d EXCEPT ![k].recs = @ \o t]
      /\ files_' = [files_ EXCEPT ![k] = IF t = <<r>> THEN current_sequence_ + 1
                                         ELSE IF MustRotate THEN 0 ELSE @]
      /\ current_sequence_' = current_sequence_ + 1
      /\ current_file_number_' = k
      /\ open_' = FALSE /\ current_fd_' = FALSE
      /\ UNCHANGED <<needs_sync_, sync_on_write>>
  BY <1>2 DEF AppendPoisoned
<1>5. t \in {<<>>, <<Torn>>, <<r>>}
  BY <1>2 DEF AppendResidue
<1> HIDE DEF d, k
<1>6. r \in Record /\ r.seq = current_sequence_ + 1 /\ current_sequence_ + 1 \in 1..MaxSeq
  BY <1>1, WalConstants DEF NextRecord, Record, AppendReady, IInv, TypeOK
<1> HIDE DEF r
<1>7. /\ t \in Seq(Record \cup {Torn})
      /\ t # <<r>> => \A j \in 1..Len(t) : t[j].seq = 0
      /\ \A j \in 1..Len(t) : t[j].seq <= current_sequence_ + 1
  <2>1. CASE t = <<>>
    BY <2>1
  <2>2. CASE t = <<Torn>>
    <3>1. Torn.seq = 0
      BY DEF Torn
    <3>2. \A j \in 1..Len(t) : t[j] = Torn
      BY <2>2
    <3> QED  BY <1>6, <2>2, <3>1, <3>2
  <2>3. CASE t = <<r>>
    <3>1. \A j \in 1..Len(t) : t[j] = r
      BY <2>3
    <3> QED  BY <1>6, <2>3, <3>1
  <2> QED  BY <1>5, <2>1, <2>2, <2>3
<1>8. /\ d[k] \in Segment /\ d[k].recs \in Seq(Record \cup {Torn}) /\ d[k].synced \in Nat
      /\ d[k].synced <= Len(d[k].recs)
  BY <1>3 DEF Disks, Segment, WellFormed
<1> DEFINE s == [d[k] EXCEPT !.recs = d[k].recs \o t]
<1>9. /\ d[k].recs \o t \in Seq(Record \cup {Torn})
      /\ Len(d[k].recs) <= Len(d[k].recs) + Len(t) /\ Len(t) \in Nat /\ Len(d[k].recs) \in Nat
  BY <1>7, <1>8
<1>10. s \in Segment /\ s.st = d[k].st /\ s.recs = d[k].recs \o t /\ s.synced = d[k].synced
  <2>1. s = [st |-> d[k].st, recs |-> d[k].recs \o t, synced |-> d[k].synced]
    BY <1>8, <1>9, RecsUpdate
  <2> HIDE DEF s
  <2> QED  BY <1>8, <1>9, <2>1 DEF Segment
<1>11. disk' = [d EXCEPT ![k] = s]
  BY <1>3, <1>4 DEF Disks
<1> HIDE DEF s
<1>12. disk' \in Disks /\ disk'[k] = s /\ \A n \in Files : n # k => disk'[n] = d[n]
  BY <1>3, <1>10, <1>11 DEF Disks
<1>13. WellFormed(disk') /\ Keeps(d, disk')
  <2>1. d[k].synced <= disk'[k].synced /\ disk'[k].synced <= Len(d[k].recs) + Len(t)
    BY <1>8, <1>9, <1>10, <1>12
  <2> QED  BY <1>3, <1>7, <1>10, <1>12, <2>1, AppendKeeps
<1>14. TypeOK'
  <2>1. files_' \in [Files -> Nat \cup {NotListed}]
    BY <1>3, <1>4, <1>6 DEF IInv, TypeOK
  <2>2. current_sequence_' \in 0..MaxSeq /\ current_file_number_' \in 0..MaxFiles
    BY <1>3, <1>4, <1>6, WalConstants DEF Files
  <2> QED  BY <1>1, <1>4, <1>12, <2>1, <2>2 DEF IInv, TypeOK, Disks
<1>15. CatalogueCovers'
  <2>1. \A n \in Files : n # k => disk'[n].recs = disk[n].recs /\ files_'[n] = files_[n]
    BY <1>3, <1>4, <1>12 DEF IInv, TypeOK
  <2>2. disk'[k].recs = disk[k].recs \o t
    BY <1>3, <1>10, <1>12
  <2>3. \/ files_'[k] = current_sequence_ + 1
        \/ files_'[k] = 0
        \/ files_'[k] = files_[k] /\ t # <<r>>
    BY <1>3, <1>4 DEF IInv, TypeOK
  <2> QED  BY <1>1, <1>3, <1>4, <1>7, <2>1, <2>2, <2>3, AppendCovers
<1>16. OwedSafe(disk)'
  <2>1. OwedSafe(disk')
    BY <1>3, <1>13, KeepsTransitive, KeepsOwed DEF IInv, TypeOK
  <2> QED  BY <1>1, <1>4, <2>1 DEF OwedSafe, OnDisk, Durable
<1> QED  BY <1>4, <1>13, <1>14, <1>15, <1>16 DEF IInv, WellFormed, Current

\* A step that keeps every segment's records, and the catalogue with the process.
LEMMA QuietStep ==
  ASSUME IInv, TypeOK', WellFormed(disk'), Keeps(disk, disk'), Current',
         \A n \in Files : disk'[n].recs = disk[n].recs,
         UNCHANGED <<owed, sync_on_write, current_sequence_, files_>>,
         proc' = "up" => proc = "up"
  PROVE  IInv'
<1>1. OwedSafe(disk')
  BY KeepsOwed DEF IInv, TypeOK
<1>2. OwedSafe(disk)'
  BY <1>1 DEF OwedSafe, OnDisk, Durable
<1>3. CatalogueCovers'
  BY DEF IInv, CatalogueCovers
<1> QED  BY <1>2, <1>3 DEF IInv, WellFormed

LEMMA RotateErrorStep ==
  ASSUME IInv, RotateError
  PROVE  IInv'
<1>1. PICK why \in {"old", "closed", "gone", "bare"} : RotateFails(why)
  BY DEF RotateError
<1> DEFINE a == current_file_number_
           y == IF why = "old" THEN disk[a].synced ELSE Len(disk[a].recs)
           s == [disk[a] EXCEPT !.synced = y]
           c == IF why = "bare" THEN Bare ELSE disk[a + 1]
           d == [disk EXCEPT ![a] = s]
<1>2. /\ AppendReady /\ MustRotate /\ proc = "up"
      /\ current_fd_' = (why = "old")
      /\ current_file_number_' = IF why \in {"gone", "bare"} THEN a + 1 ELSE a
      /\ damage' = damage \cup LeftBare
      /\ UNCHANGED <<open_, current_sequence_, files_, needs_sync_, sync_on_write, proc, owed>>
  BY <1>1 DEF RotateFails, RotateError
<1>3. disk' = [disk EXCEPT ![a].synced = IF why = "old" THEN @ ELSE Len(disk[a].recs),
                           ![a + 1] = IF why = "bare" THEN Bare ELSE @]
  BY <1>1 DEF RotateFails, CurrentLen
<1>4. /\ disk \in Disks /\ WellFormed(disk) /\ a \in Files /\ a + 1 \in Files /\ a + 1 # a
      /\ disk[a].st = "ready"
      /\ \A n \in Files : n > a => disk[n].st = "absent"
  BY <1>2 DEF IInv, TypeOK, Disks, Current, AppendReady, Files
<1>5. /\ disk[a] \in Segment /\ disk[a].recs \in Seq(Record \cup {Torn}) /\ disk[a].synced \in Nat
      /\ disk[a].synced <= Len(disk[a].recs) /\ Len(disk[a].recs) \in Nat
      /\ disk[a + 1] \in Segment /\ disk[a + 1].recs = <<>> /\ disk[a + 1].synced = 0
  <2>1. disk[a] \in Segment /\ disk[a + 1] \in Segment
    BY <1>4 DEF Disks
  <2>2. /\ disk[a].synced <= Len(disk[a].recs)
        /\ disk[a + 1].recs = <<>> /\ disk[a + 1].synced <= Len(disk[a + 1].recs)
    BY <1>4 DEF WellFormed, Files
  <2>3. /\ disk[a].synced \in Nat /\ disk[a + 1].synced \in Nat
        /\ disk[a].recs \in Seq(Record \cup {Torn})
    BY <2>1 DEF Segment
  <2> QED  BY <2>1, <2>2, <2>3
<1>6. disk' = [d EXCEPT ![a + 1] = c]
  BY <1>3, <1>4 DEF Disks
<1>7. y \in Nat /\ disk[a].synced <= y /\ y <= Len(disk[a].recs)
  BY <1>5
<1> HIDE DEF y
<1>8. s \in Segment /\ s.st = "ready" /\ s.recs = disk[a].recs /\ s.synced = y
  <2>1. s = [st |-> disk[a].st, recs |-> disk[a].recs, synced |-> y]
    BY <1>5, <1>7, SyncedUpdate
  <2> HIDE DEF s
  <2> QED  BY <1>4, <1>5, <1>7, <2>1 DEF Segment
<1> HIDE DEF s
<1>9. d \in Disks /\ WellFormed(d) /\ Keeps(disk, d)
  <2>1. \A i \in 1..Len(disk[a].recs) : i \in 1..Len(s.recs) /\ s.recs[i] = disk[a].recs[i]
    BY <1>8
  <2> HIDE DEF d
  <2> QED  BY <1>4, <1>7, <1>8, <2>1, UpdateKeeps DEF d
<1>10. \A n \in Files : d[n] = IF n = a THEN s ELSE disk[n]
  BY <1>4 DEF Disks
<1> HIDE DEF d
<1>11. c \in Segment /\ c.recs = <<>> /\ c.synced = 0 /\ (c.st = "absent" \/ why = "bare")
  BY <1>4, <1>5, EmptySegments DEF Files
<1> HIDE DEF c
<1>12. d[a + 1].recs = <<>> /\ d[a + 1].synced = 0
  BY <1>4, <1>5, <1>10
<1>13. disk' \in Disks /\ WellFormed(disk') /\ Keeps(d, disk')
  <2>1. \A i \in 1..Len(d[a + 1].recs) : i \in 1..Len(c.recs) /\ c.recs[i] = d[a + 1].recs[i]
    BY <1>12
  <2>2. c.synced <= Len(c.recs) /\ d[a + 1].synced <= c.synced
    BY <1>11, <1>12
  <2> QED  BY <1>4, <1>6, <1>9, <1>11, <2>1, <2>2, UpdateKeeps
<1>14. \A n \in Files : disk'[n] = IF n = a + 1 THEN c ELSE d[n]
  BY <1>6, <1>9 DEF Disks
<1>15. \A n \in Files : disk'[n].recs = disk[n].recs
  BY <1>4, <1>5, <1>8, <1>10, <1>11, <1>14
<1>16. TypeOK'
  <2>1. damage' \subseteq Damages
    BY <1>2 DEF IInv, TypeOK, LeftBare, Damages
  <2>2. current_file_number_' \in 0..MaxFiles
    BY <1>2, <1>4, WalConstants DEF Files
  <2>3. current_fd_' \in BOOLEAN
    BY <1>2
  <2> QED  BY <1>2, <1>13, <2>1, <2>2, <2>3 DEF IInv, TypeOK, Disks
<1>17. Current'
  <2>1. CASE why = "old"
    BY <1>2, <1>4, <1>8, <1>10, <1>11, <1>14, <2>1 DEF Current, Files
  <2>2. CASE why # "old"
    BY <1>2, <2>2 DEF Current
  <2> QED  BY <2>1, <2>2
<1> QED  BY <1>2, <1>9, <1>13, <1>15, <1>16, <1>17, KeepsTransitive, QuietStep

LEMMA SyncStep ==
  ASSUME IInv, Sync
  PROVE  IInv'
<1>1. PICK ok \in BOOLEAN : SyncLoop(ok)
  BY DEF Sync
<1>2. /\ needs_sync_' = FALSE
      /\ UNCHANGED <<current_sequence_, current_file_number_, files_, sync_on_write, proc, owed,
                     damage>>
  BY <1>1 DEF SyncLoop, Sync, lifeVars
<1>3. disk \in Disks /\ WellFormed(disk)
  BY DEF IInv, TypeOK, Disks
<1>4. CASE current_fd_ /\ ok
  <2> DEFINE a == current_file_number_
  <2>1. disk' = [disk EXCEPT ![a].synced = Len(disk[a].recs)] /\ UNCHANGED <<open_, current_fd_>>
    BY <1>1, <1>4 DEF SyncLoop, CurrentLen
  <2>2. a \in Files
    BY <1>4 DEF IInv, Current
  <2>3. /\ disk' \in Disks /\ WellFormed(disk') /\ Keeps(disk, disk')
        /\ \A n \in Files : disk'[n].st = disk[n].st /\ disk'[n].recs = disk[n].recs
    <3> DEFINE e == [disk EXCEPT ![a].synced = Len(disk[a].recs)]
    <3>1. /\ e \in Disks /\ WellFormed(e) /\ Keeps(disk, e)
          /\ \A n \in Files : e[n].st = disk[n].st /\ e[n].recs = disk[n].recs
      BY <1>3, <2>2, SyncKeeps
    <3>2. disk' = e
      BY <2>1
    <3> HIDE DEF e
    <3> QED  BY <3>1, <3>2
  <2>4. TypeOK'
    BY <1>2, <2>1, <2>3 DEF IInv, TypeOK, Disks
  <2>5. Current'
    BY <1>2, <2>1, <2>3 DEF IInv, Current
  <2> QED  BY <1>2, <2>3, <2>4, <2>5, QuietStep
<1>5. CASE ~(current_fd_ /\ ok)
  <2>1. disk' = disk /\ current_fd_' = FALSE /\ open_' \in BOOLEAN
    BY <1>1, <1>5 DEF SyncLoop
  <2>2. WellFormed(disk') /\ Keeps(disk, disk') /\ \A n \in Files : disk'[n].recs = disk[n].recs
    BY <1>3, <2>1 DEF Keeps
  <2>3. TypeOK'
    BY <1>2, <2>1 DEF IInv, TypeOK
  <2>4. Current'
    BY <2>1 DEF Current
  <2> QED  BY <1>2, <2>2, <2>3, <2>4, QuietStep
<1> QED  BY <1>4, <1>5

LEMMA StopStep ==
  ASSUME IInv, Stop
  PROVE  IInv'
<1>1. /\ open_' = FALSE /\ current_fd_' = FALSE /\ proc' = "down"
      /\ UNCHANGED <<current_sequence_, current_file_number_, files_, needs_sync_, sync_on_write,
                     owed, damage>>
  BY DEF Stop, Close
<1>2. disk \in Disks /\ WellFormed(disk)
  BY DEF IInv, TypeOK, Disks
<1>3. /\ disk' \in Disks /\ WellFormed(disk') /\ Keeps(disk, disk')
      /\ \A n \in Files : disk'[n].recs = disk[n].recs
  <2>1. CASE current_fd_
    <3> DEFINE a == current_file_number_
               e == [disk EXCEPT ![a].synced = Len(disk[a].recs)]
    <3>1. disk' = e
      BY <2>1 DEF Stop, Close, CurrentLen
    <3>2. a \in Files
      BY <2>1 DEF IInv, Current
    <3>3. /\ e \in Disks /\ WellFormed(e) /\ Keeps(disk, e)
          /\ \A n \in Files : e[n].recs = disk[n].recs
      BY <1>2, <3>2, SyncKeeps
    <3> HIDE DEF e
    <3> QED  BY <3>1, <3>3
  <2>2. CASE ~current_fd_
    <3>1. disk' = disk
      BY <2>2 DEF Stop, Close
    <3> QED  BY <1>2, <3>1 DEF Keeps
  <2> QED  BY <2>1, <2>2
<1>4. TypeOK'
  BY <1>1, <1>3 DEF IInv, TypeOK, Disks
<1>5. Current'
  BY <1>1 DEF Current
<1> QED  BY <1>1, <1>3, <1>4, <1>5, QuietStep

LEMMA CrashStep ==
  ASSUME IInv, Crash
  PROVE  IInv'
<1>1. /\ disk' = disk /\ open_' = FALSE /\ current_fd_' = FALSE /\ needs_sync_' = FALSE
      /\ proc' = "down"
      /\ UNCHANGED <<current_sequence_, current_file_number_, files_, sync_on_write, owed, damage>>
  BY DEF Crash, ProcessCrash
<1>2. WellFormed(disk') /\ Keeps(disk, disk') /\ \A n \in Files : disk'[n].recs = disk[n].recs
  BY <1>1 DEF IInv, Keeps
<1>3. TypeOK'
  BY <1>1 DEF IInv, TypeOK
<1>4. Current'
  BY <1>1 DEF Current
<1> QED  BY <1>1, <1>2, <1>3, <1>4, QuietStep

\* Truncate removes whole segments, each of which the catalogue puts at or below
\* upTo: a record above upTo is in none of them.
LEMMA CheckpointStep ==
  ASSUME IInv, NEW upTo \in 1..MaxSeq, NEW stuck \in SUBSET Truncatable(upTo),
         Checkpoint(upTo, stuck)
  PROVE  IInv'
<1> DEFINE gone == Truncatable(upTo) \ stuck
<1>1. /\ disk' = [n \in Files |-> IF n \in gone THEN Absent ELSE disk[n]]
      /\ files_' = [n \in Files |-> IF n \in gone THEN NotListed ELSE files_[n]]
      /\ owed' = {r \in owed : r.seq > upTo}
      /\ proc = "up"
      /\ UNCHANGED <<open_, current_fd_, current_sequence_, current_file_number_, needs_sync_,
                     sync_on_write, proc>>
  BY DEF Checkpoint, Truncate
<1>2. \A n \in gone : n \in Files /\ files_[n] > 0 /\ files_[n] <= upTo /\ n # current_file_number_
  BY DEF Truncatable
<1>3. damage' \subseteq Damages
  BY DEF Checkpoint, IInv, TypeOK, Damages
<1>4. disk \in Disks /\ WellFormed(disk) /\ files_ \in [Files -> Nat \cup {NotListed}]
  BY DEF IInv, TypeOK, Disks
<1> HIDE DEF gone
<1>5. Absent \in Segment /\ Absent.recs = <<>> /\ Absent.synced = 0 /\ Absent.st = "absent"
  BY EmptySegments DEF Absent
<1>6. \A n \in Files : /\ n \in gone => disk'[n] = Absent /\ files_'[n] = NotListed
                       /\ n \notin gone => disk'[n] = disk[n] /\ files_'[n] = files_[n]
  BY <1>1
<1>7. disk' \in Disks /\ files_' \in [Files -> Nat \cup {NotListed}]
  BY <1>1, <1>4, <1>5 DEF Disks
<1>8. WellFormed(disk')
  BY <1>4, <1>5, <1>6 DEF WellFormed
<1>9. TypeOK'
  BY <1>1, <1>3, <1>7 DEF IInv, TypeOK, Disks
<1>10. Current'
  BY <1>1, <1>2, <1>5, <1>6 DEF IInv, Current
<1>11. CatalogueCovers'
  <2> SUFFICES ASSUME NEW n \in Files, NEW i \in 1..Len(disk'[n].recs)
               PROVE  /\ disk'[n].recs[i].seq <= current_sequence_'
                      /\ files_'[n] > 0 => disk'[n].recs[i].seq <= files_'[n]
    BY DEF CatalogueCovers
  <2>1. n \notin gone
    BY <1>5, <1>6
  <2> QED  BY <1>1, <1>6, <2>1 DEF IInv, CatalogueCovers
<1>12. ASSUME NEW r \in owed', NEW n \in Files, NEW i \in 1..Len(disk[n].recs), disk[n].recs[i] = r
       PROVE  n \notin gone
  <2> SUFFICES ASSUME n \in gone PROVE FALSE
    OBVIOUS
  <2>1. r.seq > upTo /\ r.seq \in Nat
    BY <1>1, <1>12 DEF IInv, TypeOK, Record
  <2>2. files_[n] > 0 /\ files_[n] <= upTo /\ files_[n] \in Int /\ upTo \in Int
    BY <1>2, <1>4 DEF NotListed
  <2>3. r.seq <= files_[n]
    BY <1>1, <1>12, <2>2 DEF IInv, CatalogueCovers
  <2> QED  BY <2>1, <2>2, <2>3
<1>13. OwedSafe(disk)'
  <2>1. ASSUME NEW r \in owed'
        PROVE  OnDisk(r, disk') /\ (sync_on_write => Durable(r, disk'))
    <3>1. OnDisk(r, disk) /\ (sync_on_write => Durable(r, disk))
      BY <1>1, <2>1 DEF IInv, OwedSafe
    <3> QED  BY <1>6, <1>12, <2>1, <3>1 DEF OnDisk, Durable
  <2> QED  BY <1>1, <2>1 DEF OwedSafe, OnDisk, Durable
<1> QED  BY <1>8, <1>9, <1>10, <1>11, <1>13 DEF IInv, WellFormed

\* A power loss leaves at least the fsynced prefix of a segment.
LEMMA SurvivorFacts ==
  ASSUME NEW c \in Segment, c.synced <= Len(c.recs), NEW x \in Survivors(c)
  PROVE  /\ x \in Seq(Record \cup {Torn})
         /\ c.synced <= Len(x)
         /\ \A i \in 1..c.synced : x[i] = c.recs[i]
         /\ c.recs = <<>> => x = <<>>
<1>1. c.recs \in Seq(Record \cup {Torn}) /\ c.synced \in Nat
  BY DEF Segment
<1>2. CASE \E len \in c.synced..Len(c.recs) : x = SubSeq(c.recs, 1, len)
  <2>1. PICK len \in c.synced..Len(c.recs) : x = SubSeq(c.recs, 1, len)
    BY <1>2
  <2> QED  BY <1>1, <2>1
<1>3. CASE \E len \in c.synced..(Len(c.recs) - 1) : x = Append(SubSeq(c.recs, 1, len), Torn)
  <2>1. PICK len \in c.synced..(Len(c.recs) - 1) : x = Append(SubSeq(c.recs, 1, len), Torn)
    BY <1>3
  <2> DEFINE p == SubSeq(c.recs, 1, len)
  <2>2. len \in Nat /\ len < Len(c.recs)
    BY <1>1, <2>1
  <2>3. p \in Seq(Record \cup {Torn}) /\ Len(p) = len /\ \A i \in 1..len : p[i] = c.recs[i]
    BY <1>1, <2>2
  <2>4. x = Append(p, Torn)
    BY <2>1
  <2> HIDE DEF p
  <2> QED  BY <1>1, <2>1, <2>2, <2>3, <2>4
<1> QED  BY <1>2, <1>3 DEF Survivors

LEMMA LosePowerStep ==
  ASSUME IInv, LosePower
  PROVE  IInv'
<1>1. /\ open_' = FALSE /\ current_fd_' = FALSE /\ needs_sync_' = FALSE /\ proc' = "down"
      /\ UNCHANGED <<current_sequence_, current_file_number_, files_, sync_on_write>>
      /\ owed' = IF sync_on_write THEN owed ELSE {r \in owed : r \in DiskRecords(disk')}
  BY DEF LosePower, PowerLoss
<1>2. damage' \subseteq Damages
  BY DEF LosePower, IInv, TypeOK, Damages
<1>3. PICK recs \in [Unsynced -> UNION {Survivors(disk[n]) : n \in Unsynced}] :
        /\ \A n \in Unsynced : recs[n] \in Survivors(disk[n])
        /\ disk' = [n \in Files |-> IF n \in Unsynced THEN [disk[n] EXCEPT !.recs = recs[n]] ELSE disk[n]]
  BY DEF LosePower, PowerLoss
<1>4. disk \in Disks /\ WellFormed(disk)
  BY DEF IInv, TypeOK, Disks
<1>5. ASSUME NEW n \in Files
      PROVE  /\ disk'[n] \in Segment
             /\ disk'[n].st = disk[n].st /\ disk'[n].synced = disk[n].synced
             /\ disk'[n].synced <= Len(disk'[n].recs)
             /\ Len(disk'[n].recs) \in Nat /\ disk[n].synced \in Nat
             /\ \A i \in 1..disk[n].synced : disk'[n].recs[i] = disk[n].recs[i]
             /\ disk[n].recs = <<>> => disk'[n].recs = <<>>
  <2>1. disk[n] \in Segment /\ disk[n].synced <= Len(disk[n].recs)
    BY <1>4 DEF Disks, WellFormed
  <2>2. CASE n \in Unsynced
    <3>1. /\ recs[n] \in Seq(Record \cup {Torn}) /\ disk[n].synced <= Len(recs[n])
          /\ \A i \in 1..disk[n].synced : recs[n][i] = disk[n].recs[i]
          /\ disk[n].recs = <<>> => recs[n] = <<>>
      BY <1>3, <2>1, <2>2, SurvivorFacts
    <3>2. disk'[n] = [disk[n] EXCEPT !.recs = recs[n]]
      BY <1>3, <2>2
    <3>3. disk'[n] = [st |-> disk[n].st, recs |-> recs[n], synced |-> disk[n].synced]
      BY <2>1, <3>1, <3>2, RecsUpdate
    <3> QED  BY <2>1, <3>1, <3>3 DEF Segment
  <2>3. CASE n \notin Unsynced
    <3>1. disk'[n] = disk[n]
      BY <1>3, <2>3
    <3> QED  BY <2>1, <3>1 DEF Segment
  <2> QED  BY <2>2, <2>3
<1>6. disk' \in Disks
  <2>1. disk' = [n \in Files |-> disk'[n]]
    BY <1>3
  <2> QED  BY <1>5, <2>1 DEF Disks
<1>7. WellFormed(disk')
  BY <1>4, <1>5 DEF WellFormed
<1>8. TypeOK'
  <2>1. owed' \subseteq Record
    BY <1>1 DEF IInv, TypeOK
  <2> QED  BY <1>1, <1>2, <1>6, <2>1 DEF IInv, TypeOK, Disks
<1>9. ASSUME NEW r \in owed' PROVE OnDisk(r, disk') /\ (sync_on_write => Durable(r, disk'))
  <2>1. CASE sync_on_write
    <3>1. Durable(r, disk)
      BY <1>1, <1>9, <2>1 DEF IInv, OwedSafe
    <3>2. PICK n \in Files : \E i \in 1..Len(disk[n].recs) : disk[n].recs[i] = r /\ i <= disk[n].synced
      BY <3>1 DEF Durable
    <3>3. PICK i \in 1..Len(disk[n].recs) : disk[n].recs[i] = r /\ i <= disk[n].synced
      BY <3>2
    <3>4. i \in 1..disk[n].synced
      BY <1>5, <3>3
    <3>5. disk'[n].recs[i] = r /\ i \in 1..Len(disk'[n].recs) /\ i <= disk'[n].synced
      BY <1>5, <3>3, <3>4
    <3> QED  BY <3>5 DEF OnDisk, Durable
  <2>2. CASE ~sync_on_write
    <3>1. r \in DiskRecords(disk')
      BY <1>1, <1>9, <2>2
    <3>2. PICK n \in Files : r \in SegmentRecords(disk'[n])
      BY <3>1 DEF DiskRecords
    <3> QED  BY <2>2, <3>2 DEF SegmentRecords, OnDisk
  <2> QED  BY <2>1, <2>2
<1>10. OwedSafe(disk)'
  BY <1>1, <1>9 DEF OwedSafe, OnDisk, Durable
<1> QED  BY <1>1, <1>6, <1>7, <1>8, <1>10 DEF IInv, WellFormed, Current, CatalogueCovers

LEMMA StartRefusedStep ==
  ASSUME IInv, StartRefused
  PROVE  IInv'
<1>1. UNCHANGED walVars /\ UNCHANGED <<owed, damage>> /\ proc' = "refused"
  BY DEF StartRefused, OpenRejected
<1>2. WellFormed(disk') /\ Keeps(disk, disk') /\ \A n \in Files : disk'[n].recs = disk[n].recs
  BY <1>1 DEF IInv, Keeps, walVars
<1>3. TypeOK'
  BY <1>1 DEF IInv, TypeOK, walVars
<1>4. Current'
  BY <1>1 DEF IInv, Current, walVars
<1> QED  BY <1>1, <1>2, <1>3, <1>4, QuietStep DEF walVars

LEMMA StutterStep ==
  ASSUME IInv, UNCHANGED vars
  PROVE  IInv'
BY DEF IInv, vars, walVars, lifeVars, TypeOK, WellFormed, Current, CatalogueCovers, OwedSafe,
       OnDisk, Durable

LEMMA InitHolds == Init => IInv
<1> SUFFICES ASSUME Init PROVE IInv
  OBVIOUS
<1>1. Absent \in Segment /\ Absent.recs = <<>> /\ Absent.synced = 0
  BY EmptySegments
<1>2. TypeOK
  <2>1. disk \in [Files -> Segment]
    BY <1>1 DEF Init, WalInit
  <2>2. files_ \in [Files -> Nat \cup {NotListed}] /\ sync_on_write \in BOOLEAN
    BY WalConstants DEF Init, WalInit
  <2>3. current_sequence_ \in 0..MaxSeq /\ current_file_number_ \in 0..MaxFiles
    BY WalConstants DEF Init, WalInit
  <2> QED  BY <2>1, <2>2, <2>3 DEF Init, WalInit, TypeOK
<1>3. WellFormed(disk)
  BY <1>1 DEF Init, WalInit, WellFormed
<1> QED  BY <1>2, <1>3 DEF Init, WalInit, IInv, Current, CatalogueCovers, OwedSafe

LEMMA StepHolds == IInv /\ [Next]_vars => IInv'
<1> SUFFICES ASSUME IInv, [Next]_vars PROVE IInv'
  OBVIOUS
<1>1. CASE Start
  BY <1>1, StartStep
<1>2. CASE StartFails
  BY <1>2, StartFailsStep
<1>3. CASE StartRefused
  BY <1>3, StartRefusedStep
<1>4. ASSUME NEW op \in Ops, Acknowledge(op) PROVE IInv'
  BY <1>4, AcknowledgeStep
<1>5. ASSUME NEW op \in Ops, AppendError(op) PROVE IInv'
  BY <1>5, AppendErrorStep
<1>6. CASE RotateError
  BY <1>6, RotateErrorStep
<1>7. CASE Sync
  BY <1>7, SyncStep
<1>8. ASSUME NEW upTo \in 1..MaxSeq, NEW stuck \in SUBSET Truncatable(upTo),
             Checkpoint(upTo, stuck)
      PROVE  IInv'
  BY <1>8, CheckpointStep
<1>9. CASE Stop
  BY <1>9, StopStep
<1>10. CASE Crash
  BY <1>10, CrashStep
<1>11. CASE LosePower
  BY <1>11, LosePowerStep
<1>12. CASE UNCHANGED vars
  BY <1>12, StutterStep
<1> QED  BY <1>1, <1>2, <1>3, <1>4, <1>5, <1>6, <1>7, <1>8, <1>9, <1>10, <1>11, <1>12 DEF Next

LEMMA InvariantHolds == Spec => []IInv
BY InitHolds, StepHolds, PTL DEF Spec

-----------------------------------------------------------------------------
(* The theorems.                                                            *)

\* Every variable of the log and of its callers keeps its type (wal.cpp).
THEOREM TypeCorrect == Spec => []TypeOK
<1>1. IInv => TypeOK
  BY DEF IInv
<1> QED  BY <1>1, InvariantHolds, PTL

\* For any number of segments and records, any segment size and either fsync mode:
\* no truncation, repair, rotation, I/O error, crash or power loss removes an
\* acknowledged record that no checkpoint covers (WriteAheadLog::Append, Truncate,
\* ScanExistingFiles, Open).
THEOREM NoAckedRecordLost == Spec => []AckedOnDisk
<1>1. IInv => AckedOnDisk
  <2> SUFFICES ASSUME IInv, NEW r \in owed PROVE r \in DiskRecords(disk)
    BY DEF AckedOnDisk
  <2>1. r.seq > 0
    BY DEF IInv, TypeOK, Record
  <2>2. PICK n \in Files : \E i \in 1..Len(disk[n].recs) : disk[n].recs[i] = r
    BY DEF IInv, OwedSafe, OnDisk
  <2> QED  BY <2>1, <2>2 DEF DiskRecords, SegmentRecords
<1> QED  BY <1>1, InvariantHolds, PTL

\* The sequence number that a restart recovers is not below that of any record
\* still owed, so the numbers of owed records are never handed out again
\* (ScanExistingFiles, Append).
THEOREM OwedNumbersNotReused == Spec => []OwedBelowNext
<1>1. IInv => OwedBelowNext
  <2> SUFFICES ASSUME IInv, proc = "up", NEW r \in owed PROVE r.seq <= current_sequence_
    BY DEF OwedBelowNext
  <2>1. PICK n \in Files : \E i \in 1..Len(disk[n].recs) : disk[n].recs[i] = r
    BY DEF IInv, OwedSafe, OnDisk
  <2> QED  BY <2>1 DEF IInv, CatalogueCovers
<1> QED  BY <1>1, InvariantHolds, PTL



-----------------------------------------------------------------------------
(* The order of the records.  So far records stay on disk; what follows is    *)
(* about which numbers stand next to each other in the segments, where a gap  *)
(* may be, and what the catalogue says of each segment.                     *)

\* What the segments of d hold once a torn tail is cut off, and where the numbers
\* of segment n begin and end.
Content(d)  == [n \in Files |-> Repaired(d[n])]
Holds(L, n) == Len(L[n]) > 0
First(L, n) == L[n][1].seq
Last(L, n)  == L[n][Len(L[n])].seq

\* The numbers of one segment follow each other.
Runs(L) == \A n \in Files : \A i \in 1..Len(L[n]) : L[n][i].seq = First(L, n) + i - 1

\* n is the next segment after m that holds records; m is the last one that does.
Follows(L, m, n) ==
  /\ m < n /\ Holds(L, m) /\ Holds(L, n)
  /\ \A k \in Files : m < k /\ k < n => ~Holds(L, k)
Newest(L, m) == Holds(L, m) /\ \A k \in Files : m < k => ~Holds(L, k)

\* The numbers of the directory follow each other; they only grow.
Linked(L)  == \A m, n \in Files : Follows(L, m, n) => First(L, n) = Last(L, m) + 1
Ordered(L) == \A m, n \in Files : m < n /\ Holds(L, m) /\ Holds(L, n) => Last(L, m) < First(L, n)

\* All that is owed comes after segment m.
Above(L, m) == \A r \in owed : r.seq > Last(L, m)

\* The numbers follow each other except where a checkpoint covers the gap.
Covered(L) == \A m, n \in Files : Follows(L, m, n) => First(L, n) = Last(L, m) + 1 \/ Above(L, m)

\* The catalogue has the last number of every segment.
Exact(L) == \A n \in Files : Holds(L, n) => files_[n] = Last(L, n)

\* The next number follows the last one written, unless the segments that held it
\* were removed and an older one could not be.
NextFits(L) ==
  \A m \in Files : Newest(L, m) => \/ Last(L, m) = current_sequence_
                                   \/ damage # {} /\ m # current_file_number_ /\ Above(L, m)

\* Torn bytes stand at the end of a segment only.
ContentOK == Content(disk) \in [Files -> Seq(Record)] /\ Runs(Content(disk))

RunningOK ==
  proc = "up" => /\ Ordered(Content(disk)) /\ Exact(Content(disk)) /\ Covered(Content(disk))
                 /\ \A n \in Files : n > current_file_number_ => ~Holds(Content(disk), n)

WritingOK ==
  current_fd_ => /\ proc = "up"
                 /\ ~HasTornTail(disk[current_file_number_])
                 /\ NextFits(Content(disk))

\* Without damage the directory is one that the scan accepts.
UndamagedOK ==
  damage = {} => /\ proc # "refused"
                 /\ \A n \in Files : disk[n].st # "bare"
                 /\ \A n \in Files : HasTornTail(disk[n]) => IsLatest(disk, n)
                 /\ Linked(Content(disk))

ReplayInv == ContentOK /\ RunningOK /\ WritingOK /\ UndamagedOK

-----------------------------------------------------------------------------
(* Numbers.                                                                 *)

\* Every non-empty set of naturals has a least element, and a bounded one a greatest:
\* what stands for induction here.
LEMMA LeastNumber ==
  ASSUME NEW T \in SUBSET Nat, T # {}
  PROVE  \E x \in T : \A y \in T : x <= y
<1> DEFINE R == OpToRel(<, Nat)
<1>1. IsWellFoundedOn(R, Nat)
  BY NatLessThanWellFounded
<1>2. \A x, y \in Nat : y < x => <<y, x>> \in R
  BY DEF OpToRel
<1> HIDE DEF R
<1>3. PICK x \in T : \A y \in T : ~(<<y, x>> \in R)
  BY <1>1, WFMin
<1>4. \A y \in T : ~(y < x)
  BY <1>2, <1>3
<1> QED  BY <1>4

LEMMA GreatestNumber ==
  ASSUME NEW T \in SUBSET Nat, T # {}, NEW b \in Nat, \A y \in T : y <= b
  PROVE  \E x \in T : \A y \in T : y <= x
<1> DEFINE U == {b - y : y \in T}
<1>1. U \in SUBSET Nat
  <2>1. \A y \in T : b - y \in Nat
    OBVIOUS
  <2> QED  BY <2>1
<1>2. U # {}
  OBVIOUS
<1>3. PICK u \in U : \A v \in U : u <= v
  BY <1>1, <1>2, LeastNumber
<1>4. PICK x \in T : u = b - x
  BY <1>3
<1>5. \A y \in T : b - x <= b - y
  BY <1>3, <1>4
<1> QED  BY <1>4, <1>5

-----------------------------------------------------------------------------
(* What a directory holds.                                                  *)

Contents == [Files -> Seq(Record)]

\* The numbers of a segment lie between its first and its last.
LEMMA Bounds ==
  ASSUME NEW L \in Contents, Runs(L), NEW n \in Files, Holds(L, n)
  PROVE  /\ First(L, n) \in 1..MaxSeq /\ Last(L, n) \in 1..MaxSeq /\ First(L, n) <= Last(L, n)
         /\ Last(L, n) = First(L, n) + Len(L[n]) - 1
         /\ \A i \in 1..Len(L[n]) : First(L, n) <= L[n][i].seq /\ L[n][i].seq <= Last(L, n)
<1>1. L[n] \in Seq(Record) /\ Len(L[n]) \in Nat /\ Len(L[n]) > 0
  BY DEF Contents, Holds
<1>2. L[n][1] \in Record /\ L[n][Len(L[n])] \in Record
  BY <1>1
<1>3. First(L, n) \in 1..MaxSeq /\ Last(L, n) \in 1..MaxSeq
  BY <1>2 DEF First, Last, Record
<1>4. \A i \in 1..Len(L[n]) : L[n][i].seq = First(L, n) + i - 1
  BY DEF Runs
<1>5. Last(L, n) = First(L, n) + Len(L[n]) - 1
  BY <1>1, <1>4 DEF Last
<1>6. First(L, n) \in Nat
  BY <1>3
<1> HIDE DEF First, Last
<1> QED  BY <1>1, <1>3, <1>4, <1>5, <1>6

\* Numbers that follow each other from segment to segment grow over the whole
\* directory: by induction on the distance, the only one of these proofs.
LEMMA LinkedOrdered ==
  ASSUME NEW L \in Contents, Runs(L), Linked(L)
  PROVE  Ordered(L)
<1> SUFFICES ASSUME NEW m \in Files, Holds(L, m),
                    \E n \in Files : m < n /\ Holds(L, n) /\ ~(Last(L, m) < First(L, n))
             PROVE  FALSE
  BY DEF Ordered
<1> DEFINE T == {n \in Files : m < n /\ Holds(L, n) /\ ~(Last(L, m) < First(L, n))}
<1>1. T \in SUBSET Nat /\ T # {}
  BY DEF Files
<1>2. PICK n \in T : \A y \in T : n <= y
  BY <1>1, LeastNumber
<1> DEFINE U == {p \in Files : p < n /\ Holds(L, p)}
<1>3. n \in Files /\ m < n /\ Holds(L, n) /\ ~(Last(L, m) < First(L, n))
  BY <1>2
<1>4. U \in SUBSET Nat /\ U # {} /\ n \in Nat /\ \A y \in U : y <= n
  BY <1>3 DEF Files
<1>5. PICK p \in U : \A y \in U : y <= p
  BY <1>4, GreatestNumber
<1>6. p \in Files /\ p < n /\ Holds(L, p) /\ m <= p
  BY <1>3, <1>5
<1>7. Follows(L, p, n)
  BY <1>3, <1>5, <1>6 DEF Follows, Files
<1>8. First(L, n) = Last(L, p) + 1
  BY <1>3, <1>6, <1>7 DEF Linked
<1>9. /\ First(L, n) \in Int /\ Last(L, m) \in Int /\ First(L, p) \in Int /\ Last(L, p) \in Int
      /\ First(L, p) <= Last(L, p)
  BY <1>3, <1>6, Bounds
<1>10. p # m => Last(L, m) < First(L, p)
  BY <1>2, <1>3, <1>6 DEF Files
<1> QED  BY <1>3, <1>8, <1>9, <1>10

\* The repaired content of a segment, by what stands at its end.
LEMMA RepairedWhole ==
  ASSUME NEW s, s.recs \in Seq(Record)
  PROVE  ~HasTornTail(s) /\ Repaired(s) = s.recs
<1>1. ASSUME Len(s.recs) > 0 PROVE s.recs[Len(s.recs)] # Torn
  <2>1. s.recs[Len(s.recs)] \in Record
    BY <1>1
  <2> QED  BY <2>1 DEF Record, Torn
<1> QED  BY <1>1 DEF HasTornTail, Repaired

LEMMA RepairedTorn ==
  ASSUME NEW s, NEW x \in Seq(Record \cup {Torn}), s.recs = Append(x, Torn)
  PROVE  HasTornTail(s) /\ Repaired(s) = x
<1>1. Len(x) \in Nat /\ Len(s.recs) = Len(x) + 1 /\ s.recs[Len(s.recs)] = Torn
  BY DEF Torn
<1>2. SubSeq(s.recs, 1, Len(s.recs) - 1) = x
  <2>1. s.recs \in Seq(Record \cup {Torn})
    OBVIOUS
  <2>2. Len(s.recs) - 1 = Len(x) /\ Len(x) \in Nat
    BY <1>1
  <2>3. /\ SubSeq(s.recs, 1, Len(x)) \in Seq(Record \cup {Torn})
        /\ Len(SubSeq(s.recs, 1, Len(x))) = Len(x)
        /\ \A i \in 1..Len(x) : SubSeq(s.recs, 1, Len(x))[i] = x[i]
    BY <1>1, <2>1, <2>2
  <2> QED  BY <2>2, <2>3
<1>3. HasTornTail(s)
  BY <1>1 DEF HasTornTail
<1> QED  BY <1>2, <1>3 DEF Repaired

\* Only the bytes of a segment count, not its header or what is synced.
LEMMA SameContent ==
  ASSUME NEW d, NEW e, \A n \in Files : e[n].recs = d[n].recs
  PROVE  Content(e) = Content(d) /\ \A n \in Files : HasTornTail(e[n]) <=> HasTornTail(d[n])
BY DEF Content, Repaired, HasTornTail

\* Cutting the torn tails, and dropping empty segments, keeps the content.
LEMMA RepairedContent ==
  ASSUME NEW d \in Disks, WellFormed(d), Content(d) \in Contents
  PROVE  /\ \A n \in Files : RepairedDisk(d)[n].recs = Content(d)[n]
         /\ \A n \in Files : ScannedDisk(d)[n].recs = Content(d)[n]
<1>1. \A n \in Files : RepairedDisk(d)[n].recs = Content(d)[n]
  <2> SUFFICES ASSUME NEW n \in Files PROVE RepairedDisk(d)[n].recs = Repaired(d[n])
    BY DEF Content
  <2> QED  BY DEF RepairedDisk, Disks, Segment
<1> QED  BY <1>1, ScannedKeeps

\* A directory without damage is one that the scan accepts, and one it accepts
\* has its numbers in order.
LEMMA ScanMeaning ==
  ASSUME NEW d \in Disks, WellFormed(d), Content(d) \in Contents
  PROVE  /\ ScanAccepts(d) => Linked(Content(d)) /\ \A n \in Files : d[n].st # "bare"
         /\ (/\ \A n \in Files : d[n].st # "bare"
             /\ \A n \in Files : HasTornTail(d[n]) => IsLatest(d, n)
             /\ Runs(Content(d)) /\ Linked(Content(d))) => ScanAccepts(d)
<1> DEFINE r == RepairedDisk(d)
           L == Content(d)
<1>1. \A n \in Files : r[n].recs = L[n]
  BY RepairedContent
<1>2. \A n \in Files : \A i \in 1..Len(L[n]) : L[n][i] # Torn
  <2>1. \A n \in Files : \A i \in 1..Len(L[n]) : L[n][i] \in Record
    BY DEF Contents
  <2> QED  BY <2>1 DEF Record, Torn
<1> HIDE DEF r, L
<1>3. ContiguousAcross(r) <=> Linked(L)
  <2>1. \A m, n \in Files : Adjacent(r, m, n) <=> Follows(L, m, n)
    BY <1>1 DEF Adjacent, Follows, Holds
  <2>2. \A n \in Files : r[n].recs[1].seq = First(L, n) /\ r[n].recs[Len(r[n].recs)].seq = Last(L, n)
    BY <1>1 DEF First, Last
  <2>3. \A m, n \in Files : /\ Adjacent(r, m, n) <=> Follows(L, m, n)
                            /\ r[n].recs[1].seq = First(L, n)
                            /\ r[m].recs[Len(r[m].recs)].seq = Last(L, m)
    BY <2>1, <2>2
  <2>4. ASSUME ContiguousAcross(r) PROVE Linked(L)
    BY <2>3, <2>4 DEF ContiguousAcross, Linked
  <2>5. ASSUME Linked(L) PROVE ContiguousAcross(r)
    BY <2>3, <2>5 DEF ContiguousAcross, Linked
  <2> QED  BY <2>4, <2>5
<1>4. Runs(L) => \A n \in Files : ContiguousIn(r[n])
  BY <1>1 DEF ContiguousIn, Runs, First
<1>5. \A n \in Files : \A i \in 1..Len(r[n].recs) : r[n].recs[i] # Torn
  BY <1>1, <1>2
<1> QED  BY <1>3, <1>4, <1>5 DEF ScanAccepts, r, L

-----------------------------------------------------------------------------
(* The steps that change no record.                                         *)

\* The directory once it was opened, with a new segment that has no records yet.
LEMMA OpenedContent ==
  ASSUME IInv, ContentOK, ScanAccepts(disk),
         NEW k \in 0..MaxFiles, IsHighestFile(disk, k), k + 1 \in Files,
         NEW left, left \in {Absent, Bare, Fresh}
  PROVE  LET e == [ScannedDisk(disk) EXCEPT ![k + 1] = left]
         IN  /\ Content(e) = Content(disk)
             /\ \A n \in Files : ~HasTornTail(e[n])
             /\ \A n \in Files : e[n].st = "bare" => left = Bare
             /\ \A n \in Files : n > k => ~Holds(Content(disk), n)
<1> DEFINE c == ScannedDisk(disk)
           e == [c EXCEPT ![k + 1] = left]
           L == Content(disk)
<1>1. disk \in Disks /\ WellFormed(disk) /\ L \in Contents
  BY DEF IInv, TypeOK, Disks, ContentOK, Contents
<1>2. /\ c \in Disks
      /\ \A n \in Files : c[n].recs = L[n]
  BY <1>1, ScannedKeeps, RepairedContent
<1>3. \A n \in Files : c[n].st # "bare"
  <2>1. \A n \in Files : RepairedDisk(disk)[n].st = disk[n].st /\ disk[n].st # "bare"
    BY <1>1, RepairedKeeps, ScanMeaning
  <2> QED  BY <2>1 DEF ScannedDisk, WithoutEmpty, Absent
<1>4. \A n \in Files : n > k => L[n] = <<>>
  <2> SUFFICES ASSUME NEW n \in Files, n > k PROVE L[n] = <<>>
    OBVIOUS
  <2>1. disk[n].st # "ready"
    BY DEF IsHighestFile, Exists, Files
  <2>2. disk[n].recs = <<>>
    BY <1>1, <2>1 DEF WellFormed
  <2> QED  BY <2>2 DEF Content, Repaired, HasTornTail
<1>5. left.recs = <<>>
  BY EmptySegments
<1>6. \A n \in Files : e[n] = IF n = k + 1 THEN left ELSE c[n]
  BY <1>2 DEF Disks
<1> HIDE DEF e, L, c
<1>7. \A n \in Files : e[n].recs = L[n]
  BY <1>2, <1>4, <1>5, <1>6
<1>8. \A n \in Files : ~HasTornTail(e[n]) /\ Repaired(e[n]) = L[n]
  <2> SUFFICES ASSUME NEW n \in Files PROVE ~HasTornTail(e[n]) /\ Repaired(e[n]) = L[n]
    OBVIOUS
  <2>1. e[n].recs \in Seq(Record)
    BY <1>1, <1>7 DEF Contents
  <2> QED  BY <1>7, <2>1, RepairedWhole
<1>9. Content(e) = L
  <2>1. L = [n \in Files |-> L[n]]
    BY <1>1 DEF Contents
  <2> QED  BY <1>8, <2>1 DEF Content
<1>10. \A n \in Files : e[n].st = "bare" => left = Bare
  BY <1>3, <1>6 DEF Absent, Fresh
<1>11. \A n \in Files : n > k => ~Holds(L, n)
  BY <1>4 DEF Holds
<1> QED  BY <1>8, <1>9, <1>10, <1>11 DEF e, L, c

\* The scan finds the number of the last record written.
LEMMA StartReplay ==
  ASSUME IInv, IInv', ReplayInv, Start
  PROVE  ReplayInv'
<1>1. PICK m \in 0..MaxSeq, k \in 0..MaxFiles : Open(m, k)
  BY DEF Start
<1> DEFINE L == Content(disk)
           c == ScannedDisk(disk)
<1>2. /\ IsHighestFile(disk, k) /\ ScanAccepts(disk) /\ IsHighestSeq(RepairedDisk(disk), m)
      /\ k + 1 \in Files /\ proc = "down"
      /\ disk' = [c EXCEPT ![k + 1] = Fresh]
      /\ files_' = [Listed(c) EXCEPT ![k + 1] = 0]
      /\ current_sequence_' = m /\ current_file_number_' = k + 1
      /\ current_fd_' = TRUE /\ proc' = "up"
      /\ UNCHANGED <<owed, damage>>
  BY <1>1 DEF Open, Start
<1>3. /\ Content(disk') = L
      /\ \A n \in Files : ~HasTornTail(disk'[n])
      /\ \A n \in Files : disk'[n].st # "bare"
      /\ \A n \in Files : n > k => ~Holds(L, n)
  <2>1. ContentOK /\ Fresh # Bare
    BY DEF ReplayInv, Fresh, Bare
  <2> QED  BY <1>2, <2>1, OpenedContent
<1>4. disk \in Disks /\ WellFormed(disk) /\ L \in Contents /\ Runs(L)
  BY DEF IInv, TypeOK, Disks, ReplayInv, ContentOK, Contents
<1>5. Linked(L) /\ Ordered(L)
  BY <1>2, <1>4, ScanMeaning, LinkedOrdered
<1>6. \A n \in Files : RepairedDisk(disk)[n].recs = L[n] /\ c[n].recs = L[n]
  BY <1>4, RepairedContent
<1>7. c \in Disks /\ WellFormed(c)
  BY <1>4, ScannedKeeps
<1> HIDE DEF L, c
<1>8. Exact(L)'
  <2>1. L' = L
    BY <1>3 DEF L
  <2> SUFFICES ASSUME NEW n \in Files, Holds(L, n) PROVE files_'[n] = Last(L, n)
    BY <2>1 DEF Exact, Holds, Last
  <2>2. n # k + 1
    BY <1>3 DEF Files
  <2>3. c[n].st = "ready" /\ Len(c[n].recs) # 0
    BY <1>6, <1>7 DEF Holds, WellFormed
  <2>4. Listed(c)[n] = Last(L, n)
    BY <1>6, <2>3 DEF Listed, Exists, LastSeq, Last
  <2> QED  BY <1>2, <2>2, <2>4 DEF Listed
<1>9. \A q \in Files : Newest(L, q) => Last(L, q) = m
  <2> SUFFICES ASSUME NEW q \in Files, Newest(L, q) PROVE Last(L, q) = m
    OBVIOUS
  <2>1. \A n \in Files : LastSeq(RepairedDisk(disk)[n]) = IF Holds(L, n) THEN Last(L, n) ELSE 0
    BY <1>4, <1>6 DEF LastSeq, Holds, Last, Contents
  <2>2. Holds(L, q) /\ Last(L, q) \in 1..MaxSeq
    BY <1>4, Bounds DEF Newest
  <2>3. Last(L, q) <= m /\ m # 0
    BY <1>2, <2>1, <2>2 DEF IsHighestSeq
  <2>4. PICK n \in Files : Holds(L, n) /\ Last(L, n) = m
    BY <1>2, <2>1, <2>3 DEF IsHighestSeq
  <2>5. n <= q
    BY <2>4 DEF Newest, Files
  <2>6. n # q => Last(L, n) < First(L, q) /\ First(L, q) <= Last(L, q) /\ First(L, q) \in Int
    BY <1>4, <1>5, <2>2, <2>4, <2>5, Bounds DEF Ordered, Files
  <2> QED  BY <2>2, <2>3, <2>4, <2>6
<1>10. L' = L
  BY <1>3 DEF L
<1>11. ContentOK'
  BY <1>4, <1>10 DEF ContentOK, L, Contents, Runs, First
<1>12. RunningOK'
  <2>1. Covered(L)'
    BY <1>5, <1>10 DEF Covered, Linked, Follows, Holds, First, Last
  <2>2. Ordered(L)'
    BY <1>5, <1>10 DEF Ordered, Holds, First, Last
  <2>3. \A n \in Files : n > current_file_number_' => ~Holds(L, n)
    BY <1>2, <1>3 DEF Files
  <2> QED  BY <1>8, <1>10, <2>1, <2>2, <2>3 DEF RunningOK, L, Holds
<1>13. WritingOK'
  <2>1. NextFits(L)'
    BY <1>2, <1>9, <1>10 DEF NextFits, Newest, Holds, Last
  <2>2. ~HasTornTail(disk'[current_file_number_'])
    BY <1>2, <1>3
  <2> QED  BY <1>2, <1>10, <2>1, <2>2 DEF WritingOK, L, HasTornTail
<1>14. UndamagedOK'
  BY <1>2, <1>3, <1>5, <1>10 DEF UndamagedOK, HasTornTail, Linked, Follows, Holds, First, Last, L
<1> QED  BY <1>11, <1>12, <1>13, <1>14 DEF ReplayInv

\* A step that keeps the bytes and the catalogue of a running process, and opens
\* no segment.
LEMMA QuietReplay ==
  ASSUME IInv, ReplayInv,
         \A n \in Files : disk'[n].recs = disk[n].recs,
         UNCHANGED <<files_, current_sequence_, owed>>,
         current_file_number_' = current_file_number_
           \/ (current_file_number_' = current_file_number_ + 1 /\ ~current_fd_'),
         damage \subseteq damage',
         current_fd_' => current_fd_ /\ proc' = "up",
         proc' = "up" => proc = "up",
         damage' = {} => /\ proc' # "refused"
                         /\ \A n \in Files : disk'[n].st # "bare"
                         /\ \A n \in Files : HasTornTail(disk[n]) => IsLatest(disk', n)
  PROVE  ReplayInv'
<1> DEFINE L == Content(disk)
<1>1. Content(disk') = L /\ \A n \in Files : HasTornTail(disk'[n]) <=> HasTornTail(disk[n])
  BY SameContent
<1>2. L' = L
  BY <1>1
<1>3. /\ L \in [Files -> Seq(Record)] /\ Runs(L)
      /\ proc = "up" => /\ Ordered(L) /\ Exact(L) /\ Covered(L)
                        /\ \A n \in Files : n > current_file_number_ => ~Holds(L, n)
      /\ current_fd_ => NextFits(L)
      /\ damage = {} => Linked(L)
      /\ current_file_number_ \in Nat
  BY DEF ReplayInv, ContentOK, RunningOK, WritingOK, UndamagedOK, IInv, TypeOK
<1> HIDE DEF L
<1>4. ContentOK'
  BY <1>2, <1>3 DEF ContentOK, L, Runs, First
<1>5. RunningOK'
  <2> SUFFICES ASSUME proc' = "up"
               PROVE  /\ Ordered(L)' /\ Exact(L)' /\ Covered(L)'
                      /\ \A n \in Files : n > current_file_number_' => ~Holds(L, n)'
    BY DEF RunningOK, L
  <2>1. Ordered(L)' /\ Exact(L)'
    BY <1>2, <1>3 DEF Ordered, Exact, Holds, First, Last
  <2>2. Covered(L)'
    BY <1>2, <1>3 DEF Covered, Above, Follows, Holds, First, Last
  <2>3. \A n \in Files : n > current_file_number_' => ~Holds(L, n)'
    BY <1>2, <1>3 DEF Holds, Files
  <2> QED  BY <2>1, <2>2, <2>3
<1>6. WritingOK'
  <2> SUFFICES ASSUME current_fd_'
               PROVE  ~HasTornTail(disk'[current_file_number_']) /\ NextFits(L)'
    BY DEF WritingOK, L, HasTornTail
  <2>1. NextFits(L)'
    BY <1>2, <1>3 DEF NextFits, Newest, Above, Holds, Last
  <2>2. current_file_number_' = current_file_number_ /\ current_file_number_ \in Files
    BY <1>3 DEF IInv, Current
  <2>3. ~HasTornTail(disk'[current_file_number_'])
    BY <1>1, <2>2 DEF ReplayInv, WritingOK
  <2> QED  BY <2>1, <2>3
<1>7. UndamagedOK'
  <2> SUFFICES ASSUME damage' = {}
               PROVE  /\ proc' # "refused"
                      /\ \A n \in Files : disk'[n].st # "bare"
                      /\ \A n \in Files : HasTornTail(disk'[n]) => IsLatest(disk', n)
                      /\ Linked(L)'
    BY DEF UndamagedOK, HasTornTail, IsLatest, Exists, L
  <2>1. Linked(L)'
    BY <1>2, <1>3 DEF Linked, Follows, Holds, First, Last
  <2> QED  BY <1>1, <2>1
<1> QED  BY <1>4, <1>5, <1>6, <1>7 DEF ReplayInv

\* While a segment is open for writing no torn bytes are left in a directory
\* without damage.
LEMMA NothingTorn ==
  ASSUME IInv, ReplayInv, current_fd_, damage = {}
  PROVE  \A n \in Files : ~HasTornTail(disk[n])
<1>1. /\ current_file_number_ \in Files /\ disk[current_file_number_].st = "ready"
      /\ \A n \in Files : n > current_file_number_ => disk[n].st = "absent"
  BY DEF IInv, Current
<1> SUFFICES ASSUME NEW n \in Files, HasTornTail(disk[n]) PROVE FALSE
  OBVIOUS
<1>2. n # current_file_number_ /\ IsLatest(disk, n)
  BY DEF ReplayInv, WritingOK, UndamagedOK
<1> QED  BY <1>1, <1>2 DEF IsLatest, Exists, Files

\* Startup refuses only a damaged directory.
LEMMA StartRefusedReplay ==
  ASSUME IInv, ReplayInv, StartRefused
  PROVE  ReplayInv'
<1>1. /\ ~ScanAccepts(disk) /\ UNCHANGED walVars /\ UNCHANGED <<owed, damage>>
      /\ proc = "down" /\ proc' = "refused"
  BY DEF StartRefused, OpenRejected
<1>2. disk \in Disks /\ WellFormed(disk) /\ Content(disk) \in Contents /\ Runs(Content(disk))
  BY DEF IInv, TypeOK, Disks, ReplayInv, ContentOK, Contents
<1>3. damage # {}
  BY <1>1, <1>2, ScanMeaning DEF ReplayInv, UndamagedOK
<1>4. ~current_fd_
  BY <1>1 DEF ReplayInv, WritingOK
<1> QED  BY <1>1, <1>3, <1>4, QuietReplay DEF walVars

\* The background fsync changes no record.
LEMMA SyncReplay ==
  ASSUME IInv, IInv', ReplayInv, Sync
  PROVE  ReplayInv'
<1>1. PICK ok \in BOOLEAN : SyncLoop(ok)
  BY DEF Sync
<1>2. /\ UNCHANGED <<current_sequence_, current_file_number_, files_, proc, owed, damage>>
      /\ proc = "up"
  BY <1>1 DEF SyncLoop, Sync, lifeVars
<1>3. disk \in Disks /\ WellFormed(disk)
  BY DEF IInv, TypeOK, Disks
<1>4. \A n \in Files : disk'[n].recs = disk[n].recs /\ disk'[n].st = disk[n].st
  <2>1. CASE current_fd_ /\ ok
    <3> DEFINE a == current_file_number_
               e == [disk EXCEPT ![a].synced = Len(disk[a].recs)]
    <3>1. disk' = e /\ a \in Files
      BY <1>1, <2>1 DEF SyncLoop, CurrentLen, IInv, Current
    <3>2. \A n \in Files : e[n].st = disk[n].st /\ e[n].recs = disk[n].recs
      BY <1>3, <3>1, SyncKeeps
    <3> HIDE DEF e
    <3> QED  BY <3>1, <3>2
  <2>2. CASE ~(current_fd_ /\ ok)
    BY <1>1, <2>2 DEF SyncLoop
  <2> QED  BY <2>1, <2>2
<1>5. current_fd_' => current_fd_
  BY <1>1 DEF SyncLoop
<1>6. \A n \in Files : IsLatest(disk, n) => IsLatest(disk', n)
  BY <1>4 DEF IsLatest, Exists
<1> QED  BY <1>2, <1>3, <1>4, <1>5, <1>6, QuietReplay DEF ReplayInv, UndamagedOK

\* Neither does a clean stop or the death of the process.
LEMMA StopReplay ==
  ASSUME IInv, ReplayInv, Stop \/ Crash
  PROVE  ReplayInv'
<1>1. /\ UNCHANGED <<current_sequence_, current_file_number_, files_, owed, damage>>
      /\ proc' = "down" /\ current_fd_' = FALSE
  BY DEF Stop, Close, Crash, ProcessCrash
<1>2. disk \in Disks /\ WellFormed(disk)
  BY DEF IInv, TypeOK, Disks
<1>3. \A n \in Files : disk'[n].recs = disk[n].recs /\ disk'[n].st = disk[n].st
  <2>1. CASE disk' # disk
    <3> DEFINE a == current_file_number_
               e == [disk EXCEPT ![a].synced = Len(disk[a].recs)]
    <3>1. disk' = e /\ a \in Files
      BY <2>1 DEF Stop, Close, Crash, ProcessCrash, CurrentLen, IInv, Current
    <3>2. \A n \in Files : e[n].st = disk[n].st /\ e[n].recs = disk[n].recs
      BY <1>2, <3>1, SyncKeeps
    <3> HIDE DEF e
    <3> QED  BY <3>1, <3>2
  <2> QED  BY <2>1
<1>4. \A n \in Files : IsLatest(disk, n) => IsLatest(disk', n)
  BY <1>3 DEF IsLatest, Exists
<1> QED  BY <1>1, <1>2, <1>3, <1>4, QuietReplay DEF ReplayInv, UndamagedOK

LEMMA StartFailsReplay ==
  ASSUME IInv, IInv', ReplayInv, StartFails
  PROVE  ReplayInv'
<1>1. PICK m \in 0..MaxSeq, k \in 0..MaxFiles, left \in {Absent, Bare} : OpenRotateFails(m, k, left)
  BY DEF StartFails
<1> DEFINE L == Content(disk)
<1>2. /\ IsHighestFile(disk, k) /\ ScanAccepts(disk) /\ k + 1 \in Files
      /\ disk' = [ScannedDisk(disk) EXCEPT ![k + 1] = left]
      /\ proc' = "down" /\ current_fd_' = FALSE
      /\ damage' = damage \cup LeftBare
      /\ UNCHANGED owed
  BY <1>1 DEF OpenRotateFails, StartFails, IInv, TypeOK
<1>3. Content(disk') = L /\ \A n \in Files : ~HasTornTail(disk'[n])
  <2>1. ContentOK
    BY DEF ReplayInv
  <2> QED  BY <1>2, <2>1, OpenedContent
<1>4. disk \in Disks /\ WellFormed(disk) /\ L \in Contents /\ Runs(L)
  BY DEF IInv, TypeOK, Disks, ReplayInv, ContentOK, Contents
<1>5. Linked(L)
  BY <1>2, <1>4, ScanMeaning
<1>6. L' = L
  BY <1>3
<1> HIDE DEF L
<1>7. ContentOK'
  BY <1>4, <1>6 DEF ContentOK, L, Contents, Runs, First
<1>8. damage' = {} => \A n \in Files : disk'[n].st # "bare"
  BY <1>2 DEF LeftBare
<1>9. UndamagedOK'
  BY <1>2, <1>3, <1>5, <1>6, <1>8 DEF UndamagedOK, HasTornTail, Linked, Follows, Holds, First, Last, L
<1> QED  BY <1>2, <1>7, <1>9 DEF ReplayInv, RunningOK, WritingOK

\* A rotation that fails inside Append writes no record.
LEMMA RotateErrorReplay ==
  ASSUME IInv, IInv', ReplayInv, RotateError
  PROVE  ReplayInv'
<1>1. PICK why \in {"old", "closed", "gone", "bare"} : RotateFails(why)
  BY DEF RotateError
<1> DEFINE a == current_file_number_
<1>2. /\ AppendReady /\ proc = "up" /\ current_fd_ /\ a + 1 \in Files
      /\ current_fd_' = (why = "old")
      /\ current_file_number_' = IF why \in {"gone", "bare"} THEN a + 1 ELSE a
      /\ damage' = damage \cup LeftBare
      /\ UNCHANGED <<current_sequence_, files_, proc, owed>>
  BY <1>1 DEF RotateFails, RotateError, AppendReady
<1>3. disk' = [disk EXCEPT ![a].synced = IF why = "old" THEN @ ELSE Len(disk[a].recs),
                           ![a + 1] = IF why = "bare" THEN Bare ELSE @]
  BY <1>1 DEF RotateFails, CurrentLen
<1>4. \A n \in Files : disk'[n].recs = disk[n].recs
  <2>1. /\ disk \in Disks /\ a \in Files /\ disk[a + 1].recs = <<>> /\ Bare.recs = <<>>
    BY <1>2 DEF IInv, TypeOK, Disks, Current, WellFormed, Files, Bare
  <2> SUFFICES ASSUME NEW n \in Files PROVE disk'[n].recs = disk[n].recs
    OBVIOUS
  <2>2. disk[n] \in Segment
    BY <2>1 DEF Disks
  <2> QED  BY <1>2, <1>3, <2>1, <2>2 DEF Disks, Segment, Files
<1>5. damage' = {} => \A n \in Files : disk'[n].st # "bare"
  BY <1>2 DEF LeftBare
<1>6. damage' = {} => \A n \in Files : HasTornTail(disk[n]) => IsLatest(disk', n)
  BY <1>2, NothingTorn
<1> QED  BY <1>2, <1>4, <1>5, <1>6, QuietReplay

-----------------------------------------------------------------------------
(* Appending.                                                               *)

\* The segment that an append writes to: the last one, with no torn bytes in it.
LEMMA AppendPlace ==
  ASSUME IInv, ReplayInv, AppendReady
  PROVE  LET L == Content(disk)
             k == RotatedFile
         IN  /\ k \in Files
             /\ \A n \in Files : n > k => RotatedDisk[n].st = "absent"
             /\ \A n \in Files : RotatedDisk[n].st = "bare" => disk[n].st = "bare"
             /\ current_file_number_ \in Files /\ current_file_number_ <= k
             /\ disk \in Disks
             /\ disk[k].recs = L[k] /\ L \in Contents /\ Runs(L)
<1> DEFINE L == Content(disk)
           k == RotatedFile
<1>1. /\ k \in Files
      /\ \A n \in Files : n > k => RotatedDisk[n].st = "absent"
      /\ current_file_number_ \in Files /\ current_file_number_ <= k
      /\ disk \in Disks /\ WellFormed(disk)
      /\ k # current_file_number_ => disk[k].recs = <<>>
  <2>1. current_file_number_ \in Files /\ disk \in Disks /\ WellFormed(disk)
    BY DEF IInv, TypeOK, Disks, Current, AppendReady
  <2>2. k # current_file_number_ => disk[k].recs = <<>>
    BY DEF RotatedFile, AppendReady, IInv, Current, WellFormed, Files
  <2>3. current_file_number_ <= k
    BY <2>1 DEF RotatedFile, Files
  <2> QED  BY <2>1, <2>2, <2>3, RotationKeeps
<1>2. disk[k].recs = L[k] /\ L \in Contents /\ Runs(L)
  <2>1. ~HasTornTail(disk[k])
    BY <1>1 DEF ReplayInv, WritingOK, AppendReady, HasTornTail
  <2> QED  BY <1>1, <2>1 DEF Content, Repaired, ReplayInv, ContentOK, Contents
<1>3. \A n \in Files : RotatedDisk[n].st = "bare" => disk[n].st = "bare"
  BY <1>1 DEF RotatedDisk, Fresh, Disks, Segment
<1> QED  BY <1>1, <1>2, <1>3

\* A failed append that leaves no complete record.
LEMMA NothingAppended ==
  ASSUME IInv, IInv', ReplayInv, AppendReady, proc = "up",
         NEW t \in {<<>>, <<Torn>>},
         \A n \in Files : n # RotatedFile => disk'[n].recs = disk[n].recs /\ disk'[n].st = RotatedDisk[n].st,
         disk'[RotatedFile].recs = disk[RotatedFile].recs \o t,
         disk'[RotatedFile].st = "ready",
         files_' = [files_ EXCEPT ![RotatedFile] = IF MustRotate THEN 0 ELSE @],
         current_file_number_' = RotatedFile,
         current_fd_' = FALSE,
         UNCHANGED <<owed, damage, proc>>
  PROVE  ReplayInv'
<1> DEFINE L == Content(disk)
           k == RotatedFile
<1>1. /\ k \in Files
      /\ \A n \in Files : n > k => RotatedDisk[n].st = "absent"
      /\ \A n \in Files : RotatedDisk[n].st = "bare" => disk[n].st = "bare"
      /\ current_file_number_ \in Files /\ current_file_number_ <= k
      /\ disk \in Disks
  BY AppendPlace
<1>2. disk[k].recs = L[k] /\ L \in Contents /\ Runs(L)
  BY AppendPlace
<1>3. Repaired(disk'[k]) = L[k]
  <2>1. L[k] \in Seq(Record)
    BY <1>1, <1>2 DEF Contents
  <2>2. CASE t = <<>>
    <3>1. disk'[k].recs = L[k]
      BY <1>2, <2>1, <2>2
    <3> QED  BY <2>1, <3>1, RepairedWhole
  <2>3. CASE t = <<Torn>>
    <3>1. disk'[k].recs = Append(L[k], Torn) /\ L[k] \in Seq(Record \cup {Torn})
      BY <1>2, <2>1, <2>3
    <3> QED  BY <3>1, RepairedTorn
  <2> QED  BY <2>2, <2>3
<1>4. Content(disk') = L
  <2>1. \A n \in Files : Repaired(disk'[n]) = Repaired(disk[n])
    BY <1>3 DEF Content, Repaired, HasTornTail
  <2> QED  BY <2>1 DEF Content
<1>5. L' = L
  BY <1>4
<1>6. /\ Ordered(L) /\ Exact(L) /\ Covered(L)
      /\ \A n \in Files : n > current_file_number_ => ~Holds(L, n)
      /\ damage = {} => Linked(L)
  BY DEF ReplayInv, RunningOK, UndamagedOK
<1>7. MustRotate => ~Holds(L, k)
  BY <1>1, <1>6 DEF RotatedFile, Files
<1>8. files_ \in [Files -> Nat \cup {NotListed}]
  BY DEF IInv, TypeOK
<1> HIDE DEF L
<1>9. ContentOK'
  BY <1>2, <1>5 DEF ContentOK, L, Contents, Runs, First
<1>10. RunningOK'
  <2>1. Ordered(L)'
    BY <1>5, <1>6 DEF Ordered, Holds, First, Last
  <2>2. Exact(L)'
    BY <1>1, <1>5, <1>6, <1>7, <1>8 DEF Exact, Holds, Last
  <2>3. Covered(L)'
    BY <1>5, <1>6 DEF Covered, Above, Follows, Holds, First, Last
  <2>4. \A n \in Files : n > current_file_number_' => ~Holds(L, n)'
    BY <1>1, <1>5, <1>6 DEF Holds, Files
  <2> QED  BY <2>1, <2>2, <2>3, <2>4 DEF RunningOK, L
<1>11. UndamagedOK'
  <2> SUFFICES ASSUME damage = {}
               PROVE  /\ proc' # "refused"
                      /\ \A n \in Files : disk'[n].st # "bare"
                      /\ \A n \in Files : HasTornTail(disk'[n]) => IsLatest(disk', n)
                      /\ Linked(L)'
    BY DEF UndamagedOK, HasTornTail, IsLatest, Exists, L
  <2>1. Linked(L)'
    BY <1>5, <1>6 DEF Linked, Follows, Holds, First, Last
  <2>2. \A n \in Files : n # k => disk'[n].st # "bare"
    BY <1>1 DEF ReplayInv, UndamagedOK
  <2>3. \A n \in Files : HasTornTail(disk'[n]) => n = k
    BY NothingTorn DEF HasTornTail, AppendReady
  <2>4. IsLatest(disk', k)
    BY <1>1 DEF IsLatest, Exists, Files
  <2> QED  BY <2>1, <2>2, <2>3, <2>4
<1> QED  BY <1>9, <1>10, <1>11 DEF ReplayInv, WritingOK

\* A record that reached its segment: acknowledged, or left behind by a failed
\* fsync.  It follows all the records before it, or a gap below all that is owed.
LEMMA RecordAppended ==
  ASSUME IInv, IInv', ReplayInv, AppendReady, proc = "up",
         NEW r \in Record, r.seq = current_sequence_ + 1,
         \A n \in Files : n # RotatedFile => disk'[n].recs = disk[n].recs /\ disk'[n].st = RotatedDisk[n].st,
         disk'[RotatedFile].recs = disk[RotatedFile].recs \o <<r>>,
         disk'[RotatedFile].st = "ready",
         files_' = [files_ EXCEPT ![RotatedFile] = current_sequence_ + 1],
         current_sequence_' = current_sequence_ + 1,
         current_file_number_' = RotatedFile,
         owed' \subseteq owed \cup {r},
         UNCHANGED <<damage, proc>>
  PROVE  ReplayInv'
<1> DEFINE L == Content(disk)
           M == Content(disk')
           k == RotatedFile
           q == current_sequence_
<1>1. /\ k \in Files
      /\ \A n \in Files : n > k => RotatedDisk[n].st = "absent"
      /\ \A n \in Files : RotatedDisk[n].st = "bare" => disk[n].st = "bare"
      /\ current_file_number_ \in Files /\ current_file_number_ <= k
      /\ disk \in Disks
  BY AppendPlace
<1>2. disk[k].recs = L[k] /\ L \in Contents /\ Runs(L)
  BY AppendPlace
<1>3. L[k] \in Seq(Record)
  BY <1>1, <1>2 DEF Contents
<1>4. ~HasTornTail(disk'[k]) /\ Repaired(disk'[k]) = L[k] \o <<r>>
  <2>1. disk'[k].recs = L[k] \o <<r>> /\ L[k] \o <<r>> \in Seq(Record)
    BY <1>2, <1>3
  <2> QED  BY <2>1, RepairedWhole
<1>5. M[k] = L[k] \o <<r>> /\ \A n \in Files : n # k => M[n] = L[n]
  BY <1>1, <1>4 DEF Content, Repaired, HasTornTail
<1>6. M \in Contents
  <2>1. M = [n \in Files |-> M[n]]
    BY DEF Content
  <2> HIDE DEF L, M
  <2>2. M[k] \in Seq(Record)
    BY <1>3, <1>5
  <2>3. \A n \in Files : M[n] \in Seq(Record)
    BY <1>2, <1>5, <2>2 DEF Contents
  <2> QED  BY <2>1, <2>3 DEF Contents
<1>7. M = Content(disk)'
  BY DEF Content
<1>8. /\ Ordered(L) /\ Exact(L) /\ Covered(L) /\ NextFits(L)
      /\ \A n \in Files : n > current_file_number_ => ~Holds(L, n)
      /\ damage = {} => Linked(L)
  BY DEF ReplayInv, RunningOK, UndamagedOK, WritingOK, AppendReady
<1>9. q \in Nat /\ files_ \in [Files -> Nat \cup {NotListed}]
  BY WalConstants DEF IInv, TypeOK
<1>10. \A n \in Files : Holds(L, n) => Last(L, n) <= q
  <2> SUFFICES ASSUME NEW n \in Files, Holds(L, n) PROVE Last(L, n) <= q
    OBVIOUS
  <2>1. disk[n].recs \in Seq(Record \cup {Torn}) /\ L[n] \in Seq(Record)
    BY <1>1, <1>2 DEF Disks, Segment, Contents
  <2>2. Len(L[n]) \in 1..Len(disk[n].recs) /\ L[n][Len(L[n])] = disk[n].recs[Len(L[n])]
    <3>1. L[n] = Repaired(disk[n])
      BY DEF Content
    <3>2. CASE HasTornTail(disk[n])
      <4>1. L[n] = SubSeq(disk[n].recs, 1, Len(disk[n].recs) - 1) /\ Len(disk[n].recs) > 0
        BY <3>1, <3>2 DEF Repaired, HasTornTail
      <4> HIDE DEF L
      <4> QED  BY <2>1, <4>1 DEF Holds
    <3>3. CASE ~HasTornTail(disk[n])
      <4>1. L[n] = disk[n].recs
        BY <3>1, <3>3 DEF Repaired
      <4> HIDE DEF L
      <4> QED  BY <2>1, <4>1 DEF Holds
    <3> QED  BY <3>2, <3>3
  <2> QED  BY <2>2 DEF IInv, CatalogueCovers, Last
<1> HIDE DEF L, M
<1>11. /\ Holds(M, k) /\ Last(M, k) = q + 1
       /\ ~Holds(L, k) => First(M, k) = q + 1
       /\ Holds(L, k) => First(M, k) = First(L, k) /\ Last(L, k) = q
  <2>1. Len(M[k]) = Len(L[k]) + 1 /\ M[k][Len(M[k])] = r /\ Len(L[k]) \in Nat
    BY <1>3, <1>5
  <2>2. Len(L[k]) > 0 => M[k][1] = L[k][1]
    BY <1>3, <1>5
  <2>3. ASSUME Holds(L, k) PROVE Last(L, k) = q
    <3>1. k = current_file_number_
      BY <1>1, <1>8, <2>3 DEF Files
    <3>2. Newest(L, k)
      BY <1>8, <2>3, <3>1 DEF Newest
    <3> QED  BY <1>1, <1>8, <3>1, <3>2 DEF NextFits
  <2> QED  BY <2>1, <2>2, <2>3 DEF Holds, First, Last
<1>12. \A n \in Files : n # k => /\ Holds(M, n) <=> Holds(L, n)
                                /\ First(M, n) = First(L, n) /\ Last(M, n) = Last(L, n)
  BY <1>5 DEF Holds, First, Last
<1>13. \A n \in Files : n > k => ~Holds(M, n) /\ ~Holds(L, n)
  BY <1>1, <1>8, <1>12 DEF Files
<1>14. \A n \in Files : Holds(L, n) => Last(L, n) \in Nat /\ First(L, n) \in Nat
  BY <1>2, Bounds
<1>15. Runs(M)
  <2> SUFFICES ASSUME NEW n \in Files, NEW i \in 1..Len(M[n]) PROVE M[n][i].seq = First(M, n) + i - 1
    BY DEF Runs
  <2>1. CASE n # k
    BY <1>2, <1>5, <1>12, <2>1 DEF Runs
  <2>2. CASE n = k /\ i \in 1..Len(L[k])
    <3>1. M[k][i] = L[k][i] /\ Holds(L, k)
      BY <1>3, <1>5, <2>2 DEF Holds
    <3> QED  BY <1>1, <1>2, <1>11, <2>2, <3>1 DEF Runs
  <2>3. CASE n = k /\ i \notin 1..Len(L[k])
    <3>1. i = Len(L[k]) + 1 /\ M[k][i] = r /\ Len(L[k]) \in Nat
      BY <1>3, <1>5, <2>3
    <3>2. CASE Holds(L, k)
      <4>1. Last(L, k) = First(L, k) + Len(L[k]) - 1 /\ First(L, k) \in Nat
        BY <1>1, <1>2, <3>2, Bounds
      <4> QED  BY <1>9, <1>11, <2>3, <3>1, <3>2, <4>1
    <3>3. CASE ~Holds(L, k)
      <4>1. Len(L[k]) = 0
        BY <3>1, <3>3 DEF Holds
      <4> QED  BY <1>9, <1>11, <2>3, <3>1, <3>3, <4>1
    <3> QED  BY <3>2, <3>3
  <2> QED  BY <2>1, <2>2, <2>3
<1>16. Ordered(M)
  <2> SUFFICES ASSUME NEW m \in Files, NEW n \in Files, m < n, Holds(M, m), Holds(M, n)
               PROVE  Last(M, m) < First(M, n)
    BY DEF Ordered
  <2>1. m # k /\ n <= k
    BY <1>1, <1>13 DEF Files
  <2> QED  BY <1>8, <1>9, <1>10, <1>11, <1>12, <1>14, <2>1 DEF Ordered
<1>17. ASSUME NEW m \in Files, NEW n \in Files, Follows(M, m, n)
       PROVE  /\ m # k /\ Holds(L, m) /\ n <= k
              /\ Follows(L, m, n) \/ (n = k /\ ~Holds(L, k) /\ Newest(L, m))
  <2>1. m # k /\ Holds(L, m) /\ n <= k
    BY <1>1, <1>12, <1>13, <1>17 DEF Follows, Files
  <2>2. \A j \in Files : m < j /\ j < n => ~Holds(L, j)
    BY <1>11, <1>12, <1>17 DEF Follows
  <2>3. CASE Holds(L, n)
    BY <1>17, <2>1, <2>2, <2>3 DEF Follows
  <2>4. CASE ~Holds(L, n)
    <3>1. n = k
      BY <1>12, <1>17, <2>4 DEF Follows
    <3> QED  BY <1>13, <2>1, <2>2, <2>4, <3>1 DEF Newest, Files
  <2> QED  BY <2>1, <2>3, <2>4
<1>18. \A m \in Files : Holds(L, m) /\ Above(L, m) => \A x \in owed' : x.seq > Last(L, m)
  BY <1>9, <1>10, <1>14 DEF Above
<1>19. ASSUME NEW m \in Files, NEW n \in Files, Follows(M, m, n)
       PROVE  /\ First(M, n) = Last(M, m) + 1 \/ \A x \in owed' : x.seq > Last(M, m)
              /\ damage = {} => First(M, n) = Last(M, m) + 1
  <2>1. m # k /\ Holds(L, m) /\ Last(M, m) = Last(L, m)
    BY <1>12, <1>17, <1>19
  <2>2. CASE Follows(L, m, n)
    <3>1. First(M, n) = First(L, n)
      BY <1>11, <1>12, <2>2 DEF Follows
    <3>2. First(L, n) = Last(L, m) + 1 \/ Above(L, m)
      BY <1>8, <2>2 DEF Covered
    <3>3. damage = {} => First(L, n) = Last(L, m) + 1
      BY <1>8, <2>2 DEF Linked
    <3> QED  BY <1>18, <2>1, <3>1, <3>2, <3>3
  <2>3. CASE n = k /\ ~Holds(L, k) /\ Newest(L, m)
    <3>1. Last(L, m) = q \/ (damage # {} /\ Above(L, m))
      BY <1>8, <2>3 DEF NextFits
    <3> QED  BY <1>11, <1>18, <2>1, <2>3, <3>1
  <2> QED  BY <1>17, <1>19, <2>2, <2>3
<1>20. ContentOK'
  BY <1>6, <1>7, <1>15 DEF ContentOK, Contents, Runs, First
<1>21. RunningOK'
  <2>1. \A n \in Files : Holds(M, n) => files_'[n] = Last(M, n)
    BY <1>1, <1>8, <1>9, <1>11, <1>12 DEF Exact
  <2>2. \A n \in Files : n > current_file_number_' => ~Holds(M, n)
    BY <1>13
  <2> QED  BY <1>7, <1>16, <1>19, <2>1, <2>2
           DEF RunningOK, Ordered, Exact, Covered, Above, Follows, Holds, First, Last
<1>22. WritingOK'
  <2>1. \A m \in Files : Newest(M, m) => Last(M, m) = current_sequence_'
    <3> SUFFICES ASSUME NEW m \in Files, Newest(M, m) PROVE m = k
      BY <1>11
    <3> QED  BY <1>1, <1>11, <1>13 DEF Newest, Files
  <2>2. ~HasTornTail(disk[current_file_number_])'
    BY <1>4 DEF HasTornTail
  <2>3. NextFits(Content(disk))'
    BY <1>7, <2>1 DEF NextFits, Newest, Holds, Last
  <2> QED  BY <2>2, <2>3 DEF WritingOK
<1>23. UndamagedOK'
  <2> SUFFICES ASSUME damage = {}
               PROVE  /\ proc' # "refused"
                      /\ \A n \in Files : disk'[n].st # "bare"
                      /\ \A n \in Files : HasTornTail(disk'[n]) => IsLatest(disk', n)
                      /\ Linked(M)
    BY <1>7 DEF UndamagedOK, HasTornTail, IsLatest, Exists, Linked, Follows, Holds, First, Last
  <2>1. Linked(M)
    BY <1>19 DEF Linked
  <2>2. \A n \in Files : n # k => disk'[n].st # "bare"
    BY <1>1 DEF ReplayInv, UndamagedOK
  <2>3. \A n \in Files : ~HasTornTail(disk'[n])
    BY <1>4, NothingTorn DEF HasTornTail, AppendReady
  <2> QED  BY <2>1, <2>2, <2>3
<1> QED  BY <1>20, <1>21, <1>22, <1>23 DEF ReplayInv

\* What the two outcomes of an append share: the records t are added to the
\* segment, and nothing else changes in the directory.
LEMMA AppendedBytes ==
  ASSUME IInv, IInv', ReplayInv, AppendReady,
         NEW t \in Seq(Record \cup {Torn}),
         NEW y \in Nat,
         \/ disk' = [RotatedDisk EXCEPT ![RotatedFile].recs = @ \o t]
         \/ disk' = [RotatedDisk EXCEPT ![RotatedFile].recs = @ \o t, ![RotatedFile].synced = y]
  PROVE  /\ \A n \in Files :
              n # RotatedFile => disk'[n].recs = disk[n].recs /\ disk'[n].st = RotatedDisk[n].st
         /\ disk'[RotatedFile].recs = disk[RotatedFile].recs \o t
         /\ disk'[RotatedFile].st = "ready"
<1> DEFINE d == RotatedDisk
           k == RotatedFile
<1>1. /\ d \in Disks /\ k \in Files /\ d[k].st = "ready"
      /\ \A n \in Files : d[n].recs = disk[n].recs
  BY RotationKeeps
<1>2. d[k] \in Segment
  BY <1>1 DEF Disks
<1> HIDE DEF d, k
<1>3. CASE disk' = [d EXCEPT ![k].recs = @ \o t]
  BY <1>1, <1>2, <1>3 DEF Disks, Segment, d, k
<1>4. CASE disk' = [d EXCEPT ![k].recs = @ \o t, ![k].synced = y]
  BY <1>1, <1>2, <1>4 DEF Disks, Segment, d, k
<1> QED  BY <1>3, <1>4 DEF d, k

\* Append succeeds.
LEMMA AcknowledgeReplay ==
  ASSUME IInv, IInv', ReplayInv, NEW op \in Ops, Acknowledge(op)
  PROVE  ReplayInv'
<1> DEFINE d == RotatedDisk
           k == RotatedFile
           r == NextRecord(op)
           y == IF sync_on_write THEN Len(d[k].recs) + 1 ELSE d[k].synced
<1>1. /\ AppendReady /\ proc = "up" /\ owed' = owed \cup {r}
      /\ disk' = [d EXCEPT ![k].recs = Append(@, r),
                           ![k].synced = IF sync_on_write THEN Len(d[k].recs) + 1 ELSE @]
      /\ files_' = [files_ EXCEPT ![k] = current_sequence_ + 1]
      /\ current_sequence_' = current_sequence_ + 1
      /\ current_file_number_' = k
      /\ UNCHANGED <<proc, damage>>
  BY DEF Acknowledge, AppendOk
<1>2. r \in Record /\ r.seq = current_sequence_ + 1
  BY <1>1, WalConstants DEF NextRecord, Record, AppendReady, IInv, TypeOK
<1>3. d \in Disks /\ k \in Files
  BY <1>1, RotationKeeps
<1>4. d[k].recs \in Seq(Record \cup {Torn}) /\ d[k].synced \in Nat
  BY <1>3 DEF Disks, Segment
<1>5. y \in Nat
  BY <1>4
<1>6. Append(d[k].recs, r) = d[k].recs \o <<r>> /\ <<r>> \in Seq(Record \cup {Torn})
  BY <1>2, <1>4, AppendIsConcat
<1>7. disk' = [d EXCEPT ![k].recs = @ \o <<r>>, ![k].synced = y]
  <2>1. disk' = [d EXCEPT ![k].recs = Append(d[k].recs, r), ![k].synced = y]
    BY <1>1, <1>3 DEF Disks
  <2> HIDE DEF y, d, k, r
  <2> QED  BY <1>6, <2>1
<1> HIDE DEF y, r
<1>8. /\ \A n \in Files : n # k => disk'[n].recs = disk[n].recs /\ disk'[n].st = d[n].st
      /\ disk'[k].recs = disk[k].recs \o <<r>> /\ disk'[k].st = "ready"
  BY <1>1, <1>5, <1>6, <1>7, AppendedBytes
<1> QED  BY <1>1, <1>2, <1>8, RecordAppended

\* Append fails and poisons the segment.
LEMMA AppendErrorReplay ==
  ASSUME IInv, IInv', ReplayInv, NEW op \in Ops, AppendError(op)
  PROVE  ReplayInv'
<1> DEFINE d == RotatedDisk
           k == RotatedFile
           r == NextRecord(op)
<1>1. PICK t \in AppendResidue(op) : AppendPoisoned(op, t)
  BY DEF AppendError
<1>2. /\ AppendReady /\ proc = "up"
      /\ disk' = [d EXCEPT ![k].recs = @ \o t]
      /\ files_' = [files_ EXCEPT ![k] = IF t = <<r>> THEN current_sequence_ + 1
                                         ELSE IF MustRotate THEN 0 ELSE @]
      /\ current_sequence_' = current_sequence_ + 1
      /\ current_file_number_' = k
      /\ current_fd_' = FALSE
      /\ UNCHANGED <<proc, owed, damage>>
  BY <1>1 DEF AppendPoisoned, AppendError, lifeVars
<1>3. t \in {<<>>, <<Torn>>, <<r>>}
  BY <1>1 DEF AppendResidue
<1>4. r \in Record /\ r.seq = current_sequence_ + 1 /\ r # Torn
  BY <1>2, WalConstants DEF NextRecord, Record, AppendReady, IInv, TypeOK, Torn
<1> HIDE DEF r
<1>5. t \in Seq(Record \cup {Torn})
  <2>1. <<>> \in Seq(Record \cup {Torn}) /\ <<Torn>> \in Seq(Record \cup {Torn})
    OBVIOUS
  <2>2. <<r>> \in Seq(Record \cup {Torn})
    BY <1>4
  <2> QED  BY <1>3, <2>1, <2>2
<1>6. /\ \A n \in Files : n # k => disk'[n].recs = disk[n].recs /\ disk'[n].st = d[n].st
      /\ disk'[k].recs = disk[k].recs \o t /\ disk'[k].st = "ready"
  BY <1>2, <1>5, AppendedBytes
<1>7. CASE t = <<r>>
  BY <1>2, <1>4, <1>6, <1>7, RecordAppended
<1>8. CASE t # <<r>>
  <2>1. files_' = [files_ EXCEPT ![k] = IF MustRotate THEN 0 ELSE @]
    BY <1>2, <1>8
  <2>2. t \in {<<>>, <<Torn>>}
    BY <1>3, <1>8
  <2> QED  BY <1>2, <1>6, <2>1, <2>2, NothingAppended
<1> QED  BY <1>7, <1>8

-----------------------------------------------------------------------------
(* Truncation and power loss.                                               *)

\* Truncate opens a gap only below upTo, and one that the scan would refuse only
\* where an older segment could not be removed.
LEMMA CheckpointReplay ==
  ASSUME IInv, IInv', ReplayInv, NEW upTo \in 1..MaxSeq, NEW stuck \in SUBSET Truncatable(upTo),
         Checkpoint(upTo, stuck)
  PROVE  ReplayInv'
<1> DEFINE gone == Truncatable(upTo) \ stuck
           L == Content(disk)
           M == Content(disk')
<1>1. /\ disk' = [n \in Files |-> IF n \in gone THEN Absent ELSE disk[n]]
      /\ files_' = [n \in Files |-> IF n \in gone THEN NotListed ELSE files_[n]]
      /\ owed' = {r \in owed : r.seq > upTo}
      /\ proc = "up"
      /\ UNCHANGED <<current_fd_, current_sequence_, current_file_number_, proc>>
      /\ damage' = damage \cup (IF \E m \in stuck, n \in gone : m < n THEN {"gap"} ELSE {})
  BY DEF Checkpoint, Truncate
<1>2. \A n \in gone : n \in Files /\ files_[n] > 0 /\ files_[n] <= upTo /\ n # current_file_number_
  BY DEF Truncatable
<1>3. \A m \in Files : files_[m] > 0 /\ files_[m] <= upTo /\ m # current_file_number_ /\ m \notin gone
                         => m \in stuck
  BY DEF Truncatable
<1>4. M = Content(disk)'
  BY DEF Content
<1>5. \A n \in Files : n \in gone => M[n] = <<>> /\ ~HasTornTail(disk'[n]) /\ disk'[n].st = "absent"
  BY <1>1 DEF Content, Repaired, HasTornTail, Absent
<1>6. \A n \in Files : n \notin gone => M[n] = L[n] /\ disk'[n] = disk[n]
  BY <1>1 DEF Content
<1>7. /\ L \in Contents /\ Runs(L) /\ Ordered(L) /\ Exact(L) /\ Covered(L)
      /\ \A n \in Files : n > current_file_number_ => ~Holds(L, n)
      /\ current_fd_ => NextFits(L)
      /\ damage = {} => Linked(L)
  BY <1>1 DEF ReplayInv, ContentOK, RunningOK, UndamagedOK, WritingOK, Contents
<1>8. M = [n \in Files |-> M[n]]
  BY DEF Content
<1>9. current_file_number_ \in Nat /\ upTo \in Nat
  BY DEF IInv, TypeOK
<1> HIDE DEF L, M, gone
<1>10. M \in Contents
  <2>1. <<>> \in Seq(Record)
    OBVIOUS
  <2>2. \A n \in Files : M[n] \in Seq(Record)
    BY <1>5, <1>6, <1>7, <2>1 DEF Contents
  <2> QED  BY <1>8, <2>2 DEF Contents
<1>11. \A n \in Files : Holds(M, n) => /\ n \notin gone /\ Holds(L, n)
                                      /\ First(M, n) = First(L, n) /\ Last(M, n) = Last(L, n)
  BY <1>5, <1>6 DEF Holds, First, Last
<1>12. \A n \in Files : Holds(L, n) /\ ~Holds(M, n) => n \in gone
  BY <1>6 DEF Holds
<1>13. \A n \in Files : Holds(L, n) => /\ First(L, n) \in Nat /\ Last(L, n) \in Nat /\ Last(L, n) > 0
                                      /\ First(L, n) <= Last(L, n)
  BY <1>7, Bounds
\* A segment left of a removed one is below upTo, and could not be removed.
<1>14. ASSUME NEW m \in Files, NEW k \in Files, m < k, Holds(M, m), Holds(L, k), ~Holds(M, k)
       PROVE  /\ \A r \in owed' : r.seq > Last(M, m)
              /\ damage' # {} /\ m # current_file_number_
  <2>1. k \in gone /\ Holds(L, m) /\ m \notin gone /\ Last(M, m) = Last(L, m)
    BY <1>11, <1>12, <1>14
  <2>2. Last(L, k) = files_[k] /\ Last(L, m) = files_[m]
    BY <1>7, <1>14, <2>1 DEF Exact
  <2>3. Last(L, k) <= upTo
    BY <1>2, <2>1, <2>2
  <2>4. Last(L, m) < Last(L, k)
    BY <1>7, <1>13, <1>14, <2>1 DEF Ordered
  <2>5. m # current_file_number_
    BY <1>7, <1>14
  <2>6. m \in stuck
    BY <1>3, <1>9, <1>13, <1>14, <2>1, <2>2, <2>3, <2>4, <2>5
  <2>7. damage' # {}
    BY <1>1, <1>14, <2>1, <2>6
  <2>8. \A r \in owed' : r.seq \in Nat /\ r.seq > upTo
    BY <1>1 DEF IInv, TypeOK, Record
  <2> QED  BY <1>9, <1>13, <1>14, <2>1, <2>3, <2>4, <2>5, <2>7, <2>8
<1>15. ASSUME NEW m \in Files, NEW n \in Files, Follows(M, m, n)
       PROVE  /\ First(M, n) = Last(M, m) + 1 \/ \A r \in owed' : r.seq > Last(M, m)
              /\ damage' = {} => First(M, n) = Last(M, m) + 1
  <2>1. /\ m < n /\ Holds(M, m) /\ Holds(M, n) /\ Holds(L, m) /\ Holds(L, n)
        /\ First(M, n) = First(L, n) /\ Last(M, m) = Last(L, m)
    BY <1>11, <1>15 DEF Follows
  <2>2. CASE Follows(L, m, n)
    <3>1. damage' = {} => First(L, n) = Last(L, m) + 1
      BY <1>1, <1>7, <2>2 DEF Linked
    <3>2. First(L, n) = Last(L, m) + 1 \/ Above(L, m)
      BY <1>7, <2>2 DEF Covered
    <3> QED  BY <1>1, <2>1, <3>1, <3>2 DEF Above
  <2>3. CASE ~Follows(L, m, n)
    <3>1. PICK k \in Files : m < k /\ k < n /\ Holds(L, k)
      BY <2>1, <2>3 DEF Follows
    <3>2. ~Holds(M, k)
      BY <1>15, <3>1 DEF Follows
    <3> QED  BY <1>14, <2>1, <3>1, <3>2
  <2> QED  BY <2>2, <2>3
<1>16. ContentOK'
  <2>1. Runs(M)
    <3> SUFFICES ASSUME NEW n \in Files, NEW i \in 1..Len(M[n]) PROVE M[n][i].seq = First(M, n) + i - 1
      BY DEF Runs
    <3>1. M[n] = L[n]
      BY <1>5, <1>6
    <3> QED  BY <1>7, <3>1 DEF Runs, First
  <2> QED  BY <1>4, <1>10, <2>1 DEF ContentOK, Contents, Runs, First
<1>17. RunningOK'
  <2>1. \A m, n \in Files : m < n /\ Holds(M, m) /\ Holds(M, n) => Last(M, m) < First(M, n)
    BY <1>7, <1>11 DEF Ordered
  <2>2. \A n \in Files : Holds(M, n) => files_'[n] = Last(M, n)
    BY <1>1, <1>7, <1>11 DEF Exact
  <2>3. \A n \in Files : n > current_file_number_' => ~Holds(M, n)
    BY <1>1, <1>7, <1>11
  <2> QED  BY <1>4, <1>15, <2>1, <2>2, <2>3
           DEF RunningOK, Ordered, Exact, Covered, Above, Follows, Holds, First, Last
<1>18. WritingOK'
  <2> SUFFICES ASSUME current_fd_
               PROVE  /\ ~HasTornTail(disk'[current_file_number_])
                      /\ \A m \in Files : Newest(M, m) =>
                           \/ Last(M, m) = current_sequence_
                           \/ /\ damage' # {} /\ m # current_file_number_
                              /\ \A r \in owed' : r.seq > Last(M, m)
    BY <1>1, <1>4 DEF WritingOK, HasTornTail, NextFits, Newest, Above, Holds, Last
  <2>1. ~HasTornTail(disk'[current_file_number_])
    <3>1. current_file_number_ \in Files /\ current_file_number_ \notin gone
      BY <1>2 DEF IInv, Current
    <3> QED  BY <1>6, <3>1 DEF ReplayInv, WritingOK
  <2>2. ASSUME NEW m \in Files, Newest(M, m)
        PROVE  \/ Last(M, m) = current_sequence_
               \/ /\ damage' # {} /\ m # current_file_number_
                  /\ \A r \in owed' : r.seq > Last(M, m)
    <3>1. Holds(M, m) /\ Holds(L, m) /\ Last(M, m) = Last(L, m)
      BY <1>11, <2>2 DEF Newest
    <3>2. CASE Newest(L, m)
      <4>1. \/ Last(L, m) = current_sequence_
            \/ damage # {} /\ m # current_file_number_ /\ Above(L, m)
        BY <1>7, <3>2 DEF NextFits
      <4> QED  BY <1>1, <3>1, <4>1 DEF Above
    <3>3. CASE ~Newest(L, m)
      <4>1. PICK k \in Files : m < k /\ Holds(L, k)
        BY <3>1, <3>3 DEF Newest
      <4>2. ~Holds(M, k)
        BY <2>2, <4>1 DEF Newest
      <4> QED  BY <1>14, <3>1, <4>1, <4>2
    <3> QED  BY <3>2, <3>3
  <2> QED  BY <2>1, <2>2
<1>19. UndamagedOK'
  <2> SUFFICES ASSUME damage' = {}
               PROVE  /\ \A n \in Files : disk'[n].st # "bare"
                      /\ \A n \in Files : HasTornTail(disk'[n]) => IsLatest(disk', n)
                      /\ Linked(M)
    BY <1>1, <1>4 DEF UndamagedOK, HasTornTail, IsLatest, Exists, Linked, Follows, Holds, First, Last
  <2>1. damage = {}
    BY <1>1
  <2>2. \A n \in Files : disk'[n].st # "bare"
    BY <1>5, <1>6, <2>1 DEF ReplayInv, UndamagedOK
  <2>3. \A n \in Files : HasTornTail(disk'[n]) => IsLatest(disk', n)
    <3> SUFFICES ASSUME NEW n \in Files, HasTornTail(disk'[n]) PROVE IsLatest(disk', n)
      OBVIOUS
    <3>1. disk'[n] = disk[n]
      BY <1>5, <1>6
    <3>2. IsLatest(disk, n)
      BY <2>1, <3>1 DEF ReplayInv, UndamagedOK
    <3> QED  BY <1>5, <1>6, <3>1, <3>2 DEF IsLatest, Exists
  <2> QED  BY <1>15, <2>2, <2>3 DEF Linked
<1> QED  BY <1>16, <1>17, <1>18, <1>19 DEF ReplayInv

\* What a power loss leaves of a segment holds the first records of it.
LEMMA SurvivorContent ==
  ASSUME NEW c \in Segment, c.synced <= Len(c.recs), Repaired(c) \in Seq(Record),
         NEW s, s.recs \in Survivors(c)
  PROVE  /\ Repaired(s) \in Seq(Record)
         /\ Len(Repaired(s)) <= Len(Repaired(c))
         /\ \A i \in 1..Len(Repaired(s)) : Repaired(s)[i] = Repaired(c)[i]
<1>1. c.recs \in Seq(Record \cup {Torn}) /\ c.synced \in Nat
  BY DEF Segment
<1>2. /\ Len(Repaired(c)) \in Nat /\ Len(c.recs) - 1 <= Len(Repaired(c))
      /\ Len(Repaired(c)) <= Len(c.recs)
      /\ \A i \in 1..Len(Repaired(c)) : Repaired(c)[i] = c.recs[i]
      /\ Len(Repaired(c)) = Len(c.recs) \/ (Len(c.recs) > 0 /\ c.recs[Len(c.recs)] = Torn)
  BY <1>1 DEF Repaired, HasTornTail
<1>3. ASSUME NEW len \in 0..Len(Repaired(c))
      PROVE  LET p == SubSeq(c.recs, 1, len)
             IN  /\ p \in Seq(Record) /\ Len(p) = len
                 /\ \A i \in 1..len : p[i] = Repaired(c)[i]
  <2> DEFINE p == SubSeq(c.recs, 1, len)
  <2>1. p \in Seq(Record \cup {Torn}) /\ Len(p) = len /\ \A i \in 1..len : p[i] = c.recs[i]
    BY <1>1, <1>2, <1>3
  <2>2. \A i \in 1..len : p[i] = Repaired(c)[i] /\ Repaired(c)[i] \in Record
    BY <1>2, <1>3, <2>1
  <2> HIDE DEF p
  <2>3. p \in Seq(Record)
    BY <2>1, <2>2
  <2> QED  BY <2>1, <2>2, <2>3 DEF p
<1>4. CASE \E len \in c.synced..Len(c.recs) : s.recs = SubSeq(c.recs, 1, len)
  <2>1. PICK len \in c.synced..Len(c.recs) : s.recs = SubSeq(c.recs, 1, len)
    BY <1>4
  <2>2. CASE len <= Len(Repaired(c))
    <3>1. len \in 0..Len(Repaired(c))
      BY <1>1, <1>2, <2>1, <2>2
    <3>2. /\ s.recs \in Seq(Record) /\ Len(s.recs) = len
          /\ \A i \in 1..len : s.recs[i] = Repaired(c)[i]
      BY <1>3, <2>1, <3>1
    <3>3. Repaired(s) = s.recs
      BY <3>2, RepairedWhole
    <3> QED  BY <2>2, <3>2, <3>3
  <2>3. CASE len > Len(Repaired(c))
    <3>1. len = Len(c.recs) /\ s.recs = c.recs
      BY <1>1, <1>2, <2>1, <2>3
    <3>2. Repaired(s) = Repaired(c)
      BY <3>1 DEF Repaired, HasTornTail
    <3> QED  BY <1>2, <3>2
  <2> QED  BY <1>1, <1>2, <2>1, <2>2, <2>3
<1>5. CASE \E len \in c.synced..(Len(c.recs) - 1) : s.recs = Append(SubSeq(c.recs, 1, len), Torn)
  <2>1. PICK len \in c.synced..(Len(c.recs) - 1) : s.recs = Append(SubSeq(c.recs, 1, len), Torn)
    BY <1>5
  <2> DEFINE p == SubSeq(c.recs, 1, len)
  <2>2. len \in 0..Len(Repaired(c))
    BY <1>1, <1>2, <2>1
  <2>3. p \in Seq(Record) /\ Len(p) = len /\ \A i \in 1..len : p[i] = Repaired(c)[i]
    BY <1>3, <2>2
  <2>4. s.recs = Append(p, Torn)
    BY <2>1
  <2> HIDE DEF p
  <2>5. p \in Seq(Record \cup {Torn})
    BY <2>3
  <2>6. Repaired(s) = p
    BY <2>4, <2>5, RepairedTorn
  <2> QED  BY <2>2, <2>3, <2>6
<1> QED  BY <1>4, <1>5 DEF Survivors

\* A power loss cuts segments short; without damage only the last one.
LEMMA LosePowerReplay ==
  ASSUME IInv, IInv', ReplayInv, LosePower
  PROVE  ReplayInv'
<1> DEFINE L == Content(disk)
           M == Content(disk')
<1>1. /\ current_fd_' = FALSE /\ proc' = "down"
      /\ damage' = damage \cup
           (IF \E n \in Files : Len(disk[n].recs) > 0 /\ disk'[n].recs # disk[n].recs
                                /\ ~IsLatest(disk, n) THEN {"tail"} ELSE {})
  BY DEF LosePower, PowerLoss
<1>2. PICK recs \in [Unsynced -> UNION {Survivors(disk[n]) : n \in Unsynced}] :
        /\ \A n \in Unsynced : recs[n] \in Survivors(disk[n])
        /\ disk' = [n \in Files |-> IF n \in Unsynced THEN [disk[n] EXCEPT !.recs = recs[n]] ELSE disk[n]]
  BY DEF LosePower, PowerLoss
<1>3. disk \in Disks /\ WellFormed(disk) /\ L \in Contents /\ Runs(L)
  BY DEF IInv, TypeOK, Disks, ReplayInv, ContentOK, Contents
<1>4. \A n \in Files : L[n] = Repaired(disk[n]) /\ M[n] = Repaired(disk'[n])
  BY DEF Content
<1>5. M = Content(disk)' /\ M = [n \in Files |-> M[n]]
  BY DEF Content
<1> HIDE DEF L, M
<1>6. ASSUME NEW n \in Files
      PROVE  /\ disk'[n].st = disk[n].st
             /\ disk[n].recs = <<>> => disk'[n].recs = <<>>
             /\ M[n] \in Seq(Record)
             /\ Len(M[n]) <= Len(L[n])
             /\ \A i \in 1..Len(M[n]) : M[n][i] = L[n][i]
  <2>1. disk[n] \in Segment /\ disk[n].synced <= Len(disk[n].recs) /\ L[n] \in Seq(Record)
    BY <1>3 DEF Disks, WellFormed, Contents
  <2>2. CASE n \in Unsynced
    <3>1. disk'[n] = [disk[n] EXCEPT !.recs = recs[n]] /\ recs[n] \in Survivors(disk[n])
      BY <1>2, <2>2
    <3>2. recs[n] \in Seq(Record \cup {Torn}) /\ (disk[n].recs = <<>> => recs[n] = <<>>)
      BY <2>1, <3>1, SurvivorFacts
    <3>3. disk'[n].st = disk[n].st /\ disk'[n].recs = recs[n]
      BY <2>1, <3>1, <3>2, RecsUpdate
    <3>4. disk'[n].recs \in Survivors(disk[n]) /\ Repaired(disk[n]) \in Seq(Record)
      BY <1>4, <2>1, <3>1, <3>3
    <3> QED  BY <1>4, <2>1, <3>2, <3>3, <3>4, SurvivorContent
  <2>3. CASE n \notin Unsynced
    <3>1. disk'[n] = disk[n]
      BY <1>2, <2>3
    <3>2. M[n] = L[n]
      BY <1>4, <3>1
    <3> QED  BY <2>1, <3>1, <3>2
  <2> QED  BY <2>2, <2>3
<1>7. \A n \in Files : Len(M[n]) \in Nat /\ Len(L[n]) \in Nat
  BY <1>3, <1>6 DEF Contents
<1>8. \A n \in Files : Holds(M, n) => Holds(L, n) /\ First(M, n) = First(L, n)
  BY <1>6, <1>7 DEF Holds, First
<1>9. ContentOK'
  <2>1. M \in Contents
    BY <1>5, <1>6 DEF Contents
  <2>2. Runs(M)
    <3> SUFFICES ASSUME NEW n \in Files, NEW i \in 1..Len(M[n]) PROVE M[n][i].seq = First(M, n) + i - 1
      BY DEF Runs
    <3>1. M[n][i] = L[n][i] /\ i \in 1..Len(L[n]) /\ First(M, n) = First(L, n)
      BY <1>6, <1>7, <1>8 DEF Holds
    <3> QED  BY <1>3, <3>1 DEF Runs
  <2> QED  BY <1>5, <2>1, <2>2 DEF ContentOK, Contents, Runs, First
<1>10. UndamagedOK'
  <2> SUFFICES ASSUME damage' = {}
               PROVE  /\ \A n \in Files : disk'[n].st # "bare"
                      /\ \A n \in Files : HasTornTail(disk'[n]) => IsLatest(disk', n)
                      /\ Linked(M)
    BY <1>1, <1>5 DEF UndamagedOK, HasTornTail, IsLatest, Exists, Linked, Follows, Holds, First, Last
  <2>1. damage = {} /\ \A n \in Files : ~IsLatest(disk, n) =>
                         disk[n].recs = <<>> \/ disk'[n].recs = disk[n].recs
    <3>1. \A n \in Files : Len(disk[n].recs) > 0 \/ disk[n].recs = <<>>
      BY <1>3 DEF Disks, Segment
    <3> QED  BY <1>1, <3>1
  <2>2. \A n \in Files : ~IsLatest(disk, n) => disk'[n].recs = disk[n].recs
    BY <1>6, <2>1
  <2>3. \A n \in Files : ~IsLatest(disk, n) => M[n] = L[n] /\ (HasTornTail(disk'[n]) => HasTornTail(disk[n]))
    BY <1>4, <2>2 DEF Repaired, HasTornTail
  <2>4. \A n \in Files : IsLatest(disk', n) <=> IsLatest(disk, n)
    BY <1>6 DEF IsLatest, Exists
  <2>5. \A n \in Files : disk'[n].st # "bare"
    BY <1>6, <2>1 DEF ReplayInv, UndamagedOK
  <2>6. \A n \in Files : HasTornTail(disk'[n]) => IsLatest(disk', n)
    BY <2>1, <2>3, <2>4 DEF ReplayInv, UndamagedOK
  <2>7. ASSUME NEW m \in Files, NEW n \in Files, Follows(M, m, n)
        PROVE  First(M, n) = Last(M, m) + 1
    <3>1. m < n /\ Holds(M, m) /\ Holds(M, n) /\ Holds(L, n)
      BY <1>8, <2>7 DEF Follows
    <3>2. Exists(disk, n)
      <4>1. disk[n].recs # <<>>
        BY <1>4, <3>1 DEF Holds, Repaired, HasTornTail
      <4> QED  BY <1>3, <4>1 DEF WellFormed, Exists
    <3>3. \A k \in Files : k < n => M[k] = L[k]
      BY <2>3, <3>2 DEF IsLatest
    <3>4. Holds(L, m) /\ Last(M, m) = Last(L, m)
      BY <3>1, <3>3 DEF Holds, Last
    <3>5. Follows(L, m, n)
      BY <2>7, <3>1, <3>3, <3>4 DEF Follows, Holds
    <3>6. First(L, n) = Last(L, m) + 1
      BY <2>1, <3>5 DEF ReplayInv, UndamagedOK, Linked, L
    <3> QED  BY <1>8, <3>1, <3>4, <3>6
  <2> QED  BY <2>5, <2>6, <2>7 DEF Linked
<1> QED  BY <1>1, <1>9, <1>10 DEF ReplayInv, RunningOK, WritingOK

\* Nothing happens.
LEMMA StutterReplay ==
  ASSUME IInv, ReplayInv, UNCHANGED vars
  PROVE  ReplayInv'
<1>1. UNCHANGED <<disk, files_, current_sequence_, current_file_number_, current_fd_, proc, owed, damage>>
  BY DEF vars, walVars, lifeVars
<1> QED  BY <1>1, QuietReplay DEF ReplayInv, UndamagedOK, WritingOK

\* An empty directory has its numbers in order.
LEMMA InitReplay == Init => ReplayInv
<1> SUFFICES ASSUME Init PROVE ReplayInv
  OBVIOUS
<1> DEFINE L == Content(disk)
<1>1. /\ \A n \in Files : disk[n] = Absent
      /\ proc = "down" /\ damage = {} /\ ~current_fd_
  BY DEF Init, WalInit
<1>2. Absent.recs = <<>> /\ Absent.st = "absent"
  BY DEF Absent
<1>3. \A n \in Files : ~HasTornTail(disk[n]) /\ disk[n].st # "bare" /\ L[n] = <<>>
  BY <1>1, <1>2 DEF Content, Repaired, HasTornTail
<1>4. L = [n \in Files |-> <<>>]
  BY <1>3 DEF Content
<1> HIDE DEF L
<1>5. L \in [Files -> Seq(Record)]
  BY <1>4
<1>6. \A n \in Files : ~Holds(L, n) /\ Len(L[n]) = 0
  BY <1>3 DEF Holds
<1>7. Runs(L) /\ Linked(L)
  BY <1>6 DEF Runs, Linked, Follows
<1> QED  BY <1>1, <1>3, <1>5, <1>7 DEF ReplayInv, ContentOK, RunningOK, WritingOK, UndamagedOK, L

\* Every step of the log keeps its numbers in order.
LEMMA StepReplay == IInv /\ IInv' /\ ReplayInv /\ [Next]_vars => ReplayInv'
<1> SUFFICES ASSUME IInv, IInv', ReplayInv, [Next]_vars PROVE ReplayInv'
  OBVIOUS
<1>1. CASE Start
  BY <1>1, StartReplay
<1>2. CASE StartFails
  BY <1>2, StartFailsReplay
<1>3. CASE StartRefused
  BY <1>3, StartRefusedReplay
<1>4. ASSUME NEW op \in Ops, Acknowledge(op) PROVE ReplayInv'
  BY <1>4, AcknowledgeReplay
<1>5. ASSUME NEW op \in Ops, AppendError(op) PROVE ReplayInv'
  BY <1>5, AppendErrorReplay
<1>6. CASE RotateError
  BY <1>6, RotateErrorReplay
<1>7. CASE Sync
  BY <1>7, SyncReplay
<1>8. ASSUME NEW upTo \in 1..MaxSeq, NEW stuck \in SUBSET Truncatable(upTo),
             Checkpoint(upTo, stuck)
      PROVE  ReplayInv'
  BY <1>8, CheckpointReplay
<1>9. CASE Stop \/ Crash
  BY <1>9, StopReplay
<1>10. CASE LosePower
  BY <1>10, LosePowerReplay
<1>11. CASE UNCHANGED vars
  BY <1>11, StutterReplay
<1> QED  BY <1>1, <1>2, <1>3, <1>4, <1>5, <1>6, <1>7, <1>8, <1>9, <1>10, <1>11 DEF Next

\* The two invariants hold together.
LEMMA ReplayHolds == Spec => [](IInv /\ ReplayInv)
<1>1. Init => IInv /\ ReplayInv
  BY InitHolds, InitReplay
<1>2. (IInv /\ ReplayInv) /\ [Next]_vars => (IInv /\ ReplayInv)'
  BY StepHolds, StepReplay
<1> QED  BY <1>1, <1>2, PTL DEF Spec

-----------------------------------------------------------------------------
(* The theorems.                                                            *)

\* For any number of segments and records, any segment size and either fsync mode:
\* a clean stop, a crash, a failed append, a failed rotation, a truncation that
\* removes every segment it tries to, and a power loss that cuts only the newest
\* segment all leave a directory that the next start accepts
\* (WriteAheadLog::ScanExistingFiles, Open).
THEOREM RefusedOnlyDamaged == Spec => []RefusalExplained
<1>1. IInv /\ ReplayInv => RefusalExplained
  BY DEF ReplayInv, UndamagedOK, RefusalExplained
<1> QED  BY <1>1, ReplayHolds, PTL

\* For any number of segments and records, any segment size and either fsync mode:
\* a running process can replay every record it owes, starting at that record,
\* and meets neither a gap nor a missing floor: the gaps that failed unlinks leave
\* lie below all that is owed (WriteAheadLog::ReplayValidated, Truncate).
THEOREM OwedReplayable == Spec => []AckedReplayable
<1>1. IInv /\ ReplayInv => AckedReplayable
  <2> SUFFICES ASSUME IInv, ReplayInv, proc = "up", NEW r \in owed
               PROVE  /\ ReplayAccepts(disk, files_, current_sequence_, r.seq)
                      /\ r \in Replayed(disk, files_, r.seq)
    BY DEF AckedReplayable
  <2> DEFINE L == Content(disk)
             F == ReplayFiles(files_, r.seq)
             e == [n \in Files |-> IF n \in F THEN RepairedDisk(disk)[n] ELSE Absent]
  <2>1. disk \in Disks /\ WellFormed(disk) /\ L \in Contents /\ Runs(L) /\ r \in Record
    BY DEF IInv, TypeOK, Disks, ReplayInv, ContentOK, Contents
  <2>2. Ordered(L) /\ Exact(L) /\ Covered(L)
    BY DEF ReplayInv, RunningOK
  <2>3. \A n \in Files : RepairedDisk(disk)[n].recs = L[n]
    BY <2>1, RepairedContent
  <2>4. PICK n \in Files : \E i \in 1..Len(disk[n].recs) : disk[n].recs[i] = r
    BY DEF IInv, OwedSafe, OnDisk
  <2>5. \E i \in 1..Len(L[n]) : L[n][i] = r
    <3>1. PICK i \in 1..Len(disk[n].recs) : disk[n].recs[i] = r
      BY <2>4
    <3>2. disk[n].recs \in Seq(Record \cup {Torn}) /\ r # Torn
      BY <2>1 DEF Disks, Segment, Record, Torn
    <3>3. L[n] = IF HasTornTail(disk[n]) THEN SubSeq(disk[n].recs, 1, Len(disk[n].recs) - 1)
                                         ELSE disk[n].recs
      BY DEF Content, Repaired
    <3> HIDE DEF L
    <3> QED  BY <3>1, <3>2, <3>3 DEF HasTornTail
  <2> HIDE DEF L
  <2>6. Holds(L, n) /\ r.seq <= Last(L, n)
    <3>1. L[n] \in Seq(Record)
      BY <2>1 DEF Contents
    <3>2. Holds(L, n)
      BY <2>5, <3>1 DEF Holds
    <3> QED  BY <2>1, <2>5, <3>2, Bounds
  <2>7. n \in F
    <3>1. files_[n] = Last(L, n) /\ Last(L, n) \in 1..MaxSeq
      BY <2>1, <2>2, <2>6, Bounds DEF Exact
    <3> QED  BY <2>6, <3>1 DEF ReplayFiles, NotListed
  <2>8. r \in SegmentRecords(disk[n])
    BY <2>1, <2>4 DEF SegmentRecords, Record
  <2>9. r \in Replayed(disk, files_, r.seq) /\ ReplayFloorSeen(disk, files_, r.seq)
    <3>1. r.seq \in Nat
      BY <2>1 DEF Record
    <3> QED  BY <2>7, <2>8, <3>1 DEF Replayed, ReplayFloorSeen
  <2>10. \A k \in Files : Holds(L, k) => /\ files_[k] = Last(L, k) /\ Last(L, k) \in 1..MaxSeq
                                        /\ First(L, k) \in 1..MaxSeq /\ First(L, k) <= Last(L, k)
    BY <2>1, <2>2, Bounds DEF Exact
  <2>11. \A k \in Files : k \in F => e[k].recs = L[k]
    BY <2>3
  <2>12. \A k \in Files : k \notin F => Len(e[k].recs) = 0
    BY DEF Absent
  <2> HIDE DEF e
  <2>13. \A k \in F : Holds(L, k) => Last(L, k) >= r.seq
    BY <2>10 DEF ReplayFiles
  <2>14. \A k \in Files : Holds(L, k) /\ k \notin F => Last(L, k) < r.seq
    <3>1. r.seq \in Nat
      BY <2>1 DEF Record
    <3> QED  BY <2>10, <3>1 DEF ReplayFiles, NotListed
  <2>15. ASSUME NEW m \in Files, NEW p \in Files, Adjacent(e, m, p)
         PROVE  e[p].recs[1].seq = e[m].recs[Len(e[m].recs)].seq + 1
    <3>1. m \in F /\ p \in F /\ m < p
      BY <2>12, <2>15 DEF Adjacent
    <3>2. e[m].recs = L[m] /\ e[p].recs = L[p] /\ Holds(L, m) /\ Holds(L, p)
      BY <2>11, <2>15, <3>1 DEF Adjacent, Holds
    <3>3. ASSUME NEW k \in Files, m < k, k < p PROVE ~Holds(L, k)
      <4>1. CASE k \in F
        BY <2>11, <2>15, <3>3, <4>1 DEF Adjacent, Holds
      <4>2. CASE k \notin F
        <5> SUFFICES ASSUME Holds(L, k) PROVE FALSE
          OBVIOUS
        <5>1. Last(L, m) < First(L, k)
          BY <2>2, <3>2, <3>3 DEF Ordered
        <5>2. r.seq \in Nat
          BY <2>1 DEF Record
        <5> QED  BY <2>10, <2>13, <2>14, <3>1, <3>2, <4>2, <5>1, <5>2
      <4> QED  BY <4>1, <4>2
    <3>4. Follows(L, m, p)
      BY <3>1, <3>2, <3>3 DEF Follows
    <3>5. ~Above(L, m)
      <4>1. Last(L, m) \in Nat /\ r.seq \in Nat /\ Last(L, m) >= r.seq
        BY <2>1, <2>10, <2>13, <3>1, <3>2 DEF Record
      <4> QED  BY <4>1 DEF Above
    <3>6. First(L, p) = Last(L, m) + 1
      BY <2>2, <3>4, <3>5 DEF Covered
    <3> QED  BY <3>2, <3>6 DEF First, Last
  <2>16. ContiguousAcross(e)
    BY <2>15 DEF ContiguousAcross
  <2> QED  BY <2>9, <2>16 DEF ReplayAccepts, e
<1> QED  BY <1>1, ReplayHolds, PTL

=============================================================================
