---------------------------- MODULE SnapshotFile ----------------------------
(***************************************************************************)
(* A snapshot file over its life: WriteSnapshotV1 writes a temporary inode  *)
(* section by section, completes its header, syncs it and renames it over   *)
(* the path; ReadSnapshotV1, at a restart and in DUMP LOAD, checks what it   *)
(* finds at the path before any store sees it.  Several writers may be at   *)
(* work on one path: a locking save, and children forked by the scheduler,  *)
(* which outlive the server.  The stores are reduced to the identifiers     *)
(* with a vector and with metadata, which the reader relates.  A CRC is the *)
(* data it covers: collisions are left out, the value 0 is not.             *)
(***************************************************************************)
EXTENDS Naturals, Sequences, FiniteSets

CONSTANTS
  Ids,       \* item identifiers
  Saves,     \* locking saves, under the write serialization gate
  Children,  \* forked writers; a gated DUMP SAVE or the ungated scheduler
  MaxInodes  \* bound on the temporary files created

ASSUME SnapshotFileAssumption == MaxInodes \in Nat /\ Saves \cap Children = {}

VARIABLES
  stores,    \* the live stores: vectors and metadata
  deleting,  \* the item of a VECDEL between its two store changes, or {}
  writer,    \* each writer: its next step, its inode
  inode,     \* each inode: content, captured image, synced to disk or not
  path,      \* the inode the path names; 0 for none
  durable,   \* what the path may name after a power loss
  renames,   \* history: the inodes renamed to the path, in order
  acked,     \* history: the latest rename a successful save reported
  rotten     \* history: a medium error hit the file

fileVars == <<stores, deleting, writer, inode, path, durable, renames, acked, rotten>>

Writers == Saves \cup Children
Rejected == [rejected |-> TRUE]
Zero == <<>>  \* a file CRC of 0: the placeholder, or the CRC as it came out

-----------------------------------------------------------------------------
(* The format.                                                              *)

\* Mutant: a checksum over no data at all.
CrcOfNothing(data) == <<{}>>

CalculateCRC32(data) == <<data>>

Section(name, data) == [name |-> name, data |-> data, crc |-> CalculateCRC32(data)]

(* Config, then the stores.  No caller passes statistics.                   *)
SectionsOf(image) ==
  << Section("config", {"c"}), Section("events", {"e"}), Section("co_occurrence", {"o"}),
     Section("vectors", image.vectors), Section("metadata", image.metadata) >>

EmptyFile == [size |-> 0, crc |-> Zero, sections |-> <<>>]

CalculateFileCRC32Streaming(f) ==
  CalculateCRC32(<<f.size, [i \in DOMAIN f.sections |-> <<f.sections[i].name, f.sections[i].data>>]>>)

VerifyFileLevelIntegrity(f) ==
  /\ f.size = Len(f.sections)
  /\ f.crc # Zero
  /\ f.crc = CalculateFileCRC32Streaming(f)

SectionIntact(s) == s.crc = CalculateCRC32(s.data)

ConfigReadable(f) == Len(f.sections) > 0 /\ f.sections[1].name = "config" /\ SectionIntact(f.sections[1])

StoreNames == {"events", "co_occurrence", "vectors", "metadata"}

StoresReadable(f) ==
  LET at == 2 .. Len(f.sections)
      names == {f.sections[i].name : i \in at}
  IN  /\ Cardinality(at) \in 3 .. 4
      /\ names \subseteq StoreNames /\ Cardinality(names) = Cardinality(at)
      /\ {"events", "co_occurrence", "vectors"} \subseteq names
      /\ \A i \in at : SectionIntact(f.sections[i])

StoreData(f, name) ==
  LET at == {i \in 2 .. Len(f.sections) : f.sections[i].name = name}
  IN  IF at = {} THEN {} ELSE f.sections[CHOOSE i \in at : TRUE].data

(* "Metadata references missing vector"                                     *)
MetadataHasVectors(f) == StoreData(f, "metadata") \subseteq StoreData(f, "vectors")

ReadSnapshotV1(f) ==
  IF VerifyFileLevelIntegrity(f) /\ ConfigReadable(f) /\ StoresReadable(f) /\ MetadataHasVectors(f)
  THEN [vectors |-> StoreData(f, "vectors"), metadata |-> StoreData(f, "metadata")]
  ELSE Rejected

(* DUMP VERIFY looks at the file as a whole only                            *)
VerifySnapshotIntegrity(f) == f # EmptyFile /\ VerifyFileLevelIntegrity(f)

AtPath == IF path = 0 THEN Rejected ELSE ReadSnapshotV1(inode[path].file)

-----------------------------------------------------------------------------
(* The live stores.  A writer of a locking save holds the gate to its end.  *)

Idle == [pc |-> "idle", inode |-> 0, orphan |-> FALSE]
Busy(w) == writer[w].pc # "idle"
GateFree == deleting = {} /\ \A w \in Saves : ~Busy(w)

fileOnly == <<writer, inode, path, durable, renames, acked, rotten>>

FileInit ==
  /\ stores = [vectors |-> {}, metadata |-> {}] /\ deleting = {}
  /\ writer = [w \in Writers |-> Idle]
  /\ inode = <<>> /\ path = 0 /\ durable = {0}
  /\ renames = <<>> /\ acked = 0 /\ rotten = FALSE

HandleVecset(id) ==
  /\ GateFree
  /\ stores' = [stores EXCEPT !.vectors = @ \cup {id}]
  /\ UNCHANGED <<deleting, fileOnly>>

HandleMetaset(id) ==
  /\ GateFree /\ id \in stores.vectors
  /\ stores' = [stores EXCEPT !.metadata = @ \cup {id}]
  /\ UNCHANGED <<deleting, fileOnly>>

HandleVecdel(id) ==
  /\ GateFree /\ id \in stores.vectors
  /\ stores' = [stores EXCEPT !.vectors = @ \ {id}]
  /\ deleting' = {id}
  /\ UNCHANGED fileOnly

VecdelMetadata ==
  /\ deleting # {}
  /\ stores' = [stores EXCEPT !.metadata = @ \ deleting]
  /\ deleting' = {}
  /\ UNCHANGED fileOnly

(* DUMP LOAD: staged stores, swapped in only when the file was accepted     *)
HandleDumpLoad ==
  /\ GateFree /\ AtPath # Rejected
  /\ stores' = AtPath
  /\ UNCHANGED <<deleting, fileOnly>>

-----------------------------------------------------------------------------
(* WriteSnapshotV1, step by step.                                           *)

At(w, pc) == writer[w].pc = pc
Goto(w, pc) == writer' = [writer EXCEPT ![w].pc = pc]
Leave(w) == writer' = [writer EXCEPT ![w] = Idle]
(* The inodes some name or some writer still leads to; the others are gone  *)
Swept(inodes, kept) ==
  [n \in DOMAIN inodes |->
     IF n \in kept THEN inodes[n]
     ELSE [file |-> EmptyFile, image |-> [vectors |-> {}, metadata |-> {}], synced |-> FALSE]]
InUse(ws) == {writer[w].inode : w \in ws}

File(w) == inode[writer[w].inode].file
SetFile(w, f) == inode' = [inode EXCEPT ![writer[w].inode].file = f]

content == <<stores, deleting>>
directory == <<path, durable, renames, acked, rotten>>

(* The image: under the gate for a locking save; a fork only holds the      *)
(* locks of the stores, one by one.  A second writer is on the same path    *)
(* only as the orphan of an earlier server.                                 *)
CreateTemporaryFile(w) ==
  /\ ~Busy(w) /\ Len(inode) < MaxInodes
  /\ w \in Saves => deleting = {}
  /\ \A v \in Writers : Busy(v) => writer[v].orphan
  /\ inode' = Append(inode, [file |-> EmptyFile, image |-> stores, synced |-> FALSE])
  /\ writer' = [writer EXCEPT ![w] = [Idle EXCEPT !.pc = "write", !.inode = Len(inode) + 1]]
  /\ UNCHANGED <<content, directory>>

WriteSizedPayload(w) ==
  LET f == File(w)
      all == SectionsOf(inode[writer[w].inode].image)
      next == Len(f.sections) + 1
  IN  /\ At(w, "write")
      /\ SetFile(w, [f EXCEPT !.sections = Append(@, all[next])])
      /\ IF next = Len(all) THEN Goto(w, "size") ELSE UNCHANGED writer
      /\ UNCHANGED <<content, directory>>

RewriteHeader(w) ==
  /\ At(w, "size")
  /\ SetFile(w, [File(w) EXCEPT !.size = Len(File(w).sections)])
  /\ Goto(w, "crc")
  /\ UNCHANGED <<content, directory>>

(* The CRC of the temporary file as it reads back; it may happen to be 0    *)
WriteFileCrc(w) ==
  /\ At(w, "crc")
  /\ \E crc \in {CalculateFileCRC32Streaming(File(w)), Zero} :
       SetFile(w, [File(w) EXCEPT !.crc = crc])
  /\ Goto(w, "sync")
  /\ UNCHANGED <<content, directory>>

\* Mutant: the temporary file is not synced before it is renamed.
FsyncSkipped(w) == At(w, "sync") /\ Goto(w, "rename") /\ UNCHANGED <<inode, content, directory>>

Fsync(w) ==
  /\ At(w, "sync")
  /\ inode' = [inode EXCEPT ![writer[w].inode].synced = TRUE]
  /\ Goto(w, "rename")
  /\ UNCHANGED <<content, directory>>

(* An error on the way: the temporary file is unlinked                      *)
WriteFails(w) ==
  /\ writer[w].pc \in {"write", "size", "crc", "sync", "rename"}
  /\ Leave(w)
  /\ inode' = Swept(inode, durable \cup InUse(Writers \ {w}))
  /\ UNCHANGED <<content, directory>>

Publish(w) ==
  /\ At(w, "rename")
  /\ path' = writer[w].inode
  /\ durable' = durable \cup {writer[w].inode}
  /\ renames' = Append(renames, writer[w].inode)
  /\ Goto(w, "check")
  /\ UNCHANGED <<inode, acked, rotten, content>>

(* "Published snapshot failed opened-inode validation": another writer has   *)
(* renamed its file over this one                                           *)
PublishCheck(w) ==
  /\ At(w, "check")
  /\ IF path = writer[w].inode THEN Goto(w, "dirsync") ELSE Leave(w)
  /\ UNCHANGED <<inode, content, directory>>

FsyncDirectory(w) ==
  /\ At(w, "dirsync")
  /\ durable' = {path}
  /\ acked' = IF writer[w].orphan THEN acked
              ELSE CHOOSE i \in DOMAIN renames : renames[i] = writer[w].inode
  /\ Leave(w)
  /\ inode' = Swept(inode, {path} \cup InUse(Writers \ {w}))
  /\ UNCHANGED <<path, renames, rotten, content>>

(* The save reports an error, with its file at the path                     *)
FsyncDirectoryFails(w) ==
  /\ At(w, "dirsync")
  /\ Leave(w)
  /\ UNCHANGED <<inode, content, directory>>

-----------------------------------------------------------------------------
(* Crashes.                                                                 *)

(* What a restart finds; what the log adds to it is Recovery's business     *)
Restored(image) == IF image = Rejected THEN [vectors |-> {}, metadata |-> {}] ELSE image

(* The server is killed and starts again; a child goes on as an orphan      *)
Restart ==
  /\ stores' = Restored(AtPath) /\ deleting' = {}
  /\ writer' = [w \in Writers |-> IF w \in Children /\ Busy(w) THEN [writer[w] EXCEPT !.orphan = TRUE] ELSE Idle]
  /\ inode' = Swept(inode, durable \cup InUse(Children))
  /\ UNCHANGED directory

(* The blocks of a file that may be lost until it is synced                 *)
WithoutBlocks(f, blocks) ==
  [f EXCEPT !.sections = [i \in DOMAIN f.sections |->
     IF i \in blocks THEN [f.sections[i] EXCEPT !.data = {}] ELSE f.sections[i]]]

FilePowerLoss ==
  /\ path' \in durable /\ durable' = {path'}
  /\ LET kept == Swept(inode, {path'})
     IN  IF path' = 0 \/ inode[path'].synced THEN inode' = kept
         ELSE \E blocks \in SUBSET DOMAIN inode[path'].file.sections :
                inode' = [kept EXCEPT ![path'].file = WithoutBlocks(@, blocks)]
  /\ writer' = [w \in Writers |-> Idle]
  /\ stores' = Restored(IF path' = 0 THEN Rejected ELSE ReadSnapshotV1(inode'[path'].file))
  /\ deleting' = {}
  /\ UNCHANGED <<renames, acked, rotten>>

(* A medium error: a section reads differently, or the file is cut short.   *)
(* Bound: once, while no writer is at work.                                 *)
Rot ==
  /\ path # 0 /\ ~rotten /\ \A w \in Writers : ~Busy(w)
  /\ LET f == inode[path].file
     IN  \/ \E i \in DOMAIN f.sections :
              inode' = [inode EXCEPT ![path].file = WithoutBlocks(f, {i})]
         \/ inode' = [inode EXCEPT ![path].file.sections = SubSeq(f.sections, 1, Len(f.sections) - 1)]
  /\ rotten' = TRUE
  /\ UNCHANGED <<writer, path, durable, renames, acked, content>>

WriterStep(w) ==
  \/ CreateTemporaryFile(w) \/ WriteSizedPayload(w) \/ RewriteHeader(w) \/ WriteFileCrc(w) \/ Fsync(w)
  \/ WriteFails(w) \/ Publish(w) \/ PublishCheck(w) \/ FsyncDirectory(w) \/ FsyncDirectoryFails(w)

FileNext ==
  \/ \E id \in Ids : HandleVecset(id) \/ HandleMetaset(id) \/ HandleVecdel(id)
  \/ VecdelMetadata \/ HandleDumpLoad
  \/ \E w \in Writers : WriterStep(w)
  \/ Restart \/ FilePowerLoss \/ Rot

FileSpec == FileInit /\ [][FileNext]_fileVars

-----------------------------------------------------------------------------
(* Torn by a fork between the two steps of a VECDEL: the reader refuses it. *)
TornImage(image) == ~(image.metadata \subseteq image.vectors)

(* Once a save has reported success, the path holds a whole snapshot at     *)
(* least as recent, through failed saves, orphans, crashes and power        *)
(* losses, which the reader accepts and reads back as what was captured;    *)
(* but for the two files that WriteSnapshotV1 completes and ReadSnapshotV1  *)
(* refuses: a torn image, and a CRC that happens to be 0.                   *)
AckedSnapshotSurvives ==
  (acked > 0 /\ ~rotten) =>
    /\ \E i \in acked .. Len(renames) : renames[i] = path
    /\ \/ AtPath = inode[path].image
       \/ TornImage(inode[path].image) \/ inode[path].file.crc = Zero

(* A file is read as what its writer captured, or not at all: not a         *)
(* temporary file on its way, not what a power loss or a medium error left. *)
(* And a file that DUMP VERIFY passes is one that DUMP LOAD accepts, but    *)
(* for a torn image.                                                        *)
AcceptedIsWhole ==
  \A n \in DOMAIN inode :
    LET f == inode[n].file IN
    /\ ReadSnapshotV1(f) \in {Rejected, inode[n].image}
    /\ VerifySnapshotIntegrity(f) /\ ~TornImage(inode[n].image) => ReadSnapshotV1(f) # Rejected
=============================================================================
