--------------------------- MODULE SnapshotProofs ---------------------------
(***************************************************************************)
(* Theorems about SnapshotFile, for every set of identifiers, of locking     *)
(* saves and of forked writers: what a save reported as written is at the     *)
(* path through every crash, and the reader accepts nothing but a file that   *)
(* its writer completed.                                                     *)
(***************************************************************************)
EXTENDS SnapshotFile, FiniteSetTheorems, SequenceTheorems, TLAPS

-----------------------------------------------------------------------------
(* The inductive invariant.                                                 *)

\* The sets the values come from.
Names == {"config"} \cup StoreNames
Datum == SUBSET (Ids \cup {"c", "e", "o"})
SectionType == [name : Names, data : Datum, crc : Seq(Datum)]
FileType == [size : Nat, crc : Seq(Nat \X Seq(Names \X Datum)), sections : Seq(SectionType)]
Image == [vectors : SUBSET Ids, metadata : SUBSET Ids]
Inode == [file : FileType, image : Image, synced : BOOLEAN]
WriterType == [pc : {"idle", "write", "size", "crc", "sync", "rename", "check", "dirsync"},
               inode : Nat, orphan : BOOLEAN]

\* The name of a file leads to an inode there is.
TypesOK ==
  /\ stores \in Image /\ deleting \subseteq Ids
  /\ writer \in [Writers -> WriterType]
  /\ inode \in Seq(Inode)
  /\ path \in durable /\ durable \subseteq 0 .. Len(inode)
  /\ renames \in Seq(1 .. Len(inode)) /\ acked \in 0 .. Len(renames)
  /\ rotten \in BOOLEAN
  /\ \A w \in Writers : Busy(w) => writer[w].inode \in 1 .. Len(inode)

\* Until its rename a writer is alone with its inode, and no power loss can make
\* the path name it.
Unpublished(w) == writer[w].pc \in {"write", "size", "crc", "sync", "rename"}
AloneOK ==
  /\ \A v, w \in Writers : Busy(v) /\ Busy(w) /\ v # w => writer[v].inode # writer[w].inode
  /\ \A w \in Writers : Unpublished(w) => writer[w].inode \notin durable

\* The file that WriteSnapshotV1 is to write for an image, and its CRC.
CrcOf(image) == CalculateFileCRC32Streaming([EmptyFile EXCEPT !.size = 5, !.sections = SectionsOf(image)])

\* The checksums in a file are those of its image, however the data fares.
Marked(x) ==
  /\ Len(x.file.sections) <= 5
  /\ \A i \in 1 .. Len(x.file.sections) : x.file.sections[i].crc = SectionsOf(x.image)[i].crc
  /\ x.file.crc \in {Zero, CrcOf(x.image)}
MarkedOK == \A n \in 1 .. Len(inode) : Marked(inode[n])

\* A file with all that the image has.
Whole(x) == x.file.size = 5 /\ x.file.sections = SectionsOf(x.image)

\* How far each writer is.
StageAt(pc, x) ==
  /\ pc = "write" =>
       /\ Len(x.file.sections) < 5 /\ x.file.size = 0 /\ x.file.crc = Zero
       /\ \A i \in 1 .. Len(x.file.sections) : x.file.sections[i] = SectionsOf(x.image)[i]
  /\ pc = "size" => x.file.sections = SectionsOf(x.image) /\ x.file.size = 0 /\ x.file.crc = Zero
  /\ pc \in {"crc", "sync", "rename"} => Whole(x)
  /\ pc = "rename" => x.synced
StagesOK == \A w \in Writers : Busy(w) => StageAt(writer[w].pc, inode[writer[w].inode])

\* Whatever the path may name after a power loss is synced and whole.
DurableOK == \A n \in durable \ {0} : inode[n].synced /\ (rotten \/ Whole(inode[n]))

\* A writer past its rename finds its own file at the path or a later one.
RenamedOK ==
  \A w \in Writers : writer[w].pc \in {"check", "dirsync"} =>
    /\ Len(renames) > 0 /\ path = renames[Len(renames)]
    /\ \E j \in 1 .. Len(renames) : renames[j] = writer[w].inode

\* All of them are as recent as what was acknowledged.
AckedOK == acked > 0 => \A n \in durable : \E i \in acked .. Len(renames) : renames[i] = n

FileInv == TypesOK /\ AloneOK /\ MarkedOK /\ StagesOK /\ DurableOK /\ RenamedOK /\ AckedOK

-----------------------------------------------------------------------------
(* What the reader makes of a file.                                         *)

\* The five sections of an image.
LEMMA Sections ==
  ASSUME NEW im \in Image
  PROVE  LET all == SectionsOf(im)
         IN  /\ all \in Seq(SectionType) /\ Len(all) = 5 /\ DOMAIN all = 1 .. 5
             /\ all[1] = Section("config", {"c"}) /\ all[2] = Section("events", {"e"})
             /\ all[3] = Section("co_occurrence", {"o"})
             /\ all[4] = Section("vectors", im.vectors) /\ all[5] = Section("metadata", im.metadata)
<1>1. \A nm \in Names, d \in Datum : Section(nm, d) \in SectionType
  <2> SUFFICES ASSUME NEW nm \in Names, NEW d \in Datum PROVE Section(nm, d) \in SectionType
    OBVIOUS
  <2>1. <<d>> \in Seq(Datum)
    OBVIOUS
  <2> QED  BY <2>1 DEF Section, SectionType, CalculateCRC32
<1>2. /\ {"c"} \in Datum /\ {"e"} \in Datum /\ {"o"} \in Datum
      /\ im.vectors \in Datum /\ im.metadata \in Datum
  BY DEF Image, Datum
<1>3. /\ Section("config", {"c"}) \in SectionType /\ Section("events", {"e"}) \in SectionType
      /\ Section("co_occurrence", {"o"}) \in SectionType
      /\ Section("vectors", im.vectors) \in SectionType
      /\ Section("metadata", im.metadata) \in SectionType
  BY <1>1, <1>2 DEF Names, StoreNames
<1> HIDE DEF Section, SectionType
<1> QED  BY <1>3 DEF SectionsOf

\* The CRC of a file has its size, its names and its data.
LEMMA CrcMeaning ==
  ASSUME NEW f, NEW g, f.sections \in Seq(SectionType), g.sections \in Seq(SectionType),
         f.size \in Nat, g.size \in Nat,
         CalculateFileCRC32Streaming(f) = CalculateFileCRC32Streaming(g)
  PROVE  /\ f.size = g.size /\ Len(f.sections) = Len(g.sections)
         /\ \A i \in 1 .. Len(f.sections) : /\ f.sections[i].name = g.sections[i].name
                                            /\ f.sections[i].data = g.sections[i].data
<1> DEFINE F(h) == [i \in DOMAIN h.sections |-> <<h.sections[i].name, h.sections[i].data>>]
<1>1. <<<<f.size, F(f)>>>> = <<<<g.size, F(g)>>>>
  BY DEF CalculateFileCRC32Streaming, CalculateCRC32
<1>2. f.size = g.size /\ F(f) = F(g)
  BY <1>1
<1>3. DOMAIN F(f) = DOMAIN F(g)
  BY <1>2
<1>4. DOMAIN f.sections = DOMAIN g.sections
  BY <1>3
<1>5. Len(f.sections) = Len(g.sections) /\ DOMAIN f.sections = 1 .. Len(f.sections)
  BY <1>4
<1>6. ASSUME NEW i \in 1 .. Len(f.sections)
      PROVE  /\ f.sections[i].name = g.sections[i].name
             /\ f.sections[i].data = g.sections[i].data
  <2>1. F(f)[i] = <<f.sections[i].name, f.sections[i].data>>
    BY <1>5
  <2>2. F(g)[i] = <<g.sections[i].name, g.sections[i].data>>
    BY <1>4, <1>5
  <2>3. F(f)[i] = F(g)[i]
    BY <1>2
  <2> HIDE DEF F
  <2> QED  BY <2>1, <2>2, <2>3
<1> QED  BY <1>2, <1>5, <1>6

\* The CRC of a file is not the placeholder.
LEMMA CrcIsNotZero ==
  ASSUME NEW f
  PROVE  CalculateFileCRC32Streaming(f) # Zero
BY DEF CalculateFileCRC32Streaming, CalculateCRC32, Zero

\* What the CRC of an image is taken of.
LEMMA CrcOfImage ==
  ASSUME NEW im \in Image
  PROVE  LET g == [EmptyFile EXCEPT !.size = 5, !.sections = SectionsOf(im)]
         IN  /\ g.size = 5 /\ g.sections = SectionsOf(im)
             /\ CrcOf(im) = CalculateFileCRC32Streaming(g)
BY DEF CrcOf, EmptyFile

\* A file that passes the file checks is whole.
LEMMA VerifiedIsWhole ==
  ASSUME NEW x \in Inode, Marked(x), VerifyFileLevelIntegrity(x.file)
  PROVE  Whole(x) /\ x.file.crc # Zero
<1> DEFINE f == x.file
           im == x.image
           all == SectionsOf(im)
           g == [EmptyFile EXCEPT !.size = 5, !.sections = all]
<1>1. im \in Image /\ f \in FileType /\ f.sections \in Seq(SectionType) /\ f.size \in Nat
  BY DEF Inode, FileType
<1>2. f.crc = CalculateFileCRC32Streaming(f) /\ f.crc # Zero /\ f.crc = CrcOf(im)
  BY DEF VerifyFileLevelIntegrity, Marked
<1>3. g.size = 5 /\ g.sections = all /\ CrcOf(im) = CalculateFileCRC32Streaming(g)
  BY <1>1, CrcOfImage
<1>4. all \in Seq(SectionType) /\ Len(all) = 5
  BY <1>1, Sections
<1>5. \A i \in 1 .. Len(f.sections) : f.sections[i].crc = all[i].crc
  BY DEF Marked
<1> HIDE DEF g, f, im, all
<1>6. /\ f.size = 5 /\ Len(f.sections) = 5
      /\ \A i \in 1 .. Len(f.sections) : f.sections[i].name = all[i].name /\ f.sections[i].data = all[i].data
  <2>1. CalculateFileCRC32Streaming(f) = CalculateFileCRC32Streaming(g)
    BY <1>2, <1>3
  <2>2. g.size \in Nat /\ g.sections \in Seq(SectionType)
    BY <1>3, <1>4
  <2>3. /\ f.size = g.size /\ Len(f.sections) = Len(g.sections)
        /\ \A i \in 1 .. Len(f.sections) : /\ f.sections[i].name = g.sections[i].name
                                           /\ f.sections[i].data = g.sections[i].data
    BY <1>1, <2>1, <2>2, CrcMeaning
  <2> QED  BY <1>3, <1>4, <2>3
<1>7. \A i \in 1 .. 5 : f.sections[i] = all[i]
  <2> SUFFICES ASSUME NEW i \in 1 .. 5 PROVE f.sections[i] = all[i]
    OBVIOUS
  <2>1. f.sections[i] \in SectionType /\ all[i] \in SectionType
    BY <1>1, <1>4, <1>6
  <2>2. /\ f.sections[i].crc = all[i].crc /\ f.sections[i].name = all[i].name
        /\ f.sections[i].data = all[i].data
    BY <1>5, <1>6
  <2> QED  BY <2>1, <2>2 DEF SectionType
<1>8. f.sections = all
  BY <1>1, <1>4, <1>6, <1>7
<1> QED  BY <1>2, <1>6, <1>8 DEF Whole, f, all, im

\* Counting one element more.
LEMMA OneMore ==
  ASSUME NEW S, NEW e, IsFiniteSet(S), e \notin S
  PROVE  IsFiniteSet(S \cup {e}) /\ Cardinality(S \cup {e}) = Cardinality(S) + 1
BY FS_AddElement, FS_CardinalityType

\* A whole file is read as its image, or refused for one of two reasons.
LEMMA WholeIsRead ==
  ASSUME NEW x \in Inode, Whole(x), x.file.crc = CrcOf(x.image)
  PROVE  ReadSnapshotV1(x.file) = IF TornImage(x.image) THEN Rejected ELSE x.image
<1> DEFINE f == x.file
           im == x.image
           all == SectionsOf(im)
           g == [EmptyFile EXCEPT !.size = 5, !.sections = all]
<1>1. im \in Image /\ f.size = 5 /\ f.sections = all
  BY DEF Inode, Whole
<1>2. /\ all \in Seq(SectionType) /\ Len(all) = 5
      /\ all[1] = Section("config", {"c"}) /\ all[2] = Section("events", {"e"})
      /\ all[3] = Section("co_occurrence", {"o"})
      /\ all[4] = Section("vectors", im.vectors) /\ all[5] = Section("metadata", im.metadata)
  BY <1>1, Sections
<1>3. g.size = 5 /\ g.sections = all /\ CrcOf(im) = CalculateFileCRC32Streaming(g)
  BY <1>1, CrcOfImage
<1>4. CalculateFileCRC32Streaming(f) = CalculateFileCRC32Streaming(g)
  BY <1>1, <1>3 DEF CalculateFileCRC32Streaming
<1>5. f.crc = CalculateFileCRC32Streaming(f) /\ f.crc # Zero
  BY <1>3, <1>4, CrcIsNotZero
<1> HIDE DEF f, im, all, g
<1>6. VerifyFileLevelIntegrity(f)
  BY <1>1, <1>2, <1>5 DEF VerifyFileLevelIntegrity
<1>7. /\ all[1].name = "config" /\ all[2].name = "events" /\ all[3].name = "co_occurrence"
      /\ all[4].name = "vectors" /\ all[5].name = "metadata"
      /\ all[4].data = im.vectors /\ all[5].data = im.metadata
  BY <1>2 DEF Section
<1>8. \A i \in 1 .. 5 : SectionIntact(all[i])
  <2>1. \A i \in 1 .. 5 : i = 1 \/ i = 2 \/ i = 3 \/ i = 4 \/ i = 5
    OBVIOUS
  <2>2. \A nm, d : SectionIntact(Section(nm, d))
    BY DEF SectionIntact, Section
  <2> QED  BY <1>2, <2>1, <2>2
<1>9. ConfigReadable(f)
  BY <1>1, <1>2, <1>7, <1>8 DEF ConfigReadable
<1>10. StoresReadable(f)
  <2>1. Len(f.sections) = 5 /\ 2 .. Len(f.sections) = 2 .. 5
    BY <1>1, <1>2
  <2>2. Cardinality(2 .. 5) = 4
    <3>1. Cardinality(2 .. 5) = IF 2 > 5 THEN 0 ELSE 5 - 2 + 1
      BY FS_Interval, 2 \in Int, 5 \in Int
    <3> QED  BY <3>1
  <2>3. {f.sections[i].name : i \in 2 .. 5} = StoreNames
    <3>1. \A i \in 2 .. 5 : f.sections[i].name \in StoreNames
      <4>1. \A i \in 2 .. 5 : i = 2 \/ i = 3 \/ i = 4 \/ i = 5
        OBVIOUS
      <4> QED  BY <1>1, <1>7, <4>1 DEF StoreNames
    <3>2. \A nm \in StoreNames : \E i \in 2 .. 5 : f.sections[i].name = nm
      <4>1. 2 \in 2 .. 5 /\ 3 \in 2 .. 5 /\ 4 \in 2 .. 5 /\ 5 \in 2 .. 5
        OBVIOUS
      <4> QED  BY <1>1, <1>7, <4>1 DEF StoreNames
    <3> QED  BY <3>1, <3>2
  <2>4. Cardinality(StoreNames) = 4
    <3>1. StoreNames = (({"events"} \cup {"co_occurrence"}) \cup {"vectors"}) \cup {"metadata"}
      BY DEF StoreNames
    <3>2. IsFiniteSet({"events"}) /\ Cardinality({"events"}) = 1
      BY FS_Singleton
    <3> DEFINE A == {"events"} \cup {"co_occurrence"}
               B == A \cup {"vectors"}
    <3>3. "co_occurrence" \notin {"events"} /\ "vectors" \notin A /\ "metadata" \notin B
      OBVIOUS
    <3>4. IsFiniteSet(A) /\ Cardinality(A) = 1 + 1
      BY <3>2, <3>3, OneMore
    <3> HIDE DEF A
    <3>5. IsFiniteSet(B) /\ Cardinality(B) = 2 + 1
      BY <3>3, <3>4, OneMore
    <3> HIDE DEF B
    <3>6. Cardinality(B \cup {"metadata"}) = 3 + 1
      BY <3>3, <3>5, OneMore
    <3> QED  BY <3>1, <3>6 DEF A, B
  <2>5. \A i \in 2 .. 5 : SectionIntact(f.sections[i])
    BY <1>1, <1>8
  <2> QED  BY <2>1, <2>2, <2>3, <2>4, <2>5 DEF StoresReadable, StoreNames
<1>11. StoreData(f, "vectors") = im.vectors /\ StoreData(f, "metadata") = im.metadata
  <2>1. {i \in 2 .. Len(f.sections) : f.sections[i].name = "vectors"} = {4}
    BY <1>1, <1>2, <1>7
  <2>2. {i \in 2 .. Len(f.sections) : f.sections[i].name = "metadata"} = {5}
    BY <1>1, <1>2, <1>7
  <2>3. (CHOOSE i \in {4} : TRUE) = 4 /\ (CHOOSE i \in {5} : TRUE) = 5
    OBVIOUS
  <2> QED  BY <1>1, <1>7, <2>1, <2>2, <2>3 DEF StoreData
<1>12. MetadataHasVectors(f) <=> ~TornImage(im)
  BY <1>11 DEF MetadataHasVectors, TornImage
<1>13. im = [vectors |-> im.vectors, metadata |-> im.metadata]
  BY <1>1 DEF Image
<1> QED  BY <1>6, <1>9, <1>10, <1>11, <1>12, <1>13 DEF ReadSnapshotV1, f, im

\* A file is read as its image or refused.
LEMMA ReadOrRefused ==
  ASSUME NEW x \in Inode, Marked(x)
  PROVE  /\ ReadSnapshotV1(x.file) \in {Rejected, x.image}
         /\ VerifyFileLevelIntegrity(x.file) /\ ~TornImage(x.image) => ReadSnapshotV1(x.file) # Rejected
<1>1. x.image # Rejected
  BY DEF Inode, Image, Rejected
<1>2. CASE VerifyFileLevelIntegrity(x.file)
  <2>1. Whole(x) /\ x.file.crc = CrcOf(x.image)
    BY <1>2, VerifiedIsWhole DEF Marked
  <2> QED  BY <1>1, <2>1, WholeIsRead
<1>3. CASE ~VerifyFileLevelIntegrity(x.file)
  BY <1>3 DEF ReadSnapshotV1
<1> QED  BY <1>2, <1>3

-----------------------------------------------------------------------------
(* The steps.                                                               *)

\* At first there is no file.
LEMMA Initially ==
  ASSUME FileInit PROVE FileInv
<1> USE DEF FileInit, Idle, Busy
<1>1. TypesOK
  <2>1. inode \in Seq(Inode) /\ Len(inode) = 0 /\ renames \in Seq(1 .. Len(inode)) /\ Len(renames) = 0
    OBVIOUS
  <2>2. Idle \in WriterType /\ stores \in Image
    BY DEF WriterType, Image
  <2>3. \A w \in Writers : ~Busy(w)
    OBVIOUS
  <2>4. path \in durable /\ durable \subseteq 0 .. 0 /\ acked \in 0 .. 0
    OBVIOUS
  <2> QED  BY <2>1, <2>2, <2>3, <2>4 DEF TypesOK
<1>2. AloneOK /\ MarkedOK /\ StagesOK /\ DurableOK /\ RenamedOK /\ AckedOK
  BY DEF AloneOK, MarkedOK, StagesOK, DurableOK, RenamedOK, AckedOK, Unpublished
<1> QED  BY <1>1, <1>2 DEF FileInv

\* A step of the stores leaves the files alone.
LEMMA StoresOnly ==
  ASSUME FileInv, stores' \in Image, deleting' \subseteq Ids, UNCHANGED fileOnly
  PROVE  FileInv'
<1> USE DEF FileInv, fileOnly
<1>1. TypesOK'
  BY DEF TypesOK, Busy
<1>2. AloneOK' /\ RenamedOK' /\ AckedOK'
  BY DEF AloneOK, RenamedOK, AckedOK, Busy, Unpublished
<1>3. MarkedOK' /\ DurableOK'
  BY DEF MarkedOK, DurableOK
<1>4. StagesOK'
  BY DEF StagesOK, Busy
<1> QED  BY <1>1, <1>2, <1>3, <1>4

\* What the reader takes from the path is an image.
LEMMA PathImage ==
  ASSUME FileInv
  PROVE  AtPath = Rejected \/ (path \in 1 .. Len(inode) /\ AtPath = inode[path].image /\ AtPath \in Image)
<1>1. path \in 0 .. Len(inode) /\ inode \in Seq(Inode)
  BY DEF FileInv, TypesOK
<1>2. CASE path = 0
  BY <1>2 DEF AtPath
<1>3. CASE path # 0
  <2>1. path \in 1 .. Len(inode) /\ inode[path] \in Inode /\ Marked(inode[path])
    BY <1>1, <1>3 DEF FileInv, MarkedOK
  <2>2. ReadSnapshotV1(inode[path].file) \in {Rejected, inode[path].image}
    BY <2>1, ReadOrRefused
  <2> QED  BY <1>3, <2>1, <2>2 DEF AtPath, Inode
<1> QED  BY <1>2, <1>3

\* The commands that change the stores.
LEMMA StoreSteps ==
  ASSUME FileInv,
         \/ \E id \in Ids : HandleVecset(id) \/ HandleMetaset(id) \/ HandleVecdel(id)
         \/ VecdelMetadata \/ HandleDumpLoad
  PROVE  FileInv'
<1>1. stores \in Image /\ deleting \subseteq Ids
  BY DEF FileInv, TypesOK
<1>2. CASE \E id \in Ids : HandleVecset(id) \/ HandleMetaset(id) \/ HandleVecdel(id)
  <2>1. stores' \in Image /\ deleting' \subseteq Ids /\ UNCHANGED fileOnly
    BY <1>1, <1>2 DEF HandleVecset, HandleMetaset, HandleVecdel, Image
  <2> QED  BY <2>1, StoresOnly
<1>3. CASE VecdelMetadata
  <2>1. stores' \in Image /\ deleting' \subseteq Ids /\ UNCHANGED fileOnly
    BY <1>1, <1>3 DEF VecdelMetadata, Image
  <2> QED  BY <2>1, StoresOnly
<1>4. CASE HandleDumpLoad
  <2>1. stores' \in Image /\ deleting' \subseteq Ids /\ UNCHANGED fileOnly
    BY <1>1, <1>4, PathImage DEF HandleDumpLoad
  <2> QED  BY <2>1, StoresOnly
<1> QED  BY <1>2, <1>3, <1>4

\* The file a new temporary file has, and a swept one.
LEMMA EmptyInode ==
  ASSUME NEW im \in Image
  PROVE  LET x == [file |-> EmptyFile, image |-> im, synced |-> FALSE]
         IN  x \in Inode /\ Marked(x) /\ x.file = EmptyFile
<1>1. EmptyFile \in FileType /\ EmptyFile.sections = <<>> /\ EmptyFile.crc = Zero
  BY DEF EmptyFile, FileType, Zero
<1>2. Len(<<>>) = 0
  OBVIOUS
<1> QED  BY <1>1, <1>2 DEF Inode, Marked

\* A temporary file of its own, that no name leads to.
LEMMA NewFile ==
  ASSUME FileInv, NEW w \in Writers, CreateTemporaryFile(w)
  PROVE  FileInv'
<1> DEFINE n == Len(inode) + 1
           x == [file |-> EmptyFile, image |-> stores, synced |-> FALSE]
<1> USE DEF FileInv
<1>1. /\ stores \in Image /\ inode \in Seq(Inode) /\ path \in durable
      /\ durable \subseteq 0 .. Len(inode)
      /\ renames \in Seq(1 .. Len(inode)) /\ acked \in 0 .. Len(renames)
      /\ writer \in [Writers -> WriterType]
      /\ \A v \in Writers : Busy(v) => writer[v].inode \in 1 .. Len(inode)
  BY DEF TypesOK
<1>2. x \in Inode /\ Marked(x) /\ x.file = EmptyFile
  BY <1>1, EmptyInode
<1>3. /\ inode' \in Seq(Inode) /\ Len(inode') = n /\ inode'[n] = x
      /\ \A i \in 1 .. Len(inode) : inode'[i] = inode[i]
  BY <1>1, <1>2 DEF CreateTemporaryFile
<1>4. /\ writer' \in [Writers -> WriterType]
      /\ writer'[w].pc = "write" /\ writer'[w].inode = n
      /\ \A v \in Writers \ {w} : writer'[v] = writer[v]
      /\ ~Busy(w)
  <2> DEFINE v == [Idle EXCEPT !.pc = "write", !.inode = n]
  <2>1. Idle \in WriterType
    BY DEF Idle, WriterType
  <2>2. v \in WriterType /\ v.pc = "write" /\ v.inode = n
    <3>1. n \in Nat
      BY <1>1
    <3> HIDE DEF n
    <3> QED  BY <2>1, <3>1 DEF WriterType
  <2>3. writer' = [writer EXCEPT ![w] = v]
    BY DEF CreateTemporaryFile
  <2> HIDE DEF v
  <2> QED  BY <1>1, <2>2, <2>3 DEF CreateTemporaryFile
<1>5. UNCHANGED <<stores, deleting, path, durable, renames, acked, rotten>>
  BY DEF CreateTemporaryFile, content, directory
<1>6. Len(inode) \in Nat /\ n = Len(inode) + 1 /\ n \notin durable
  BY <1>1
<1>8. DurableOK'
  BY <1>1, <1>3, <1>5 DEF DurableOK
<1>9. MarkedOK'
  BY <1>1, <1>2, <1>3, <1>6 DEF MarkedOK
<1>s. StagesOK'
  <2>1. x.file.sections = <<>> /\ x.file.size = 0 /\ x.file.crc = Zero /\ Len(x.file.sections) = 0
    BY <1>2 DEF EmptyFile
  <2>2. StageAt(writer'[w].pc, inode'[writer'[w].inode])
    BY <1>3, <1>4, <2>1 DEF StageAt
  <2>3. ASSUME NEW v \in Writers \ {w}, Busy(v)'
        PROVE  StageAt(writer'[v].pc, inode'[writer'[v].inode])
    <3>1. Busy(v) /\ writer[v].inode \in 1 .. Len(inode)
      BY <1>1, <1>4, <2>3 DEF Busy
    <3>2. StageAt(writer[v].pc, inode[writer[v].inode])
      BY <3>1 DEF StagesOK
    <3>3. inode'[writer'[v].inode] = inode[writer[v].inode] /\ writer'[v] = writer[v]
      BY <1>3, <1>4, <3>1
    <3> QED  BY <3>2, <3>3
  <2> QED  BY <2>2, <2>3 DEF StagesOK
<1> HIDE DEF n, x
<1>7. TypesOK'
  <2>1. 1 .. Len(inode) \subseteq 1 .. Len(inode') /\ 0 .. Len(inode) \subseteq 0 .. Len(inode')
    BY <1>3, <1>6
  <2>2. renames' \in Seq(1 .. Len(inode'))
    BY <1>1, <1>5, <2>1, SeqMonotonic
  <2>3. \A v \in Writers : Busy(v)' => writer'[v].inode \in 1 .. Len(inode')
    BY <1>1, <1>3, <1>4, <1>6, <2>1, SMTT(30) DEF Busy
  <2> QED  BY <1>1, <1>3, <1>4, <1>5, <2>1, <2>2, <2>3 DEF TypesOK
<1>10. AloneOK'
  BY <1>1, <1>4, <1>5, <1>6 DEF AloneOK, Busy, Unpublished
<1>11. RenamedOK' /\ AckedOK'
  BY <1>4, <1>5 DEF RenamedOK, AckedOK
<1> QED  BY <1>7, <1>8, <1>9, <1>s, <1>10, <1>11

\* A writer at work on its temporary file.
LEMMA Work ==
  ASSUME FileInv, NEW w \in Writers, Unpublished(w), NEW y \in Inode, Marked(y),
         NEW pc \in {"write", "size", "crc", "sync", "rename"},
         inode' = [inode EXCEPT ![writer[w].inode] = y],
         writer' = [writer EXCEPT ![w].pc = pc],
         StageAt(pc, y),
         UNCHANGED <<content, directory>>
  PROVE  FileInv'
<1> DEFINE n == writer[w].inode
<1> USE DEF FileInv
<1>1. /\ inode \in Seq(Inode) /\ writer \in [Writers -> WriterType] /\ Busy(w) /\ n \in 1 .. Len(inode)
      /\ n \notin durable
  BY DEF TypesOK, AloneOK, Unpublished, Busy
<1>2. /\ inode' \in Seq(Inode) /\ Len(inode') = Len(inode) /\ inode'[n] = y
      /\ \A i \in 1 .. Len(inode) : i # n => inode'[i] = inode[i]
  BY <1>1
<1>3. /\ writer' \in [Writers -> WriterType]
      /\ writer'[w].pc = pc /\ writer'[w].inode = n
      /\ \A v \in Writers \ {w} : writer'[v] = writer[v]
  <2>1. [writer[w] EXCEPT !.pc = pc] \in WriterType
    BY <1>1 DEF WriterType
  <2>2. [writer[w] EXCEPT !.pc = pc].pc = pc /\ [writer[w] EXCEPT !.pc = pc].inode = n
    BY <1>1 DEF WriterType
  <2>3. writer' = [writer EXCEPT ![w] = [writer[w] EXCEPT !.pc = pc]]
    OBVIOUS
  <2> QED  BY <1>1, <2>1, <2>2, <2>3
<1>4. UNCHANGED <<stores, deleting, path, durable, renames, acked, rotten>>
  BY DEF content, directory
<1>5. \A v \in Writers : /\ Busy(v)' <=> Busy(v)
                         /\ Unpublished(v)' <=> Unpublished(v)
                         /\ writer'[v].inode = writer[v].inode
  BY <1>1, <1>3 DEF Busy, Unpublished
<1>s. StagesOK'
  <2>1. ASSUME NEW v \in Writers \ {w}, Busy(v)'
        PROVE  StageAt(writer'[v].pc, inode'[writer'[v].inode])
    <3>1. Busy(v) /\ writer[v].inode \in 1 .. Len(inode) /\ writer[v].inode # n
      BY <1>1, <1>5, <2>1 DEF TypesOK, AloneOK
    <3>2. StageAt(writer[v].pc, inode[writer[v].inode])
      BY <3>1 DEF StagesOK
    <3>3. inode'[writer'[v].inode] = inode[writer[v].inode] /\ writer'[v] = writer[v]
      BY <1>2, <1>3, <3>1
    <3> QED  BY <3>2, <3>3
  <2> QED  BY <1>2, <1>3, <2>1 DEF StagesOK
<1> HIDE DEF n
<1>6. TypesOK'
  BY <1>2, <1>3, <1>4, <1>5 DEF TypesOK
<1>7. AloneOK'
  BY <1>4, <1>5 DEF AloneOK
<1>8. MarkedOK'
  BY <1>2 DEF MarkedOK
<1>9. DurableOK'
  <2>1. \A i \in durable \ {0} : inode'[i] = inode[i]
    BY <1>1, <1>2 DEF TypesOK
  <2> QED  BY <1>4, <2>1 DEF DurableOK
<1>10. RenamedOK' /\ AckedOK'
  BY <1>3, <1>4 DEF RenamedOK, AckedOK
<1> QED  BY <1>6, <1>7, <1>8, <1>s, <1>9, <1>10

\* The inode of a busy writer.
LEMMA OwnInode ==
  ASSUME FileInv, NEW w \in Writers, Busy(w)
  PROVE  LET x == inode[writer[w].inode]
         IN  /\ writer[w].inode \in 1 .. Len(inode) /\ inode \in Seq(Inode)
             /\ writer \in [Writers -> WriterType]
             /\ x \in Inode /\ Marked(x) /\ StageAt(writer[w].pc, x)
             /\ x.file \in FileType /\ x.file.sections \in Seq(SectionType) /\ x.image \in Image
<1>1. /\ writer[w].inode \in 1 .. Len(inode) /\ inode \in Seq(Inode)
      /\ writer \in [Writers -> WriterType]
  BY DEF FileInv, TypesOK
<1>2. inode[writer[w].inode] \in Inode
  BY <1>1
<1>3. Marked(inode[writer[w].inode]) /\ StageAt(writer[w].pc, inode[writer[w].inode])
  BY <1>1 DEF FileInv, MarkedOK, StagesOK
<1> QED  BY <1>1, <1>2, <1>3 DEF Inode, FileType

\* A changed file in the place of the writer's.
LEMMA FileSet ==
  ASSUME FileInv, NEW w \in Writers, Busy(w), NEW f \in FileType, SetFile(w, f)
  PROVE  LET x == inode[writer[w].inode]
             y == [x EXCEPT !.file = f]
         IN  /\ inode' = [inode EXCEPT ![writer[w].inode] = y]
             /\ y \in Inode /\ y.file = f /\ y.image = x.image /\ y.synced = x.synced
BY OwnInode DEF SetFile, Inode

\* WriteSnapshotV1 writes the next section.
LEMMA SectionWritten ==
  ASSUME FileInv, NEW w \in Writers, WriteSizedPayload(w)
  PROVE  FileInv'
<1> DEFINE x == inode[writer[w].inode]
           f == x.file
           all == SectionsOf(x.image)
           next == Len(f.sections) + 1
           g == [f EXCEPT !.sections = Append(@, all[next])]
           y == [x EXCEPT !.file = g]
           pc == IF next = Len(all) THEN "size" ELSE "write"
<1>1. writer[w].pc = "write" /\ Busy(w) /\ Unpublished(w)
  BY DEF WriteSizedPayload, At, Busy, Unpublished
<1>2. /\ writer \in [Writers -> WriterType] /\ x \in Inode /\ Marked(x) /\ StageAt(writer[w].pc, x)
      /\ f \in FileType /\ f.sections \in Seq(SectionType) /\ x.image \in Image
  BY <1>1, OwnInode
<1>3. all \in Seq(SectionType) /\ Len(all) = 5
  BY <1>2, Sections
<1>4. /\ Len(f.sections) < 5 /\ f.size = 0 /\ f.crc = Zero
      /\ \A i \in 1 .. Len(f.sections) : f.sections[i] = all[i]
  BY <1>1, <1>2 DEF StageAt
<1>5. next \in 1 .. 5 /\ all[next] \in SectionType /\ Append(f.sections, all[next]) \in Seq(SectionType)
  <2> HIDE DEF f, all
  <2>1. next \in 1 .. 5
    BY <1>2, <1>4
  <2> HIDE DEF next
  <2>2. all[next] \in SectionType
    <3>1. next \in 1 .. Len(all)
      BY <1>3, <2>1
    <3> QED  BY <1>3, <3>1, ElementOfSeq
  <2> QED  BY <1>2, <2>1, <2>2
<1>6. g \in FileType /\ g.sections = Append(f.sections, all[next]) /\ g.size = 0 /\ g.crc = Zero
  <2> HIDE DEF f, all, next
  <2> QED  BY <1>2, <1>4, <1>5 DEF FileType
<1>7. SetFile(w, g)
  BY DEF WriteSizedPayload, File
<1>8. /\ inode' = [inode EXCEPT ![writer[w].inode] = y]
      /\ y \in Inode /\ y.file = g /\ y.image = x.image
  BY <1>1, <1>6, <1>7, FileSet
<1>9. writer' = [writer EXCEPT ![w].pc = pc]
  <2>1. CASE next = Len(all)
    BY <2>1 DEF WriteSizedPayload, Goto, File
  <2>2. CASE next # Len(all)
    <3>1. writer' = writer
      BY <2>2 DEF WriteSizedPayload, File
    <3> QED  BY <1>1, <1>2, <2>2, <3>1 DEF WriterType
  <2> QED  BY <2>1, <2>2
<1>10. writer'[w].pc = pc
  BY <1>2, <1>9 DEF WriterType
<1>11. UNCHANGED <<content, directory>>
  BY DEF WriteSizedPayload
<1>12. /\ g.sections \in Seq(SectionType) /\ Len(g.sections) = next
       /\ \A i \in 1 .. next : g.sections[i] = all[i]
  <2> HIDE DEF g, f, all
  <2> QED  BY <1>2, <1>4, <1>5, <1>6
<1> HIDE DEF x, f, all, g, y, next
<1>13. Marked(y)
  BY <1>4, <1>5, <1>6, <1>8, <1>12, SMTT(30) DEF Marked, all
<1>14. next = Len(all) => g.sections = all
  BY <1>3, <1>12
<1>15. StageAt(pc, y)
  <2>1. CASE next = Len(all)
    BY <1>6, <1>8, <1>10, <1>14, <2>1 DEF StageAt, all
  <2>2. CASE next # Len(all)
    BY <1>3, <1>5, <1>6, <1>8, <1>10, <1>12, <2>2, SMTT(30) DEF StageAt, all
  <2> QED  BY <2>1, <2>2
<1>16. pc \in {"write", "size", "crc", "sync", "rename"}
  OBVIOUS
<1> HIDE DEF pc
<1> QED  BY <1>1, <1>8, <1>9, <1>11, <1>13, <1>15, <1>16, Work

\* It rewrites the header with the size,
LEMMA SizeWritten ==
  ASSUME FileInv, NEW w \in Writers, RewriteHeader(w)
  PROVE  FileInv'
<1> DEFINE x == inode[writer[w].inode]
           f == x.file
           g == [f EXCEPT !.size = Len(f.sections)]
           y == [x EXCEPT !.file = g]
<1>1. writer[w].pc = "size" /\ Busy(w) /\ Unpublished(w)
  BY DEF RewriteHeader, At, Busy, Unpublished
<1>2. /\ writer \in [Writers -> WriterType] /\ x \in Inode /\ Marked(x) /\ StageAt(writer[w].pc, x)
      /\ f \in FileType /\ f.sections \in Seq(SectionType) /\ x.image \in Image
  BY <1>1, OwnInode
<1>3. f.sections = SectionsOf(x.image) /\ f.crc = Zero
  BY <1>1, <1>2 DEF StageAt
<1>4. Len(f.sections) = 5
  BY <1>2, <1>3, Sections
<1>5. g \in FileType /\ g.sections = f.sections /\ g.size = 5 /\ g.crc = f.crc
  BY <1>2, <1>4, SMTT(30) DEF FileType
<1>6. SetFile(w, g)
  BY DEF RewriteHeader, File
<1>7. /\ inode' = [inode EXCEPT ![writer[w].inode] = y]
      /\ y \in Inode /\ y.file = g /\ y.image = x.image
  BY <1>1, <1>5, <1>6, FileSet
<1>8. writer' = [writer EXCEPT ![w].pc = "crc"] /\ UNCHANGED <<content, directory>>
  BY DEF RewriteHeader, Goto
<1>9. writer'[w].pc = "crc"
  BY <1>2, <1>8 DEF WriterType
<1>10. Marked(y)
  BY <1>2, <1>5, <1>7, ZenonT(40) DEF Marked
<1>11. StageAt("crc", y)
  BY <1>3, <1>5, <1>7, <1>9 DEF StageAt, Whole
<1> HIDE DEF y
<1> QED  BY <1>1, <1>7, <1>8, <1>10, <1>11, Work

\* then with the CRC of the file, which may come out as 0,
LEMMA CrcWritten ==
  ASSUME FileInv, NEW w \in Writers, WriteFileCrc(w)
  PROVE  FileInv'
<1> DEFINE x == inode[writer[w].inode]
           f == x.file
<1>1. writer[w].pc = "crc" /\ Busy(w) /\ Unpublished(w)
  BY DEF WriteFileCrc, At, Busy, Unpublished
<1>2. /\ writer \in [Writers -> WriterType] /\ x \in Inode /\ Marked(x) /\ StageAt(writer[w].pc, x)
      /\ f \in FileType /\ f.sections \in Seq(SectionType) /\ x.image \in Image
  BY <1>1, OwnInode
<1>3. f.size = 5 /\ f.sections = SectionsOf(x.image)
  BY <1>1, <1>2 DEF StageAt, Whole
<1>4. CalculateFileCRC32Streaming(f) = CrcOf(x.image)
  BY <1>2, <1>3, CrcOfImage DEF CalculateFileCRC32Streaming
<1>5. PICK c \in {CrcOf(x.image), Zero} : SetFile(w, [f EXCEPT !.crc = c])
  BY <1>4 DEF WriteFileCrc, File
<1> DEFINE g == [f EXCEPT !.crc = c]
           y == [x EXCEPT !.file = g]
<1>6. CrcOf(x.image) \in Seq(Nat \X Seq(Names \X Datum)) /\ Zero \in Seq(Nat \X Seq(Names \X Datum))
  <2>1. [i \in DOMAIN f.sections |-> <<f.sections[i].name, f.sections[i].data>>] \in Seq(Names \X Datum)
    <3>1. \A i \in 1 .. Len(f.sections) : <<f.sections[i].name, f.sections[i].data>> \in Names \X Datum
      <4> SUFFICES ASSUME NEW i \in 1 .. Len(f.sections)
                   PROVE  <<f.sections[i].name, f.sections[i].data>> \in Names \X Datum
        OBVIOUS
      <4>1. f.sections[i] \in SectionType
        BY <1>2
      <4> HIDE DEF f
      <4> QED  BY <4>1 DEF SectionType
    <3>2. DOMAIN f.sections = 1 .. Len(f.sections) /\ Len(f.sections) \in Nat
      BY <1>2
    <3> HIDE DEF f
    <3> QED  BY <3>1, <3>2
  <2>2. CalculateFileCRC32Streaming(f) \in Seq(Nat \X Seq(Names \X Datum))
    <3> DEFINE t == [i \in DOMAIN f.sections |-> <<f.sections[i].name, f.sections[i].data>>]
    <3>1. t \in Seq(Names \X Datum) /\ f.size \in Nat
      <4>1. t \in Seq(Names \X Datum)
        BY <2>1
      <4>2. f.size \in Nat
        BY <1>3
      <4> QED
        BY <4>1, <4>2
    <3>2. CalculateFileCRC32Streaming(f) = <<<<f.size, t>>>>
      BY DEF CalculateFileCRC32Streaming, CalculateCRC32
    <3> HIDE DEF t, f
    <3> QED  BY <3>1, <3>2
  <2> QED  BY <1>4, <2>2 DEF Zero
<1>7. g \in FileType /\ g.sections = f.sections /\ g.size = f.size /\ g.crc = c
  BY <1>2, <1>5, <1>6 DEF FileType
<1>8. /\ inode' = [inode EXCEPT ![writer[w].inode] = y]
      /\ y \in Inode /\ y.file = g /\ y.image = x.image
  BY <1>1, <1>5, <1>7, FileSet
<1>9. writer' = [writer EXCEPT ![w].pc = "sync"] /\ UNCHANGED <<content, directory>>
  BY DEF WriteFileCrc, Goto
<1>10. writer'[w].pc = "sync"
  BY <1>2, <1>9 DEF WriterType
<1>11. Marked(y)
  BY <1>2, <1>5, <1>7, <1>8 DEF Marked
<1>12. StageAt("sync", y)
  BY <1>3, <1>7, <1>8, <1>10 DEF StageAt, Whole
<1> HIDE DEF y
<1> QED  BY <1>1, <1>8, <1>9, <1>11, <1>12, Work

\* and syncs the file.
LEMMA FileSynced ==
  ASSUME FileInv, NEW w \in Writers, Fsync(w)
  PROVE  FileInv'
<1> DEFINE x == inode[writer[w].inode]
           y == [x EXCEPT !.synced = TRUE]
<1>1. writer[w].pc = "sync" /\ Busy(w) /\ Unpublished(w)
  BY DEF Fsync, At, Busy, Unpublished
<1>2. /\ writer \in [Writers -> WriterType] /\ x \in Inode /\ Marked(x) /\ StageAt(writer[w].pc, x)
  BY <1>1, OwnInode
<1>3. inode' = [inode EXCEPT ![writer[w].inode] = y]
  BY DEF Fsync
<1>4. y \in Inode /\ y.file = x.file /\ y.image = x.image /\ y.synced
  BY <1>2 DEF Inode
<1>5. writer' = [writer EXCEPT ![w].pc = "rename"] /\ UNCHANGED <<content, directory>>
  BY DEF Fsync, Goto
<1>6. writer'[w].pc = "rename"
  BY <1>2, <1>5 DEF WriterType
<1>7. Marked(y)
  BY <1>2, <1>4 DEF Marked
<1>8. StageAt("rename", y)
  BY <1>1, <1>2, <1>4, <1>6 DEF StageAt, Whole
<1> HIDE DEF y
<1> QED  BY <1>1, <1>3, <1>4, <1>5, <1>7, <1>8, Work

\* The files that are kept stay as they are, the others are empty.
LEMMA Sweep ==
  ASSUME FileInv, NEW kept
  PROVE  LET now == Swept(inode, kept)
         IN  /\ now \in Seq(Inode) /\ Len(now) = Len(inode)
             /\ \A n \in 1 .. Len(inode) : Marked(now[n])
             /\ \A n \in 1 .. Len(inode) : n \in kept => now[n] = inode[n]
<1> DEFINE gone == [file |-> EmptyFile, image |-> [vectors |-> {}, metadata |-> {}], synced |-> FALSE]
           now == Swept(inode, kept)
<1>1. inode \in Seq(Inode) /\ DOMAIN inode = 1 .. Len(inode) /\ Len(inode) \in Nat
  BY DEF FileInv, TypesOK
<1>2. gone \in Inode /\ Marked(gone)
  <2>1. [vectors |-> {}, metadata |-> {}] \in Image
    BY DEF Image
  <2> QED  BY <2>1, EmptyInode
<1>3. now = [n \in 1 .. Len(inode) |-> IF n \in kept THEN inode[n] ELSE gone]
  BY <1>1 DEF Swept
<1> HIDE DEF gone, now
<1>4. \A n \in 1 .. Len(inode) : inode[n] \in Inode /\ Marked(inode[n])
  BY <1>1 DEF FileInv, MarkedOK
<1>5. now \in Seq(Inode) /\ Len(now) = Len(inode)
  BY <1>1, <1>2, <1>3, <1>4
<1> QED  BY <1>2, <1>3, <1>4, <1>5 DEF now

\* Writers that stop, and the files that nothing leads to any more.
LEMMA Stops ==
  ASSUME FileInv, NEW kept,
         inode' = Swept(inode, kept),
         writer' \in [Writers -> WriterType],
         \A v \in Writers : writer'[v].pc # "idle" =>
           /\ writer'[v].pc = writer[v].pc /\ writer'[v].inode = writer[v].inode
           /\ writer[v].inode \in kept,
         stores' \in Image, deleting' \subseteq Ids,
         path' \in durable', durable' \subseteq durable, durable' \subseteq kept \cup {0},
         path' # path => \A v \in Writers : writer'[v].pc = "idle",
         acked' \in 0 .. Len(renames),
         acked' # acked => durable' = {renames[Len(renames)]} /\ Len(renames) > 0,
         UNCHANGED <<renames, rotten>>
  PROVE  FileInv'
<1> USE DEF FileInv
<1>1. /\ inode' \in Seq(Inode) /\ Len(inode') = Len(inode) /\ MarkedOK'
      /\ \A n \in 1 .. Len(inode) : n \in kept => inode'[n] = inode[n]
  BY Sweep DEF MarkedOK
<1>2. /\ durable \subseteq 0 .. Len(inode) /\ renames \in Seq(1 .. Len(inode))
      /\ acked \in 0 .. Len(renames)
      /\ rotten \in BOOLEAN
      /\ \A v \in Writers : Busy(v) => writer[v].inode \in 1 .. Len(inode)
  BY DEF TypesOK
<1>3. \A v \in Writers : /\ Busy(v)' => Busy(v) /\ writer'[v].pc = writer[v].pc
                                        /\ writer'[v].inode = writer[v].inode
                                        /\ writer[v].inode \in kept
                         /\ Unpublished(v)' => Busy(v)' /\ Unpublished(v)
  BY DEF Busy, Unpublished
<1>4. TypesOK'
  <2>1. /\ renames' \in Seq(1 .. Len(inode')) /\ acked' \in 0 .. Len(renames')
        /\ durable' \subseteq 0 .. Len(inode')
    BY <1>1, <1>2
  <2>2. \A v \in Writers : Busy(v)' => writer'[v].inode \in 1 .. Len(inode')
    BY <1>1, <1>2, <1>3
  <2> QED  BY <1>1, <1>2, <2>1, <2>2 DEF TypesOK
<1>5. AloneOK'
  BY <1>3 DEF AloneOK
<1>6. StagesOK'
  <2> SUFFICES ASSUME NEW v \in Writers, Busy(v)'
               PROVE  StageAt(writer'[v].pc, inode'[writer'[v].inode])
    BY DEF StagesOK
  <2>1. /\ Busy(v) /\ writer'[v].pc = writer[v].pc /\ writer'[v].inode = writer[v].inode
        /\ inode'[writer[v].inode] = inode[writer[v].inode]
    BY <1>1, <1>2, <1>3
  <2> QED  BY <2>1 DEF StagesOK
<1>7. DurableOK'
  <2>1. \A n \in durable' \ {0} : inode'[n] = inode[n]
    BY <1>1, <1>2
  <2> QED  BY <2>1 DEF DurableOK
<1>8. RenamedOK'
  BY <1>3 DEF RenamedOK, Busy
<1>9. AckedOK'
  <2>1. CASE acked' = acked
    BY <2>1 DEF AckedOK
  <2>2. CASE acked' # acked
    <3>1. Len(renames) \in acked' .. Len(renames)
      BY <1>2
    <3> QED  BY <2>2, <3>1 DEF AckedOK
  <2> QED  BY <2>1, <2>2
<1> QED  BY <1>1, <1>4, <1>5, <1>6, <1>7, <1>8, <1>9

\* A writer that leaves.
LEMMA Leaves ==
  ASSUME FileInv, NEW w \in Writers, Leave(w)
  PROVE  /\ writer' \in [Writers -> WriterType] /\ writer'[w].pc = "idle"
         /\ \A v \in Writers \ {w} : writer'[v] = writer[v]
<1>1. Idle \in WriterType /\ Idle.pc = "idle"
  BY DEF Idle, WriterType
<1>2. writer \in [Writers -> WriterType]
  BY DEF FileInv, TypesOK
<1> HIDE DEF Idle
<1> QED  BY <1>1, <1>2 DEF Leave

\* An error before the rename: the temporary file goes, the path stays.
LEMMA WriterFails ==
  ASSUME FileInv, NEW w \in Writers, WriteFails(w)
  PROVE  FileInv'
<1> DEFINE kept == durable \cup InUse(Writers \ {w})
<1>1. /\ inode' = Swept(inode, kept)
      /\ UNCHANGED <<stores, deleting, path, durable, renames, acked, rotten>>
  BY DEF WriteFails, content, directory
<1>2. /\ writer' \in [Writers -> WriterType] /\ writer'[w].pc = "idle"
      /\ \A v \in Writers \ {w} : writer'[v] = writer[v]
  BY Leaves DEF WriteFails
<1>3. \A v \in Writers \ {w} : writer[v].inode \in kept
  BY DEF InUse
<1>4. stores \in Image /\ deleting \subseteq Ids /\ path \in durable /\ acked \in 0 .. Len(renames)
  BY DEF FileInv, TypesOK
<1>5. durable \subseteq kept
  OBVIOUS
<1> HIDE DEF kept
<1> QED  BY <1>1, <1>2, <1>3, <1>4, <1>5, Stops

\* A writer past its rename, and the file it published.
LEMMA PastRename ==
  ASSUME FileInv, NEW w \in Writers, writer[w].pc \in {"check", "dirsync"}
  PROVE  /\ Len(renames) \in Nat /\ Len(renames) > 0 /\ path = renames[Len(renames)]
         /\ (CHOOSE i \in DOMAIN renames : renames[i] = writer[w].inode) \in 1 .. Len(renames)
<1>1. /\ Len(renames) > 0 /\ path = renames[Len(renames)]
      /\ \E j \in 1 .. Len(renames) : renames[j] = writer[w].inode
  BY DEF FileInv, RenamedOK
<1>2. DOMAIN renames = 1 .. Len(renames) /\ Len(renames) \in Nat
  BY DEF FileInv, TypesOK
<1> QED  BY <1>1, <1>2

\* The save succeeds: whatever is at the path is its file or a later one.
LEMMA DirectorySynced ==
  ASSUME FileInv, NEW w \in Writers, FsyncDirectory(w)
  PROVE  FileInv'
<1> DEFINE kept == {path} \cup InUse(Writers \ {w})
<1>1. /\ inode' = Swept(inode, kept) /\ durable' = {path}
      /\ UNCHANGED <<stores, deleting, path, renames, rotten>>
      /\ writer[w].pc = "dirsync"
  BY DEF FsyncDirectory, content, At
<1>2. /\ writer' \in [Writers -> WriterType] /\ writer'[w].pc = "idle"
      /\ \A v \in Writers \ {w} : writer'[v] = writer[v]
  BY Leaves DEF FsyncDirectory
<1>3. \A v \in Writers \ {w} : writer[v].inode \in kept
  BY DEF InUse
<1>4. stores \in Image /\ deleting \subseteq Ids /\ path \in durable /\ acked \in 0 .. Len(renames)
  BY DEF FileInv, TypesOK
<1>5. durable' \subseteq kept /\ path' \in durable' /\ durable' \subseteq durable
  BY <1>1, <1>4
<1>6. /\ Len(renames) \in Nat /\ Len(renames) > 0 /\ path = renames[Len(renames)]
      /\ (CHOOSE i \in DOMAIN renames : renames[i] = writer[w].inode) \in 1 .. Len(renames)
  BY <1>1, PastRename
<1>7. acked' \in 0 .. Len(renames)
  BY <1>4, <1>6 DEF FsyncDirectory
<1>8. durable' = {renames[Len(renames)]}
  BY <1>1, <1>6
<1> HIDE DEF kept
<1> QED  BY <1>1, <1>2, <1>3, <1>4, <1>5, <1>6, <1>7, <1>8, Stops

\* A step of a writer past its rename that only the writer sees.
LEMMA PastSteps ==
  ASSUME FileInv, NEW w \in Writers, PublishCheck(w) \/ FsyncDirectoryFails(w)
  PROVE  FileInv'
<1> USE DEF FileInv
<1>1. writer[w].pc \in {"check", "dirsync"} /\ Busy(w) /\ ~Unpublished(w)
  BY DEF PublishCheck, FsyncDirectoryFails, At, Busy, Unpublished
<1>2. UNCHANGED <<inode, stores, deleting, path, durable, renames, acked, rotten>>
  BY DEF PublishCheck, FsyncDirectoryFails, content, directory
<1>3. /\ writer' \in [Writers -> WriterType]
      /\ writer'[w].pc = "idle" \/ (writer'[w].pc = "dirsync" /\ writer'[w].inode = writer[w].inode)
      /\ \A v \in Writers \ {w} : writer'[v] = writer[v]
  <2>1. CASE Leave(w)
    BY <2>1, Leaves
  <2>2. CASE Goto(w, "dirsync")
    <3>1. writer \in [Writers -> WriterType]
      BY DEF TypesOK
    <3>2. /\ [writer[w] EXCEPT !.pc = "dirsync"] \in WriterType
          /\ [writer[w] EXCEPT !.pc = "dirsync"].pc = "dirsync"
          /\ [writer[w] EXCEPT !.pc = "dirsync"].inode = writer[w].inode
      BY <3>1 DEF WriterType
    <3>3. writer' = [writer EXCEPT ![w] = [writer[w] EXCEPT !.pc = "dirsync"]]
      BY <2>2 DEF Goto
    <3> QED  BY <3>1, <3>2, <3>3
  <2> QED  BY <2>1, <2>2 DEF PublishCheck, FsyncDirectoryFails
<1>4. \A v \in Writers : /\ Busy(v)' => Busy(v) /\ writer'[v].inode = writer[v].inode
                         /\ Unpublished(v)' => Unpublished(v) /\ Busy(v)'
  BY <1>1, <1>3 DEF Busy, Unpublished
<1>5. TypesOK'
  BY <1>2, <1>3, <1>4 DEF TypesOK
<1>6. AloneOK'
  BY <1>2, <1>4 DEF AloneOK
<1>7. MarkedOK' /\ DurableOK' /\ AckedOK'
  BY <1>2 DEF MarkedOK, DurableOK, AckedOK
<1>8. StagesOK'
  <2>1. Busy(w)' => StageAt(writer'[w].pc, inode'[writer'[w].inode])
    BY <1>3 DEF StageAt, Busy
  <2> QED  BY <1>2, <1>3, <1>4, <2>1 DEF StagesOK
<1>9. RenamedOK'
  BY <1>1, <1>2, <1>3 DEF RenamedOK
<1> QED  BY <1>5, <1>6, <1>7, <1>8, <1>9

\* The rename puts a synced and whole file at the path.
LEMMA Renamed ==
  ASSUME FileInv, NEW w \in Writers, Publish(w)
  PROVE  FileInv'
<1> DEFINE n == writer[w].inode
<1> USE DEF FileInv
<1>1. writer[w].pc = "rename" /\ Busy(w) /\ Unpublished(w)
  BY DEF Publish, At, Busy, Unpublished
<1>2. /\ n \in 1 .. Len(inode) /\ inode \in Seq(Inode) /\ writer \in [Writers -> WriterType]
      /\ StageAt(writer[w].pc, inode[n])
  BY <1>1, OwnInode
<1>3. inode[n].synced /\ Whole(inode[n])
  BY <1>1, <1>2 DEF StageAt
<1>4. /\ path' = n /\ durable' = durable \cup {n} /\ renames' = Append(renames, n)
      /\ UNCHANGED <<inode, acked, rotten, stores, deleting>>
  BY DEF Publish, content
<1>5. /\ writer' \in [Writers -> WriterType]
      /\ writer'[w].pc = "check" /\ writer'[w].inode = n
      /\ \A v \in Writers \ {w} : writer'[v] = writer[v]
  <2>1. /\ [writer[w] EXCEPT !.pc = "check"] \in WriterType
        /\ [writer[w] EXCEPT !.pc = "check"].pc = "check"
        /\ [writer[w] EXCEPT !.pc = "check"].inode = n
    BY <1>2 DEF WriterType
  <2>2. writer' = [writer EXCEPT ![w] = [writer[w] EXCEPT !.pc = "check"]]
    BY DEF Publish, Goto
  <2> QED  BY <1>2, <2>1, <2>2
<1>6. /\ renames \in Seq(1 .. Len(inode)) /\ acked \in 0 .. Len(renames) /\ Len(renames) \in Nat
  BY DEF TypesOK
<1> HIDE DEF n
<1>7. /\ renames' \in Seq(1 .. Len(inode)) /\ Len(renames') = Len(renames) + 1
      /\ renames'[Len(renames) + 1] = n
      /\ \A i \in 1 .. Len(renames) : renames'[i] = renames[i]
  BY <1>2, <1>4, <1>6
<1>8. \A v \in Writers : /\ Busy(v)' <=> Busy(v)
                         /\ writer'[v].inode = writer[v].inode
                         /\ Unpublished(v)' => Unpublished(v) /\ v # w
  BY <1>1, <1>5 DEF Busy, Unpublished, n
<1>9. TypesOK'
  BY <1>2, <1>4, <1>5, <1>6, <1>7, <1>8 DEF TypesOK
<1>10. AloneOK'
  BY <1>1, <1>4, <1>8 DEF AloneOK, Unpublished, Busy, n
<1>11. MarkedOK'
  BY <1>4 DEF MarkedOK
<1>12. StagesOK'
  <2>1. StageAt(writer'[w].pc, inode'[writer'[w].inode])
    BY <1>5 DEF StageAt
  <2> QED  BY <1>4, <1>5, <1>8, <2>1 DEF StagesOK
<1>13. DurableOK'
  BY <1>3, <1>4 DEF DurableOK
<1>14. RenamedOK'
  BY <1>4, <1>5, <1>6, <1>7 DEF RenamedOK
<1>15. AckedOK'
  BY <1>4, <1>6, <1>7 DEF AckedOK
<1> QED  BY <1>9, <1>10, <1>11, <1>12, <1>13, <1>14, <1>15

\* The stores a start takes from a file of the disk.
LEMMA RestoredImage ==
  ASSUME NEW r, r = Rejected \/ r \in Image
  PROVE  Restored(r) \in Image
BY DEF Restored, Image

\* The server dies: locking saves end, children go on.
LEMMA Restarted ==
  ASSUME FileInv, Restart
  PROVE  FileInv'
<1> DEFINE kept == durable \cup InUse(Children)
<1>1. /\ inode' = Swept(inode, kept) /\ deleting' = {}
      /\ UNCHANGED <<path, durable, renames, acked, rotten>>
  BY DEF Restart, directory
<1>2. stores' \in Image
  <2>1. AtPath = Rejected \/ AtPath \in Image
    BY PathImage
  <2> HIDE DEF AtPath
  <2> QED  BY <2>1, RestoredImage DEF Restart
<1>3. path \in durable /\ acked \in 0 .. Len(renames) /\ writer \in [Writers -> WriterType]
  BY DEF FileInv, TypesOK
<1>4. Idle \in WriterType /\ Idle.pc = "idle"
  BY DEF Idle, WriterType
<1>5. ASSUME NEW v \in Writers
      PROVE  /\ writer'[v] \in WriterType
             /\ writer'[v].pc # "idle" =>
                  /\ writer'[v].pc = writer[v].pc /\ writer'[v].inode = writer[v].inode
                  /\ writer[v].inode \in kept
  <2>1. CASE v \in Children /\ Busy(v)
    <3>1. writer'[v] = [writer[v] EXCEPT !.orphan = TRUE]
      BY <2>1 DEF Restart
    <3>2. writer[v] \in WriterType
      BY <1>3
    <3>3. /\ writer'[v] \in WriterType /\ writer'[v].pc = writer[v].pc
          /\ writer'[v].inode = writer[v].inode
      BY <3>1, <3>2 DEF WriterType
    <3> QED  BY <2>1, <3>3 DEF InUse
  <2>2. CASE ~(v \in Children /\ Busy(v))
    BY <1>4, <2>2 DEF Restart
  <2> QED  BY <2>1, <2>2
<1>6. writer' \in [Writers -> WriterType]
  <2>1. writer' = [v \in Writers |-> writer'[v]]
    BY DEF Restart
  <2> QED  BY <1>5, <2>1
<1>7. durable \subseteq kept
  OBVIOUS
<1> HIDE DEF kept
<1> QED  BY <1>1, <1>2, <1>3, <1>5, <1>6, <1>7, Stops

\* After a power loss the path names one of the files it may name, all of them synced.
LEMMA PowerLost ==
  ASSUME FileInv, FilePowerLoss
  PROVE  FileInv'
<1> DEFINE kept == {path'}
<1>1. /\ path' \in durable /\ durable' = {path'} /\ deleting' = {}
      /\ UNCHANGED <<renames, acked, rotten>>
  BY DEF FilePowerLoss
<1>2. path' = 0 \/ inode[path'].synced
  BY <1>1 DEF FileInv, DurableOK
<1>3. inode' = Swept(inode, kept)
  BY <1>2 DEF FilePowerLoss
<1>4. durable \subseteq 0 .. Len(inode) /\ acked \in 0 .. Len(renames)
  BY DEF FileInv, TypesOK
<1>5. stores' \in Image
  <2>1. CASE path' = 0
    BY <2>1, RestoredImage DEF FilePowerLoss
  <2>2. CASE path' # 0
    <3>1. path' \in 1 .. Len(inode)
      BY <1>1, <1>4, <2>2
    <3>2. inode'[path'] = inode[path'] /\ inode[path'] \in Inode /\ Marked(inode[path'])
      BY <1>3, <3>1, Sweep DEF FileInv, TypesOK, MarkedOK
    <3> DEFINE r == ReadSnapshotV1(inode[path'].file)
    <3>3. r = Rejected \/ r \in Image
      BY <3>2, ReadOrRefused DEF Inode
    <3>4. stores' = Restored(r)
      BY <2>2, <3>2 DEF FilePowerLoss
    <3> HIDE DEF r
    <3> QED  BY <3>3, <3>4, RestoredImage
  <2> QED  BY <2>1, <2>2
<1>6. writer' \in [Writers -> WriterType] /\ \A v \in Writers : writer'[v].pc = "idle"
  <2>1. Idle \in WriterType /\ Idle.pc = "idle"
    BY DEF Idle, WriterType
  <2> HIDE DEF Idle
  <2> QED  BY <2>1 DEF FilePowerLoss
<1>7. durable' \subseteq kept /\ durable' \subseteq durable /\ path' \in durable'
  BY <1>1
<1> HIDE DEF kept
<1> QED  BY <1>1, <1>3, <1>4, <1>5, <1>6, <1>7, Stops

\* What a medium error leaves has the checksums of its image.
LEMMA RotMarked ==
  ASSUME NEW x \in Inode, Marked(x), NEW s \in Seq(SectionType), Len(s) <= Len(x.file.sections),
         \A i \in 1 .. Len(s) : s[i].crc = x.file.sections[i].crc
  PROVE  LET y == [x EXCEPT !.file = [x.file EXCEPT !.sections = s]]
         IN  y \in Inode /\ Marked(y) /\ y.synced = x.synced
<1> DEFINE g == [x.file EXCEPT !.sections = s]
           y == [x EXCEPT !.file = g]
<1>1. x.file \in FileType /\ x.file.sections \in Seq(SectionType)
  BY DEF Inode, FileType
<1>2. g \in FileType /\ g.sections = s /\ g.crc = x.file.crc
  BY <1>1 DEF FileType
<1> HIDE DEF g
<1>3. y \in Inode /\ y.file = g /\ y.image = x.image /\ y.synced = x.synced
  BY <1>2 DEF Inode
<1> HIDE DEF y
<1>4. Marked(y)
  BY <1>1, <1>2, <1>3 DEF Marked
<1> QED  BY <1>3, <1>4 DEF y, g

\* A medium error changes the data of the file and none of its checksums.
LEMMA Rotted ==
  ASSUME FileInv, Rot
  PROVE  FileInv'
<1> DEFINE x == inode[path]
           f == x.file
<1> USE DEF FileInv
<1>1. /\ path \in 1 .. Len(inode) /\ inode \in Seq(Inode) /\ \A v \in Writers : ~Busy(v)
      /\ UNCHANGED <<writer, path, durable, renames, acked, stores, deleting>> /\ rotten' = TRUE
  BY DEF TypesOK, Rot, content
<1>2. x \in Inode /\ Marked(x) /\ f \in FileType /\ f.sections \in Seq(SectionType)
  <2>1. x \in Inode /\ Marked(x)
    BY <1>1 DEF MarkedOK
  <2> QED  BY <2>1 DEF Inode, FileType
<1> DEFINE Left(s) ==
      /\ Len(s) <= Len(f.sections) /\ \A i \in 1 .. Len(s) : s[i].crc = f.sections[i].crc
      /\ inode' = [inode EXCEPT ![path] = [x EXCEPT !.file = [f EXCEPT !.sections = s]]]
<1>3. \E s \in Seq(SectionType) : Left(s)
  <2>1. ASSUME NEW i \in DOMAIN f.sections, inode' = [inode EXCEPT ![path].file = WithoutBlocks(f, {i})]
        PROVE  \E s \in Seq(SectionType) : Left(s)
    <3> DEFINE t == f.sections
               s == [j \in DOMAIN t |-> IF j \in {i} THEN [t[j] EXCEPT !.data = {}] ELSE t[j]]
    <3>1. t \in Seq(SectionType) /\ DOMAIN t = 1 .. Len(t) /\ Len(t) \in Nat
      BY <1>2
    <3>2. inode' = [inode EXCEPT ![path] = [x EXCEPT !.file = [f EXCEPT !.sections = s]]]
      BY <2>1 DEF WithoutBlocks
    <3> HIDE DEF t
    <3>3. \A j \in 1 .. Len(t) : /\ [t[j] EXCEPT !.data = {}] \in SectionType
                                 /\ [t[j] EXCEPT !.data = {}].crc = t[j].crc
                                 /\ t[j] \in SectionType
      <4> SUFFICES ASSUME NEW j \in 1 .. Len(t)
                   PROVE  /\ [t[j] EXCEPT !.data = {}] \in SectionType
                          /\ [t[j] EXCEPT !.data = {}].crc = t[j].crc
                          /\ t[j] \in SectionType
        OBVIOUS
      <4>1. t[j] \in SectionType
        BY <3>1
      <4>2. {} \in Datum
        BY DEF Datum
      <4> QED  BY <4>1, <4>2 DEF SectionType
    <3>4. s \in Seq(SectionType) /\ Len(s) = Len(t) /\ \A j \in 1 .. Len(s) : s[j].crc = t[j].crc
      BY <3>1, <3>3
    <3> HIDE DEF s
    <3>5. Left(s)
      BY <3>1, <3>2, <3>4 DEF t
    <3> HIDE DEF Left
    <3> QED  BY <3>4, <3>5
  <2>2. ASSUME inode' = [inode EXCEPT ![path].file.sections = SubSeq(f.sections, 1, Len(f.sections) - 1)]
        PROVE  \E s \in Seq(SectionType) : Left(s)
    <3> DEFINE t == f.sections
               s == SubSeq(t, 1, Len(t) - 1)
    <3>1. t \in Seq(SectionType) /\ Len(t) \in Nat
      BY <1>2
    <3>2. inode' = [inode EXCEPT ![path] = [x EXCEPT !.file = [f EXCEPT !.sections = s]]]
      BY <2>2
    <3> HIDE DEF t
    <3>3. \A i \in 1 .. Len(t) - 1 : t[i] \in SectionType
      BY <3>1
    <3>4. s \in Seq(SectionType) /\ Len(s) <= Len(t) /\ \A j \in 1 .. Len(s) : s[j] = t[j]
      BY <3>1, <3>3, SubSeqProperties
    <3> HIDE DEF s
    <3> QED  BY <3>1, <3>2, <3>4 DEF t
  <2> QED  BY <2>1, <2>2 DEF Rot
<1>4. PICK y \in Inode : Marked(y) /\ y.synced = x.synced /\ inode' = [inode EXCEPT ![path] = y]
  BY <1>2, <1>3, RotMarked
<1> HIDE DEF x, f
<1>5. /\ inode' \in Seq(Inode) /\ Len(inode') = Len(inode)
      /\ \A n \in 1 .. Len(inode) : inode'[n] = IF n = path THEN y ELSE inode[n]
  BY <1>1, <1>4
<1>6. TypesOK'
  BY <1>1, <1>5 DEF TypesOK, Busy
<1>7. AloneOK' /\ StagesOK' /\ RenamedOK' /\ AckedOK'
  BY <1>1 DEF AloneOK, StagesOK, RenamedOK, AckedOK, Busy, Unpublished
<1>8. MarkedOK'
  BY <1>4, <1>5 DEF MarkedOK
<1>9. DurableOK'
  BY <1>1, <1>4, <1>5 DEF DurableOK, TypesOK, x
<1> QED  BY <1>6, <1>7, <1>8, <1>9

-----------------------------------------------------------------------------
(* The theorems.                                                            *)

LEMMA FileInvariant == FileSpec => []FileInv
<1>1. FileInit => FileInv
  BY Initially
<1>2. FileInv /\ [FileNext]_fileVars => FileInv'
  <2> SUFFICES ASSUME FileInv, [FileNext]_fileVars PROVE FileInv'
    OBVIOUS
  <2>1. CASE \/ \E id \in Ids : HandleVecset(id) \/ HandleMetaset(id) \/ HandleVecdel(id)
             \/ VecdelMetadata \/ HandleDumpLoad
    BY <2>1, StoreSteps
  <2>2. ASSUME NEW w \in Writers, WriterStep(w) PROVE FileInv'
    BY <2>2, NewFile, SectionWritten, SizeWritten, CrcWritten, FileSynced, WriterFails, Renamed,
       PastSteps, DirectorySynced DEF WriterStep
  <2>3. CASE Restart
    BY <2>3, Restarted
  <2>4. CASE FilePowerLoss
    BY <2>4, PowerLost
  <2>5. CASE Rot
    BY <2>5, Rotted
  <2>6. CASE UNCHANGED fileVars
    <3>1. stores \in Image /\ deleting \subseteq Ids
      BY DEF FileInv, TypesOK
    <3>2. stores' \in Image /\ deleting' \subseteq Ids /\ UNCHANGED fileOnly
      BY <2>6, <3>1 DEF fileVars, fileOnly
    <3> QED  BY <3>2, StoresOnly
  <2> QED  BY <2>1, <2>2, <2>3, <2>4, <2>5, <2>6 DEF FileNext
<1> QED  BY <1>1, <1>2, PTL DEF FileSpec

\* Once a save has been reported as successful, the path holds a whole snapshot
\* at least as recent, through failed saves, orphans, restarts and power losses,
\* however many writers there are; the reader takes it, unless its image was torn
\* or its CRC came out as 0 (WriteSnapshotV1, ReadSnapshotV1).
THEOREM SavedSurvives == FileSpec => []AckedSnapshotSurvives
<1>1. ASSUME FileInv PROVE AckedSnapshotSurvives
  <2> SUFFICES ASSUME acked > 0, ~rotten
               PROVE  /\ \E i \in acked .. Len(renames) : renames[i] = path
                      /\ \/ AtPath = inode[path].image
                         \/ TornImage(inode[path].image) \/ inode[path].file.crc = Zero
    BY DEF AckedSnapshotSurvives
  <2>1. /\ path \in durable /\ inode \in Seq(Inode) /\ renames \in Seq(1 .. Len(inode))
        /\ acked \in 0 .. Len(renames)
    BY <1>1 DEF FileInv, TypesOK
  <2>2. \E i \in acked .. Len(renames) : renames[i] = path
    BY <1>1, <2>1 DEF FileInv, AckedOK
  <2>3. path \in 1 .. Len(inode)
    BY <2>1, <2>2
  <2>4. inode[path] \in Inode /\ Marked(inode[path]) /\ Whole(inode[path])
    BY <1>1, <2>1, <2>3 DEF FileInv, MarkedOK, DurableOK
  <2>5. CASE inode[path].file.crc # Zero
    <3>1. inode[path].file.crc = CrcOf(inode[path].image)
      BY <2>4, <2>5 DEF Marked
    <3>2. AtPath = ReadSnapshotV1(inode[path].file)
      BY <2>3 DEF AtPath
    <3> QED  BY <2>2, <2>4, <3>1, <3>2, WholeIsRead
  <2> QED  BY <2>2, <2>5
<1> QED  BY <1>1, FileInvariant, PTL

\* No file is read as anything but the image its writer captured, whatever a
\* power loss or a medium error left of it, and DUMP LOAD takes what DUMP VERIFY
\* passes unless the image is torn (ReadSnapshotV1, VerifyFileLevelIntegrity).
THEOREM OnlyWholeRead == FileSpec => []AcceptedIsWhole
<1>1. ASSUME FileInv PROVE AcceptedIsWhole
  <2> SUFFICES ASSUME NEW n \in DOMAIN inode
               PROVE  /\ ReadSnapshotV1(inode[n].file) \in {Rejected, inode[n].image}
                      /\ VerifySnapshotIntegrity(inode[n].file) /\ ~TornImage(inode[n].image)
                           => ReadSnapshotV1(inode[n].file) # Rejected
    BY DEF AcceptedIsWhole
  <2>1. inode[n] \in Inode /\ Marked(inode[n])
    BY <1>1 DEF FileInv, TypesOK, MarkedOK
  <2> QED  BY <2>1, ReadOrRefused DEF VerifySnapshotIntegrity
<1> QED  BY <1>1, FileInvariant, PTL

=============================================================================
