------------------------------ MODULE WalCodec ------------------------------
(***************************************************************************)
(* The payload of a log record: EncodeCommand appends the fields of a write *)
(* command byte by byte, little-endian and with length prefixes, and        *)
(* DecodeWalRecord reads them back with a bounds-checked cursor.  The       *)
(* payload has no type tags of its own: where a field ends and what it is   *)
(* follow from the fields before it.                                        *)
(*                                                                          *)
(* A byte has Base values, so that an eight-byte integer stays small; the   *)
(* number of bytes of each field is the code's.  A float is its bits.       *)
(***************************************************************************)
EXTENDS Integers, Sequences, SequencesExt

CONSTANTS
  Base,      \* values of a byte
  Commands   \* the write commands to encode

ASSUME CodecAssumption == Base \in Nat /\ Base > 3

VARIABLES
  record,   \* the WalRecord: op and payload
  cursor,   \* the Reader: position, fields to read next, what was read of the command
  source    \* history: the command it encodes, and how many bytes are missing

codecVars == <<record, cursor, source>>

-----------------------------------------------------------------------------
(* Writing.                                                                 *)

AppendLE(value, bytes) == [i \in 1 .. bytes |-> (value \div Base ^ (i - 1)) % Base]

AppendString(str) == AppendLE(Len(str), 4) \o str

kTypedMetadataMagic == 1 + 2 * Base + 2 * Base ^ 2 + 3 * Base ^ 3

Tag == [string |-> 0, int64 |-> 1, double |-> 2, bool |-> 3]

EncodeValue(v) ==
  AppendLE(Tag[v.type], 1) \o
  CASE v.type = "string" -> AppendString(v.held)
    [] v.type = "bool" -> AppendLE(v.held, 1)
    [] OTHER -> AppendLE(v.held % Base ^ 8, 8)

(* The entries of a map, in some order                                      *)
\* Mutant: no magic number in front of the entries.
EncodeUnmarked(metadata) ==
  AppendLE(Len(metadata), 4)
    \o FlattenSeq([i \in DOMAIN metadata |-> AppendString(metadata[i].key) \o EncodeValue(metadata[i].value)])

EncodeTypedMetadata(metadata) ==
  AppendLE(kTypedMetadataMagic, 4) \o AppendLE(Len(metadata), 4)
    \o FlattenSeq([i \in DOMAIN metadata |-> AppendString(metadata[i].key) \o EncodeValue(metadata[i].value)])

EventTypes == [ADD |-> 0, SET |-> 1, DEL |-> 2]

WalOpForCommand(cmd) ==
  CASE cmd.type = "event" -> IF cmd.event_type = "DEL" THEN "kEventDel" ELSE "kEventAdd"
    [] cmd.type = "vecset" -> "kVecSet"
    [] cmd.type = "vecdel" -> "kVecDel"
    [] cmd.type = "metaset" -> "kMetaSet"

(* metadata is <<>> for none and <<map>> otherwise; a missing event time    *)
(* is resolved before the command is logged                                 *)
EncodeCommand(cmd) ==
  CASE cmd.type = "event" ->
         AppendLE(EventTypes[cmd.event_type], 1) \o AppendString(cmd.ctx) \o AppendString(cmd.id)
           \o AppendLE(cmd.score % Base ^ 4, 4) \o AppendLE(cmd.timestamp, 8)
    [] cmd.type = "vecset" ->
         AppendString(cmd.id) \o AppendLE(Len(cmd.vector), 4)
           \o FlattenSeq([i \in DOMAIN cmd.vector |-> AppendLE(cmd.vector[i], 4)])
           \o (IF cmd.metadata = <<>> THEN <<>> ELSE EncodeTypedMetadata(cmd.metadata[1]))
    [] cmd.type = "vecdel" -> AppendString(cmd.id)
    [] cmd.type = "metaset" ->
         AppendString(cmd.id)
           \o (IF cmd.metadata = <<>> THEN AppendString(cmd.filter_expr) ELSE EncodeTypedMetadata(cmd.metadata[1]))

-----------------------------------------------------------------------------
(* Reading, one action per kind of field.  What is read next follows from   *)
(* what has been read: cursor.todo lists the fields that are known to come. *)

Corrupted == [type |-> "corrupted"]
NotReading == [pos |-> -1, todo |-> <<>>, cmd |-> Corrupted, key |-> <<>>]

CodecInit ==
  /\ record = [op |-> "none", payload |-> <<>>]
  /\ cursor = NotReading
  /\ source = [cmd |-> [type |-> "none"], missing |-> 0]

(* RequestDispatcher::AppendToWal                                           *)
AppendToWal(cmd) ==
  /\ record.op = "none"
  /\ record' = [op |-> WalOpForCommand(cmd), payload |-> EncodeCommand(cmd)]
  /\ source' = [cmd |-> cmd, missing |-> 0]
  /\ UNCHANGED cursor

(* A payload that lost its end                                              *)
Cut ==
  /\ record.payload # <<>> /\ cursor = NotReading
  /\ record' = [record EXCEPT !.payload = Front(@)]
  /\ source' = [source EXCEPT !.missing = @ + 1]
  /\ UNCHANGED cursor

FieldsOf(op) ==
  CASE op \in {"kEventAdd", "kEventDel"} -> <<"event_type", "ctx", "id", "score", "timestamp">>
    [] op = "kVecSet" -> <<"id", "dim">>
    [] op = "kVecDel" -> <<"id">>
    [] op = "kMetaSet" -> <<"id", "filter_expr">>

BlankCommand(op) ==
  CASE op \in {"kEventAdd", "kEventDel"} ->
         [type |-> "event", event_type |-> "ADD", ctx |-> <<>>, id |-> <<>>, score |-> 0, timestamp |-> 0]
    [] op = "kVecSet" -> [type |-> "vecset", id |-> <<>>, vector |-> <<>>, metadata |-> <<>>]
    [] op = "kVecDel" -> [type |-> "vecdel", id |-> <<>>]
    [] op = "kMetaSet" -> [type |-> "metaset", id |-> <<>>, metadata |-> <<>>, filter_expr |-> <<>>]

DecodeWalRecord ==
  /\ record.op # "none" /\ cursor = NotReading
  /\ cursor' = [NotReading EXCEPT !.pos = 0, !.todo = FieldsOf(record.op), !.cmd = BlankCommand(record.op)]
  /\ UNCHANGED <<record, source>>

AtField(fields) == cursor.todo # <<>> /\ Head(cursor.todo) \in fields

Remaining == Len(record.payload) - cursor.pos

ValueLE(bytes) == FoldRight(LAMBDA byte, high : byte + Base * high, bytes, 0)
ReadLE(bytes) == ValueLE(SubSeq(record.payload, cursor.pos + 1, cursor.pos + bytes))

HasString == Remaining >= 4 /\ Remaining - 4 >= ReadLE(4)
StringEnd == 4 + ReadLE(4)
ReadString == SubSeq(record.payload, cursor.pos + 5, cursor.pos + StringEnd)

Signed(raw, bytes) == IF 2 * raw < Base ^ bytes THEN raw ELSE raw - Base ^ bytes

(* Read some bytes if they are there and accepted, or give the record up    *)
Advance(accepted, bytes, todo, cmd, key) ==
  /\ cursor' = IF accepted THEN [pos |-> cursor.pos + bytes, todo |-> todo, cmd |-> cmd, key |-> key]
               ELSE [cursor EXCEPT !.todo = <<>>, !.cmd = Corrupted]
  /\ UNCHANGED <<record, source>>

Take(accepted, bytes, cmd) == Advance(accepted, bytes, Tail(cursor.todo), cmd, cursor.key)
Expect(accepted, bytes, todo) == Advance(accepted, bytes, todo, cursor.cmd, cursor.key)

ReadEventType ==
  /\ AtField({"event_type"})
  /\ Take(Remaining >= 1, 1,
          [cursor.cmd EXCEPT !.event_type = CHOOSE t \in DOMAIN EventTypes : EventTypes[t] = ReadLE(1)])

ReadScore ==
  /\ AtField({"score"})
  /\ Take(Remaining >= 4, 4, [cursor.cmd EXCEPT !.score = Signed(ReadLE(4), 4)])

ReadTimestamp ==
  /\ AtField({"timestamp"})
  /\ Take(Remaining >= 8, 8, [cursor.cmd EXCEPT !.timestamp = ReadLE(8)])

ReadText ==
  /\ AtField({"ctx", "id"})
  /\ Take(HasString, StringEnd, [cursor.cmd EXCEPT ![Head(cursor.todo)] = ReadString])

ReadDimension ==
  /\ AtField({"dim"})
  /\ Expect(Remaining >= 4 /\ ReadLE(4) <= (Remaining - 4) \div 4, 4,
            [i \in 1 .. ReadLE(4) |-> "element"] \o <<"extension">>)

ReadFloat ==
  /\ AtField({"element"})
  /\ Take(Remaining >= 4, 4, [cursor.cmd EXCEPT !.vector = Append(@, ReadLE(4))])

(* Anything after the vector must be a metadata extension                   *)
ReadExtension ==
  /\ AtField({"extension"})
  /\ IF Remaining = 0 THEN Expect(TRUE, 0, <<>>)
     ELSE Expect(Remaining >= 4 /\ ReadLE(4) = kTypedMetadataMagic, 4, <<"count">>)

(* The magic number tells typed metadata from the length of a filter text   *)
ReadFilter ==
  /\ AtField({"filter_expr"})
  /\ IF Remaining >= 4 /\ ReadLE(4) = kTypedMetadataMagic THEN Expect(TRUE, 4, <<"count">>)
     ELSE Take(HasString, StringEnd, [cursor.cmd EXCEPT !.filter_expr = ReadString])

-----------------------------------------------------------------------------
(* DecodeTypedMetadata.                                                     *)

DecodeTypedMetadata ==
  /\ AtField({"count"})
  /\ Advance(Remaining >= 4 /\ ReadLE(4) <= Remaining - 4, 4,
             FlattenSeq([i \in 1 .. ReadLE(4) |-> <<"key", "tag">>]),
             [cursor.cmd EXCEPT !.metadata = << <<>> >>], <<>>)

ReadKey ==
  /\ AtField({"key"})
  /\ Advance(HasString, StringEnd, Tail(cursor.todo), cursor.cmd, ReadString)

ReadTag ==
  /\ AtField({"tag"})
  /\ Expect(Remaining >= 1 /\ ReadLE(1) <= 3, 1,
            <<CHOOSE t \in DOMAIN Tag : Tag[t] = ReadLE(1)>> \o Tail(cursor.todo))

(* emplace: the first of two entries with one key stays                     *)
Emplaced(type, held) ==
  LET entries == cursor.cmd.metadata[1]
      entry == [key |-> cursor.key, value |-> [type |-> type, held |-> held]]
  IN  [cursor.cmd EXCEPT !.metadata =
         <<IF \E i \in DOMAIN entries : entries[i].key = cursor.key THEN entries ELSE Append(entries, entry)>>]

ReadStringValue ==
  /\ AtField({"string"})
  /\ Take(HasString, StringEnd, Emplaced("string", ReadString))

ReadWordValue ==
  /\ AtField({"int64", "double"})
  /\ LET type == Head(cursor.todo) IN
     Take(Remaining >= 8, 8, Emplaced(type, IF type = "int64" THEN Signed(ReadLE(8), 8) ELSE ReadLE(8)))

ReadBoolValue ==
  /\ AtField({"bool"})
  /\ Take(Remaining >= 1 /\ ReadLE(1) <= 1, 1, Emplaced("bool", ReadLE(1)))

ReadField ==
  \/ ReadEventType \/ ReadText \/ ReadScore \/ ReadTimestamp
  \/ ReadDimension \/ ReadFloat \/ ReadExtension \/ ReadFilter
  \/ DecodeTypedMetadata \/ ReadKey \/ ReadTag \/ ReadStringValue \/ ReadWordValue \/ ReadBoolValue

CodecNext == Cut \/ (\E cmd \in Commands : AppendToWal(cmd)) \/ DecodeWalRecord \/ ReadField

CodecSpec == CodecInit /\ [][CodecNext]_codecVars

-----------------------------------------------------------------------------
WithoutMetadata(cmd) == [cmd EXCEPT !.metadata = <<>>]

(* "The codec is symmetric": a record decodes to the command that was       *)
(* logged, to the sign of its numbers and the types of its metadata.  And a *)
(* record that lost its end is refused, never read as another command; but  *)
(* for a VECSET cut just after its vector, which reads as one without       *)
(* metadata (the checksum of the record is what notices it).                *)
CodecRoundTrip ==
  cursor # NotReading /\ cursor.todo = <<>> =>
    IF source.missing = 0 THEN cursor.cmd = source.cmd
    ELSE \/ cursor.cmd = Corrupted
         \/ source.cmd.type = "vecset" /\ cursor.cmd = WithoutMetadata(source.cmd)
=============================================================================
