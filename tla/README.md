# nvecd: verification project

nvecd is an in-memory vector and event store with a TCP and an HTTP front end.
Clients send events (`EVENT`), vectors (`VECSET`, `VECDEL`), metadata (`METASET`)
and ask for similar items (`SIM`, `SIMV`).  Everything lives in memory; what
survives a crash are snapshots and, when `wal.enabled` is set, a write-ahead
log.  This directory holds TLA+ models of the parts of that program where the
order of steps decides whether it is correct, the TLC runs that check them and
the TLAPS proofs about them.  Paths below are relative to `src/src/`.

## 1. Inventory

| Component | State | Operations | Where it is hard |
|---|---|---|---|
| Write-ahead log, `storage/wal.cpp` | segment files, catalogue `files_`, `current_sequence_`, `current_file_number_`, descriptor, `open_`, `needs_sync_` | `Open`, `Append` with rotation, `Replay`, `Truncate`, `Close`, `SyncLoop` | every system call may fail half way; process crash, power loss; file removal and number recovery |
| Log codec, `server/wal_codec.cpp` | none | encode, decode | untagged fields: where one ends follows from the ones before |
| Checkpoint sidecar, `storage/wal_checkpoint.cpp` | `<snapshot>.walseq`: sequence number bound to size and CRC of one image | write, read | crash between image, sidecar and truncation |
| Snapshots, `storage/snapshot_lock.cpp`, `snapshot_format_v1.cpp` | files, their mtime order | publish by rename, read, verify | several writers of one path; power loss between write, sync and rename |
| Fork writer, `storage/snapshot_fork.cpp` | `current_result_` (status, pid, path, sequence) | `StartBackgroundSave`, child, `CheckChild`, `WaitForChild` | called by clients and by the scheduler without a common lock; child outlives parent |
| DUMP commands, `server/handlers/dump_handler.cpp` | `read_only`, `loading`, two gates | SAVE (lock, fork), LOAD, STATUS, VERIFY, INFO | flags, gates and files must agree at every crash point |
| Schedulers, `server/snapshot_scheduler.cpp`, `decay_scheduler.cpp` | timers | automatic snapshot, retention, decay and pruning | run beside all of the above |
| Startup and shutdown, `server/nvecd_server.cpp` | wiring | choose base snapshot, `Open`, `Replay`; ordered `Stop` | order, error exits, a request that never ends |
| Dispatcher, `server/request_dispatcher.cpp`; HTTP, `server/http_server.cpp` | statistics, generations | one handler per command, log before apply, cache | gate order, checks repeated after waiting |
| Event store, `events/event_store.cpp`; caches `dedup_cache`, `state_cache`; `ring_buffer.h` | per-context ring buffers, LRU of contexts, last values | prepare, add, restore, swap | eviction at each limit; replay against other cache contents |
| Co-occurrence index, `events/co_occurrence_index.cpp` | symmetric score matrix, generation | ingest, negative signal, decay, prune | symmetry and limits after each update |
| Similarity cache, `cache/` | entries, LRU, reverse index, bytes | lookup, insert, invalidate, clear, purge, resize | result computed before a write, inserted after it |
| Vector store and metadata, `vectors/`; engine `similarity/similarity_engine.cpp`; `ivf_index`, `hnsw_index` and their adapters | compact matrix, tombstones, free slots, labels in lists, buffer and sealing tier | set, delete, defragment, swap, notify, train, seal, rebuild | labels are rows of a matrix that moves; searches read one tier at a time |
| Tiered store, `vectors/tiered_vector_store.cpp`, `merge_scheduler.cpp` | main tier with tombstones, delta tier, location of each id | add, delete, merge, compact | rows move under recorded locations; wake-ups of the scheduler |
| Network: `connection_acceptor`, `io_reactor`, `reactor_connection`, `thread_pool` | descriptors, queues, interest masks, books per address | accept, read, dispatch, write, close, shut down | callbacks against close; limits; shutdown with deadline |
| Runtime variables, `config/runtime_variable_manager.cpp` | texts of the variables, values in force | `SET`, `GET`, `SHOW VARIABLES` | parse, apply and record are three steps |
| Clients, `client/nvecdclient.cpp`, `protocol_transport.h`, `cli/nvecd-cli.cpp` | socket, receive buffer, debug mode | connect, round trip, disconnect | no length prefix: the client infers where an answer ends |
| Configuration, command and filter parsers, HTTP routing, C client, utilities, compressor, hash, distance kernels, rate limiter | none shared | | text, bytes, floating point |

Interaction.  The acceptors hand a socket to the reactor; the reactor reads
request lines and queues drains in the pool; a worker runs the dispatcher.  A
write takes `snapshot_write_gate` shared, checks `loading` and `read_only`,
takes `write_serialization_gate`, appends to the log and only then changes the
stores and invalidates the cache.  A locking save sets `read_only` and takes
the first gate exclusively; DUMP LOAD takes both; a fork-mode save holds what a
writer holds while it forks; the scheduler's automatic snapshot takes neither
gate.  A finished snapshot gets its sidecar, then the log is truncated.  A
restart loads the newest snapshot with a valid sidecar and replays the log from
the record after the checkpoint.

What makes each part correct:

* log: acknowledged records are on disk and replayable until a checkpoint
  covers them; numbers are not reused; damage is detected, never skipped; a
  record decodes to the command that was logged;
* snapshot file: a save that reported success leaves a whole file at its path,
  and a file is read as what was captured or not at all;
* durability as a whole: a restart rebuilds the acknowledged state, no less and
  (after a rollback) no more, whatever step was interrupted;
* gates: a save is a point in time; after a failed load nobody touches the stores;
* event store and index: symmetry, limits, streaming equal to batch, replay equal
  to live ingestion;
* similarity cache: no result older than the last write that affects it;
* vector store and index: the store agrees with the writes, and an answer agrees
  with the store, whatever moved meanwhile;
* network: answers in order, limits hold, every descriptor is accounted for once,
  closing and stopping end;
* client: what a call returns is the whole answer to its own command, for the commands
  whose answers it can delimit.

## 2. Plan

| Order | Modules | State |
|---|---|---|
| 1 | `Wal`, `WalLifecycle`, `WalProofs` | done; every invariant of the log is proved |
| 2 | `Recovery` (composes `Wal` with snapshots, saves, loads, restarts) | done; `RecoversExactly` and `StartsUnlessGap` are model-checked only |
| 3 | `CacheCoherence`, `CacheProofs`; `SimilarityCache` implements `ResultCache`, `IndexProofs` | done; safety and the refinement are proved |
| 4 | `CoOccurrence`, `EventIngest` (composes index, store, log, restart), `IndexProofs` | done; symmetry and limit of the matrix are proved, the rest is model-checked |
| 5 | `Rows`; `VectorIndex`, `TieredStore`, `VectorProofs` | done; safety is proved, liveness model-checked |
| 6 | `WriteGate`, `RuntimeVariables`, `ForkWriter`, `GateProofs`; `SnapshotFile`, `SnapshotProofs` | done; their safety is proved |
| 7 | `Connection`, `Client`, `ConnectionProofs`; `Server`, `ServerProofs` | done; safety is proved, liveness model-checked |
| 8 | `WalCodec` | done; model-checked |

What the proofs leave to TLC, and why, is the list at the end of section 5.

## 3. Modules

### Wal, WalLifecycle

A file is the list of its records; `synced` is the length of the prefix that
fsync made durable; `bare` is a file whose header is incomplete; `Torn` stands
for the bytes of a short write.  The variables have the names of the class
members.  Actions:

| Action | Code |
|---|---|
| `Open`, `OpenRotateFails`, `OpenRejected` | `Open`: scan, repair of a torn tail, removal of header-only segments, rotation; its two kinds of failure |
| `AppendOk`, `AppendPoisoned`, `RotateFails` | `Append`; short write or failed fsync (`poison_current_segment`); each error exit of `RotateFile` |
| `SyncLoop(ok)` | one round of the batch fsync thread |
| `Truncate(upTo, stuck)` | `Truncate`; `stuck` are the segments whose unlink fails |
| `Close`, `ProcessCrash`, `PowerLoss` | `Close`; the environment |
| `ReplayFiles`, `Replayed`, `ReplayAccepts` | `ReplayValidated`: segments read, records delivered, errors |

`WalLifecycle` drives it with an arbitrary caller and adds history: `owed`, the
records that were acknowledged and that no checkpoint covers, and `damage`, the
events that the code does not repair.

### WalCodec

`EncodeCommand` and `DecodeWalRecord` over bytes: little-endian integers, length
prefixes, the magic number in front of typed metadata.  The reader is a cursor
with its bounds checks, and each kind of field is an action: `cursor.todo` holds
the fields known to come, which a count, a tag or the magic number extends.  A byte has `Base` values, so that an eight-byte
integer stays within TLC's; the number of bytes of a field is the code's.  `Cut`
takes bytes from the end of a record.

### SnapshotFile

One path and the inodes that come to stand there.  A writer (a locking save, or
a child) creates a temporary file, writes the sections, completes the header,
writes the file CRC, syncs, renames, checks that the path still names its inode
and syncs the directory, with a failure or a crash after each.  `Restart` leaves
children behind as orphans; `FilePowerLoss` keeps any of the unsynced blocks and
any of the names not yet durable.  `ReadSnapshotV1` and
`VerifySnapshotIntegrity` have every check of the code in its order.  A CRC is
the data it covers, or 0.

### Recovery

Composes the log with the write path, snapshots and sidecars, saves in both
modes, DUMP LOAD, the scheduler with retention, crash and restart.  The stores
are the list of operations applied; an image is such a list; `byAge` is the
mtime order of the files.  A handler that touches several files is split at
each point where a crash would be visible: a locking save is image, sidecar,
truncation; a load is swap, touch, sidecar, truncation; `CheckChild` is reaping,
sidecar, truncation.  `writer` is a write between append and apply.  The
scheduled decay is a logged write like the others.

History: `expect` is the set of states a restart may produce (two while a write
or a load is in flight); `gaps` are the windows in which the files do not
describe one state.  They are recorded where they open, so that the passing
runs say: *outside these windows* a restart is exact, and the violation runs
show that the windows are real.

| Window | Opens |
|---|---|
| `floor` | the checkpoint lies beyond the end of the log, so replay cannot check that the log continues the base |
| `load` | DUMP LOAD touched its snapshot and has not replaced the sidecar |
| `inflight` | a load or a newer locking save ran while a background save was unfinished |
| `race` | an automatic snapshot forked between append and apply |
| `retire` | retention removed the recovery base in favour of a file without sidecar |
| `StaleSidecar` | a snapshot was written over an older one and has the old sidecar |

### WriteGate

The flags and gates alone, with the data reduced to record numbers.  A thread
(a request, the snapshot scheduler or the decay scheduler) runs a role: `write`,
`sim`, `save`, `fork`, `load`, `auto`, `decay`; `running` says where it is.  One
action per access to a flag, per acquisition, and per change under a gate:
`CheckReadOnly`, `AcquireShared`, `RecheckLoading`, `RecheckReadOnly`,
`AcquireSerial`, `AppendRecord`, `ApplyRecord` for a write; `ReserveReadOnly`,
`AcquireExclusive`, `CaptureSequence`, `WriteImage`, `ClearReadOnly` for a locking
save; and so on.  `HttpDump` enters where the HTTP handlers do, which is past the
`read_only` check of the dispatcher.  A failed append or apply sets `read_only`;
a load that cannot be made durable (`FailStop`) leaves `loading` set.

### ForkWriter

`StartBackgroundSave` and `CheckChild` with several callers: reserve, fork,
publish the pid; look, `waitpid`, settle, checkpoint, truncate.  A caller carries
between two steps what the code read before it unlocked.  `misfiled` and
`overlapped` are history: a status written over that of another save, and two
saves inside `StartBackgroundSave` at once.

### CacheCoherence

A SIM or SIMV result is cached under a key that holds the generation counters of
the stores; a write changes a store, then bumps its counter, then drops entries.
The protocol has no single place in the code: it lies in the order of statements
of some twenty handlers (TCP and HTTP).  The module has one action per moment at
which another thread can see a difference.

| Action | Code |
|---|---|
| `QueryBegin` | admission of `HandleSim`/`HandleSimv`: `loading`, the shared snapshot gate, the published cache pointer and `IsEnabled` |
| `Capture` | one load of a generation counter, in the order of the handler |
| `LookupHit`, `LookupMiss` | `Lookup` with the key of the captured counters |
| `Search(c, s)`, `SearchFails`, `SearchBypassed` | the engine reads store `s` under its own lock, possibly more than once; an error; a query without cache |
| `Store`, `Insert` | enter `write_serialization_gate`, compare pointer, switch and counters; `InsertAndRegister` |
| `WriteBegin`, `DecayBegin` | a write command, or the decay callback, takes the gate; `todo` is the script of its remaining steps |
| `Apply`, `ApplyCo`, `Bump`, `Invalidate`, `Release` | the steps of the scripts |
| `LoadBegin`, `LoadRefused`, `LoadPublish`, `Swap`, `BumpData` | DUMP LOAD: reservation, failure while staging, exclusive gates, swap, last bump |
| `SetEnabled`, `Publish`, `CacheClear` | the cache controller: its switch and the published pointer are two stores |

A store's content is its version `ver`; a result is the set of versions its
computation saw.  History: `dirty` are stores changed since their last bump,
`clean` is the version a counter vouches for, `floor` what was complete when a
query arrived.  Which entries an invalidation, an eviction or an expiry removes is
free here; `SimilarityCache` says which.  The comparison of counters at `Store` is
not what makes the cache correct: without it every property still holds, since an
entry filed under an old counter is never found.  The order of capture, read,
change and bump, and the draining of queries by a load, are what matters.

### SimilarityCache, ResultCache

`SimilarityCache` is the class as a data structure: `cache_map_`, `lru_list_`,
`item_to_cache_keys_` and the memory they account for, one action per public
method, the private helpers as functions with the names of the code.  A lookup is
two actions, because it gives up the shared lock before it takes the exclusive
one.  `ResultCache` is what callers rely on: a map that may forget entries, whose
lookup returns only what was inserted under the key and not invalidated since.
`ImplementsResultCache` maps the usable entries of the one to the other.

### CoOccurrence, EventIngest

`CoOccurrence` has the index as functions of its score matrix.  `EventIngest`
puts them behind the EVENT command: `HandleEvent` previews and logs, `CommitEvent`
or `CommitDuplicate` applies (the clock may have moved), `Maintain` decays and
prunes, `Save` and `Restart` go through the snapshot form of buffers and caches,
`ReplayEvent` and `ReplayMaintenance` run the handlers again.  An LRU map is the
sequence of its entries; a score counts quarters, so that one half-life and one
decay are exact; pruning returns every matrix that ties allow.  The loops of the
code (over the prior events, the affected items, the contexts of a snapshot) are
recursive functions of the round.  History: `hist`
is what each context has stored since it was created, `past.events` what has
happened to the caches.

### VectorIndex, Rows

`Rows` is the compaction that the stores share: the rows to keep move to the front
in their order, written by the rank of a row among the rows kept.  The index of
`CoOccurrence` sorts the items it prunes the same way (`InOrder`).

The vector store with rows, tombstones, free list and generation; the metadata
ids; the ANN index with its tiers; the engine that publishes the index against a
generation.  A VECSET is store, notification and possibly the launch of the
background thread; a VECDEL is store (with its own defragmentation),
`VecdelDefragment`, notification and `VecdelRebuild`.  The thread trains
(`ThreadTrain`) or seals (`SealBegin`, `SealAssign`, `SealEnd`).  A search reads
buffer and lists in separate steps (`IvfSearchBuffer`, `IvfSearchLists`), the
HNSW graph in one, and maps labels through the layout at the end (`SearchMap`).
While the index is not ready, and as a fallback, a search scans one snapshot of the
store (`FlatSearch`): all rows, or, with `similarity.sample_size` above 0 and more
than twice as many rows, a random sample of them (`UseSampling`, `SampleIndices`).
An answer is marked exact if it comes from a scan of all rows or of all lists; the
default sample size is 10000, so that a flat search of more than 20000 rows promises
no completeness and `AnswersComplete` asks none of it.  `EnsureAnnDimension` only
binds the still empty index to the dimension of the first vector; dimensions are not
modelled.  An embedding is the number of the operation that wrote it.

### TieredStore

Every operation of the two-tier store is one step under its lock; the scheduler
thread wakes, merges, checks and rebuilds in steps of its own.

### Connection, Server

`Connection` is one client between the reactor thread and the workers, one step
per critical section or atomic access: the request queue with its watermarks
(`RecvFrames`, `DisarmRead`, `Resume`), the scheduling of drains (`ScheduleDrain`,
`Pop`), the response queue (`Process`, `Arm`, `Send`, `DisarmWrite`), closing
after the last response (`Closing`, `CloseArm`, `CloseCheck`,
`UnregisterIfFlushed`), half-close, hang-up and the reaper.  `faults` records what
cut a conversation short: the three races below, a hang-up, the reaper, a full
queue, a dropped chunk.  A frame that finds the queue full stays in `accumulated_`
(`conn.accumulated` counts the requests of the inbox that recv has returned already)
and is framed by the next receive: the connection closes only after its flush, and
the worker that drains below the low watermark turns reading on again.  At the limit
of `accumulated_` or of the memory all connections share, the chunk itself is dropped
(`RecvDropped`).

`Server` is the life of many connections: both acceptors with their limits and
books, the reactor's table, close callbacks from three threads, the pool, and
`Stop` in the order of the code with the deadline of the pool.  `Register` succeeds
while the reactor runs (`LoopRuns`), since `IoReactor::Stop` holds `lifecycle_mutex_`
from end to end.  A descriptor number is free for reuse once it is closed.
`CloseCallback` strikes a connection out of both acceptors' books and out of the
statistics in one step: the descriptor is referenced until the callback returns, so
nobody can get its number in between.  `Stop` is modelled from the acceptors on
(`StopBegins`); what comes before, above all `HttpServer::Stop` with a join of
unbounded length (`server/http_server.cpp:562`), is over by then, so `StopTerminates`
speaks of the TCP and Unix side only.

### Client

The client library and the command line tool against one server: a round trip
sends a line and reads until `Length` (the framing of `protocol_transport.h`)
says that the answer is complete; a receive may be partial, time out while the
answer is on its way, or meet a closed socket.  Lines are records with the
command they answer.

The framing looks at the text of the command and at the first line.  `FramedKinds`
are the kinds of command for which that is enough.  `MisframedKinds` are those the
server accepts and the client delimits wrongly: `dumpinfo` (`DUMP INFO <path>`, and
`INFO`, `CACHE STATS` or `DUMP STATUS` with further words or spaces, which
`FrameForCommand` compares as a whole), `verify` (`CONFIG VERIFY` of a file that
breaks the schema: an error of several lines), `getempty` (`GET` of an empty
variable, whose payload line `NormalizeResponse` strips), `debugOnLoose` and
`debugOffLoose` (`DEBUG  ON`: the server changes its mode, the client does not
notice).  The run `threads` has the framed kinds; with any other kind TLC refutes
`AnswersTheCommand` (section 6).
Outside the model: values that contain line breaks, empty command lines (which the
server does not answer) and raw commands with a line break in them.

### RuntimeVariables

`SET` parses a text, applies the value and records a canonical text, under
`set_mutex_`; one boolean, one number and one immutable variable stand for all.

## 4. Runs

Components that share no state are checked side by side in one run: a variable
`part`, fixed initially, says which component a behaviour is about, and the
variables of the others keep their initial values.  The number of states is the
sum, not the product, of those of the parts.  What does relate components is in
the composing modules (`Recovery`, `CacheCoherence`, `EventIngest`,
`VectorIndex`, `WriteGate`).

| Run | Parts | Shows |
|---|---|---|
| `structures` | log | `AckedOnDisk`, `AckedReplayable`, `OwedBelowNext`, `RefusalExplained` with every error outcome, crash and power loss, both fsync modes |
| | cache | `IndexConsistent`; `ImplementsResultCache` |
| | file | `AckedSnapshotSurvives`, `AcceptedIsWhole` with a save, a child, crashes, power losses and a medium error |
| | codec | `CodecRoundTrip` over every kind of command and every cut |
| | variables | `ReportedInForce` with two concurrent `SET`s |
| `recovery_lock` | | `RecoversExactly`, `StartsUnlessGap` with locking saves (also over an existing file), loads, one automatic snapshot, three starts |
| `recovery_fork` | | `RecoversExactly` with client and scheduler saves, retention, orphaned children, two starts |
| `cache` | alone, together | `CurrentEntriesExact`, `FreshAnswers`: one fusion query at a time across two writes or loads; two SIMV side by side across one |
| `stores` | events | `Symmetric`, `StreamingEqualsBatch`, `NeighbourLimit`, `ReplayExact` |
| | vectors | `StoreMatchesWrites`, `AnswersCurrent`, `AnswersComplete` for HNSW and IVF |
| | gates | `SavesArePointInTime`, `FailStopHolds` for both save modes |
| `threads` | connection | `AnswersInOrder`; liveness `Answered`, `ClosingEnds` |
| | server | `Accounting`, `ReactorOutlivesUse`; liveness `StopTerminates` |
| | fork | `LogCoversUnsaved`; liveness `ChildrenReaped` |
| | tiers | `TiersHoldTruth`; liveness `MergerProgress` |
| | client | `AnswersTheCommand` for the framed kinds of command |

Runs that are expected to be violated; each shows that the code does not do what
a comment, a test or the documentation says of it (`PROJECT.json`, `findings`):

| Run | Violates | Shows |
|---|---|---|
| `wal_start` | `AlwaysStarts` | a failed header write leaves a segment that stops every later start |
| `recovery_reuse` | `NothingLost` | sequence numbers reused after a truncation of the whole log and a restart |
| `recovery_race` | `NothingLost` | checkpoint of an automatic snapshot covers a write its image lacks |
| `recovery_load` | `NothingResurrected` | crash inside DUMP LOAD replays rolled-back writes |
| `vectors_labels` | `AnswersMatchStore` | a rebuilt IVF index keeps labels of the old layout in its transient tiers |
| `conn_pipelined` | `PipelinedAnswered` | `DisarmWrite` after the unlock takes back the interest that a worker has just asked for |

Where such a defect exists the passing run excludes exactly its window and no
more: `gaps` in `Recovery`, `leftover` in `VectorIndex` (`AnswersCurrent` excuses
the labels in it), `faults` in `Connection`, `misfiled` and `overlapped` in
`ForkWriter`, `doubleClosed` in `Server`, `FramedKinds` in `Client`, `past.events` in `EventIngest`,
`TornImage` and the zero CRC in `SnapshotFile`.

Bounds.

* log: three numbers, four segments of two records, one operation: enough for a
  rotation, a truncated prefix, a torn tail below and in the newest segment, and
  restarts in between, since each start adds a segment.  One operation suffices
  because the log never looks at it.
* `recovery_*`: two or three numbers, four segments of one record, so that each
  write rotates and each truncation can empty the log; two writes, because with
  one the order of replay would not matter; two or three starts, because a wrong
  recovery base shows only at the start after the one that chose it.  Larger
  instances (three writes; three starts with three writes) were run once with the
  same result.  In `recovery_fork` the automatic names are symmetric.
* `cache`: writes and loads begin below two bumps (alone), and once (together),
  which admits a second write, or a load after a write; fusion reads all three
  stores and SIMV lacks the co-occurrence counter, so both kinds of key occur.
  The clients are symmetric.  The theorems cover every mix.
* cache structure: two keys, three items of which an entry tracks two, a limit of
  a few entries and three insertions, so that eviction, rejection and replacement
  under a key with a lookup pending all occur.
* file: one item, because the reader only relates vectors to metadata; two
  temporary inodes beside the one at the path, one save and one child, so that one
  may rename over the other.
* codec: four byte values (the magic number needs them), strings of length 0 and
  2, numbers of either sign, every type of metadata value.
* events: three items, two contexts of which one is kept, buffers and caches of
  two, three events out of six, one decay, one save, one restart; without limits,
  with one neighbour per item, and with support pruning and negative signals.
* vectors: three symmetric ids, four operations, thresholds of one and two, so
  that training, a second seal, a compaction and a rebuild happen within them; a
  sample size of one, so that a flat search of two rows is complete and one of three
  is a sample.
* gates: two requests beside the two schedulers, one record.  Two requests are
  what the properties need (one that waits, one that saves or loads).
* connection: three requests over a queue of two, so that the high watermark
  pauses reading; two workers; responses limited to two.  A fourth request, which lets
  a frame arrive behind one that was left over, makes the instance too large for the
  liveness properties; `AnswersInOrder` alone was run once with four, and the theorem
  has any number.
* server: three descriptors under a limit of two connections and one per address,
  one worker, both listeners.
* fork: three children and three callers (the scheduler, DUMP SAVE, DUMP STATUS): a
  late failure of the first save, the second in the making, the third reserved over
  it; and a third caller that writes a checkpoint after another has truncated.
* tiers: three ids, five operations, thresholds two and one third.
* client: three commands over two connections, with every framing of `FramedKinds`.

Deadlock is checked in the run of the cache protocol: no order of gates and
scripts may leave every handler waiting.  In the others it is not: they end when
their bounds are used up, when startup refused or when the server has stopped, as
the program does.

Fairness is weak fairness of threads inside the code, nothing more:

* `ConnFairness`: the reactor thread and each worker take a step that stays
  possible.  The operating system schedules them, and neither blocks without a
  wake-up in the model.  Nothing is assumed of the client except that it reads what
  it is sent, nor of the reaper.
* `ServerFairness`: an acceptor inside `AcceptLoop`'s body, `Stop`, and a worker
  with nothing to do after the shutdown.  How long a request takes is not assumed:
  `StopTerminates` holds because of the deadline.
* `ForkFairness`: the scheduler's loop ticks while the server runs and calls
  `CheckChild`; a child ends.  Nobody has to start a save.
* `TFairness`: the merge scheduler's thread; its wait has a timeout.

## 5. Proofs

`WalProofs` proves, for every number of segments, records per segment, sequence
numbers and operations, and for both fsync modes:

* `TypeCorrect`: `Spec => []TypeOK`;
* `NoAckedRecordLost`: `Spec => []AckedOnDisk`;
* `OwedNumbersNotReused`: `Spec => []OwedBelowNext`.

They rest on the assumption `WalConstants` alone.  `AckedOnDisk` is not
inductive: nothing in it says that a segment chosen by `Truncate` holds no owed
record above the checkpoint, or that an fsynced prefix contains what was
acknowledged.  The inductive invariant `IInv` adds

* `WellFormed(disk)`: a segment without header is empty, and `synced` does not
  exceed the length;
* `Current`: while there is a descriptor, the current segment is complete and no
  later one exists, so a rotation never overwrites records;
* `CatalogueCovers`: in a running process `current_sequence_`, and the catalogue
  entry of a segment when it is not 0, are at least every number in the segment,
  so what `Truncate` removes holds nothing above the checkpoint;
* `OwedSafe(disk)`: an owed record stands in some segment and, with
  `sync_on_write`, within its fsynced prefix.

One lemma per action shows that it preserves `IInv`; lemmas about `Repaired`,
`RepairedDisk`, `WithoutEmpty` and record updates carry the arithmetic of
sequences.  `IInv` itself was checked by TLC on the instance of the log before
it was proved.

`CacheProofs` proves, for any set of clients, any mix of requests and any number
of writes and loads, from `CoherenceConstants` alone:

* `CacheTypeCorrect`: `Spec => []TypeOK`;
* `CacheExact`: `Spec => []CurrentEntriesExact`;
* `AnswersFresh`: `Spec => []FreshAnswers`.

Neither property says anything about a query under way, so neither is inductive.
The invariant adds

* `CleanInv`: a counter vouches for the present version unless its store is dirty;
* `ScriptInv`: a dirty store has its bump still ahead in the script of the handler
  in the gate, invalidation comes last, and only a load swaps;
* `EntryInv`: within the present dataset no entry is ahead of a counter, and one
  that is level with it holds the vouched version (the co-occurrence counter is
  exempt while a load has replaced it and not yet bumped the dataset's);
* `QueryInv`: captured counters are not ahead; what was read under a counter that
  still stands is the vouched version or one in the making; and any entry a query
  may come to hit is at least as new as its `floor`.

`QueryMoves` and `QuietStep` carry the frame once for all query steps and for the
steps that leave the stores alone; the other lemmas are one per action.  TLC
checked the invariant on the instances of the run before it was proved.

The second part of `WalProofs` proves, again from `WalConstants` alone:

* `RefusedOnlyDamaged`: `Spec => []RefusalExplained`;
* `OwedReplayable`: `Spec => []AckedReplayable`.

`IInv` says that records stay on disk; whether a start accepts them depends on
which numbers stand next to each other.  `ReplayInv` looks at what the segments
hold once a torn tail is cut off:

* `ContentOK`: torn bytes stand at the end of a segment only, and the numbers of one
  segment follow each other;
* `RunningOK`: in a running process the numbers grow from segment to segment, the
  catalogue has the last one of each, and a gap lies below all that is owed;
* `WritingOK`: the next number follows the last one on disk, unless `Truncate`
  removed newer segments and could not remove an older one;
* `UndamagedOK`: without one of the named events the directory is one that the scan
  of `Open` accepts.

"The next segment that holds records" needs a least number; `LeastNumber` and
`GreatestNumber` derive it from the well-foundedness of the naturals, which takes
the place of an induction.

`GateProofs` proves about `WriteGate`, for any set of request threads and any
number of records, from `GateAssumption`:

* `SavesConsistent`: `GateSpec => []SavesArePointInTime`;
* `FailStopKept`: `GateSpec => []FailStopHolds`.

The invariant says where each thread of each role can be (`ThreadsOK`), which
mutexes it holds there and that they exclude each other (`LocksOK`), which flag it
set and will clear (`FlagsOK`), and from that what the stores hold between the
append and the application of a record (`StoresOK`), what an image holds between
the two steps of a save (`ImageOK`), and that nobody is past the second look at
`loading` after a failed load (`StoppedOK`).

The same module proves `ReportsInForce`: `VariablesSpec => []ReportedInForce`, for
any set of connections that send SET.  The property speaks of the moments without a
SET; the invariant (`SettersOK`, `ValuesOK`) of those within one: the holder of
`set_mutex_` is the only connection at work, and between applying and recording its
variable is the only one reported wrongly.  `RoundTrip` shows that the canonical
text of a value parses to it.

The last part of `GateProofs` proves `LogCovered`: `ForkSpec => []LogCoversUnsaved`, for
any finite set of callers and any number of saves, from `ForkWriterAssumption`.  The proof
corrected the property.  It used to be one statement with the excuse `overlapped`;
the attempt left a case open, and TLC confirmed it once there were three callers: a
caller that settles while the next save is reserved and not yet published takes
sequence 0 and that save's path, and its checkpoint may land after another caller
has truncated.  The property now has two halves, each with its own excuse, and the
invariant has one part for each: `UnmixedOK` (while no two saves were started at
once a sequence goes with its save) and `FiledOK` (while every status was written
for its own save a checkpoint is exact).  `StartsOK`, `PidsOK` and `CurrentOK` say
who may wait for which process.

`SnapshotProofs` proves about `SnapshotFile`, for any identifiers, any number of
saves, children and inodes, from `SnapshotFileAssumption`:

* `SavedSurvives`: `FileSpec => []AckedSnapshotSurvives`;
* `OnlyWholeRead`: `FileSpec => []AcceptedIsWhole`.

The first rests on what the path may name after a power loss: each such inode was
fsynced and is whole (`DurableOK`), is no unpublished writer's (`AloneOK`), and is
as recent as what was acknowledged (`AckedOK`, `RenamedOK`); `StagesOK` says how far
the file of each writer is.  The second rests on `MarkedOK`, the checksums of a file
are those of its image whatever happened to the data, and on lemmas about the
reader alone: a CRC determines size, names and data, a file that verifies is whole,
and a whole file is read unless its image is torn.

`ServerProofs` proves about `Server`, for any finite set of descriptors, any
addresses, workers and limits, from `ServerAssumption`:

* `BooksAgree`: `ServerSpec => []Accounting`;
* `ReactorFreedLast`: `ServerSpec => []ReactorOutlivesUse`.

A descriptor is in one place (`PlacesOK`), each connection of the reactor is in the
books of an acceptor that will not strike it out (`EntriesOK`, `OwnersOK`), the
statistics and the count per address are cardinalities (`StatisticsOK`,
`LimitsOK`), and each phase of `Stop` leaves less behind (`StopOK`).

`ConnectionProofs` proves `AnsweredInOrder`: `ConnSpec => []AnswersInOrder`, for any
finite set of workers, any watermarks and any limits of the queues, from
`ConnectionAssumption`.  The argument counts: a request is its number, and the
number of answers given, of requests at hand and of requests ahead in the queue add
up to the one before it (`OrderOK`).  `DrainOK` keeps one worker in the loop.
Frames left over after a full queue stay in front of what arrives later, so that
reading may go on; only a dropped chunk breaks the count, and `DroppedOK` says that
nothing is framed after it.  It is inductive only with `PauseOK`, because the worker
that ends a pause turns reading on again.  A
drain that ends on a full response queue loses the request at hand, which no answer
ever shows, because `drain_scheduled_` stays set.

The second part of `ConnectionProofs` proves `ClientReturnsItsAnswer`:
`ClientSpec => []AnswersTheCommand`, for any number of commands, sessions, items and
retries, from `ClientAssumption` and `CommandKinds \subseteq FramedKinds`.  The
hypothesis is needed: with any of `MisframedKinds` the property fails (section 6).  `FramingIsExact` is
the heart of it: for each kind of command and each answer the server may give, the
framing reports the answer complete when its last line is there and not a line
before.  `ClientInv` says that buffer and wire hold together the answer under way,
nothing between round trips, and that both ends agree on the debug mode whenever a
command is sent; a time-out disconnects, which is why a late answer has no buffer to
reach.

`VectorProofs` proves about `VectorIndex`, for any ids, thresholds and number of
operations and both kinds of index, from the assumptions of its constants:

* `SearchesAnswerCurrentVectors`: `VSpec => []AnswersCurrent`;
* `ExactSearchesMissNoVector`: `VSpec => []AnswersComplete`, for any `SampleSize`: what
  it says of a flat search it says of one that does not sample;
* `StoresMatchAcceptedWrites`: `VSpec => []StoreMatchesWrites`, if `IncludeVectors`.

A label names a row of one layout, and neither property of the answers says anything
about a search under way.  `AnswersInv` adds where each handler and thread can be
and what it has still to do (`WriterFits`, `ThreadFits`), that a published index
belongs to the generation it was built against (`Generations`), that its tiers hold
the labels of the live rows but for the one the writer has still to notify
(`IndexMatches`), and what the candidates of a search are good for once the layout
moved on (`SearchFits`).  `WritesInv` speaks of a history of images: there is a sequence of
contents, one after each logged record from the snapshot on, each of which follows
from the one before by the operation of its record; the last one is what was
accepted, and replay walks along it.  Without `wal.include_vectors` the theorem is
false (`server/request_dispatcher.cpp:825`, section 6): the hypothesis is a setting
of the server, its default.

The same module proves `TiersAgree`: `TSpec => []TiersHoldTruth`, for any ids and
thresholds.  `TierInv` says that the id map and the two tiers are inverse to each
other (`LocationsFit`), that an index over main covers its live rows
(`IndexReaches`) and that the contents are those written.  Both proofs rest on
`RankIsBijection`: compaction loses no row and writes none twice.

`IndexProofs` proves about `EventIngest`, for any finite set of items, any events,
configurations and sizes of buffers, from `CoOccurrenceConstants` and
`IngestConstants`:

* `MatrixStaysSymmetric`: `ESpec => []Symmetric`;
* `NeighboursLimited`: `ESpec => []NeighbourLimit`.

`IngestInv` says of the matrix and of its saved copy that they are balanced and
within the limit (`MatrixFits`), and that buffers, log, image and the request under
way hold events (`StoreFits`, `Rings`), since a pair of anything else would add an
entry outside the matrix.  The index is made of loops.  That a loop has a result for
any number of rounds (the lemmas `...Rounds`) and that each round keeps what the last
one left (`PairsAdded`, `ItemsPruned` and the like) is shown without an induction: if a
round broke it there would be a least such round (`NoLeastFailure`), by the
well-foundedness of the naturals.  `ItemsPruned` has the point that is easy to get
wrong: an item pruned early stays within its limit while the others are pruned,
because pruning only removes, and `AffectedIds` leaves out no item whose row grew.  The
limit is that of the property: negative signals, applied after the pruning, are off.

The same module proves about `SimilarityCache`, for any finite sets of keys and items,
any values, item lists, limits, batch sizes and readers, from `CacheConstants`:

* `CacheStructuresAgree`: `SimSpec => []IndexConsistent`;
* `CacheImplementsResultCache`: `SimSpec => ImplementsResultCache`, the refinement.

`SimInv` says that list, index and map agree (`Sound`), that the accounted total is the
estimate of what is there (`Accounted`) and within the limit, that no entry was created at
tick 0 (`Dated`), and that a lookup between its locks names a tick that is not 0
(`Lookups`).  The last two are what makes the second half of a lookup safe: a key erased in
between has `created_at` 0 in the model, so that it cannot pass for the entry seen.
`Sound(c, X)` leaves out the rows of the items in X, because `InvalidateByItemId` drops the
row of its item before it erases the entries; `InvalidateKept` shows that the index is exact
again at the end, and that exactly the entries of the item went.  `EvictKeeps` shows that
the eviction frees what is required or empties the list, and then the estimate is 0: here
the total, the list and the index are needed together.  The estimate is a sum over finite
sets; `SumIsRun` takes it apart, `SumRunAnyFirst` shows that the order of the terms does
not matter and `SumShrinks` that an erasure never makes it larger, so that erasing keeps the
total within the limit.  The refinement has a lemma per action (`...Refines`): second halves
of lookups, purges and expiry forget answers, `MarkInvalidated` is an erasure, everything
else is the operation of the same name.

Every inductive invariant was checked by TLC on an instance before it was proved.

Only model-checked:

* liveness under fairness, which the prover does not do: `Answered`, `ClosingEnds`,
  `StopTerminates`, `ChildrenReaped`, `MergerProgress`;
* what a recursion or a fold computes for every input, which would be an induction
  over data: `StreamingEqualsBatch` and `ReplayExact` (they compare the results of two
  loops, where `IndexProofs` only needs what a loop keeps) and `CodecRoundTrip`;
* `RecoversExactly` and `StartsUnlessGap`: a proof would have to carry the
  invariants of the log, of the snapshot and of the sidecar through one state;
* the type invariants of the composed instances `MCStores`, `MCThreads` and
  `Recovery`.

## 6. Abstractions and what is not modelled

* All records have one size; rotation depends on a record count.  In `Wal` byte
  layout, CRC and length checks are represented by "complete" or "torn"; silent
  corruption of complete records is not modelled there.
* Creation and removal of log segments are durable at once and in order (the code
  fsyncs the directory after both).  The ftruncate of a torn tail is not fsynced by
  the code; the model lets it take effect at once.
* A failed fsync leaves the record in the file or not; it does not lose older
  synced records.
* In `Recovery` the rename inside snapshot and sidecar writes is atomic and
  durable (`SnapshotFile` has its steps); DUMP LOAD swaps its four stores in one
  step; at most one snapshot child exists, and one `CheckChild` call past `waitpid`
  (`ForkWriter` has several); no power loss (`WalLifecycle` has it); `sync_on_write`
  is on; `wal.enabled` is on.  A graceful `Stop` differs from a crash only by the
  final fsync, so it has the crash alone.
* In `WriteGate` records are numbers, the log is always enabled, and the swap of a
  load is one step, since it holds both gates.
* A search in `CacheCoherence` sees a store through versions; the ANN index counts
  as part of the vector store.  That IVF training in the background may change an
  approximate result without any write is outside it.
* In `SimilarityCache` a result is its size, time is whether an entry has expired,
  and no two entries have the same `created_at`; statistics and compression are
  left out.
* In `VectorIndex` a search returns every candidate it reads; which of them are
  nearest, and how many lists a probe visits, is left out (`search.exact` marks the
  answers that a probe of all lists, or a scan of all rows, makes complete).  Training and rebuilding are one step
  each under the index's exclusive lock.
* In `EventIngest` one ingestion is atomic between its two gates, as the code's
  serialization gate makes it; a snapshot and its truncation are one step.
* In `Connection` byte budgets are lengths of queues, and a client always reads.

Not modelled, with the reason in `PROJECT.json`: configuration, command and filter
parsing, HTTP routing and JSON, the C wrapper of the client, logging (text
without shared state); distance kernels, quantizer and the geometry of the ANN
indexes (floating point); compressor and MD5 (byte transformations); the rate
limiter (one mutex, a clock); the blocking connection handler (one thread, one
socket, superseded by the reactor); reports (INFO, statistics, metrics).

Defects that were met and that no run of their own demonstrates:

* `client/protocol_transport.h:154`: an answer that begins with `ERROR` is taken for one
  line.  `CONFIG VERIFY` of a file that breaks the schema answers with an error of many
  lines (`server/handlers/admin_handler.cpp:84`, `config/config.cpp:491`); the rest
  stays in `response_buffer_` and is returned as the answer to the next command
  (`CommandKinds = {"one", "verify"}` violates `ReturnsTheAnswer` with two commands).
* `client/protocol_transport.h:50`: the framing knows the commands whose answer ends in
  `END` by their whole text, CONFIG excepted.  `DUMP INFO <path>` is none of them, nor
  is `INFO`, `CACHE STATS` or `DUMP STATUS` with further words or spaces: the client
  returns the first line and keeps the rest for the next command (`{"one", "dumpinfo"}`
  violates `ReturnsTheAnswer`).  The comment at `client/nvecdclient.h:46` promises "the
  exact byte length of the first complete response".
* `server/reactor_connection.cpp:287`: `NormalizeResponse` strips all line breaks at the
  end of an answer, and with them the payload line of an empty bulk string; a client
  that sends `GET logging.file` while the log goes to stdout has the whole answer and
  waits until its time-out closes the connection (`{"getempty"}` violates
  `WaitsForNoMore`).
* `client/nvecdclient.cpp:313`: the client follows the debug mode only if the command
  is the exact text `DEBUG ON` or `DEBUG OFF`; the server also takes it with more
  spaces.  After that the debug block of a `SIM` is returned as the answer to the next
  command, or the client waits for a block that does not come (`{"sim",
  "debugOnLoose"}` and `{"sim", "debugOn", "debugOffLoose"}` violate
  `AnswersTheCommand`).
* `events/event_store.cpp:131`: replay goes through the deduplication caches again.
  When a cache had evicted, when an event older than the window was accepted or
  when a context was evicted, a restart can keep or drop other events than the
  running server did (`ReplayRecovers` without the excuses of `ReplayExact`).
* `server/request_dispatcher.cpp:825`: with `wal.include_vectors` off, VECSET is not
  logged but METASET and VECDEL of the same item are; replay refuses them and the
  server does not start (`IncludeVectors = FALSE` violates `StoreMatchesWrites`).
* `storage/snapshot_fork.cpp:322`: a late failure of a checkpoint or truncation
  overwrites the status of the save that began meanwhile; a third save can then be
  reserved while the second forks, and its checkpoint is paired with the wrong
  image (`overlapped` in `LogCoversUnsaved`).  With three callers a settle that falls
  between the reservation and the publication of the next save takes its sequence 0,
  and may write it over a checkpoint the log was already cut to (`misfiled`).
* `storage/wal_checkpoint.cpp:120`: two overlapping fork-mode saves to one path: the
  sidecar of the first is written after the image of the second.
* `server/request_dispatcher.cpp:420`: an automatic snapshot forked between the
  removal of a vector and of its metadata is an image that `ReadSnapshotV1` refuses
  (`TornImage`).
* `storage/snapshot_format_v1.cpp:267`: a file whose CRC happens to be 0 is refused
  as one without CRC.
* `server/handlers/dump_handler.cpp:124`: the `FlagResetGuard` of a save clears
  `read_only` also when a failed write or a failed load has set it meanwhile; decay,
  which looks at `read_only` only, then runs on.
* `server/request_dispatcher.cpp:122`: a writer that waits for the serialization
  gate does not look at `read_only` again after another write failed in it.
* `server/handlers/dump_handler.cpp:130`: the exclusive gate of a locking save can be
  delayed without limit by overlapping SIM queries, while `read_only` refuses every
  write: nothing in `std::shared_mutex` prefers the writer.
* `server/connection_acceptor.cpp:538`: when the hand-off of a socket fails, the
  connection object closes the descriptor and the accept loop closes it again; in
  between the other acceptor may have been given the same number (`doubleClosed`).
* `server/reactor_connection.cpp:137`: reading is switched off after a worker has
  already resumed it, and stays off (`ReadRace`); `:246`: a worker at the end of its
  drain closes a half-closed connection while another drains what came since
  (`TailRace`).
* `server/wal_codec.cpp`: a VECSET payload that ends right after its vector decodes as
  one without metadata; a legacy METASET whose filter has the length of the magic
  number reads as typed metadata.  Only the CRC of the record stands between.
