----------------------------- MODULE WriteGate -----------------------------
(***************************************************************************)
(* The flags and gates between commands, snapshots and maintenance.         *)
(* read_only and loading are atomics that anyone may read; the snapshot     *)
(* gate is a shared mutex that writes and queries hold shared, and a        *)
(* lock-mode DUMP SAVE and a DUMP LOAD hold exclusively; the serialization  *)
(* gate is a mutex that one write holds through its append and its apply.   *)
(* A flag is checked before the gate and again under it, and the owner of a *)
(* flag clears it with a FlagResetGuard after it has left the gate.         *)
(*                                                                          *)
(* read_only is two things: the mark of a save in progress, and the latch   *)
(* that a failed append or apply leaves behind.                             *)
(***************************************************************************)
EXTENDS Integers, FiniteSets

CONSTANTS
  Requests,    \* threads that run commands
  MaxRecords   \* bound: records appended to the log

ASSUME GateAssumption == MaxRecords \in Nat /\ Requests \cap {"snapshots", "decay"} = {}

VARIABLES
  save_mode,            \* snapshot.mode: "save" under the lock, or "fork"
  read_only, loading,   \* HandlerContext's flags
  gate,                 \* snapshot_write_gate: its shared and exclusive holders
  serial,               \* the holder of write_serialization_gate, if any
  running,              \* what each thread runs and where it is
  appended,             \* records appended
  reflected,            \* the records the stores reflect ...
  base,                 \* ... on top of the snapshot loaded at this sequence
  broken,               \* records that were appended but could not be applied
  taken                 \* what the DUMP SAVE in progress has written, none before

gateVars == <<save_mode, read_only, loading, gate, serial, running, appended, reflected, base, broken, taken>>

GateThreads == Requests \cup {"snapshots", "decay"}

At(t, role, pc) == running[t].role = role /\ running[t].pc = pc
Idling == [role |-> "none", pc |-> "idle"]
Become(t, role, pc) == running' = [running EXCEPT ![t] = IF pc = "idle" THEN Idling ELSE [role |-> role, pc |-> pc]]
Goto(t, pc) == Become(t, running[t].role, pc)
Asleep(t) == running[t] = Idling

flags == <<read_only, loading>>
locks == <<gate, serial>>
data == <<save_mode, appended, reflected, base, broken, taken>>

NoImage == [base |-> 0, upto |-> 0, content |-> {}]

GateInit ==
  /\ save_mode \in {"save", "fork"}
  /\ read_only = FALSE /\ loading = FALSE
  /\ gate = [shared |-> {}, exclusive |-> {}] /\ serial = {}
  /\ running = [t \in GateThreads |-> Idling]
  /\ appended = 0 /\ reflected = {} /\ base = 0 /\ broken = {}
  /\ taken = NoImage

(* The guards of a scope are destroyed: both gates are given up             *)
Release(t) ==
  /\ gate' = [gate EXCEPT !.shared = @ \ {t}, !.exclusive = @ \ {t}]
  /\ serial' = serial \ {t}

Reply(t) == Release(t) /\ Goto(t, "idle") /\ UNCHANGED data

-----------------------------------------------------------------------------
(* Dispatch: EVENT, VECSET, VECDEL, METASET are writes; SIM and SIMV are    *)
(* queries, held back by a load but not by a save.  The HTTP handlers test  *)
(* the flags in the same places.                                            *)

CheckLoading(t, role, next) ==
  /\ IF loading THEN Become(t, role, "idle") ELSE Become(t, role, next)
  /\ UNCHANGED <<flags, locks, data>>

DispatchWrite(t) == Asleep(t) /\ CheckLoading(t, "write", "check")
DispatchSim(t) == Asleep(t) /\ CheckLoading(t, "sim", "gate")

(* DUMP is an administrative command: read_only refuses it as it does a write *)
DispatchDump(t, role) ==
  /\ Asleep(t)
  /\ IF read_only THEN Become(t, role, "idle") ELSE Become(t, role, "start")
  /\ UNCHANGED <<flags, locks, data>>

(* Over HTTP the handler is called at once                                  *)
HttpDump(t, role) ==
  /\ Asleep(t) /\ Become(t, role, "start")
  /\ UNCHANGED <<flags, locks, data>>

CheckReadOnly(t) ==
  /\ At(t, "write", "check")
  /\ Goto(t, IF read_only THEN "idle" ELSE "gate")
  /\ UNCHANGED <<flags, locks, data>>

(* std::shared_lock: a waiting exclusive owner does not keep it out         *)
AcquireShared(t) ==
  /\ running[t].role \in {"write", "sim", "fork", "decay"} /\ running[t].pc = "gate"
  /\ gate.exclusive = {}
  /\ gate' = [gate EXCEPT !.shared = @ \cup {t}]
  /\ Goto(t, IF running[t].role = "decay" THEN "serial" ELSE "recheck")
  /\ UNCHANGED <<flags, serial, data>>

\* Mutant: loading is not looked at again under the gate.
NoRecheck(t) ==
  /\ running[t].pc = "recheck"
  /\ Goto(t, CASE running[t].role = "write" -> "recheckReadOnly"
               [] running[t].role = "sim" -> "compute"
               [] OTHER -> "serial")
  /\ UNCHANGED <<flags, locks, data>>

RecheckLoading(t) ==
  /\ running[t].pc = "recheck"
  /\ IF loading THEN Reply(t) /\ UNCHANGED flags
     ELSE /\ Goto(t, CASE running[t].role = "write" -> "recheckReadOnly"
                       [] running[t].role = "sim" -> "compute"
                       [] OTHER -> "serial")
          /\ UNCHANGED <<flags, locks, data>>

RecheckReadOnly(t) ==
  /\ running[t].pc = "recheckReadOnly"
  /\ IF read_only THEN Reply(t) /\ UNCHANGED flags
     ELSE Goto(t, "serial") /\ UNCHANGED <<flags, locks, data>>

Compute(t) == At(t, "sim", "compute") /\ Reply(t) /\ UNCHANGED flags

\* Mutant: a fork-mode save forks without waiting for the write in progress.
ForksUnserialized(t) ==
  /\ running[t].pc = "serial" /\ (serial = {} \/ running[t].role = "fork")
  /\ serial' = IF running[t].role = "fork" THEN serial ELSE {t}
  /\ Goto(t, CASE running[t].role = "write" -> "append"
               [] running[t].role = "decay" -> "check"
               [] running[t].role = "fork" -> "fork"
               [] running[t].role = "load" -> "swap")
  /\ UNCHANGED <<flags, gate, data>>

AcquireSerial(t) ==
  /\ running[t].pc = "serial" /\ serial = {}
  /\ serial' = {t}
  /\ Goto(t, CASE running[t].role = "write" -> "append"
               [] running[t].role = "decay" -> "check"
               [] running[t].role = "fork" -> "fork"
               [] running[t].role = "load" -> "swap")
  /\ UNCHANGED <<flags, gate, data>>

(* AppendToWal, and the append of a maintenance record                      *)
AppendRecord(t) ==
  /\ running[t].pc = "append" /\ appended < MaxRecords
  /\ appended' = appended + 1
  /\ Goto(t, "apply")
  /\ UNCHANGED <<save_mode, flags, locks, reflected, base, broken, taken>>

AppendFails(t) ==
  /\ running[t].pc = "append"
  /\ read_only' = TRUE
  /\ Reply(t) /\ UNCHANGED loading

ApplyRecord(t) ==
  /\ running[t].pc = "apply"
  /\ reflected' = reflected \cup {appended}
  /\ Release(t) /\ Goto(t, "idle")
  /\ UNCHANGED <<save_mode, flags, appended, base, broken, taken>>

(* ApplyDecay and Prune cannot fail; the store of a write can refuse        *)
ApplyRefused(t) ==
  /\ At(t, "write", "apply")
  /\ broken' = broken \cup {appended}
  /\ read_only' = TRUE
  /\ Release(t) /\ Goto(t, "idle")
  /\ UNCHANGED <<save_mode, loading, appended, reflected, base, taken>>

-----------------------------------------------------------------------------
(* HandleDumpSave, in lock mode ("save") and in fork mode ("fork").         *)

SaveStarts(t) ==
  /\ running[t].role \in {"save", "fork"} /\ running[t].pc = "start"
  /\ Goto(t, CASE loading -> "idle" [] ~loading /\ running[t].role = "fork" -> "gate" [] OTHER -> "reserve")
  /\ UNCHANGED <<flags, locks, data>>

(* compare_exchange_strong on read_only, for DUMP SAVE and for the          *)
(* scheduler's TakeSnapshot                                                 *)
ReserveReadOnly(t) ==
  /\ running[t].role \in {"save", "auto"} /\ running[t].pc = "reserve"
  /\ Goto(t, CASE read_only -> "idle" [] ~read_only /\ running[t].role = "save" -> "exclusive" [] OTHER -> "fork")
  /\ read_only' = TRUE
  /\ UNCHANGED <<loading, locks, data>>

AcquireExclusive(t) ==
  /\ running[t].pc = "exclusive"
  /\ gate.shared = {} /\ gate.exclusive = {}
  /\ gate' = [gate EXCEPT !.exclusive = {t}]
  /\ Goto(t, IF running[t].role = "load" THEN "serial" ELSE "capture")
  /\ UNCHANGED <<flags, serial, data>>

(* WriteSnapshotWithLock: the sequence, then the stores                     *)
CaptureSequence(t) ==
  /\ At(t, "save", "capture")
  /\ taken' = [taken EXCEPT !.base = base, !.upto = appended, !.content = {}]
  /\ Goto(t, "write")
  /\ UNCHANGED <<save_mode, flags, locks, appended, reflected, base, broken>>

WriteImage(t) ==
  /\ At(t, "save", "write")
  /\ taken' = [taken EXCEPT !.content = reflected]
  /\ Release(t) /\ Goto(t, "clear")
  /\ UNCHANGED <<save_mode, flags, appended, reflected, base, broken>>

ForkImage(t) ==
  /\ At(t, "fork", "fork")
  /\ taken' = [base |-> base, upto |-> appended, content |-> reflected]
  /\ Release(t) /\ Goto(t, "reply")
  /\ UNCHANGED <<save_mode, flags, appended, reflected, base, broken>>

ForkReplies(t) ==
  /\ At(t, "fork", "reply") /\ Goto(t, "idle")
  /\ taken' = NoImage
  /\ UNCHANGED <<save_mode, flags, locks, appended, reflected, base, broken>>

(* ~FlagResetGuard, of a save and of the scheduler                          *)
ClearReadOnly(t) ==
  /\ running[t].role \in {"save", "auto"} /\ running[t].pc = "clear"
  /\ read_only' = FALSE
  /\ Goto(t, "idle")
  /\ taken' = IF running[t].role = "save" THEN NoImage ELSE taken
  /\ UNCHANGED <<save_mode, loading, locks, appended, reflected, base, broken>>

-----------------------------------------------------------------------------
(* HandleDumpLoad.                                                          *)

ReserveLoading(t) ==
  /\ At(t, "load", "start")
  /\ Goto(t, IF loading THEN "idle" ELSE "check")
  /\ loading' = TRUE
  /\ UNCHANGED <<read_only, locks, data>>

(* A save is in progress, or the file is refused: ~FlagResetGuard           *)
LoadGivesUp(t) ==
  /\ At(t, "load", "check") /\ Goto(t, "clear")
  /\ UNCHANGED <<flags, locks, data>>

LoadStaged(t) ==
  /\ At(t, "load", "check") /\ ~read_only
  /\ Goto(t, "exclusive")
  /\ UNCHANGED <<flags, locks, data>>

(* SwapState of the stores; the checkpoint names the last sequence          *)
SwapStores(t) ==
  /\ At(t, "load", "swap")
  /\ reflected' = {} /\ base' = appended
  /\ Goto(t, "durable")
  /\ UNCHANGED <<save_mode, flags, locks, appended, broken, taken>>

LoadDurable(t) ==
  /\ At(t, "load", "durable")
  /\ Release(t) /\ Goto(t, "clear")
  /\ UNCHANGED <<flags, data>>

FailStop(t) ==
  /\ At(t, "load", "durable")
  /\ read_only' = TRUE /\ loading' = TRUE
  /\ Reply(t)

ClearLoading(t) ==
  /\ At(t, "load", "clear")
  /\ loading' = FALSE
  /\ Goto(t, "idle")
  /\ UNCHANGED <<read_only, locks, data>>

-----------------------------------------------------------------------------
(* The threads of the schedulers.  TakeSnapshot forks under the locks of    *)
(* the stores only; what its image holds is ForkWriter's and Recovery's     *)
(* matter.                                                                  *)

TakeSnapshot ==
  /\ Asleep("snapshots") /\ Become("snapshots", "auto", "reserve")
  /\ UNCHANGED <<flags, locks, data>>

StartBackgroundSave ==
  /\ At("snapshots", "auto", "fork") /\ Goto("snapshots", "clear")
  /\ UNCHANGED <<flags, locks, data>>

DecayDue ==
  /\ Asleep("decay") /\ Become("decay", "decay", "gate")
  /\ UNCHANGED <<flags, locks, data>>

DecayCheck ==
  /\ At("decay", "decay", "check")
  /\ IF read_only THEN Reply("decay") /\ UNCHANGED flags
     ELSE Goto("decay", "append") /\ UNCHANGED <<flags, locks, data>>

GateArrives(t) ==
  DispatchWrite(t) \/ DispatchSim(t) \/ \E role \in {save_mode, "load"} : DispatchDump(t, role) \/ HttpDump(t, role)

GateStep(t) ==
  \/ CheckReadOnly(t) \/ RecheckLoading(t) \/ RecheckReadOnly(t) \/ Compute(t)
  \/ AppendRecord(t) \/ AppendFails(t) \/ ApplyRecord(t) \/ ApplyRefused(t)
  \/ SaveStarts(t) \/ ReserveReadOnly(t) \/ CaptureSequence(t) \/ WriteImage(t) \/ ForkImage(t) \/ ForkReplies(t)
  \/ ClearReadOnly(t)
  \/ ReserveLoading(t) \/ LoadGivesUp(t) \/ LoadStaged(t) \/ SwapStores(t) \/ LoadDurable(t) \/ FailStop(t)
  \/ ClearLoading(t)
  \/ t = "snapshots" /\ StartBackgroundSave
  \/ t = "decay" /\ DecayCheck

GateAcquires(t) == AcquireShared(t) \/ AcquireSerial(t) \/ AcquireExclusive(t)

GateNext ==
  \/ \E t \in Requests : GateArrives(t)
  \/ TakeSnapshot \/ DecayDue
  \/ \E t \in GateThreads : GateStep(t) \/ GateAcquires(t)

GateSpec == GateInit /\ [][GateNext]_gateVars

-----------------------------------------------------------------------------
(* Flags, holders and records keep their shape.                             *)
GateTypeOK ==
  /\ read_only \in BOOLEAN /\ loading \in BOOLEAN
  /\ gate.shared \subseteq GateThreads /\ gate.exclusive \subseteq GateThreads
  /\ gate.exclusive # {} => gate.shared = {} /\ Cardinality(gate.exclusive) = 1
  /\ Cardinality(serial) <= 1
  /\ appended \in 0..MaxRecords /\ reflected \subseteq 1..appended /\ broken \subseteq 1..appended
  /\ base <= appended

(* "A true point-in-time image rather than a mix of pre/post-barrier        *)
(* updates": what a DUMP SAVE writes, in lock mode and in fork mode, is the *)
(* loaded snapshot with every record up to the sequence it captured, and    *)
(* with no later one; short only of the records whose apply was refused.    *)
SavesArePointInTime ==
  \A t \in Requests :
    At(t, "save", "clear") \/ At(t, "fork", "reply") => taken.content = (taken.base + 1 .. taken.upto) \ broken

(* A load that could not be made durable has left loading behind            *)
Stopped == loading /\ \A t \in Requests : running[t].role = "load" => running[t].pc = "start"

(* "Do not reopen the server on a state whose recovery base is uncertain":  *)
(* after such a load no request reads or changes the stores, not even one   *)
(* that had passed the flags and was waiting for the gate.  (A lock-mode    *)
(* DUMP SAVE may have passed them too, and does not look again.)            *)
FailStopHolds ==
  Stopped => \A t \in Requests : running[t].pc \notin {"append", "apply", "compute", "fork"}
=============================================================================
