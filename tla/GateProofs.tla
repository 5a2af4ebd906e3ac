----------------------------- MODULE GateProofs -----------------------------
(***************************************************************************)
(* Theorems about what commands of several connections do at once.  About  *)
(* WriteGate, for any number of threads that run commands and any number   *)
(* of records: what a DUMP SAVE writes is one state of the stores, and a   *)
(* load that could not be made durable keeps every request away from them. *)
(* About RuntimeVariables, for any number of connections that send SET:    *)
(* what is reported is in force.                                           *)
(* About ForkWriter, for any number of callers and saves: the log is not   *)
(* cut beyond what a published snapshot holds and its checkpoint says, but *)
(* for the two mix-ups that the model names.                               *)
(***************************************************************************)
EXTENDS WriteGate, RuntimeVariables, ForkWriter, FiniteSetTheorems, TLAPS

-----------------------------------------------------------------------------
(* The inductive invariant.                                                 *)

\* The states s a thread t can be in.
Allowed(t, s) ==
  \/ s.role = "none" /\ s.pc = "idle"
  \/ /\ t \in Requests /\ s.role = "write"
     /\ s.pc \in {"check", "gate", "recheck", "recheckReadOnly", "serial", "append", "apply"}
  \/ t \in Requests /\ s.role = "sim" /\ s.pc \in {"gate", "recheck", "compute"}
  \/ /\ t \in Requests /\ s.role = "fork" /\ save_mode = "fork"
     /\ s.pc \in {"start", "gate", "recheck", "serial", "fork", "reply"}
  \/ /\ t \in Requests /\ s.role = "save" /\ save_mode = "save"
     /\ s.pc \in {"start", "reserve", "exclusive", "capture", "write", "clear"}
  \/ /\ t \in Requests /\ s.role = "load"
     /\ s.pc \in {"start", "check", "exclusive", "serial", "swap", "durable", "clear"}
  \/ t = "snapshots" /\ s.role = "auto" /\ s.pc \in {"reserve", "fork", "clear"}
  \/ t = "decay" /\ s.role = "decay" /\ s.pc \in {"gate", "serial", "check", "append", "apply"}

\* What a thread in state s holds: the gate, shared or exclusively, and the
\* serialization gate; and which flag it set and will clear.
SharedAt(s) ==
  \/ s.role \in {"write", "sim", "fork"}
     /\ s.pc \in {"recheck", "recheckReadOnly", "compute", "serial", "append", "apply", "fork"}
  \/ s.role = "decay" /\ s.pc \in {"serial", "check", "append", "apply"}

ExclusiveAt(s) ==
  \/ s.role = "save" /\ s.pc \in {"capture", "write"}
  \/ s.role = "load" /\ s.pc \in {"serial", "swap", "durable"}

SerialAt(s) ==
  \/ s.role \in {"write", "decay"} /\ s.pc \in {"append", "apply"}
  \/ s.role = "decay" /\ s.pc = "check"
  \/ s.role = "fork" /\ s.pc = "fork"
  \/ s.role = "load" /\ s.pc \in {"swap", "durable"}

OwnsReadOnly(s) ==
  \/ s.role = "save" /\ s.pc \in {"exclusive", "capture", "write", "clear"}
  \/ s.role = "auto" /\ s.pc \in {"fork", "clear"}

OwnsLoading(s) == s.role = "load" /\ s.pc # "start"

Roles == {"none", "write", "sim", "fork", "save", "load", "auto", "decay"}
Pcs == {"idle", "check", "gate", "recheck", "recheckReadOnly", "compute", "serial", "append", "apply",
        "start", "reserve", "exclusive", "capture", "write", "clear", "fork", "reply", "swap", "durable"}
ThreadStates == [role : Roles, pc : Pcs]

ThreadsOK ==
  /\ save_mode \in {"save", "fork"}
  /\ running \in [GateThreads -> ThreadStates]
  /\ \A t \in GateThreads : Allowed(t, running[t])

\* The mutexes: who is where, and what keeps the others out.
LocksOK ==
  /\ gate \in [shared : SUBSET GateThreads, exclusive : SUBSET GateThreads]
  /\ serial \in SUBSET GateThreads
  /\ \A t \in GateThreads : /\ t \in gate.shared <=> SharedAt(running[t])
                            /\ t \in gate.exclusive <=> ExclusiveAt(running[t])
                            /\ t \in serial <=> SerialAt(running[t])
  /\ \A t, u \in GateThreads :
       /\ t \in gate.exclusive => u \notin gate.shared
       /\ t \in gate.exclusive /\ u \in gate.exclusive => t = u
       /\ t \in serial /\ u \in serial => t = u

\* Each flag has one owner at most, and stays set while it has one.
FlagsOK ==
  /\ read_only \in BOOLEAN /\ loading \in BOOLEAN
  /\ \A t \in GateThreads : /\ OwnsReadOnly(running[t]) => read_only
                            /\ OwnsLoading(running[t]) => loading
  /\ \A t, u \in GateThreads :
       /\ OwnsReadOnly(running[t]) /\ OwnsReadOnly(running[u]) => t = u
       /\ OwnsLoading(running[t]) /\ OwnsLoading(running[u]) => t = u

RecordsOK ==
  /\ appended \in 0..MaxRecords /\ base \in 0..appended
  /\ reflected \subseteq 1..appended /\ broken \subseteq 1..appended
  /\ taken \in [base : Nat, upto : 0..appended, content : SUBSET Nat]

\* The stores have every record since the loaded snapshot, but for the refused
\* ones and for the one that is being applied, which no image covers yet.
StoresOK ==
  /\ (\A t \in GateThreads : running[t].pc # "apply") => reflected = (base + 1 .. appended) \ broken
  /\ \A t \in GateThreads :
       running[t].pc = "apply" => /\ base < appended /\ taken.upto < appended /\ appended \notin broken
                                  /\ reflected = (base + 1 .. appended - 1) \ broken

\* The image matches its sequence, but for a save between its two steps: then
\* the sequence is that of the stores.
ImageOK ==
  /\ \A t \in GateThreads : At(t, "save", "write") => taken.base = base /\ taken.upto = appended
  /\ (\A t \in GateThreads : ~At(t, "save", "write")) =>
       taken.content = (taken.base + 1 .. taken.upto) \ broken

\* After a load that failed to become durable no request is past its second
\* look at loading.
PastRecheck == {"recheckReadOnly", "compute", "serial", "append", "apply", "fork"}
StoppedOK == Stopped => \A t \in Requests : running[t].pc \notin PastRecheck

GateInv == ThreadsOK /\ LocksOK /\ FlagsOK /\ RecordsOK /\ StoresOK /\ ImageOK /\ StoppedOK

-----------------------------------------------------------------------------
(* Facts about the moves of a thread and about its locks.                   *)

\* Only t moves, and it is in this state afterwards.
MovesTo(t, role, pc) ==
  /\ running' \in [GateThreads -> ThreadStates]
  /\ \A u \in GateThreads : u # t => running'[u] = running[u]
  /\ running'[t].pc = pc
  /\ running'[t].role = IF pc = "idle" THEN "none" ELSE role

LEMMA Moved ==
  ASSUME ThreadsOK, NEW t \in GateThreads, NEW role \in Roles, NEW pc \in Pcs, Become(t, role, pc)
  PROVE  MovesTo(t, role, pc)
<1> DEFINE s == IF pc = "idle" THEN Idling ELSE [role |-> role, pc |-> pc]
<1>1. s \in ThreadStates /\ s.pc = pc /\ s.role = IF pc = "idle" THEN "none" ELSE role
  BY DEF ThreadStates, Idling, Roles, Pcs
<1>2. running' = [running EXCEPT ![t] = s]
  BY DEF Become
<1> HIDE DEF s
<1> QED  BY <1>1, <1>2 DEF ThreadsOK, ThreadStates, MovesTo

\* A thread that moves to one of its states leaves the threads as they should be.
LEMMA MovedOK ==
  ASSUME ThreadsOK, NEW t \in GateThreads, NEW role \in Roles, NEW pc \in Pcs, Become(t, role, pc),
         UNCHANGED save_mode, Allowed(t, [role |-> IF pc = "idle" THEN "none" ELSE role, pc |-> pc])
  PROVE  MovesTo(t, role, pc) /\ ThreadsOK'
<1>1. MovesTo(t, role, pc)
  BY Moved
<1>2. \A u \in GateThreads : Allowed(u, running[u])'
  BY <1>1 DEF Allowed, ThreadsOK, MovesTo
<1> QED  BY <1>1, <1>2 DEF ThreadsOK, MovesTo

LEMMA Released ==
  ASSUME LocksOK, NEW t \in GateThreads, Release(t)
  PROVE  /\ gate' \in [shared : SUBSET GateThreads, exclusive : SUBSET GateThreads]
         /\ gate'.shared = gate.shared \ {t}
         /\ gate'.exclusive = gate.exclusive \ {t}
         /\ serial' = serial \ {t}
BY DEF LocksOK, Release

\* A thread that is back from a command or out of its scope holds nothing.
LEMMA ReleasedOK ==
  ASSUME LocksOK, NEW t \in GateThreads, NEW role, NEW pc \in {"idle", "clear", "reply"},
         Release(t), MovesTo(t, role, pc)
  PROVE  LocksOK'
<1>1. /\ gate' \in [shared : SUBSET GateThreads, exclusive : SUBSET GateThreads]
      /\ gate'.shared = gate.shared \ {t} /\ gate'.exclusive = gate.exclusive \ {t}
      /\ serial' = serial \ {t}
  BY Released
<1> QED  BY <1>1 DEF LocksOK, MovesTo, SharedAt, ExclusiveAt, SerialAt

\* A step that keeps loading and its owner, and takes no request past its second
\* look, keeps a stopped server stopped.
LEMMA StoppedMove ==
  ASSUME GateInv, NEW t \in GateThreads, NEW role, NEW pc, MovesTo(t, role, pc), UNCHANGED loading,
         OwnsLoading(running[t]) => OwnsLoading(running'[t]), t \in Requests => pc \notin PastRecheck
  PROVE  StoppedOK'
<1> SUFFICES ASSUME Stopped' PROVE \A u \in Requests : running'[u].pc \notin PastRecheck
  BY DEF StoppedOK
<1>1. \A u \in Requests : ~OwnsLoading(running'[u])
  BY DEF Stopped, OwnsLoading
<1>2. Stopped
  BY <1>1 DEF Stopped, OwnsLoading, MovesTo, GateThreads
<1> QED  BY <1>2 DEF GateInv, StoppedOK, MovesTo, GateThreads

\* Two states in which a thread holds the same locks and flags.
SameHeld(s, r) ==
  /\ SharedAt(s) <=> SharedAt(r)
  /\ ExclusiveAt(s) <=> ExclusiveAt(r)
  /\ SerialAt(s) <=> SerialAt(r)
  /\ OwnsReadOnly(s) <=> OwnsReadOnly(r)
  /\ OwnsLoading(s) <=> OwnsLoading(r)

\* A step that changes nothing but where a thread is, and not what it holds.
LEMMA QuietMove ==
  ASSUME GateInv, NEW t \in GateThreads, NEW role \in Roles, NEW pc \in Pcs \ {"apply"},
         Become(t, role, pc), UNCHANGED <<flags, locks, data>>,
         Allowed(t, [role |-> IF pc = "idle" THEN "none" ELSE role, pc |-> pc]),
         SameHeld(running[t], [role |-> IF pc = "idle" THEN "none" ELSE role, pc |-> pc]),
         running[t].pc # "apply", pc # "write", ~At(t, "save", "write"),
         t \in Requests /\ Stopped => pc \notin PastRecheck
  PROVE  GateInv'
<1> DEFINE s == [role |-> IF pc = "idle" THEN "none" ELSE role, pc |-> pc]
<1>1. MovesTo(t, role, pc) /\ ThreadsOK'
  BY MovedOK DEF GateInv, data
<1>2. running'[t] = s
  <2>1. running'[t] \in ThreadStates
    BY <1>1 DEF MovesTo
  <2> QED  BY <1>1, <2>1 DEF MovesTo, ThreadStates
<1>3. SameHeld(running[t], running'[t])
  BY <1>2
<1>4. LocksOK'
  BY <1>1, <1>3 DEF GateInv, locks, LocksOK, MovesTo, SameHeld
<1>5. FlagsOK'
  BY <1>1, <1>3 DEF GateInv, flags, FlagsOK, MovesTo, SameHeld
<1>6. RecordsOK'
  BY DEF GateInv, data, RecordsOK
<1>7. StoresOK'
  BY <1>1 DEF GateInv, data, StoresOK, MovesTo
<1>8. ImageOK'
  BY <1>1 DEF GateInv, data, ImageOK, MovesTo, At
<1>9. StoppedOK'
  <2>1. Stopped' => Stopped
    BY <1>1, <1>3 DEF Stopped, flags, OwnsLoading, SameHeld, MovesTo, GateThreads
  <2> QED  BY <1>1, <2>1 DEF GateInv, StoppedOK, MovesTo, GateThreads
<1> QED  BY <1>1, <1>4, <1>5, <1>6, <1>7, <1>8, <1>9 DEF GateInv

\* A command under the shared gate that is refused, or has only read.
LEMMA ReplyMove ==
  ASSUME GateInv, NEW t \in GateThreads, SharedAt(running[t]), running[t].pc # "apply",
         Reply(t), UNCHANGED flags
  PROVE  GateInv'
<1>1. MovesTo(t, running[t].role, "idle") /\ ThreadsOK'
  <2>1. Become(t, running[t].role, "idle") /\ UNCHANGED save_mode
    BY DEF Reply, Goto, data
  <2>2. running[t].role \in Roles /\ "idle" \in Pcs
    BY DEF GateInv, ThreadsOK, ThreadStates, Pcs
  <2> QED  BY <2>1, <2>2, MovedOK DEF GateInv, Allowed
<1>2. LocksOK'
  BY <1>1, ReleasedOK DEF Reply, GateInv
<1>3. FlagsOK'
  BY <1>1 DEF GateInv, flags, FlagsOK, MovesTo, OwnsReadOnly, OwnsLoading
<1>4. RecordsOK'
  BY DEF Reply, data, GateInv, RecordsOK
<1>5. StoresOK'
  BY <1>1 DEF Reply, data, GateInv, StoresOK, MovesTo
<1>6. ImageOK'
  BY <1>1 DEF Reply, data, GateInv, ImageOK, MovesTo, At, SharedAt
<1>7. StoppedOK'
  BY <1>1, StoppedMove DEF flags, SharedAt, OwnsLoading, PastRecheck
<1> QED  BY <1>1, <1>2, <1>3, <1>4, <1>5, <1>6, <1>7 DEF GateInv

-----------------------------------------------------------------------------
(* One lemma per action: commands arrive and pass the flags.                *)

LEMMA DispatchWriteStep ==
  ASSUME GateInv, NEW t \in Requests, DispatchWrite(t)
  PROVE  GateInv'
<1>1. PICK pc \in {"idle", "check"} : Become(t, "write", pc) /\ UNCHANGED <<flags, locks, data>>
  BY DEF DispatchWrite, CheckLoading
<1>2. running[t] = Idling /\ Idling.pc = "idle" /\ Idling.role = "none"
  BY DEF DispatchWrite, Asleep, Idling
<1> QED
  BY <1>1, <1>2, QuietMove DEF At, GateInv, Allowed, Roles, Pcs, GateThreads,
     SameHeld, SharedAt, ExclusiveAt, SerialAt, OwnsReadOnly, OwnsLoading, PastRecheck

LEMMA DispatchSimStep ==
  ASSUME GateInv, NEW t \in Requests, DispatchSim(t)
  PROVE  GateInv'
<1>1. PICK pc \in {"idle", "gate"} : Become(t, "sim", pc) /\ UNCHANGED <<flags, locks, data>>
  BY DEF DispatchSim, CheckLoading
<1>2. running[t] = Idling /\ Idling.pc = "idle" /\ Idling.role = "none"
  BY DEF DispatchSim, Asleep, Idling
<1> QED
  BY <1>1, <1>2, QuietMove DEF At, GateInv, Allowed, Roles, Pcs, GateThreads,
     SameHeld, SharedAt, ExclusiveAt, SerialAt, OwnsReadOnly, OwnsLoading, PastRecheck

LEMMA DumpStep ==
  ASSUME GateInv, NEW t \in Requests, NEW role \in {save_mode, "load"},
         DispatchDump(t, role) \/ HttpDump(t, role)
  PROVE  GateInv'
<1>1. PICK pc \in {"idle", "start"} : Become(t, role, pc) /\ UNCHANGED <<flags, locks, data>>
  BY DEF DispatchDump, HttpDump
<1>2. role \in {"save", "fork", "load"} /\ (role = "load" \/ role = save_mode)
  BY DEF GateInv, ThreadsOK
<1>3. running[t] = Idling /\ Idling.pc = "idle" /\ Idling.role = "none"
  BY DEF DispatchDump, HttpDump, Asleep, Idling
<1> QED
  BY <1>1, <1>2, <1>3, QuietMove DEF At, GateInv, Allowed, Roles, Pcs, GateThreads,
     SameHeld, SharedAt, ExclusiveAt, SerialAt, OwnsReadOnly, OwnsLoading, PastRecheck

LEMMA CheckReadOnlyStep ==
  ASSUME GateInv, NEW t \in GateThreads, CheckReadOnly(t)
  PROVE  GateInv'
<1>1. Become(t, "write", IF read_only THEN "idle" ELSE "gate") /\ UNCHANGED <<flags, locks, data>>
  BY DEF CheckReadOnly, Goto, At
<1> QED
  BY <1>1, QuietMove, GateAssumption, ZenonT(40) DEF CheckReadOnly, At, Asleep, Idling, GateInv, ThreadsOK,
     Allowed, Roles, Pcs, GateThreads,
     SameHeld, SharedAt, ExclusiveAt, SerialAt, OwnsReadOnly, OwnsLoading, PastRecheck, Stopped,
     StoppedOK

LEMMA RecheckLoadingStep ==
  ASSUME GateInv, NEW t \in GateThreads, RecheckLoading(t)
  PROVE  GateInv'
<1>1. running[t].role \in {"write", "sim", "fork"} /\ SharedAt(running[t])
  BY DEF RecheckLoading, GateInv, ThreadsOK, Allowed, SharedAt
<1>2. CASE loading
  BY <1>1, <1>2, ReplyMove DEF RecheckLoading
<1>3. CASE ~loading
  <2> DEFINE pc == IF running[t].role = "write" THEN "recheckReadOnly"
                   ELSE IF running[t].role = "sim" THEN "compute" ELSE "serial"
  <2>1. Become(t, running[t].role, pc) /\ UNCHANGED <<flags, locks, data>>
    BY <1>1, <1>3 DEF RecheckLoading, Goto
  <2> QED
    BY <1>1, <1>3, <2>1, QuietMove DEF RecheckLoading, At, GateInv, ThreadsOK, Allowed, Roles, Pcs,
       Stopped,
       SameHeld, SharedAt, ExclusiveAt, SerialAt, OwnsReadOnly, OwnsLoading
<1> QED  BY <1>2, <1>3

LEMMA RecheckReadOnlyStep ==
  ASSUME GateInv, NEW t \in GateThreads, RecheckReadOnly(t)
  PROVE  GateInv'
<1>1. t \in Requests /\ running[t].role = "write" /\ SharedAt(running[t])
  BY DEF RecheckReadOnly, GateInv, ThreadsOK, Allowed, SharedAt
<1>2. CASE read_only
  BY <1>1, <1>2, ReplyMove DEF RecheckReadOnly
<1>3. CASE ~read_only
  <2>1. Become(t, "write", "serial") /\ UNCHANGED <<flags, locks, data>>
    BY <1>1, <1>3 DEF RecheckReadOnly, Goto
  <2> QED
    BY <1>1, <1>3, <2>1, QuietMove DEF RecheckReadOnly, At, GateInv, Allowed, Roles, Pcs, StoppedOK,
       PastRecheck,
       SameHeld, SharedAt, ExclusiveAt, SerialAt, OwnsReadOnly, OwnsLoading
<1> QED  BY <1>2, <1>3

LEMMA ComputeStep ==
  ASSUME GateInv, NEW t \in GateThreads, Compute(t)
  PROVE  GateInv'
BY ReplyMove DEF Compute, At, SharedAt

-----------------------------------------------------------------------------
(* A write, from the gate to the stores.                                    *)

LEMMA AcquireSharedStep ==
  ASSUME GateInv, NEW t \in GateThreads, AcquireShared(t)
  PROVE  GateInv'
<1>1. /\ Become(t, running[t].role, IF running[t].role = "decay" THEN "serial" ELSE "recheck")
      /\ UNCHANGED save_mode
  BY DEF AcquireShared, Goto, Become, At, Reply, data, GateInv
<1>2. /\ MovesTo(t, running[t].role, IF running[t].role = "decay" THEN "serial" ELSE "recheck")
      /\ ThreadsOK'
  BY <1>1, MovedOK, ZenonT(40) DEF AcquireShared, At, GateInv, ThreadsOK, Allowed, Roles, Pcs
<1>3. LocksOK'
  BY <1>2 DEF AcquireShared, At, locks, GateInv, ThreadsOK, LocksOK, MovesTo, Allowed, SharedAt,
     ExclusiveAt, SerialAt
<1>4. FlagsOK'
  BY <1>2 DEF AcquireShared, At, flags, GateInv, FlagsOK, ThreadsOK, Allowed, MovesTo, OwnsReadOnly,
     OwnsLoading
<1>5. RecordsOK'
  BY GateAssumption DEF AcquireShared, Reply, data, GateInv, RecordsOK, NoImage
<1>6. StoresOK'
  BY <1>2 DEF AcquireShared, At, Reply, data, GateInv, RecordsOK, LocksOK, SharedAt, ExclusiveAt,
     SerialAt, StoresOK, MovesTo, NoImage, ThreadsOK, Allowed
<1>7. ImageOK'
  BY <1>2 DEF AcquireShared, At, Reply, data, GateInv, RecordsOK, LocksOK, FlagsOK, ThreadsOK, Allowed,
     SharedAt, ExclusiveAt, SerialAt, OwnsReadOnly, StoresOK, ImageOK, MovesTo, NoImage
<1>8. StoppedOK'
  BY <1>2, StoppedMove, GateAssumption DEF AcquireShared, flags, OwnsLoading, MovesTo, PastRecheck,
     GateInv, ThreadsOK, Allowed
<1> QED  BY <1>2, <1>3, <1>4, <1>5, <1>6, <1>7, <1>8 DEF GateInv

LEMMA AcquireSerialStep ==
  ASSUME GateInv, NEW t \in GateThreads, AcquireSerial(t)
  PROVE  GateInv'
<1>1. /\ Become(t, running[t].role, CASE running[t].role = "write" -> "append"
                                     [] running[t].role = "decay" -> "check"
                                     [] running[t].role = "fork" -> "fork"
                                     [] running[t].role = "load" -> "swap")
      /\ UNCHANGED save_mode
  BY DEF AcquireSerial, Goto, Become, At, Reply, data, GateInv
<1>2. /\ MovesTo(t, running[t].role, CASE running[t].role = "write" -> "append"
                                     [] running[t].role = "decay" -> "check"
                                     [] running[t].role = "fork" -> "fork"
                                     [] running[t].role = "load" -> "swap")
      /\ ThreadsOK'
  BY <1>1, MovedOK, ZenonT(40) DEF AcquireSerial, At, GateInv, ThreadsOK, Allowed, Roles, Pcs
<1>3. LocksOK'
  BY <1>2 DEF AcquireSerial, At, locks, GateInv, ThreadsOK, LocksOK, MovesTo, Allowed, SharedAt,
     ExclusiveAt, SerialAt
<1>4. FlagsOK'
  BY <1>2 DEF AcquireSerial, At, flags, GateInv, FlagsOK, ThreadsOK, Allowed, MovesTo, OwnsReadOnly,
     OwnsLoading
<1>5. RecordsOK'
  BY GateAssumption DEF AcquireSerial, Reply, data, GateInv, RecordsOK, NoImage
<1>6. StoresOK'
  BY <1>2 DEF AcquireSerial, At, Reply, data, GateInv, RecordsOK, LocksOK, SharedAt, ExclusiveAt,
     SerialAt, StoresOK, MovesTo, NoImage, ThreadsOK, Allowed
<1>7. ImageOK'
  BY <1>2 DEF AcquireSerial, At, Reply, data, GateInv, RecordsOK, LocksOK, FlagsOK, ThreadsOK, Allowed,
     SharedAt, ExclusiveAt, SerialAt, OwnsReadOnly, StoresOK, ImageOK, MovesTo, NoImage
<1>8. StoppedOK'
  BY <1>2 DEF AcquireSerial, At, flags, GateInv, LocksOK, FlagsOK, ThreadsOK, Allowed, SharedAt,
     ExclusiveAt, SerialAt, OwnsLoading, Stopped, StoppedOK, PastRecheck, MovesTo, GateThreads
<1> QED  BY <1>2, <1>3, <1>4, <1>5, <1>6, <1>7, <1>8 DEF GateInv

LEMMA AppendRecordStep ==
  ASSUME GateInv, NEW t \in GateThreads, AppendRecord(t)
  PROVE  GateInv'
<1>1. Become(t, running[t].role, "apply") /\ UNCHANGED save_mode
  BY DEF AppendRecord, Goto, Become, At, Reply, data, GateInv
<1>2. MovesTo(t, running[t].role, "apply") /\ ThreadsOK'
  BY <1>1, MovedOK DEF AppendRecord, At, GateInv, ThreadsOK, Allowed, Roles, Pcs
<1>3. LocksOK'
  BY <1>2 DEF AppendRecord, At, locks, GateInv, ThreadsOK, LocksOK, MovesTo, Allowed, SharedAt,
     ExclusiveAt, SerialAt
<1>4. FlagsOK'
  BY <1>2 DEF AppendRecord, At, flags, GateInv, FlagsOK, ThreadsOK, Allowed, MovesTo, OwnsReadOnly,
     OwnsLoading
<1>5. RecordsOK'
  BY GateAssumption DEF AppendRecord, Reply, data, GateInv, RecordsOK, NoImage
<1>6. StoresOK'
  BY <1>2 DEF AppendRecord, At, Reply, data, GateInv, RecordsOK, LocksOK, SharedAt, ExclusiveAt,
     SerialAt, StoresOK, MovesTo, NoImage, ThreadsOK, Allowed
<1>7. ImageOK'
  BY <1>2 DEF AppendRecord, At, Reply, data, GateInv, RecordsOK, LocksOK, FlagsOK, ThreadsOK, Allowed,
     SharedAt, ExclusiveAt, SerialAt, OwnsReadOnly, StoresOK, ImageOK, MovesTo, NoImage
<1>8. StoppedOK'
  BY <1>2 DEF AppendRecord, At, flags, GateInv, LocksOK, FlagsOK, ThreadsOK, Allowed, SharedAt,
     ExclusiveAt, SerialAt, OwnsLoading, Stopped, StoppedOK, PastRecheck, MovesTo, GateThreads
<1> QED  BY <1>2, <1>3, <1>4, <1>5, <1>6, <1>7, <1>8 DEF GateInv

LEMMA AppendFailsStep ==
  ASSUME GateInv, NEW t \in GateThreads, AppendFails(t)
  PROVE  GateInv'
<1>1. Become(t, running[t].role, "idle") /\ UNCHANGED save_mode
  BY DEF AppendFails, Goto, Become, At, Reply, data, GateInv
<1>2. MovesTo(t, running[t].role, "idle") /\ ThreadsOK'
  BY <1>1, MovedOK DEF AppendFails, At, GateInv, ThreadsOK, Allowed, Roles, Pcs
<1>3. LocksOK'
  BY <1>2, ReleasedOK DEF AppendFails, Reply, GateInv
<1>4. FlagsOK'
  BY <1>2 DEF AppendFails, At, flags, GateInv, FlagsOK, ThreadsOK, Allowed, MovesTo, OwnsReadOnly,
     OwnsLoading
<1>5. RecordsOK'
  BY GateAssumption DEF AppendFails, Reply, data, GateInv, RecordsOK, NoImage
<1>6. StoresOK'
  BY <1>2 DEF AppendFails, At, Reply, data, GateInv, RecordsOK, LocksOK, SharedAt, ExclusiveAt,
     SerialAt, StoresOK, MovesTo, NoImage, ThreadsOK, Allowed
<1>7. ImageOK'
  BY <1>2 DEF AppendFails, At, Reply, data, GateInv, RecordsOK, LocksOK, FlagsOK, ThreadsOK, Allowed,
     SharedAt, ExclusiveAt, SerialAt, OwnsReadOnly, StoresOK, ImageOK, MovesTo, NoImage
<1>8. StoppedOK'
  BY <1>2 DEF AppendFails, At, flags, GateInv, LocksOK, FlagsOK, ThreadsOK, Allowed, SharedAt,
     ExclusiveAt, SerialAt, OwnsLoading, Stopped, StoppedOK, PastRecheck, MovesTo, GateThreads
<1> QED  BY <1>2, <1>3, <1>4, <1>5, <1>6, <1>7, <1>8 DEF GateInv

LEMMA ApplyRecordStep ==
  ASSUME GateInv, NEW t \in GateThreads, ApplyRecord(t)
  PROVE  GateInv'
<1>1. Become(t, running[t].role, "idle") /\ UNCHANGED save_mode
  BY DEF ApplyRecord, Goto, Become, At, Reply, data, GateInv
<1>2. MovesTo(t, running[t].role, "idle") /\ ThreadsOK'
  BY <1>1, MovedOK DEF ApplyRecord, At, GateInv, ThreadsOK, Allowed, Roles, Pcs
<1>3. LocksOK'
  BY <1>2, ReleasedOK DEF ApplyRecord, Reply, GateInv
<1>4. FlagsOK'
  BY <1>2 DEF ApplyRecord, At, flags, GateInv, FlagsOK, ThreadsOK, Allowed, MovesTo, OwnsReadOnly,
     OwnsLoading
<1>5. RecordsOK'
  BY GateAssumption DEF ApplyRecord, Reply, data, GateInv, RecordsOK, NoImage, StoresOK
<1>6. StoresOK'
  BY <1>2 DEF ApplyRecord, At, Reply, data, GateInv, RecordsOK, LocksOK, SharedAt, ExclusiveAt,
     SerialAt, StoresOK, MovesTo, NoImage, ThreadsOK, Allowed
<1>7. ImageOK'
  BY <1>2 DEF ApplyRecord, At, Reply, data, GateInv, RecordsOK, LocksOK, FlagsOK, ThreadsOK, Allowed,
     SharedAt, ExclusiveAt, SerialAt, OwnsReadOnly, StoresOK, ImageOK, MovesTo, NoImage
<1>8. StoppedOK'
  BY <1>2 DEF ApplyRecord, At, flags, GateInv, LocksOK, FlagsOK, ThreadsOK, Allowed, SharedAt,
     ExclusiveAt, SerialAt, OwnsLoading, Stopped, StoppedOK, PastRecheck, MovesTo, GateThreads
<1> QED  BY <1>2, <1>3, <1>4, <1>5, <1>6, <1>7, <1>8 DEF GateInv

LEMMA ApplyRefusedStep ==
  ASSUME GateInv, NEW t \in GateThreads, ApplyRefused(t)
  PROVE  GateInv'
<1>1. Become(t, "write", "idle") /\ UNCHANGED save_mode
  BY DEF ApplyRefused, Goto, Become, At, Reply, data, GateInv
<1>2. MovesTo(t, "write", "idle") /\ ThreadsOK'
  BY <1>1, MovedOK DEF ApplyRefused, At, GateInv, ThreadsOK, Allowed, Roles, Pcs
<1>3. LocksOK'
  BY <1>2, ReleasedOK DEF ApplyRefused, Reply, GateInv
<1>4. FlagsOK'
  BY <1>2 DEF ApplyRefused, At, flags, GateInv, FlagsOK, ThreadsOK, Allowed, MovesTo, OwnsReadOnly,
     OwnsLoading
<1>5. RecordsOK'
  <2>1. appended \in Nat /\ base \in Nat /\ base < appended
    BY GateAssumption DEF ApplyRefused, At, GateInv, RecordsOK, StoresOK
  <2>2. broken' \subseteq 1..appended
    BY <2>1 DEF ApplyRefused, GateInv, RecordsOK
  <2> QED  BY <2>2 DEF ApplyRefused, GateInv, RecordsOK
<1>6. StoresOK'
  BY <1>2 DEF ApplyRefused, At, Reply, data, GateInv, RecordsOK, LocksOK, SharedAt, ExclusiveAt,
     SerialAt, StoresOK, MovesTo, NoImage, ThreadsOK, Allowed
<1>7. ImageOK'
  BY <1>2 DEF ApplyRefused, At, Reply, data, GateInv, RecordsOK, LocksOK, FlagsOK, ThreadsOK, Allowed,
     SharedAt, ExclusiveAt, SerialAt, OwnsReadOnly, StoresOK, ImageOK, MovesTo, NoImage
<1>8. StoppedOK'
  BY <1>2 DEF ApplyRefused, At, flags, GateInv, LocksOK, FlagsOK, ThreadsOK, Allowed, SharedAt,
     ExclusiveAt, SerialAt, OwnsLoading, Stopped, StoppedOK, PastRecheck, MovesTo, GateThreads
<1> QED  BY <1>2, <1>3, <1>4, <1>5, <1>6, <1>7, <1>8 DEF GateInv

-----------------------------------------------------------------------------
(* DUMP SAVE.                                                               *)

LEMMA SaveStartsStep ==
  ASSUME GateInv, NEW t \in GateThreads, SaveStarts(t)
  PROVE  GateInv'
<1>1. running[t].pc = "start" /\ t \in Requests /\ running[t].role \in {"save", "fork"}
      /\ running[t].role = save_mode
  BY DEF SaveStarts, GateInv, ThreadsOK, Allowed
<1>2. PICK pc \in {"idle", "gate", "reserve"} :
         /\ Become(t, save_mode, pc) /\ UNCHANGED <<flags, locks, data>>
         /\ pc = "gate" => save_mode = "fork"
         /\ pc = "reserve" => save_mode = "save"
  BY <1>1 DEF SaveStarts, Goto
<1> QED
  BY <1>1, <1>2, QuietMove DEF At, GateInv, Allowed, Roles, Pcs, GateThreads,
     SameHeld, SharedAt, ExclusiveAt, SerialAt, OwnsReadOnly, OwnsLoading, PastRecheck

LEMMA ReserveReadOnlyStep ==
  ASSUME GateInv, NEW t \in GateThreads, ReserveReadOnly(t)
  PROVE  GateInv'
<1>1. /\ Become(t, running[t].role,
                IF read_only THEN "idle" ELSE IF running[t].role = "save" THEN "exclusive" ELSE "fork")
      /\ UNCHANGED save_mode
  BY DEF ReserveReadOnly, Goto, Become, At, Reply, data, GateInv
<1>2. /\ MovesTo(t, running[t].role,
                IF read_only THEN "idle" ELSE IF running[t].role = "save" THEN "exclusive" ELSE "fork")
      /\ ThreadsOK'
  BY <1>1, MovedOK, ZenonT(40) DEF ReserveReadOnly, At, GateInv, ThreadsOK, Allowed, Roles, Pcs
<1>3. LocksOK'
  BY <1>2 DEF ReserveReadOnly, At, locks, GateInv, ThreadsOK, LocksOK, MovesTo, Allowed, SharedAt,
     ExclusiveAt, SerialAt
<1>4. FlagsOK'
  BY <1>2 DEF ReserveReadOnly, At, flags, GateInv, FlagsOK, ThreadsOK, Allowed, MovesTo, OwnsReadOnly,
     OwnsLoading
<1>5. RecordsOK'
  BY GateAssumption DEF ReserveReadOnly, Reply, data, GateInv, RecordsOK, NoImage
<1>6. StoresOK'
  BY <1>2 DEF ReserveReadOnly, At, Reply, data, GateInv, RecordsOK, LocksOK, SharedAt, ExclusiveAt,
     SerialAt, StoresOK, MovesTo, NoImage, ThreadsOK, Allowed
<1>7. ImageOK'
  BY <1>2 DEF ReserveReadOnly, At, Reply, data, GateInv, RecordsOK, LocksOK, FlagsOK, ThreadsOK,
     Allowed, SharedAt, ExclusiveAt, SerialAt, OwnsReadOnly, StoresOK, ImageOK, MovesTo, NoImage
<1>8. StoppedOK'
  BY <1>2, StoppedMove, GateAssumption DEF ReserveReadOnly, At, flags, OwnsLoading, MovesTo,
     PastRecheck, GateInv, ThreadsOK, Allowed
<1> QED  BY <1>2, <1>3, <1>4, <1>5, <1>6, <1>7, <1>8 DEF GateInv

LEMMA AcquireExclusiveStep ==
  ASSUME GateInv, NEW t \in GateThreads, AcquireExclusive(t)
  PROVE  GateInv'
<1>1. /\ Become(t, running[t].role, IF running[t].role = "load" THEN "serial" ELSE "capture")
      /\ UNCHANGED save_mode
  BY DEF AcquireExclusive, Goto, Become, At, Reply, data, GateInv
<1>2. /\ MovesTo(t, running[t].role, IF running[t].role = "load" THEN "serial" ELSE "capture")
      /\ ThreadsOK'
  BY <1>1, MovedOK, ZenonT(40) DEF AcquireExclusive, At, GateInv, ThreadsOK, Allowed, Roles, Pcs
<1>3. LocksOK'
  BY <1>2 DEF AcquireExclusive, At, locks, GateInv, ThreadsOK, LocksOK, MovesTo, Allowed, SharedAt,
     ExclusiveAt, SerialAt
<1>4. FlagsOK'
  BY <1>2 DEF AcquireExclusive, At, flags, GateInv, FlagsOK, ThreadsOK, Allowed, MovesTo, OwnsReadOnly,
     OwnsLoading
<1>5. RecordsOK'
  BY GateAssumption DEF AcquireExclusive, Reply, data, GateInv, RecordsOK, NoImage
<1>6. StoresOK'
  BY <1>2 DEF AcquireExclusive, At, Reply, data, GateInv, RecordsOK, LocksOK, SharedAt, ExclusiveAt,
     SerialAt, StoresOK, MovesTo, NoImage, ThreadsOK, Allowed
<1>7. ImageOK'
  BY <1>2 DEF AcquireExclusive, At, Reply, data, GateInv, RecordsOK, LocksOK, FlagsOK, ThreadsOK,
     Allowed, SharedAt, ExclusiveAt, SerialAt, OwnsReadOnly, StoresOK, ImageOK, MovesTo, NoImage
<1>8. StoppedOK'
  BY <1>2 DEF AcquireExclusive, At, flags, GateInv, LocksOK, FlagsOK, ThreadsOK, Allowed, SharedAt,
     ExclusiveAt, SerialAt, OwnsLoading, Stopped, StoppedOK, PastRecheck, MovesTo, GateThreads
<1> QED  BY <1>2, <1>3, <1>4, <1>5, <1>6, <1>7, <1>8 DEF GateInv

LEMMA CaptureSequenceStep ==
  ASSUME GateInv, NEW t \in GateThreads, CaptureSequence(t)
  PROVE  GateInv'
<1>1. Become(t, "save", "write") /\ UNCHANGED save_mode
  BY DEF CaptureSequence, Goto, Become, At, Reply, data, GateInv
<1>2. MovesTo(t, "save", "write") /\ ThreadsOK'
  BY <1>1, MovedOK DEF CaptureSequence, At, GateInv, ThreadsOK, Allowed, Roles, Pcs
<1>3. LocksOK'
  BY <1>2 DEF CaptureSequence, At, locks, GateInv, ThreadsOK, LocksOK, MovesTo, Allowed, SharedAt,
     ExclusiveAt, SerialAt
<1>4. FlagsOK'
  BY <1>2 DEF CaptureSequence, At, flags, GateInv, FlagsOK, ThreadsOK, Allowed, MovesTo, OwnsReadOnly,
     OwnsLoading
<1>5. RecordsOK'
  <2>1. appended \in Nat /\ base \in Nat
    BY GateAssumption DEF GateInv, RecordsOK
  <2>2. taken' = [base |-> base, upto |-> appended, content |-> {}]
    BY DEF CaptureSequence, GateInv, RecordsOK
  <2> QED  BY <2>1, <2>2 DEF CaptureSequence, GateInv, RecordsOK
<1>6. StoresOK'
  BY <1>2 DEF CaptureSequence, At, Reply, data, GateInv, RecordsOK, LocksOK, SharedAt, ExclusiveAt,
     SerialAt, StoresOK, MovesTo, NoImage, ThreadsOK, Allowed
<1>7. ImageOK'
  BY <1>2 DEF CaptureSequence, At, Reply, data, GateInv, RecordsOK, LocksOK, FlagsOK, ThreadsOK,
     Allowed, SharedAt, ExclusiveAt, SerialAt, OwnsReadOnly, StoresOK, ImageOK, MovesTo, NoImage
<1>8. StoppedOK'
  BY <1>2 DEF CaptureSequence, At, flags, GateInv, LocksOK, FlagsOK, ThreadsOK, Allowed, SharedAt,
     ExclusiveAt, SerialAt, OwnsLoading, Stopped, StoppedOK, PastRecheck, MovesTo, GateThreads
<1> QED  BY <1>2, <1>3, <1>4, <1>5, <1>6, <1>7, <1>8 DEF GateInv

LEMMA WriteImageStep ==
  ASSUME GateInv, NEW t \in GateThreads, WriteImage(t)
  PROVE  GateInv'
<1>1. Become(t, "save", "clear") /\ UNCHANGED save_mode
  BY DEF WriteImage, Goto, Become, At, Reply, data, GateInv
<1>2. MovesTo(t, "save", "clear") /\ ThreadsOK'
  BY <1>1, MovedOK DEF WriteImage, At, GateInv, ThreadsOK, Allowed, Roles, Pcs
<1>3. LocksOK'
  BY <1>2, ReleasedOK DEF WriteImage, Reply, GateInv
<1>4. FlagsOK'
  BY <1>2 DEF WriteImage, At, flags, GateInv, FlagsOK, ThreadsOK, Allowed, MovesTo, OwnsReadOnly,
     OwnsLoading
<1>5. RecordsOK'
  BY GateAssumption DEF WriteImage, Reply, data, GateInv, RecordsOK, NoImage
<1>6. StoresOK'
  BY <1>2 DEF WriteImage, At, Reply, data, GateInv, RecordsOK, LocksOK, SharedAt, ExclusiveAt,
     SerialAt, StoresOK, MovesTo, NoImage, ThreadsOK, Allowed
<1>7. ImageOK'
  BY <1>2 DEF WriteImage, At, Reply, data, GateInv, RecordsOK, LocksOK, FlagsOK, ThreadsOK, Allowed,
     SharedAt, ExclusiveAt, SerialAt, OwnsReadOnly, StoresOK, ImageOK, MovesTo, NoImage
<1>8. StoppedOK'
  BY <1>2 DEF WriteImage, At, flags, GateInv, LocksOK, FlagsOK, ThreadsOK, Allowed, SharedAt,
     ExclusiveAt, SerialAt, OwnsLoading, Stopped, StoppedOK, PastRecheck, MovesTo, GateThreads
<1> QED  BY <1>2, <1>3, <1>4, <1>5, <1>6, <1>7, <1>8 DEF GateInv

LEMMA ForkImageStep ==
  ASSUME GateInv, NEW t \in GateThreads, ForkImage(t)
  PROVE  GateInv'
<1>1. Become(t, "fork", "reply") /\ UNCHANGED save_mode
  BY DEF ForkImage, Goto, Become, At, Reply, data, GateInv
<1>2. MovesTo(t, "fork", "reply") /\ ThreadsOK'
  BY <1>1, MovedOK DEF ForkImage, At, GateInv, ThreadsOK, Allowed, Roles, Pcs
<1>3. LocksOK'
  BY <1>2, ReleasedOK DEF ForkImage, Reply, GateInv
<1>4. FlagsOK'
  BY <1>2 DEF ForkImage, At, flags, GateInv, FlagsOK, ThreadsOK, Allowed, MovesTo, OwnsReadOnly,
     OwnsLoading
<1>5. RecordsOK'
  BY GateAssumption DEF ForkImage, Reply, data, GateInv, RecordsOK, NoImage
<1>6. StoresOK'
  BY <1>2 DEF ForkImage, At, Reply, data, GateInv, RecordsOK, LocksOK, SharedAt, ExclusiveAt, SerialAt,
     StoresOK, MovesTo, NoImage, ThreadsOK, Allowed
<1>7. ImageOK'
  BY <1>2 DEF ForkImage, At, Reply, data, GateInv, RecordsOK, LocksOK, FlagsOK, ThreadsOK, Allowed,
     SharedAt, ExclusiveAt, SerialAt, OwnsReadOnly, StoresOK, ImageOK, MovesTo, NoImage
<1>8. StoppedOK'
  BY <1>2 DEF ForkImage, At, flags, GateInv, LocksOK, FlagsOK, ThreadsOK, Allowed, SharedAt,
     ExclusiveAt, SerialAt, OwnsLoading, Stopped, StoppedOK, PastRecheck, MovesTo, GateThreads
<1> QED  BY <1>2, <1>3, <1>4, <1>5, <1>6, <1>7, <1>8 DEF GateInv

LEMMA ForkRepliesStep ==
  ASSUME GateInv, NEW t \in GateThreads, ForkReplies(t)
  PROVE  GateInv'
<1>1. Become(t, "fork", "idle") /\ UNCHANGED save_mode
  BY DEF ForkReplies, Goto, Become, At, Reply, data, GateInv
<1>2. MovesTo(t, "fork", "idle") /\ ThreadsOK'
  BY <1>1, MovedOK DEF ForkReplies, At, GateInv, ThreadsOK, Allowed, Roles, Pcs
<1>3. LocksOK'
  BY <1>2 DEF ForkReplies, At, locks, GateInv, ThreadsOK, LocksOK, MovesTo, Allowed, SharedAt,
     ExclusiveAt, SerialAt
<1>4. FlagsOK'
  BY <1>2 DEF ForkReplies, At, flags, GateInv, FlagsOK, ThreadsOK, Allowed, MovesTo, OwnsReadOnly,
     OwnsLoading
<1>5. RecordsOK'
  BY GateAssumption DEF ForkReplies, Reply, data, GateInv, RecordsOK, NoImage
<1>6. StoresOK'
  BY <1>2 DEF ForkReplies, At, Reply, data, GateInv, RecordsOK, LocksOK, SharedAt, ExclusiveAt,
     SerialAt, StoresOK, MovesTo, NoImage, ThreadsOK, Allowed
<1>7. ImageOK'
  BY <1>2 DEF ForkReplies, At, Reply, data, GateInv, RecordsOK, LocksOK, FlagsOK, ThreadsOK, Allowed,
     SharedAt, ExclusiveAt, SerialAt, OwnsReadOnly, StoresOK, ImageOK, MovesTo, NoImage
<1>8. StoppedOK'
  BY <1>2 DEF ForkReplies, At, flags, GateInv, LocksOK, FlagsOK, ThreadsOK, Allowed, SharedAt,
     ExclusiveAt, SerialAt, OwnsLoading, Stopped, StoppedOK, PastRecheck, MovesTo, GateThreads
<1> QED  BY <1>2, <1>3, <1>4, <1>5, <1>6, <1>7, <1>8 DEF GateInv

LEMMA ClearReadOnlyStep ==
  ASSUME GateInv, NEW t \in GateThreads, ClearReadOnly(t)
  PROVE  GateInv'
<1>1. Become(t, running[t].role, "idle") /\ UNCHANGED save_mode
  BY DEF ClearReadOnly, Goto, Become, At, Reply, data, GateInv
<1>2. MovesTo(t, running[t].role, "idle") /\ ThreadsOK'
  BY <1>1, MovedOK DEF ClearReadOnly, At, GateInv, ThreadsOK, Allowed, Roles, Pcs
<1>3. LocksOK'
  BY <1>2 DEF ClearReadOnly, At, locks, GateInv, ThreadsOK, LocksOK, MovesTo, Allowed, SharedAt,
     ExclusiveAt, SerialAt
<1>4. FlagsOK'
  <2>1. \A u \in GateThreads : ~OwnsReadOnly(running'[u])
    BY <1>2 DEF ClearReadOnly, At, GateInv, FlagsOK, MovesTo, OwnsReadOnly
  <2>2. \A u \in GateThreads : OwnsLoading(running'[u]) => OwnsLoading(running[u])
    BY <1>2 DEF ClearReadOnly, At, MovesTo, OwnsLoading
  <2> QED  BY <2>1, <2>2 DEF ClearReadOnly, GateInv, FlagsOK
<1>5. RecordsOK'
  BY GateAssumption DEF ClearReadOnly, Reply, data, GateInv, RecordsOK, NoImage
<1>6. StoresOK'
  BY <1>2 DEF ClearReadOnly, At, Reply, data, GateInv, RecordsOK, LocksOK, SharedAt, ExclusiveAt,
     SerialAt, StoresOK, MovesTo, NoImage, ThreadsOK, Allowed
<1>7. ImageOK'
  BY <1>2 DEF ClearReadOnly, At, Reply, data, GateInv, RecordsOK, LocksOK, FlagsOK, ThreadsOK, Allowed,
     SharedAt, ExclusiveAt, SerialAt, OwnsReadOnly, StoresOK, ImageOK, MovesTo, NoImage
<1>8. StoppedOK'
  BY <1>2 DEF ClearReadOnly, At, flags, GateInv, LocksOK, FlagsOK, ThreadsOK, Allowed, SharedAt,
     ExclusiveAt, SerialAt, OwnsLoading, Stopped, StoppedOK, PastRecheck, MovesTo, GateThreads
<1> QED  BY <1>2, <1>3, <1>4, <1>5, <1>6, <1>7, <1>8 DEF GateInv

-----------------------------------------------------------------------------
(* DUMP LOAD.                                                               *)

LEMMA ReserveLoadingStep ==
  ASSUME GateInv, NEW t \in GateThreads, ReserveLoading(t)
  PROVE  GateInv'
<1>1. Become(t, "load", IF loading THEN "idle" ELSE "check") /\ UNCHANGED save_mode
  BY DEF ReserveLoading, Goto, Become, At, Reply, data, GateInv
<1>2. MovesTo(t, "load", IF loading THEN "idle" ELSE "check") /\ ThreadsOK'
  BY <1>1, MovedOK DEF ReserveLoading, At, GateInv, ThreadsOK, Allowed, Roles, Pcs
<1>3. LocksOK'
  BY <1>2 DEF ReserveLoading, At, locks, GateInv, ThreadsOK, LocksOK, MovesTo, Allowed, SharedAt,
     ExclusiveAt, SerialAt
<1>4. FlagsOK'
  BY <1>2 DEF ReserveLoading, At, flags, GateInv, FlagsOK, ThreadsOK, Allowed, MovesTo, OwnsReadOnly,
     OwnsLoading
<1>5. RecordsOK'
  BY GateAssumption DEF ReserveLoading, Reply, data, GateInv, RecordsOK, NoImage
<1>6. StoresOK'
  BY <1>2 DEF ReserveLoading, At, Reply, data, GateInv, RecordsOK, LocksOK, SharedAt, ExclusiveAt,
     SerialAt, StoresOK, MovesTo, NoImage, ThreadsOK, Allowed
<1>7. ImageOK'
  BY <1>2 DEF ReserveLoading, At, Reply, data, GateInv, RecordsOK, LocksOK, FlagsOK, ThreadsOK,
     Allowed, SharedAt, ExclusiveAt, SerialAt, OwnsReadOnly, StoresOK, ImageOK, MovesTo, NoImage
<1>8. StoppedOK'
  BY <1>2 DEF ReserveLoading, At, flags, GateInv, LocksOK, FlagsOK, ThreadsOK, Allowed, SharedAt,
     ExclusiveAt, SerialAt, OwnsLoading, Stopped, StoppedOK, PastRecheck, MovesTo, GateThreads
<1> QED  BY <1>2, <1>3, <1>4, <1>5, <1>6, <1>7, <1>8 DEF GateInv

LEMMA LoadGivesUpStep ==
  ASSUME GateInv, NEW t \in GateThreads, LoadGivesUp(t)
  PROVE  GateInv'
<1>1. Become(t, "load", "clear") /\ UNCHANGED <<flags, locks, data>>
  BY DEF LoadGivesUp, Goto, At
<1> QED
  BY <1>1, QuietMove, GateAssumption DEF LoadGivesUp, At, Asleep, Idling, GateInv, ThreadsOK, Allowed,
     Roles, Pcs, GateThreads,
     SameHeld, SharedAt, ExclusiveAt, SerialAt, OwnsReadOnly, OwnsLoading, PastRecheck, Stopped,
     StoppedOK

LEMMA LoadStagedStep ==
  ASSUME GateInv, NEW t \in GateThreads, LoadStaged(t)
  PROVE  GateInv'
<1>1. Become(t, "load", "exclusive") /\ UNCHANGED <<flags, locks, data>>
  BY DEF LoadStaged, Goto, At
<1> QED
  BY <1>1, QuietMove, GateAssumption DEF LoadStaged, At, Asleep, Idling, GateInv, ThreadsOK, Allowed,
     Roles, Pcs, GateThreads,
     SameHeld, SharedAt, ExclusiveAt, SerialAt, OwnsReadOnly, OwnsLoading, PastRecheck, Stopped,
     StoppedOK

LEMMA SwapStoresStep ==
  ASSUME GateInv, NEW t \in GateThreads, SwapStores(t)
  PROVE  GateInv'
<1>1. Become(t, "load", "durable") /\ UNCHANGED save_mode
  BY DEF SwapStores, Goto, Become, At, Reply, data, GateInv
<1>2. MovesTo(t, "load", "durable") /\ ThreadsOK'
  BY <1>1, MovedOK DEF SwapStores, At, GateInv, ThreadsOK, Allowed, Roles, Pcs
<1>3. LocksOK'
  BY <1>2 DEF SwapStores, At, locks, GateInv, ThreadsOK, LocksOK, MovesTo, Allowed, SharedAt,
     ExclusiveAt, SerialAt
<1>4. FlagsOK'
  BY <1>2 DEF SwapStores, At, flags, GateInv, FlagsOK, ThreadsOK, Allowed, MovesTo, OwnsReadOnly,
     OwnsLoading
<1>5. RecordsOK'
  BY GateAssumption DEF SwapStores, Reply, data, GateInv, RecordsOK, NoImage
<1>6. StoresOK'
  BY <1>2 DEF SwapStores, At, Reply, data, GateInv, RecordsOK, LocksOK, SharedAt, ExclusiveAt,
     SerialAt, StoresOK, MovesTo, NoImage, ThreadsOK, Allowed
<1>7. ImageOK'
  BY <1>2 DEF SwapStores, At, Reply, data, GateInv, RecordsOK, LocksOK, FlagsOK, ThreadsOK, Allowed,
     SharedAt, ExclusiveAt, SerialAt, OwnsReadOnly, StoresOK, ImageOK, MovesTo, NoImage
<1>8. StoppedOK'
  BY <1>2 DEF SwapStores, At, flags, GateInv, LocksOK, FlagsOK, ThreadsOK, Allowed, SharedAt,
     ExclusiveAt, SerialAt, OwnsLoading, Stopped, StoppedOK, PastRecheck, MovesTo, GateThreads
<1> QED  BY <1>2, <1>3, <1>4, <1>5, <1>6, <1>7, <1>8 DEF GateInv

LEMMA LoadDurableStep ==
  ASSUME GateInv, NEW t \in GateThreads, LoadDurable(t)
  PROVE  GateInv'
<1>1. Become(t, "load", "clear") /\ UNCHANGED save_mode
  BY DEF LoadDurable, Goto, Become, At, Reply, data, GateInv
<1>2. MovesTo(t, "load", "clear") /\ ThreadsOK'
  BY <1>1, MovedOK DEF LoadDurable, At, GateInv, ThreadsOK, Allowed, Roles, Pcs
<1>3. LocksOK'
  BY <1>2, ReleasedOK DEF LoadDurable, Reply, GateInv
<1>4. FlagsOK'
  BY <1>2 DEF LoadDurable, At, flags, GateInv, FlagsOK, ThreadsOK, Allowed, MovesTo, OwnsReadOnly,
     OwnsLoading
<1>5. RecordsOK'
  BY GateAssumption DEF LoadDurable, Reply, data, GateInv, RecordsOK, NoImage
<1>6. StoresOK'
  BY <1>2 DEF LoadDurable, At, Reply, data, GateInv, RecordsOK, LocksOK, SharedAt, ExclusiveAt,
     SerialAt, StoresOK, MovesTo, NoImage, ThreadsOK, Allowed
<1>7. ImageOK'
  BY <1>2 DEF LoadDurable, At, Reply, data, GateInv, RecordsOK, LocksOK, FlagsOK, ThreadsOK, Allowed,
     SharedAt, ExclusiveAt, SerialAt, OwnsReadOnly, StoresOK, ImageOK, MovesTo, NoImage
<1>8. StoppedOK'
  BY <1>2 DEF LoadDurable, At, flags, GateInv, LocksOK, FlagsOK, ThreadsOK, Allowed, SharedAt,
     ExclusiveAt, SerialAt, OwnsLoading, Stopped, StoppedOK, PastRecheck, MovesTo, GateThreads
<1> QED  BY <1>2, <1>3, <1>4, <1>5, <1>6, <1>7, <1>8 DEF GateInv

LEMMA FailStopStep ==
  ASSUME GateInv, NEW t \in GateThreads, FailStop(t)
  PROVE  GateInv'
<1>1. Become(t, "load", "idle") /\ UNCHANGED save_mode
  BY DEF FailStop, Goto, Become, At, Reply, data, GateInv
<1>2. MovesTo(t, "load", "idle") /\ ThreadsOK'
  BY <1>1, MovedOK DEF FailStop, At, GateInv, ThreadsOK, Allowed, Roles, Pcs
<1>3. LocksOK'
  BY <1>2, ReleasedOK DEF FailStop, Reply, GateInv
<1>4. FlagsOK'
  BY <1>2 DEF FailStop, At, flags, GateInv, FlagsOK, ThreadsOK, Allowed, MovesTo, OwnsReadOnly,
     OwnsLoading
<1>5. RecordsOK'
  BY GateAssumption DEF FailStop, Reply, data, GateInv, RecordsOK, NoImage
<1>6. StoresOK'
  BY <1>2 DEF FailStop, At, Reply, data, GateInv, RecordsOK, LocksOK, SharedAt, ExclusiveAt, SerialAt,
     StoresOK, MovesTo, NoImage, ThreadsOK, Allowed
<1>7. ImageOK'
  BY <1>2 DEF FailStop, At, Reply, data, GateInv, RecordsOK, LocksOK, FlagsOK, ThreadsOK, Allowed,
     SharedAt, ExclusiveAt, SerialAt, OwnsReadOnly, StoresOK, ImageOK, MovesTo, NoImage
<1>8. StoppedOK'
  <2>1. \A u \in GateThreads : ~SharedAt(running[u]) /\ (u # t => ~OwnsLoading(running[u]))
    BY DEF FailStop, At, GateInv, LocksOK, FlagsOK, ExclusiveAt, OwnsLoading
  <2>2. \A u \in Requests : running[u].pc \in PastRecheck => SharedAt(running[u]) \/ OwnsLoading(running[u])
    BY GateAssumption DEF GateInv, ThreadsOK, Allowed, SharedAt, OwnsLoading, PastRecheck, GateThreads
  <2> QED  BY <1>2, <2>1, <2>2 DEF StoppedOK, PastRecheck, MovesTo, GateThreads
<1> QED  BY <1>2, <1>3, <1>4, <1>5, <1>6, <1>7, <1>8 DEF GateInv

LEMMA ClearLoadingStep ==
  ASSUME GateInv, NEW t \in GateThreads, ClearLoading(t)
  PROVE  GateInv'
<1>1. Become(t, "load", "idle") /\ UNCHANGED save_mode
  BY DEF ClearLoading, Goto, Become, At, Reply, data, GateInv
<1>2. MovesTo(t, "load", "idle") /\ ThreadsOK'
  BY <1>1, MovedOK DEF ClearLoading, At, GateInv, ThreadsOK, Allowed, Roles, Pcs
<1>3. LocksOK'
  BY <1>2 DEF ClearLoading, At, locks, GateInv, ThreadsOK, LocksOK, MovesTo, Allowed, SharedAt,
     ExclusiveAt, SerialAt
<1>4. FlagsOK'
  <2>1. \A u \in GateThreads : ~OwnsLoading(running'[u])
    BY <1>2 DEF ClearLoading, At, GateInv, FlagsOK, MovesTo, OwnsLoading
  <2>2. \A u \in GateThreads : OwnsReadOnly(running'[u]) => OwnsReadOnly(running[u])
    BY <1>2 DEF ClearLoading, At, MovesTo, OwnsReadOnly
  <2> QED  BY <2>1, <2>2 DEF ClearLoading, GateInv, FlagsOK
<1>5. RecordsOK'
  BY GateAssumption DEF ClearLoading, Reply, data, GateInv, RecordsOK, NoImage
<1>6. StoresOK'
  BY <1>2 DEF ClearLoading, At, Reply, data, GateInv, RecordsOK, LocksOK, SharedAt, ExclusiveAt,
     SerialAt, StoresOK, MovesTo, NoImage, ThreadsOK, Allowed
<1>7. ImageOK'
  BY <1>2 DEF ClearLoading, At, Reply, data, GateInv, RecordsOK, LocksOK, FlagsOK, ThreadsOK, Allowed,
     SharedAt, ExclusiveAt, SerialAt, OwnsReadOnly, StoresOK, ImageOK, MovesTo, NoImage
<1>8. StoppedOK'
  BY <1>2 DEF ClearLoading, At, flags, GateInv, LocksOK, FlagsOK, ThreadsOK, Allowed, SharedAt,
     ExclusiveAt, SerialAt, OwnsLoading, Stopped, StoppedOK, PastRecheck, MovesTo, GateThreads
<1> QED  BY <1>2, <1>3, <1>4, <1>5, <1>6, <1>7, <1>8 DEF GateInv

-----------------------------------------------------------------------------
(* The schedulers.                                                          *)

LEMMA TakeSnapshotStep ==
  ASSUME GateInv, TakeSnapshot
  PROVE  GateInv'
<1>1. Become("snapshots", "auto", "reserve") /\ UNCHANGED <<flags, locks, data>>
  BY DEF TakeSnapshot, Goto, At
<1> QED
  BY <1>1, QuietMove, GateAssumption DEF TakeSnapshot, At, Asleep, Idling, GateInv, ThreadsOK, Allowed,
     Roles, Pcs, GateThreads,
     SameHeld, SharedAt, ExclusiveAt, SerialAt, OwnsReadOnly, OwnsLoading, PastRecheck, Stopped,
     StoppedOK

LEMMA StartBackgroundSaveStep ==
  ASSUME GateInv, StartBackgroundSave
  PROVE  GateInv'
<1>1. Become("snapshots", "auto", "clear") /\ UNCHANGED <<flags, locks, data>>
  BY DEF StartBackgroundSave, Goto, At
<1> QED
  BY <1>1, QuietMove, GateAssumption DEF StartBackgroundSave, At, Asleep, Idling, GateInv, ThreadsOK,
     Allowed, Roles, Pcs, GateThreads,
     SameHeld, SharedAt, ExclusiveAt, SerialAt, OwnsReadOnly, OwnsLoading, PastRecheck, Stopped,
     StoppedOK

LEMMA DecayDueStep ==
  ASSUME GateInv, DecayDue
  PROVE  GateInv'
<1>1. Become("decay", "decay", "gate") /\ UNCHANGED <<flags, locks, data>>
  BY DEF DecayDue, Goto, At
<1> QED
  BY <1>1, QuietMove, GateAssumption DEF DecayDue, At, Asleep, Idling, GateInv, ThreadsOK, Allowed,
     Roles, Pcs, GateThreads,
     SameHeld, SharedAt, ExclusiveAt, SerialAt, OwnsReadOnly, OwnsLoading, PastRecheck, Stopped,
     StoppedOK

LEMMA DecayCheckStep ==
  ASSUME GateInv, DecayCheck
  PROVE  GateInv'
<1>1. "decay" \in GateThreads /\ "decay" \notin Requests /\ SharedAt(running["decay"])
  BY GateAssumption DEF DecayCheck, At, SharedAt, GateThreads
<1>2. CASE read_only
  BY <1>1, <1>2, ReplyMove DEF DecayCheck, At
<1>3. CASE ~read_only
  <2>1. Become("decay", "decay", "append") /\ UNCHANGED <<flags, locks, data>>
    BY <1>3 DEF DecayCheck, Goto, At
  <2> QED
    BY <1>1, <2>1, QuietMove DEF DecayCheck, At, GateInv, Allowed, Roles, Pcs,
       SameHeld, SharedAt, ExclusiveAt, SerialAt, OwnsReadOnly, OwnsLoading
<1> QED  BY <1>2, <1>3

-----------------------------------------------------------------------------
(* The invariant, and the theorems.                                         *)

LEMMA GateInitHolds == GateInit => GateInv
<1> SUFFICES ASSUME GateInit PROVE GateInv
  OBVIOUS
<1>1. Idling \in ThreadStates /\ Idling.role = "none" /\ Idling.pc = "idle"
  BY DEF Idling, ThreadStates, Roles, Pcs
<1>2. running \in [GateThreads -> ThreadStates] /\ \A t \in GateThreads : running[t] = Idling
  BY <1>1 DEF GateInit
<1>3. ThreadsOK
  BY <1>1, <1>2 DEF GateInit, ThreadsOK, Allowed
<1>4. LocksOK
  BY <1>1, <1>2 DEF GateInit, LocksOK, SharedAt, ExclusiveAt, SerialAt
<1>5. FlagsOK
  BY <1>1, <1>2 DEF GateInit, FlagsOK, OwnsReadOnly, OwnsLoading
<1>6. RecordsOK /\ StoresOK /\ ImageOK
  BY <1>1, <1>2, GateAssumption DEF GateInit, RecordsOK, StoresOK, ImageOK, NoImage, At
<1>7. StoppedOK
  BY DEF GateInit, StoppedOK, Stopped
<1> QED  BY <1>3, <1>4, <1>5, <1>6, <1>7 DEF GateInv

LEMMA GateStepHolds == GateInv /\ [GateNext]_gateVars => GateInv'
<1> SUFFICES ASSUME GateInv, [GateNext]_gateVars PROVE GateInv'
  OBVIOUS
<1>1. ASSUME NEW t \in Requests, GateArrives(t) PROVE GateInv'
  BY <1>1, DispatchWriteStep, DispatchSimStep, DumpStep DEF GateArrives
<1>2. CASE TakeSnapshot \/ DecayDue
  BY <1>2, TakeSnapshotStep, DecayDueStep
<1>3. ASSUME NEW t \in GateThreads, GateStep(t) PROVE GateInv'
  BY <1>3, CheckReadOnlyStep, RecheckLoadingStep, RecheckReadOnlyStep, ComputeStep, AppendRecordStep,
     AppendFailsStep, ApplyRecordStep, ApplyRefusedStep,
     SaveStartsStep, ReserveReadOnlyStep, CaptureSequenceStep, WriteImageStep, ForkImageStep,
     ForkRepliesStep, ClearReadOnlyStep,
     ReserveLoadingStep, LoadGivesUpStep, LoadStagedStep, SwapStoresStep, LoadDurableStep,
     FailStopStep, ClearLoadingStep,
     StartBackgroundSaveStep, DecayCheckStep DEF GateStep
<1>4. ASSUME NEW t \in GateThreads, GateAcquires(t) PROVE GateInv'
  BY <1>4, AcquireSharedStep, AcquireSerialStep, AcquireExclusiveStep DEF GateAcquires
<1>5. CASE UNCHANGED gateVars
  BY <1>5 DEF gateVars, GateInv, ThreadsOK, LocksOK, FlagsOK, RecordsOK, StoresOK, ImageOK, StoppedOK,
     Stopped,
     Allowed, At
<1> QED  BY <1>1, <1>2, <1>3, <1>4, <1>5 DEF GateNext

LEMMA GateInvariantHolds == GateSpec => []GateInv
BY GateInitHolds, GateStepHolds, PTL DEF GateSpec

\* For any number of clients that write, query, save and load at once, with the
\* scheduler and the decay beside them: what a DUMP SAVE writes, in either mode,
\* is the state after exactly the records up to the sequence it captured
\* (HandleDumpSave, WriteSnapshotWithLock, RequestDispatcher::Dispatch).
THEOREM SavesConsistent == GateSpec => []SavesArePointInTime
<1>1. GateInv => SavesArePointInTime
  <2> SUFFICES ASSUME GateInv, NEW t \in Requests, At(t, "save", "clear") \/ At(t, "fork", "reply")
               PROVE  taken.content = (taken.base + 1 .. taken.upto) \ broken
    BY DEF SavesArePointInTime
  <2>1. ASSUME NEW u \in GateThreads PROVE ~At(u, "save", "write")
    <3>1. CASE At(t, "save", "clear")
      BY <3>1 DEF At, GateInv, FlagsOK, OwnsReadOnly, GateThreads
    <3>2. CASE At(t, "fork", "reply")
      BY <3>2 DEF At, GateInv, ThreadsOK, Allowed, GateThreads
    <3> QED  BY <3>1, <3>2
  <2> QED  BY <2>1 DEF GateInv, ImageOK
<1> QED  BY <1>1, GateInvariantHolds, PTL

\* For any number of clients: once a load has left the recovery base uncertain, no
\* request is let through to the stores, not even one that had passed the flags
\* and was waiting for the gate (HandleDumpLoad's fail_stop, Dispatch).
THEOREM FailStopKept == GateSpec => []FailStopHolds
<1>1. GateInv => FailStopHolds
  BY DEF GateInv, StoppedOK, FailStopHolds, PastRecheck
<1> QED  BY <1>1, GateInvariantHolds, PTL

-----------------------------------------------------------------------------
(* The runtime variables.                                                   *)

\* The values a SET may carry once its text was parsed.
Settable(v) == IF v = "cache.enabled" THEN {0, 1} ELSE {-1, 0, 1, 60}
SetterStates == [pc : {"idle", "apply", "record"}, var : Mutable, value : {-1, 0, 1, 60}]

\* A SET is under way in the connection that holds set_mutex_, and nowhere else.
SettersOK ==
  /\ setter \in [Setters -> SetterStates]
  /\ \A s \in Setters : setter[s].value \in Settable(setter[s].var)
  /\ set_mutex \subseteq Setters
  /\ \A s \in Setters : s \in set_mutex <=> setter[s].pc # "idle"
  /\ \A s, t \in set_mutex : s = t

\* Between Apply and RecordValue the value of the SET is in force and its
\* variable the only one that is reported wrongly.
Recording(s, v) == setter[s].pc = "record" /\ setter[s].var = v
ValuesOK ==
  /\ runtime_values \in [Mutable -> DOMAIN Number \cup {"true", "false"}]
  /\ inForce \in [Variables -> Int]
  /\ \A s \in Setters : setter[s].pc = "record" => /\ setter[s].value >= 0
                                                   /\ inForce[setter[s].var] = setter[s].value
  /\ \A v \in Variables : (\A s \in Setters : ~Recording(s, v)) =>
       Parse(v, GetVariableInternal(v)) = inForce[v]

VariablesInv == SettersOK /\ ValuesOK

LEMMA TheVariables ==
  /\ Variables = {"cache.enabled", "cache.ttl_seconds", "wal.sync_interval_ms"}
  /\ Mutable = {"cache.enabled", "cache.ttl_seconds"}
<1>1. Variables = {"cache.enabled", "cache.ttl_seconds", "wal.sync_interval_ms"}
  BY DEF Variables, kVariableMutability
<1>2. \A v \in Variables : kVariableMutability[v] <=> v # "wal.sync_interval_ms"
  BY <1>1 DEF kVariableMutability
<1> QED  BY <1>1, <1>2 DEF Mutable

LEMMA Numbers ==
  /\ DOMAIN Number = {"1", "0", "60", "-1"}
  /\ Number["1"] = 1 /\ Number["0"] = 0 /\ Number["60"] = 60 /\ Number["-1"] = -1
BY DEF Number

\* The canonical text of a value, read back, is the value.
LEMMA RoundTrip ==
  ASSUME NEW v \in Mutable, NEW n \in Settable(v)
  PROVE  Parse(v, Canonical(v, n)) = n /\ Canonical(v, n) \in DOMAIN Number \cup {"true", "false"}
<1>1. CASE v = "cache.enabled"
  <2>1. n \in {0, 1}
    BY <1>1 DEF Settable
  <2> QED  BY <1>1, <2>1 DEF Parse, ParseBool, Canonical
<1>2. CASE v # "cache.enabled"
  <2>1. n \in {-1, 0, 1, 60}
    BY <1>2 DEF Settable
  <2>2. \E t \in DOMAIN Number : Number[t] = n
    BY <2>1, Numbers
  <2>3. TextOf(n) \in DOMAIN Number /\ Number[TextOf(n)] = n
    BY <2>2 DEF TextOf
  <2> QED  BY <1>2, <2>3 DEF Parse, ParseInt, Canonical
<1> QED  BY <1>1, <1>2

\* What a text parses to can be set.
LEMMA Parsed ==
  ASSUME NEW v \in Mutable, NEW text, Parse(v, text) # Invalid
  PROVE  Parse(v, text) \in Settable(v) /\ Parse(v, text) \in {-1, 0, 1, 60}
<1>1. CASE v = "cache.enabled"
  BY <1>1 DEF Parse, ParseBool, Settable
<1>2. CASE v # "cache.enabled"
  <2>1. text \in DOMAIN Number /\ Parse(v, text) = Number[text]
    BY <1>2 DEF Parse, ParseInt
  <2> QED  BY <1>2, <2>1, Numbers DEF Settable
<1> QED  BY <1>1, <1>2

LEMMA VariablesInvInit == VariablesInit => VariablesInv
<1> SUFFICES ASSUME VariablesInit PROVE VariablesInv
  OBVIOUS
<1>1. AtEase \in SetterStates /\ AtEase.pc = "idle" /\ AtEase.value \in Settable(AtEase.var)
  BY TheVariables DEF AtEase, SetterStates, Settable
<1>2. SettersOK
  BY <1>1 DEF VariablesInit, SettersOK
<1>3. inForce = base_config /\ base_config \in [Variables -> Int]
  BY TheVariables DEF VariablesInit, base_config
<1>4. /\ base_config["cache.enabled"] = 1 /\ base_config["cache.ttl_seconds"] = 60
      /\ base_config["wal.sync_interval_ms"] = 60
  BY TheVariables DEF base_config
<1>5. \A v \in Mutable : base_config[v] \in Settable(v)
  BY <1>4, TheVariables DEF Settable
<1>6. /\ \A v \in Mutable : runtime_values[v] = Canonical(v, base_config[v])
      /\ DOMAIN runtime_values = Mutable
      /\ runtime_values \in [Mutable -> DOMAIN Number \cup {"true", "false"}]
  BY <1>5, RoundTrip DEF VariablesInit
<1>7. \A v \in Variables : Parse(v, GetVariableInternal(v)) = inForce[v]
  <2> TAKE v \in Variables
  <2>1. CASE v \in Mutable
    BY <1>3, <1>5, <1>6, <2>1, RoundTrip DEF GetVariableInternal
  <2>2. CASE v \notin Mutable
    <3>1. v = "wal.sync_interval_ms" /\ base_config[v] = 60
      BY <1>4, <2>2, TheVariables
    <3>2. TextOf(60) \in DOMAIN Number /\ Number[TextOf(60)] = 60
      BY Numbers DEF TextOf
    <3> QED  BY <1>3, <1>6, <2>2, <3>1, <3>2 DEF GetVariableInternal, Parse, ParseInt
  <2> QED  BY <2>1, <2>2
<1>8. \A s \in Setters : setter[s].pc = "idle"
  BY <1>1 DEF VariablesInit
<1> QED  BY <1>2, <1>3, <1>6, <1>7, <1>8 DEF VariablesInv, ValuesOK

\* One connection moves.
LEMMA SetterMoves ==
  ASSUME VariablesInv, NEW s \in Setters, NEW r \in SetterStates, setter' = [setter EXCEPT ![s] = r]
  PROVE  /\ setter' \in [Setters -> SetterStates] /\ setter'[s] = r
         /\ \A t \in Setters : t # s => setter'[t] = setter[t]
BY DEF VariablesInv, SettersOK

LEMMA SetStep ==
  ASSUME VariablesInv, NEW s \in Setters, NEW v, NEW text, SetVariable(s, v, text)
  PROVE  VariablesInv'
<1> DEFINE r == [pc |-> "apply", var |-> v, value |-> Parse(v, text)]
<1>1. /\ v \in Mutable /\ set_mutex = {} /\ set_mutex' = {s} /\ setter' = [setter EXCEPT ![s] = r]
      /\ setter[s].pc = "idle" /\ UNCHANGED <<runtime_values, inForce>> /\ Parse(v, text) # Invalid
  BY DEF SetVariable
<1>2. Parse(v, text) \in Settable(v) /\ Parse(v, text) \in {-1, 0, 1, 60}
  BY <1>1, Parsed
<1>3. r \in SetterStates /\ r.pc = "apply" /\ r.value \in Settable(r.var)
  BY <1>1, <1>2 DEF SetterStates
<1>4. /\ setter' \in [Setters -> SetterStates] /\ setter'[s] = r
      /\ \A t \in Setters : t # s => setter'[t] = setter[t]
  BY <1>1, <1>3, SetterMoves
<1> HIDE DEF r
<1>5. SettersOK'
  BY <1>1, <1>3, <1>4 DEF VariablesInv, SettersOK
<1>6. \A t \in Setters : setter'[t].pc = "record" => setter'[t] = setter[t]
  BY <1>3, <1>4
<1>7. \A t \in Setters : \A u : Recording(t, u) => Recording(t, u)'
  BY <1>1, <1>4 DEF Recording
<1>8. ValuesOK'
  BY <1>1, <1>6, <1>7 DEF VariablesInv, ValuesOK, GetVariableInternal
<1> QED  BY <1>5, <1>8 DEF VariablesInv

\* The connection with a SET under way is the only one.
LEMMA OnlySetter ==
  ASSUME VariablesInv, NEW s \in Setters, setter[s].pc # "idle"
  PROVE  /\ setter[s] \in SetterStates /\ setter[s].value \in Settable(setter[s].var)
         /\ set_mutex = {s} /\ \A t \in Setters : t # s => setter[t].pc = "idle"
BY DEF VariablesInv, SettersOK

\* The value comes into force; its variable is reported wrongly until RecordValue.
LEMMA ApplyStep ==
  ASSUME VariablesInv, NEW s \in Setters, Apply(s)
  PROVE  VariablesInv'
<1> DEFINE w == setter[s].var
           n == setter[s].value
           r == [setter[s] EXCEPT !.pc = "record"]
<1>1. /\ n >= 0 /\ inForce' = [inForce EXCEPT ![w] = n] /\ setter' = [setter EXCEPT ![s] = r]
      /\ UNCHANGED <<runtime_values, set_mutex>> /\ setter[s].pc = "apply"
  BY DEF Apply
<1>2. /\ setter[s] \in SetterStates /\ n \in Settable(w) /\ w \in Mutable /\ n \in {-1, 0, 1, 60}
      /\ set_mutex = {s} /\ \A t \in Setters : t # s => setter[t].pc = "idle"
  BY <1>1, OnlySetter DEF SetterStates
<1>3. r \in SetterStates /\ r.pc = "record" /\ r.var = w /\ r.value = n
  BY <1>2 DEF SetterStates
<1>4. /\ setter' \in [Setters -> SetterStates] /\ setter'[s] = r
      /\ \A t \in Setters : t # s => setter'[t] = setter[t]
  BY <1>1, <1>3, SetterMoves
<1> HIDE DEF r, w, n
<1>5. SettersOK'
  BY <1>1, <1>2, <1>3, <1>4 DEF VariablesInv, SettersOK
<1>6. w \in Variables /\ n \in Int
  BY <1>2 DEF Mutable
<1>7. /\ inForce' \in [Variables -> Int] /\ inForce'[w] = n
      /\ \A v \in Variables : v # w => inForce'[v] = inForce[v]
  BY <1>1, <1>6 DEF VariablesInv, ValuesOK
<1>8. \A t \in Setters, v \in Variables : ~Recording(t, v)
  BY <1>1, <1>2 DEF Recording
<1>9. setter'[s].pc = "record" /\ setter'[s].var = w
  BY <1>3, <1>4
<1>10. \A v \in Variables : (\A t \in Setters : ~Recording(t, v)') =>
         Parse(v, GetVariableInternal(v)') = inForce'[v]
  <2> SUFFICES ASSUME NEW v \in Variables, \A t \in Setters : ~Recording(t, v)'
               PROVE  Parse(v, GetVariableInternal(v)') = inForce'[v]
    OBVIOUS
  <2>1. v # w
    BY <1>9 DEF Recording
  <2>2. GetVariableInternal(v)' = GetVariableInternal(v)
    BY <1>1 DEF GetVariableInternal
  <2> QED  BY <1>7, <1>8, <2>1, <2>2 DEF VariablesInv, ValuesOK
<1>11. \A t \in Setters : setter'[t].pc = "record" => t = s
  BY <1>2, <1>4
<1>12. runtime_values' \in [Mutable -> DOMAIN Number \cup {"true", "false"}]
  BY <1>1 DEF VariablesInv, ValuesOK
<1>13. ValuesOK'
  BY <1>1, <1>3, <1>4, <1>7, <1>10, <1>11, <1>12 DEF ValuesOK
<1> QED  BY <1>5, <1>13 DEF VariablesInv

\* The SET ends, with its value recorded or with an error.
LEMMA EndStep ==
  ASSUME VariablesInv, NEW s \in Setters, ApplyFails(s) \/ RecordValue(s)
  PROVE  VariablesInv'
<1> DEFINE w == setter[s].var
           n == setter[s].value
<1>1. /\ setter' = [setter EXCEPT ![s] = AtEase] /\ set_mutex' = set_mutex \ {s}
      /\ UNCHANGED inForce /\ setter[s].pc \in {"apply", "record"}
  BY DEF ApplyFails, RecordValue
<1>2. /\ setter[s] \in SetterStates /\ n \in Settable(w) /\ w \in Mutable
      /\ set_mutex = {s} /\ \A t \in Setters : t # s => setter[t].pc = "idle"
  BY <1>1, OnlySetter DEF SetterStates
<1>3. AtEase \in SetterStates /\ AtEase.pc = "idle" /\ AtEase.value \in Settable(AtEase.var)
  BY TheVariables DEF AtEase, SetterStates, Settable
<1>4. /\ setter' \in [Setters -> SetterStates] /\ setter'[s] = AtEase
      /\ \A t \in Setters : t # s => setter'[t] = setter[t]
  BY <1>1, <1>3, SetterMoves
<1> HIDE DEF w, n
<1>5. SettersOK'
  BY <1>1, <1>2, <1>3, <1>4 DEF VariablesInv, SettersOK
<1>6. \A t \in Setters : setter'[t].pc = "idle"
  BY <1>2, <1>3, <1>4
<1>7. CASE ApplyFails(s)
  <2>1. UNCHANGED <<runtime_values, inForce>> /\ setter[s].pc = "apply"
    BY <1>7 DEF ApplyFails
  <2>2. \A t \in Setters, v \in Variables : ~Recording(t, v)
    BY <1>2, <2>1 DEF Recording
  <2>3. ValuesOK'
    BY <1>6, <2>1, <2>2 DEF VariablesInv, ValuesOK, GetVariableInternal
  <2> QED  BY <1>5, <2>3 DEF VariablesInv
<1>8. CASE RecordValue(s)
  <2>1. runtime_values' = [runtime_values EXCEPT ![w] = Canonical(w, n)] /\ setter[s].pc = "record"
    BY <1>8 DEF RecordValue, w, n
  <2>2. inForce[w] = n
    BY <2>1 DEF VariablesInv, ValuesOK, w, n
  <2>3. Parse(w, Canonical(w, n)) = n /\ Canonical(w, n) \in DOMAIN Number \cup {"true", "false"}
    BY <1>2, RoundTrip
  <2>4. /\ runtime_values \in [Mutable -> DOMAIN Number \cup {"true", "false"}]
        /\ inForce \in [Variables -> Int]
    BY DEF VariablesInv, ValuesOK
  <2>5. /\ runtime_values' \in [Mutable -> DOMAIN Number \cup {"true", "false"}]
        /\ DOMAIN runtime_values' = DOMAIN runtime_values /\ w \in DOMAIN runtime_values
        /\ runtime_values'[w] = Canonical(w, n)
        /\ \A v \in Mutable : v # w => runtime_values'[v] = runtime_values[v]
        /\ DOMAIN runtime_values = Mutable
    BY <1>2, <2>1, <2>3, <2>4
  <2>6. \A v \in Variables : Parse(v, GetVariableInternal(v)') = inForce[v]
    <3> TAKE v \in Variables
    <3>1. CASE v = w
      BY <2>2, <2>3, <2>5, <3>1 DEF GetVariableInternal
    <3>2. CASE v # w
      <4>1. \A t \in Setters : ~Recording(t, v)
        BY <1>2, <3>2 DEF Recording, w
      <4>2. Parse(v, GetVariableInternal(v)) = inForce[v]
        BY <4>1 DEF VariablesInv, ValuesOK
      <4>3. GetVariableInternal(v)' = GetVariableInternal(v)
        BY <2>5, <3>2 DEF GetVariableInternal
      <4> QED  BY <4>2, <4>3
    <3> QED  BY <3>1, <3>2
  <2>7. ValuesOK'
    BY <1>1, <1>6, <2>4, <2>5, <2>6 DEF ValuesOK
  <2> QED  BY <1>5, <2>7 DEF VariablesInv
<1> QED  BY <1>7, <1>8

LEMMA VariablesInvNext == VariablesInv /\ [VariablesNext]_variableVars => VariablesInv'
<1> SUFFICES ASSUME VariablesInv, [VariablesNext]_variableVars PROVE VariablesInv'
  OBVIOUS
<1>1. ASSUME NEW s \in Setters, HandleSet(s) \/ HandleCacheEnable(s) \/ HandleCacheDisable(s)
      PROVE  VariablesInv'
  <2>1. \E v, text : SetVariable(s, v, text)
    BY <1>1 DEF HandleSet, HandleCacheEnable, HandleCacheDisable
  <2> QED  BY <2>1, SetStep
<1>2. ASSUME NEW s \in Setters, Apply(s) \/ ApplyFails(s) \/ RecordValue(s)
      PROVE  VariablesInv'
  BY <1>2, ApplyStep, EndStep
<1>3. CASE UNCHANGED variableVars
  BY <1>3 DEF variableVars, VariablesInv, SettersOK, ValuesOK, Recording, GetVariableInternal
<1> QED  BY <1>1, <1>2, <1>3 DEF VariablesNext

\* While no SET is under way, what GET and SHOW VARIABLES report is in force,
\* for any number of connections: set_mutex_ holds the applying of a value and
\* its recording together, and the canonical text of a value parses to it
\* (RuntimeVariableManager::SetVariable).
THEOREM ReportsInForce == VariablesSpec => []ReportedInForce
<1>1. VariablesSpec => []VariablesInv
  BY VariablesInvInit, VariablesInvNext, PTL DEF VariablesSpec
<1>2. VariablesInv => ReportedInForce
  BY DEF VariablesInv, ValuesOK, Recording, ReportedInForce
<1> QED  BY <1>1, <1>2, PTL

-----------------------------------------------------------------------------
(* The fork-mode writer.                                                    *)

Statuses == {"idle", "running", "completed", "failed"}
CallerPcs == {"idle", "fork", "publish", "wait", "settle", "checkpoint", "truncate"}
Outcomes == {"none", "ok", "bad", "reaped"}
ChildStates == {"none", "reserved", "alive", "ok", "bad", "reaped"}
SaveNumbers == 0 .. MaxChildren
CallerStates == [pc : CallerPcs, pid : SaveNumbers, got : Outcomes, save : SaveNumbers, seq : Nat]
Results == [status : Statuses, save : SaveNumbers, seq : Nat, pid : SaveNumbers]

TypesOK ==
  /\ result \in Results
  /\ caller \in [Callers -> CallerStates]
  /\ child \in [Saves -> ChildStates]
  /\ captured \in [Saves -> Nat] /\ sidecar \in [Saves -> Nat]
  /\ image \subseteq Saves /\ walFloor \in Nat
  /\ misfiled \in BOOLEAN /\ overlapped \in BOOLEAN

\* A save has a sequence once it was forked, and not before.
ChildrenOK ==
  \A s \in Saves : /\ child[s] \in {"alive", "ok", "bad"} => captured[s] > 0
                   /\ child[s] \in {"none", "reserved"} => captured[s] = 0
                   /\ s \in image => captured[s] > 0

\* Callers that start saves start different ones.
StartsOK ==
  /\ \A c \in Callers :
       /\ CallerAt(c, "fork") => caller[c].save \in Saves /\ child[caller[c].save] = "reserved"
       /\ CallerAt(c, "publish") => caller[c].save \in Saves /\ captured[caller[c].save] > 0
  /\ \A c, d \in Callers : Starting(c) /\ Starting(d) /\ c # d => caller[c].save # caller[d].save

\* A process that a caller may wait for was forked and published.
Published(p) == captured[p] > 0 /\ \A d \in Callers : Starting(d) => caller[d].save # p

PidsOK ==
  /\ result.pid # NoChild => Published(result.pid)
  /\ \A c \in Callers : /\ caller[c].pid # NoChild => Published(caller[c].pid)
                        /\ CallerAt(c, "wait") \/ CallerAt(c, "settle") => caller[c].pid # NoChild

\* Until the current save is published its caller is on the way to do so.
CurrentOK ==
  result.save # 0 /\ result.pid = NoChild /\ captured[result.save] > 0 =>
    \E d \in Callers : CallerAt(d, "publish") /\ caller[d].save = result.save

Settled(c) == CallerAt(c, "checkpoint") \/ CallerAt(c, "truncate")

\* While no two saves were started at once, a sequence goes with its save.
UnmixedOK ==
  ~overlapped =>
    /\ \A c \in Callers : Starting(c) => caller[c].save = result.save
    /\ result.seq # 0 => result.save # 0 /\ result.seq = captured[result.save]
    /\ \A c \in Callers : Settled(c) /\ caller[c].seq # 0 =>
         caller[c].save # 0 /\ caller[c].seq = captured[caller[c].save]
    /\ walFloor > 0 => \E s \in image : captured[s] >= walFloor

\* While every status was written for its own save, a checkpoint is exact.
FiledOK ==
  ~misfiled =>
    /\ \/ result.pid = NoChild /\ result.seq = 0
       \/ result.pid # NoChild /\ result.pid = result.save /\ result.seq = captured[result.save]
    /\ \A c \in Callers : Settled(c) =>
         caller[c].save # 0 /\ caller[c].seq = captured[caller[c].save] /\ captured[caller[c].save] > 0
    /\ \A c \in Callers : CallerAt(c, "truncate") => sidecar[caller[c].save] = captured[caller[c].save]
    /\ walFloor > 0 => \E s \in image : captured[s] = sidecar[s] /\ sidecar[s] >= walFloor

\* A caller truncates after the checkpoint of an image that is there.
TruncatesOK == \A c \in Callers : CallerAt(c, "truncate") => caller[c].save \in image

ForkInv == TypesOK /\ ChildrenOK /\ StartsOK /\ PidsOK /\ CurrentOK /\ TruncatesOK /\ UnmixedOK /\ FiledOK

-----------------------------------------------------------------------------
(* The moves of a caller.                                                   *)

\* Only c moves, and this is where it is afterwards.
CallerMoves(c, pc, pid, save, seq) ==
  /\ caller' \in [Callers -> CallerStates]
  /\ \A d \in Callers : d # c => caller'[d] = caller[d]
  /\ caller'[c].pc = pc /\ caller'[c].pid = pid /\ caller'[c].save = save /\ caller'[c].seq = seq

\* The record of one caller is replaced.
LEMMA CallerMoved ==
  ASSUME TypesOK, NEW c \in Callers, NEW r \in CallerStates, caller' = [caller EXCEPT ![c] = r]
  PROVE  CallerMoves(c, r.pc, r.pid, r.save, r.seq)
BY DEF TypesOK, CallerMoves

\* A caller at rest.
LEMMA RestOK ==
  /\ AtRest \in CallerStates
  /\ AtRest.pc = "idle" /\ AtRest.pid = 0 /\ AtRest.save = 0 /\ AtRest.seq = 0
BY ForkWriterAssumption DEF AtRest, CallerStates, CallerPcs, Outcomes, SaveNumbers, NoChild

\* A caller goes back to rest.
LEMMA Rested ==
  ASSUME TypesOK, NEW c \in Callers, caller' = [caller EXCEPT ![c] = AtRest]
  PROVE  CallerMoves(c, "idle", 0, 0, 0)
<1>1. CallerMoves(c, AtRest.pc, AtRest.pid, AtRest.save, AtRest.seq)
  BY RestOK, CallerMoved
<1> QED  BY <1>1, RestOK

\* A caller goes on.
LEMMA Stepped ==
  ASSUME TypesOK, NEW c \in Callers, NEW pc \in CallerPcs, caller' = [caller EXCEPT ![c].pc = pc]
  PROVE  CallerMoves(c, pc, caller[c].pid, caller[c].save, caller[c].seq)
<1> DEFINE r == [caller[c] EXCEPT !.pc = pc]
<1>1. /\ r \in CallerStates /\ r.pc = pc /\ r.pid = caller[c].pid /\ r.save = caller[c].save
      /\ r.seq = caller[c].seq
      /\ caller' = [caller EXCEPT ![c] = r]
  BY DEF TypesOK, CallerStates
<1>2. CallerMoves(c, r.pc, r.pid, r.save, r.seq)
  BY <1>1, CallerMoved
<1> QED  BY <1>1, <1>2

\* The types, field by field.
Typed ==
  /\ captured \in [Saves -> Nat] /\ sidecar \in [Saves -> Nat] /\ image \subseteq Saves
  /\ walFloor \in Nat
  /\ result.save \in SaveNumbers /\ result.pid \in SaveNumbers /\ result.seq \in Nat
  /\ \A c \in Callers : caller[c].pid \in SaveNumbers /\ caller[c].save \in SaveNumbers /\ caller[c].seq \in Nat
  /\ \A n \in SaveNumbers : n = 0 \/ n \in Saves
  /\ 0 \notin Saves

LEMMA TypedOK == TypesOK => Typed
BY ForkWriterAssumption, SMTT(30) DEF TypesOK, CallerStates, Results, Typed, SaveNumbers, Saves

-----------------------------------------------------------------------------
(* The steps.                                                               *)

\* StartBackgroundSave takes the slot of the current save: its result is nobody's yet.
LEMMA ReserveOK ==
  ASSUME ForkInv, NEW c \in Callers, Reserve(c)
  PROVE  ForkInv'
<1> USE ForkWriterAssumption DEF ForkInv, Reserve
<1>a. PICK s \in Saves :
        /\ child[s] = "none" /\ child' = [child EXCEPT ![s] = "reserved"]
        /\ result' = [status |-> "running", save |-> s, seq |-> 0, pid |-> NoChild]
        /\ caller' = [caller EXCEPT ![c] = [AtRest EXCEPT !.pc = "fork", !.save = s]]
  OBVIOUS
<1>b. CallerMoves(c, "fork", 0, s, 0)
  <2>1. "fork" \in CallerPcs /\ 0 \in SaveNumbers /\ s \in SaveNumbers
    BY DEF CallerPcs, SaveNumbers, Saves
  <2> DEFINE r == [AtRest EXCEPT !.pc = "fork", !.save = s]
  <2>2. r \in CallerStates /\ r.pc = "fork" /\ r.pid = 0 /\ r.save = s /\ r.seq = 0
    BY <2>1, RestOK DEF CallerStates
  <2>3. caller' = [caller EXCEPT ![c] = r]
    BY <1>a
  <2> HIDE DEF r
  <2>4. CallerMoves(c, r.pc, r.pid, r.save, r.seq)
    BY <2>2, <2>3, CallerMoved
  <2> QED  BY <2>2, <2>4
<1>c. /\ result' \in Results /\ result'.status = "running" /\ result'.save = s /\ result'.seq = 0
      /\ result'.pid = 0
  BY <1>a DEF Results, Statuses, SaveNumbers, Saves, NoChild
<1>d. /\ child' \in [Saves -> ChildStates] /\ child'[s] = "reserved"
      /\ \A r \in Saves : r # s => child'[r] = child[r]
      /\ CallerAt(c, "idle") /\ UNCHANGED <<captured, image, sidecar, walFloor, misfiled>>
  BY <1>a DEF TypesOK, ChildStates
<1>e. /\ overlapped' \in BOOLEAN /\ (overlapped => overlapped')
      /\ \A d \in Callers : Starting(d) => overlapped'
  BY DEF TypesOK
<1> HIDE DEF Reserve
<1>1. TypesOK'
  BY <1>a, <1>b, <1>c, <1>d, <1>e DEF TypesOK, CallerMoves
<1>2. ChildrenOK'
  BY <1>a, <1>b, <1>d, <1>e DEF ChildrenOK
<1>3. StartsOK'
  BY <1>a, <1>b, <1>d, <1>e DEF ChildrenOK, StartsOK, Starting, CallerAt, CallerMoves
<1>4. PidsOK'
  BY <1>a, <1>b, <1>c, <1>d, <1>e DEF ChildrenOK, PidsOK, Published, Starting, CallerAt, CallerMoves
<1>5. CurrentOK'
  BY <1>a, <1>b, <1>d, <1>e DEF CurrentOK, CallerMoves, ChildrenOK
<1>6. TruncatesOK'
  BY <1>a, <1>b, <1>d, <1>e DEF TruncatesOK, CallerAt, CallerMoves
<1>7. UnmixedOK'
  BY <1>a, <1>b, <1>d, <1>e DEF UnmixedOK, Starting, Settled, CallerAt, CallerMoves
<1>8. FiledOK'
  BY <1>a, <1>b, <1>d, <1>e DEF FiledOK, Settled, CallerAt, CallerMoves
<1> QED  BY <1>1, <1>2, <1>3, <1>4, <1>5, <1>6, <1>7, <1>8 DEF ForkInv

\* The new child gets a sequence; no caller can be waiting for it.
LEMMA ForkOK ==
  ASSUME ForkInv, NEW c \in Callers, Fork(c)
  PROVE  ForkInv'
<1> USE ForkWriterAssumption DEF ForkInv, Fork
<1>s. caller[c].save \in Saves /\ child[caller[c].save] = "reserved" /\ captured[caller[c].save] = 0
  BY DEF StartsOK, ChildrenOK
<1>b. CallerMoves(c, "publish", caller[c].pid, caller[c].save, caller[c].seq)
  BY Stepped DEF CallerPcs
<1>n. Forks \in Nat
  <2>1. {r \in Saves : captured[r] > 0} \subseteq Saves /\ IsFiniteSet(Saves)
    BY FS_Interval DEF Saves
  <2> QED  BY <2>1, FS_Subset, FS_CardinalityType DEF Forks
<1>c. /\ child' \in [Saves -> ChildStates] /\ child'[caller[c].save] = "alive"
      /\ \A r \in Saves : r # caller[c].save => child'[r] = child[r]
      /\ captured' \in [Saves -> Nat] /\ captured'[caller[c].save] > 0
      /\ \A r \in Saves : r # caller[c].save => captured'[r] = captured[r]
      /\ CallerAt(c, "fork") /\ UNCHANGED <<result, image, sidecar, walFloor, misfiled, overlapped>>
  BY <1>s, <1>n DEF TypesOK, ChildStates
<1> HIDE DEF Fork
<1>1. TypesOK'
  BY <1>b, <1>c DEF TypesOK, CallerMoves
<1>2. ChildrenOK'
  BY <1>b, <1>c DEF ChildrenOK
<1>3. StartsOK'
  BY <1>b, <1>c DEF StartsOK, Starting, CallerAt, CallerMoves
<1>4. PidsOK'
  BY TypedOK, <1>b, <1>c DEF Typed, PidsOK, Published, Starting, CallerAt, NoChild, CallerMoves
<1>5. CurrentOK'
  BY TypedOK, <1>b, <1>c DEF Typed, CurrentOK, CallerAt, CallerMoves
<1>6. TruncatesOK'
  BY <1>b, <1>c DEF TruncatesOK, CallerAt, CallerMoves
<1>7. UnmixedOK'
  BY TypedOK, <1>s, <1>b, <1>c DEF Typed, UnmixedOK, Starting, Settled, CallerAt, CallerMoves
<1>8. FiledOK'
  <2>1. result.pid # NoChild => result.pid # caller[c].save
    BY <1>s DEF PidsOK, Published
  <2>2. \A d \in Callers : d # c => (Settled(d)' <=> Settled(d)) /\ caller'[d] = caller[d]
    BY <1>b DEF CallerMoves, Settled, CallerAt
  <2>3. ~Settled(c)' /\ ~CallerAt(c, "truncate")'
    BY <1>b DEF CallerMoves, Settled, CallerAt
  <2> QED  BY TypedOK, <1>s, <1>b, <1>c, <2>1, <2>2, <2>3 DEF Typed, FiledOK, NoChild, CallerAt, Settled
<1> QED  BY <1>1, <1>2, <1>3, <1>4, <1>5, <1>6, <1>7, <1>8 DEF ForkInv

\* fork() failed: the save ends without a child.
LEMMA ForkFailsOK ==
  ASSUME ForkInv, NEW c \in Callers, ForkFails(c)
  PROVE  ForkInv'
<1> USE ForkWriterAssumption DEF ForkInv, ForkFails
<1>s. caller[c].save \in Saves /\ child[caller[c].save] = "reserved" /\ captured[caller[c].save] = 0
  BY DEF StartsOK, ChildrenOK
<1>b. CallerMoves(c, "idle", 0, 0, 0)
  BY Rested
<1>c. /\ child' \in [Saves -> ChildStates] /\ child'[caller[c].save] = "reaped"
      /\ \A r \in Saves : r # caller[c].save => child'[r] = child[r]
      /\ result' \in Results /\ result'.save = result.save /\ result'.seq = result.seq
      /\ result'.pid = result.pid
      /\ misfiled' \in BOOLEAN /\ (misfiled => misfiled')
      /\ CallerAt(c, "fork") /\ UNCHANGED <<captured, image, sidecar, walFloor, overlapped>>
  BY <1>s DEF TypesOK, ChildStates, Results, Statuses, Misfile
<1> HIDE DEF ForkFails
<1>1. TypesOK'
  BY <1>b, <1>c DEF TypesOK, CallerMoves
<1>2. ChildrenOK'
  BY <1>b, <1>c DEF ChildrenOK
<1>3. StartsOK'
  BY <1>b, <1>c DEF StartsOK, Starting, CallerAt, CallerMoves
<1>4. PidsOK'
  BY <1>b, <1>c DEF PidsOK, Published, Starting, CallerAt, NoChild, CallerMoves
<1>5. CurrentOK'
  BY <1>b, <1>c DEF CurrentOK, CallerAt, CallerMoves
<1>6. TruncatesOK'
  BY <1>b, <1>c DEF TruncatesOK, CallerAt, CallerMoves
<1>7. UnmixedOK'
  BY <1>b, <1>c DEF UnmixedOK, Starting, Settled, CallerAt, CallerMoves
<1>8. FiledOK'
  BY <1>b, <1>c DEF FiledOK, Settled, CallerAt, CallerMoves
<1> QED  BY <1>1, <1>2, <1>3, <1>4, <1>5, <1>6, <1>7, <1>8 DEF ForkInv

\* The pid and the sequence become those of the current save, whichever it is.
LEMMA PublishChildOK ==
  ASSUME ForkInv, NEW c \in Callers, PublishChild(c)
  PROVE  ForkInv'
<1> USE ForkWriterAssumption DEF ForkInv, PublishChild
<1>s. caller[c].save \in Saves /\ captured[caller[c].save] > 0 /\ captured[caller[c].save] \in Nat
  BY DEF StartsOK, TypesOK
<1>b. CallerMoves(c, "idle", 0, 0, 0)
  BY Rested
<1>c. /\ result' \in Results /\ result'.save = result.save /\ result'.seq = captured[caller[c].save]
      /\ result'.pid = caller[c].save
      /\ CallerAt(c, "publish") /\ UNCHANGED <<child, captured, image, sidecar, walFloor, overlapped>>
  <2>1. result \in Results /\ caller[c].save \in SaveNumbers
    BY TypedOK DEF TypesOK, Typed
  <2> QED  BY <1>s, <2>1 DEF Results
<1>d. misfiled' \in BOOLEAN /\ (misfiled => misfiled') /\ (~misfiled' => caller[c].save = result.save)
  BY DEF TypesOK, Misfile
<1> HIDE DEF PublishChild
<1>1. TypesOK'
  BY <1>b, <1>c, <1>d DEF TypesOK, CallerMoves
<1>2. ChildrenOK'
  BY TypedOK, <1>s, <1>b, <1>c, <1>d DEF Typed, ChildrenOK
<1>3. StartsOK'
  BY <1>b, <1>c DEF StartsOK, Starting, CallerAt, CallerMoves
<1>4. PidsOK'
  BY <1>b, <1>c DEF StartsOK, PidsOK, Published, Starting, CallerAt, NoChild, CallerMoves
<1>5. CurrentOK'
  BY TypedOK, <1>s, <1>b, <1>c DEF Typed, CurrentOK, NoChild, CallerMoves
<1>6. TruncatesOK'
  BY <1>b, <1>c DEF TruncatesOK, CallerAt, CallerMoves
<1>7. UnmixedOK'
  BY TypedOK, <1>s, <1>b, <1>c DEF Typed, UnmixedOK, Starting, Settled, CallerAt, CallerMoves
<1>8. FiledOK'
  BY TypedOK, <1>s, <1>b, <1>c, <1>d DEF Typed, FiledOK, Settled, CallerAt, NoChild, CallerMoves
<1> QED  BY <1>1, <1>2, <1>3, <1>4, <1>5, <1>6, <1>7, <1>8 DEF ForkInv

\* A caller reads the pid under the lock and drops the lock.
LEMMA LookOK ==
  ASSUME ForkInv, NEW c \in Callers, Look(c)
  PROVE  ForkInv'
<1> USE ForkWriterAssumption DEF ForkInv, Look
<1>b. CallerMoves(c, "wait", result.pid, 0, 0)
  <2>1. "wait" \in CallerPcs /\ result.pid \in SaveNumbers /\ 0 \in SaveNumbers
    BY DEF CallerPcs, SaveNumbers, TypesOK, Results
  <2> DEFINE r == [AtRest EXCEPT !.pc = "wait", !.pid = result.pid]
  <2>2. r \in CallerStates /\ r.pc = "wait" /\ r.pid = result.pid /\ r.save = 0 /\ r.seq = 0
    BY <2>1, RestOK DEF CallerStates
  <2>3. caller' = [caller EXCEPT ![c] = r]
    OBVIOUS
  <2> HIDE DEF r
  <2>4. CallerMoves(c, r.pc, r.pid, r.save, r.seq)
    BY <2>2, <2>3, CallerMoved
  <2> QED  BY <2>2, <2>4
<1>c. /\ CallerAt(c, "idle") /\ result.pid # NoChild
      /\ UNCHANGED <<result, child, captured, image, sidecar, walFloor, misfiled, overlapped>>
  OBVIOUS
<1> HIDE DEF Look
<1>1. TypesOK'
  BY <1>b, <1>c DEF TypesOK, CallerMoves
<1>2. ChildrenOK'
  BY <1>b, <1>c DEF ChildrenOK
<1>3. StartsOK'
  BY <1>b, <1>c DEF StartsOK, Starting, CallerAt, CallerMoves
<1>4. PidsOK'
  BY <1>b, <1>c DEF PidsOK, Published, Starting, CallerAt, CallerMoves
<1>5. CurrentOK'
  BY <1>b, <1>c DEF CurrentOK, CallerMoves
<1>6. TruncatesOK'
  BY <1>b, <1>c DEF TruncatesOK, CallerAt, CallerMoves
<1>7. UnmixedOK'
  BY <1>b, <1>c DEF UnmixedOK, Starting, Settled, CallerAt, CallerMoves
<1>8. FiledOK'
  BY <1>b, <1>c DEF FiledOK, Settled, CallerAt, CallerMoves
<1> QED  BY <1>1, <1>2, <1>3, <1>4, <1>5, <1>6, <1>7, <1>8 DEF ForkInv

\* waitpid outside the lock: another caller may have reaped the child.
LEMMA WaitPidOK ==
  ASSUME ForkInv, NEW c \in Callers, WaitPid(c)
  PROVE  ForkInv'
<1> USE ForkWriterAssumption DEF ForkInv, WaitPid
<1>s. /\ caller[c].pid \in Saves /\ child[caller[c].pid] \in ChildStates /\ captured[caller[c].pid] > 0
      /\ CallerAt(c, "wait")
  BY TypedOK DEF PidsOK, Published, Typed, TypesOK, NoChild
<1>b. CallerMoves(c, "idle", 0, 0, 0) \/ CallerMoves(c, "settle", caller[c].pid, caller[c].save, caller[c].seq)
  <2>1. CASE child[caller[c].pid] = "alive"
    BY <2>1, Rested
  <2>2. CASE child[caller[c].pid] # "alive"
    <3> DEFINE r == [caller[c] EXCEPT !.pc = "settle", !.got = child[caller[c].pid]]
    <3>1. caller' = [caller EXCEPT ![c] = r]
      BY <2>2 DEF TypesOK, CallerStates
    <3>2. child[caller[c].pid] \in Outcomes
      BY <1>s, <2>2 DEF ChildStates, Outcomes, ChildrenOK
    <3>3. r \in CallerStates
      <4>1. caller[c] \in CallerStates /\ "settle" \in CallerPcs
        BY DEF TypesOK, CallerPcs
      <4> QED  BY <3>2, <4>1 DEF CallerStates
    <3>5. r.pc = "settle" /\ r.pid = caller[c].pid /\ r.save = caller[c].save /\ r.seq = caller[c].seq
      BY DEF TypesOK, CallerStates
    <3> HIDE DEF r
    <3>4. CallerMoves(c, r.pc, r.pid, r.save, r.seq)
      BY <3>1, <3>3, CallerMoved
    <3> QED  BY <3>4, <3>5
  <2> QED  BY <2>1, <2>2
<1>c. /\ child' \in [Saves -> ChildStates]
      /\ \A r \in Saves : child'[r] = child[r] \/ (child[r] \in {"ok", "bad"} /\ child'[r] = "reaped")
      /\ UNCHANGED <<result, captured, image, sidecar, walFloor, misfiled, overlapped>>
  BY DEF TypesOK, ChildStates
<1> HIDE DEF WaitPid
<1>1. TypesOK'
  BY <1>b, <1>c DEF TypesOK, CallerMoves
<1>2. ChildrenOK'
  BY <1>b, <1>c DEF ChildrenOK
<1>3. StartsOK'
  BY <1>b, <1>c DEF StartsOK, Starting, CallerAt, CallerMoves
<1>4. PidsOK'
  BY <1>s, <1>b, <1>c DEF PidsOK, Published, Starting, CallerAt, NoChild, CallerMoves
<1>5. CurrentOK'
  BY <1>s, <1>b, <1>c DEF CurrentOK, CallerAt, CallerMoves
<1>6. TruncatesOK'
  BY <1>b, <1>c DEF TruncatesOK, CallerAt, CallerMoves
<1>7. UnmixedOK'
  BY <1>b, <1>c DEF UnmixedOK, Starting, Settled, CallerAt, CallerMoves
<1>8. FiledOK'
  BY <1>b, <1>c DEF FiledOK, Settled, CallerAt, CallerMoves
<1> QED  BY <1>1, <1>2, <1>3, <1>4, <1>5, <1>6, <1>7, <1>8 DEF ForkInv

\* The lock is taken again: the save that is settled is the current one.
LEMMA SettleOK ==
  ASSUME ForkInv, NEW c \in Callers, Settle(c)
  PROVE  ForkInv'
<1> USE ForkWriterAssumption DEF ForkInv, Settle
<1>s. /\ caller[c].pid \in Saves /\ captured[caller[c].pid] > 0 /\ CallerAt(c, "settle")
      /\ Published(caller[c].pid)
  BY TypedOK DEF PidsOK, Published, Typed, TypesOK, NoChild
<1>b. CallerMoves(c, "idle", 0, 0, 0) \/ CallerMoves(c, "checkpoint", 0, result.save, result.seq)
  <2>1. "checkpoint" \in CallerPcs /\ 0 \in SaveNumbers /\ result.save \in SaveNumbers /\ result.seq \in Nat
    BY DEF CallerPcs, SaveNumbers, TypesOK, Results
  <2>2. CASE caller[c].got = "ok"
    <3> DEFINE r == [AtRest EXCEPT !.pc = "checkpoint", !.save = result.save, !.seq = result.seq]
    <3>1. /\ r \in CallerStates /\ r.pc = "checkpoint" /\ r.pid = 0 /\ r.save = result.save
          /\ r.seq = result.seq
      BY <2>1, RestOK DEF CallerStates
    <3>2. caller' = [caller EXCEPT ![c] = r]
      BY <2>2
    <3> HIDE DEF r
    <3>3. CallerMoves(c, r.pc, r.pid, r.save, r.seq)
      BY <3>1, <3>2, CallerMoved
    <3> QED  BY <3>1, <3>3
  <2>3. CASE caller[c].got # "ok"
    BY <2>3, Rested
  <2> QED  BY <2>2, <2>3
<1>c. /\ result' \in Results /\ result'.save = result.save /\ result'.seq = result.seq
      /\ result'.pid = result.pid
      /\ misfiled' \in BOOLEAN /\ (misfiled => misfiled') /\ (~misfiled' => caller[c].pid = result.save)
      /\ UNCHANGED <<child, captured, image, sidecar, walFloor, overlapped>>
  BY DEF TypesOK, Results, Statuses, Misfile
<1> HIDE DEF Settle
<1>1. TypesOK'
  BY <1>b, <1>c DEF TypesOK, CallerMoves
<1>2. ChildrenOK'
  BY <1>b, <1>c DEF ChildrenOK
<1>3. StartsOK'
  BY <1>b, <1>c DEF StartsOK, Starting, CallerAt, CallerMoves
<1>4. PidsOK'
  BY <1>b, <1>c DEF PidsOK, Published, Starting, CallerAt, NoChild, CallerMoves
<1>5. CurrentOK'
  BY <1>s, <1>b, <1>c DEF CurrentOK, CallerAt, CallerMoves
<1>6. TruncatesOK'
  BY <1>b, <1>c DEF TruncatesOK, CallerAt, CallerMoves
<1>7. UnmixedOK'
  BY <1>b, <1>c DEF UnmixedOK, Starting, Settled, CallerAt, CallerMoves
<1>8. FiledOK'
  <2>1. ~misfiled' => result.pid # NoChild
    <3> SUFFICES ASSUME ~misfiled', result.pid = NoChild  PROVE FALSE
      OBVIOUS
    <3>1. caller[c].pid = result.save /\ result.save # 0
      BY TypedOK, <1>s, <1>c DEF Typed
    <3>2. PICK d \in Callers : CallerAt(d, "publish") /\ caller[d].save = result.save
      BY <1>s, <3>1 DEF CurrentOK
    <3> QED  BY <1>s, <3>1, <3>2 DEF Published, Starting
  <2>2. ~misfiled' => result.save # 0 /\ result.seq = captured[result.save] /\ captured[result.save] > 0
    BY <1>s, <1>c, <2>1 DEF FiledOK, NoChild
  <2> QED  BY <1>b, <1>c, <2>2 DEF FiledOK, Settled, CallerAt, CallerMoves
<1> QED  BY <1>1, <1>2, <1>3, <1>4, <1>5, <1>6, <1>7, <1>8 DEF ForkInv

\* The checkpoint of the path and the sequence read at the settlement.
LEMMA CheckpointOK ==
  ASSUME ForkInv, NEW c \in Callers, Checkpoint(c)
  PROVE  ForkInv'
<1> USE ForkWriterAssumption DEF ForkInv, Checkpoint
<1>s. CallerAt(c, "checkpoint") /\ caller[c].seq \in Nat
  BY TypedOK DEF Typed
<1>b. \/ /\ CallerMoves(c, "truncate", caller[c].pid, caller[c].save, caller[c].seq) /\ caller[c].save \in image
         /\ sidecar' = [sidecar EXCEPT ![caller[c].save] = caller[c].seq]
         /\ UNCHANGED <<result, misfiled>>
      \/ CallerMoves(c, "idle", 0, 0, 0) /\ sidecar' = sidecar
  <2>1. CASE caller' = [caller EXCEPT ![c].pc = "truncate"] /\ caller[c].save \in image
             /\ sidecar' = [sidecar EXCEPT ![caller[c].save] = caller[c].seq]
             /\ UNCHANGED <<result, misfiled>>
    BY <2>1, Stepped DEF CallerPcs
  <2>2. CASE caller' = [caller EXCEPT ![c] = AtRest] /\ UNCHANGED sidecar
    BY <2>2, Rested
  <2> QED  BY <2>1, <2>2
<1>c. /\ result' \in Results /\ result'.save = result.save /\ result'.seq = result.seq
      /\ result'.pid = result.pid
      /\ UNCHANGED <<child, captured, image, walFloor, overlapped>>
  BY DEF TypesOK, Results, Statuses
<1>e. misfiled' \in BOOLEAN /\ (misfiled => misfiled')
  <2>1. misfiled' = misfiled \/ misfiled' = (misfiled \/ caller[c].save # result.save)
    BY DEF Misfile
  <2> QED  BY <2>1 DEF TypesOK
<1>d. /\ sidecar' \in [Saves -> Nat] /\ \A r \in Saves : r # caller[c].save => sidecar'[r] = sidecar[r]
      /\ caller'[c].pc = "truncate" => sidecar'[caller[c].save] = caller[c].seq
      /\ sidecar'[caller[c].save] \in {sidecar[caller[c].save], caller[c].seq}
  BY <1>b, <1>s DEF TypesOK, CallerMoves
<1> HIDE DEF Checkpoint
<1>1. TypesOK'
  BY <1>b, <1>c, <1>d, <1>e DEF TypesOK, CallerMoves
<1>2. ChildrenOK'
  BY <1>b, <1>c, <1>e DEF ChildrenOK
<1>3. StartsOK'
  BY <1>b, <1>c, <1>e DEF StartsOK, Starting, CallerAt, CallerMoves
<1>4. PidsOK'
  BY <1>b, <1>c, <1>e DEF PidsOK, Published, Starting, CallerAt, NoChild, CallerMoves
<1>5. CurrentOK'
  BY <1>s, <1>b, <1>c, <1>e DEF CurrentOK, CallerAt, CallerMoves
<1>6. TruncatesOK'
  BY <1>b, <1>c, <1>e DEF TruncatesOK, CallerAt, CallerMoves
<1>7. UnmixedOK'
  BY <1>s, <1>b, <1>c, <1>e DEF UnmixedOK, Starting, Settled, CallerAt, CallerMoves
<1>8. FiledOK'
  BY TypedOK, <1>s, <1>b, <1>c, <1>e DEF Typed, FiledOK, Settled, CallerAt, CallerMoves
<1> QED  BY <1>1, <1>2, <1>3, <1>4, <1>5, <1>6, <1>7, <1>8 DEF ForkInv

\* The log is cut up to that sequence.
LEMMA TruncateOK ==
  ASSUME ForkInv, NEW c \in Callers, Truncate(c)
  PROVE  ForkInv'
<1> USE ForkWriterAssumption DEF ForkInv, Truncate
<1>s. CallerAt(c, "truncate") /\ caller[c].seq \in Nat /\ caller[c].save \in image
  BY TypedOK DEF Typed, TruncatesOK
<1>b. CallerMoves(c, "idle", 0, 0, 0)
  BY Rested
<1>c. /\ walFloor' \in Nat /\ walFloor' \in {walFloor, caller[c].seq}
      /\ UNCHANGED <<result, child, captured, image, sidecar, misfiled, overlapped>>
  BY <1>s DEF TypesOK
<1> HIDE DEF Truncate
<1>1. TypesOK'
  BY <1>b, <1>c DEF TypesOK, CallerMoves
<1>2. ChildrenOK'
  BY <1>b, <1>c DEF ChildrenOK
<1>3. StartsOK'
  BY <1>b, <1>c DEF StartsOK, Starting, CallerAt, CallerMoves
<1>4. PidsOK'
  BY <1>b, <1>c DEF PidsOK, Published, Starting, CallerAt, NoChild, CallerMoves
<1>5. CurrentOK'
  BY <1>s, <1>b, <1>c DEF CurrentOK, CallerAt, CallerMoves
<1>6. TruncatesOK'
  BY <1>b, <1>c DEF TruncatesOK, CallerAt, CallerMoves
<1>7. UnmixedOK'
  BY <1>s, <1>b, <1>c DEF UnmixedOK, Starting, Settled, CallerAt, CallerMoves
<1>8. FiledOK'
  BY <1>s, <1>b, <1>c DEF FiledOK, Settled, CallerAt, CallerMoves
<1> QED  BY <1>1, <1>2, <1>3, <1>4, <1>5, <1>6, <1>7, <1>8 DEF ForkInv

\* The cut fails: the log stays as it is.
LEMMA TruncateFailsOK ==
  ASSUME ForkInv, NEW c \in Callers, TruncateFails(c)
  PROVE  ForkInv'
<1> USE ForkWriterAssumption DEF ForkInv, TruncateFails
<1>s. CallerAt(c, "truncate")
  OBVIOUS
<1>b. CallerMoves(c, "idle", 0, 0, 0)
  BY Rested
<1>c. /\ result' \in Results /\ result'.save = result.save /\ result'.seq = result.seq
      /\ result'.pid = result.pid
      /\ misfiled' \in BOOLEAN /\ (misfiled => misfiled')
      /\ UNCHANGED <<child, captured, image, sidecar, walFloor, overlapped>>
  BY DEF TypesOK, Results, Statuses, Misfile
<1> HIDE DEF TruncateFails
<1>1. TypesOK'
  BY <1>b, <1>c DEF TypesOK, CallerMoves
<1>2. ChildrenOK'
  BY <1>b, <1>c DEF ChildrenOK
<1>3. StartsOK'
  BY <1>b, <1>c DEF StartsOK, Starting, CallerAt, CallerMoves
<1>4. PidsOK'
  BY <1>b, <1>c DEF PidsOK, Published, Starting, CallerAt, NoChild, CallerMoves
<1>5. CurrentOK'
  BY <1>s, <1>b, <1>c DEF CurrentOK, CallerAt, CallerMoves
<1>6. TruncatesOK'
  BY <1>b, <1>c DEF TruncatesOK, CallerAt, CallerMoves
<1>7. UnmixedOK'
  BY <1>b, <1>c DEF UnmixedOK, Starting, Settled, CallerAt, CallerMoves
<1>8. FiledOK'
  BY <1>b, <1>c DEF FiledOK, Settled, CallerAt, CallerMoves
<1> QED  BY <1>1, <1>2, <1>3, <1>4, <1>5, <1>6, <1>7, <1>8 DEF ForkInv

\* A child renames its file and exits.
LEMMA ChildSucceedsOK ==
  ASSUME ForkInv, NEW s \in Saves, ChildSucceeds(s)
  PROVE  ForkInv'
<1> USE ForkWriterAssumption DEF ForkInv, ChildSucceeds
<1>1. TypesOK'
  BY DEF TypesOK, Statuses, CallerPcs, Outcomes, ChildStates, Misfile
<1>2. ChildrenOK'
  BY DEF TypesOK, ChildrenOK
<1>3. StartsOK'
  BY DEF TypesOK, CallerAt, StartsOK, Starting
<1>4. PidsOK'
  BY DEF TypesOK, CallerAt, PidsOK, Published, Starting
<1>5. CurrentOK'
  BY DEF TypesOK, CallerAt, CurrentOK
<1>6. TruncatesOK'
  BY DEF TypesOK, CallerAt, TruncatesOK
<1>7. UnmixedOK'
  BY DEF TypesOK, CallerAt, UnmixedOK, Starting, Settled
<1>8. FiledOK'
  BY DEF TypesOK, CallerAt, PidsOK, Published, CurrentOK, FiledOK, Settled, Misfile
<1> QED  BY <1>1, <1>2, <1>3, <1>4, <1>5, <1>6, <1>7, <1>8 DEF ForkInv

\* A child exits without a file.
LEMMA ChildFailsOK ==
  ASSUME ForkInv, NEW s \in Saves, ChildFails(s)
  PROVE  ForkInv'
<1> USE ForkWriterAssumption DEF ForkInv, ChildFails
<1>1. TypesOK'
  BY DEF TypesOK, Statuses, CallerPcs, Outcomes, ChildStates, Misfile
<1>2. ChildrenOK'
  BY DEF TypesOK, ChildrenOK
<1>3. StartsOK'
  BY DEF TypesOK, CallerAt, StartsOK, Starting
<1>4. PidsOK'
  BY DEF TypesOK, CallerAt, PidsOK, Published, Starting
<1>5. CurrentOK'
  BY DEF TypesOK, CallerAt, CurrentOK
<1>6. TruncatesOK'
  BY DEF TypesOK, CallerAt, TruncatesOK
<1>7. UnmixedOK'
  BY DEF TypesOK, CallerAt, UnmixedOK, Starting, Settled
<1>8. FiledOK'
  BY DEF TypesOK, CallerAt, PidsOK, Published, CurrentOK, FiledOK, Settled, Misfile
<1> QED  BY <1>1, <1>2, <1>3, <1>4, <1>5, <1>6, <1>7, <1>8 DEF ForkInv

-----------------------------------------------------------------------------
(* The theorem.                                                             *)

LEMMA ForkInitOK == ForkInit => ForkInv
<1> SUFFICES ASSUME ForkInit  PROVE ForkInv
  OBVIOUS
<1> USE ForkWriterAssumption DEF ForkInit
<1>1. TypesOK
  <2>1. result \in Results
    BY DEF Results, Statuses, SaveNumbers, NoChild
  <2>2. caller \in [Callers -> CallerStates]
    BY RestOK
  <2> QED  BY <2>1, <2>2 DEF TypesOK, ChildStates
<1>2. \A c \in Callers : caller[c].pc = "idle" /\ caller[c].pid = 0
  BY RestOK
<1>3. ChildrenOK
  BY DEF ChildrenOK
<1>4. StartsOK /\ PidsOK /\ TruncatesOK
  BY <1>2 DEF StartsOK, PidsOK, TruncatesOK, Starting, CallerAt, NoChild
<1>5. CurrentOK /\ UnmixedOK /\ FiledOK
  BY <1>2 DEF CurrentOK, UnmixedOK, FiledOK, Starting, Settled, CallerAt
<1> QED  BY <1>1, <1>3, <1>4, <1>5 DEF ForkInv

LEMMA ForkStepOK == ForkInv /\ [ForkNext]_forkVars => ForkInv'
<1> SUFFICES ASSUME ForkInv, [ForkNext]_forkVars  PROVE ForkInv'
  OBVIOUS
<1>1. ASSUME NEW c \in Callers, Reserve(c) \/ ForkStep(c)  PROVE ForkInv'
  BY <1>1, ReserveOK, ForkOK, ForkFailsOK, PublishChildOK, LookOK, WaitPidOK, SettleOK, CheckpointOK,
     TruncateOK, TruncateFailsOK DEF ForkStep
<1>2. ASSUME NEW s \in Saves, ChildExits(s)  PROVE ForkInv'
  BY <1>2, ChildSucceedsOK, ChildFailsOK DEF ChildExits
<1>3. CASE UNCHANGED forkVars
  <2> USE <1>3 DEF forkVars, ForkInv, CallerAt
  <2>1. TypesOK' /\ ChildrenOK' /\ TruncatesOK'
    BY DEF TypesOK, ChildrenOK, TruncatesOK
  <2>2. StartsOK' /\ PidsOK' /\ CurrentOK'
    BY DEF StartsOK, PidsOK, CurrentOK, Published, Starting
  <2>3. UnmixedOK' /\ FiledOK'
    BY DEF UnmixedOK, FiledOK, Starting, Settled
  <2> QED  BY <2>1, <2>2, <2>3
<1> QED  BY <1>1, <1>2, <1>3 DEF ForkNext

\* However many callers reap and start, and in whatever order, the log is cut
\* only up to a sequence that a published image holds (unless two saves were
\* started at once) and that its checkpoint says (unless a status was written
\* over that of another save) (ForkSnapshotWriter::StartBackgroundSave, CheckChild).
THEOREM LogCovered == ForkSpec => []LogCoversUnsaved
<1>1. ForkInv => LogCoversUnsaved
  BY DEF ForkInv, UnmixedOK, FiledOK, LogCoversUnsaved
<1> QED  BY <1>1, ForkInitOK, ForkStepOK, PTL DEF ForkSpec
=============================================================================
