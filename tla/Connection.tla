----------------------------- MODULE Connection -----------------------------
(***************************************************************************)
(* One client connection between the reactor thread (IoReactor::EventLoop  *)
(* calling ReactorConnection::OnReadable and OnWritable) and the pool      *)
(* workers (ReactorConnection::DrainRequests).  The two sides share the    *)
(* request queue (read_mutex_), the response queue (write_mutex_), three   *)
(* atomic flags and the interest mask the reactor polls with               *)
(* (connections_mutex_).  A step is one critical section or one access to  *)
(* an atomic.                                                              *)
(*                                                                         *)
(* A request is its number in the order the client sent it, the answer to  *)
(* it is the same number, TooLarge is the error of an overflowing queue.   *)
(* Byte budgets are bounds on the length of the two queues.  What recv has *)
(* returned and framing has not taken (accumulated_) is counted from the   *)
(* head of the inbox.                                                      *)
(***************************************************************************)
EXTENDS Naturals, Sequences, SequencesExt, FiniteSets

CONSTANTS
  Workers,       \* pool threads that may run a drain of this connection
  MaxRequests,   \* bound: requests the client sends
  MaxPending,    \* kMaxPendingFrames
  HighWatermark, \* kPendingFramesHighWatermark
  LowWatermark,  \* kPendingFramesLowWatermark
  MaxResponses   \* kMaxWriteQueueBytes, in responses

ASSUME ConnectionAssumption ==
  /\ IsFiniteSet(Workers)
  /\ {MaxRequests, MaxPending, HighWatermark, LowWatermark, MaxResponses} \subseteq Nat
  /\ LowWatermark < HighWatermark /\ HighWatermark <= MaxPending /\ MaxResponses > 0

VARIABLES
  peer,     \* the client: requests sent, half-closed, what it received, what is under way
  conn,     \* the members of ReactorConnection
  poll,     \* the entry of the reactor: registered, interest in reading and writing
  reactor,  \* where the reactor thread is and the event it handles
  tasks,    \* drains in the queue of the pool
  worker,   \* where each worker is
  faults    \* history: what cut the conversation short

connVars == <<peer, conn, poll, reactor, tasks, worker, faults>>

TooLarge == 0

ConnInit ==
  /\ peer = [sent |-> 0, closed |-> FALSE, inbox |-> << >>, received |-> << >>]
  /\ conn = [requests |-> << >>, responses |-> << >>, drain |-> FALSE,
             accumulated |-> 0, eof |-> FALSE, paused |-> FALSE, closing |-> FALSE]
  /\ poll = [registered |-> TRUE, read |-> TRUE, write |-> FALSE]
  /\ reactor = [pc |-> "poll", events |-> {}, queued |-> FALSE]
  /\ tasks = 0
  /\ worker = [w \in Workers |-> [pc |-> "idle", request |-> TooLarge]]
  /\ faults = {}

-----------------------------------------------------------------------------
(* The client. *)

ClientSends ==
  /\ peer.sent < MaxRequests /\ ~peer.closed
  /\ peer' = [peer EXCEPT !.sent = @ + 1, !.inbox = Append(@, peer.sent + 1)]
  /\ UNCHANGED <<conn, poll, reactor, tasks, worker, faults>>

\* The client shuts down its sending side and waits for the answers.
ClientHalfCloses ==
  /\ ~peer.closed
  /\ peer' = [peer EXCEPT !.closed = TRUE]
  /\ UNCHANGED <<conn, poll, reactor, tasks, worker, faults>>

-----------------------------------------------------------------------------
(* Operations of the reactor that both sides call, each under              *)
(* connections_mutex_; they do nothing once the connection is gone.        *)

Interest(read, write) ==
  poll' = IF poll.registered THEN [poll EXCEPT !.read = read, !.write = write] ELSE poll

\* The reactor thread acts on an empty response queue to which a worker has
\* added meanwhile: the interest in writing, or the connection, is dropped.
WriteRace == IF poll.registered /\ conn.responses # << >> THEN {"write"} ELSE {}

\* Reading is switched off after a worker has resumed it.
ReadRace ==
  IF conn.paused \/ \E w \in Workers : worker[w].pc = "resume" THEN {} ELSE {"read"}

\* A worker at the end of its drain closes the connection while another one
\* drains what arrived since: only the reactor thread looks at drain_scheduled_.
TailRace == IF conn.drain THEN {"tail"} ELSE {}

Unregistered == poll' = [poll EXCEPT !.registered = FALSE, !.read = FALSE, !.write = FALSE]

Goto(pc) == reactor' = [reactor EXCEPT !.pc = pc]

Unanswered == Len(peer.received) < peer.sent

-----------------------------------------------------------------------------
(* IoReactor::EventLoop. *)

\* There is something for recv to return.
Unread == Len(peer.inbox) > conn.accumulated

\* The poller reports a closed peer whatever the interest (EPOLLRDHUP).
ReadyEvents ==
  {e \in {"read", "write", "hangup"} :
     \/ e = "read" /\ poll.read /\ (Unread \/ peer.closed)
     \/ e = "write" /\ poll.write
     \/ e = "hangup" /\ peer.closed}

Poll ==
  /\ reactor.pc = "poll" /\ poll.registered /\ ReadyEvents # {}
  /\ reactor' = [pc |-> IF "read" \in ReadyEvents THEN "recv"
                        ELSE IF "write" \in ReadyEvents THEN "send" ELSE "error",
                 events |-> ReadyEvents, queued |-> FALSE]
  /\ UNCHANGED <<peer, conn, poll, tasks, worker, faults>>

\* After OnReadable returned true: OnWritable if the event has it; an error
\* or hangup counts only when the event is not readable.
AfterRead == IF "write" \in reactor.events THEN "send" ELSE "poll"
AfterWrite == IF "hangup" \in reactor.events /\ "read" \notin reactor.events THEN "error" ELSE "poll"

\* OnError returns false.
OnError ==
  /\ reactor.pc = "error"
  /\ Unregistered
  /\ Goto("poll")
  /\ faults' = faults \cup (IF Unanswered THEN {"hangup"} ELSE {})
  /\ UNCHANGED <<peer, conn, tasks, worker>>

\* ReapIdleConnections: last_active_ moves with socket events only, so a
\* connection whose request takes longer than the timeout is idle too.
ReapIdleConnections ==
  /\ reactor.pc = "poll" /\ poll.registered
  /\ Unregistered
  /\ faults' = faults \cup {"reaped"}
  /\ UNCHANGED <<peer, conn, reactor, tasks, worker>>

-----------------------------------------------------------------------------
(* ReactorConnection::OnReadable. *)

\* Frames are queued until one finds the queue full.
FramesTaken(k) ==
  LET room == MaxPending - Len(conn.requests)
  IN  IF k <= room THEN k ELSE room

\* One recv that returns the requests up to the k-th of the inbox, framed and
\* queued under read_mutex_ together with what was left over; what finds the
\* queue full is left over in turn.  The loop goes on, or ends with its byte
\* budget.
RecvFrames(k) ==
  LET queue == conn.requests \o SubSeq(peer.inbox, 1, FramesTaken(k))
      overflow == FramesTaken(k) < k
      pause == Len(queue) >= HighWatermark
  IN  /\ reactor.pc = "recv" /\ ~conn.eof
      /\ k \in conn.accumulated + 1..Len(peer.inbox)
      /\ peer' = [peer EXCEPT !.inbox = SubSeq(@, FramesTaken(k) + 1, Len(@))]
      /\ conn' = [conn EXCEPT !.requests = queue, !.accumulated = k - FramesTaken(k),
                             !.paused = @ \/ pause]
      /\ \E pc \in IF overflow THEN {"overflow"} ELSE IF pause THEN {"pause"} ELSE {"recv", "schedule"} :
           reactor' = [reactor EXCEPT !.pc = pc, !.queued = @ \/ FramesTaken(k) > 0]
      /\ faults' = faults \cup (IF overflow THEN {"overflow"} ELSE {})
      /\ UNCHANGED <<poll, tasks, worker>>

\* The same recv when accumulated_ is at its limit or the memory all
\* connections share is: what it returned is dropped, and nothing is framed.
RecvDropped(k) ==
  /\ reactor.pc = "recv" /\ ~conn.eof
  /\ k \in conn.accumulated + 1..Len(peer.inbox)
  /\ peer' = [peer EXCEPT !.inbox = SubSeq(@, 1, conn.accumulated) \o SubSeq(@, k + 1, Len(@))]
  /\ Goto("overflow")
  /\ faults' = faults \cup {"overflow", "dropped"}
  /\ UNCHANGED <<conn, poll, tasks, worker>>

\* recv returns 0, or would block, or the loop is not entered after EOF.
RecvEnds ==
  /\ reactor.pc = "recv"
  /\ \/ /\ ~conn.eof /\ ~Unread /\ peer.closed
        /\ conn' = [conn EXCEPT !.eof = TRUE]
        /\ Goto("disarm")
     \/ /\ conn.eof \/ (~Unread /\ ~peer.closed)
        /\ Goto("schedule")
        /\ UNCHANGED conn
  /\ UNCHANGED <<peer, poll, tasks, worker, faults>>

\* Mutant: pausing returns from OnReadable.
DisarmReadReturns ==
  /\ reactor.pc \in {"pause", "disarm"}
  /\ Interest(FALSE, poll.write)
  /\ faults' = faults \cup (IF reactor.pc = "pause" THEN ReadRace ELSE {})
  /\ Goto(IF reactor.pc = "pause" THEN AfterRead ELSE "schedule")
  /\ UNCHANGED <<peer, conn, tasks, worker>>

DisarmRead ==
  /\ reactor.pc \in {"pause", "disarm"}
  /\ Interest(FALSE, poll.write)
  /\ faults' = faults \cup (IF reactor.pc = "pause" THEN ReadRace ELSE {})
  /\ Goto("schedule")
  /\ UNCHANGED <<peer, conn, tasks, worker>>

\* EnqueueResponse(TooLarge): dropped when the write queue is full.
Overflow ==
  /\ reactor.pc = "overflow"
  /\ conn' = [conn EXCEPT !.responses = IF Len(@) < MaxResponses THEN Append(@, TooLarge) ELSE @]
  /\ Goto("overflowClose")
  /\ UNCHANGED <<peer, poll, tasks, worker, faults>>

\* CloseAfterFlush.  The ArmWrite of EnqueueResponse is the same as its own:
\* nobody else polls while the reactor thread is here.
OverflowClose ==
  /\ reactor.pc = "overflowClose"
  /\ conn' = [conn EXCEPT !.closing = TRUE]
  /\ Interest(FALSE, TRUE)
  /\ Goto(AfterRead)
  /\ UNCHANGED <<peer, tasks, worker, faults>>

\* Mutant: a drain is submitted whether or not one is scheduled.
ScheduleDrainAlways ==
  /\ reactor.pc = "schedule"
  /\ IF reactor.queued
     THEN conn' = [conn EXCEPT !.drain = TRUE] /\ tasks' = tasks + 1
     ELSE UNCHANGED <<conn, tasks>>
  /\ Goto("eof")
  /\ UNCHANGED <<peer, poll, worker, faults>>

\* The compare-and-exchange on drain_scheduled_ and Submit.  The queue of the
\* server's pool has no limit and outlives the reactor thread, so Submit
\* succeeds.
ScheduleDrain ==
  /\ reactor.pc = "schedule"
  /\ IF reactor.queued /\ ~conn.drain
     THEN conn' = [conn EXCEPT !.drain = TRUE] /\ tasks' = tasks + 1
     ELSE UNCHANGED <<conn, tasks>>
  /\ Goto("eof")
  /\ UNCHANGED <<peer, poll, worker, faults>>

\* After the end of input, with nothing queued nor being drained, the
\* connection ends at once or with the last response.
EofCheck ==
  LET finished == conn.eof /\ conn.requests = << >> /\ ~conn.drain
      flushed == conn.responses = << >>
  IN  /\ reactor.pc = "eof"
      /\ conn' = [conn EXCEPT !.closing = @ \/ (finished /\ ~flushed)]
      /\ IF ~finished THEN UNCHANGED poll
         ELSE IF flushed THEN Unregistered ELSE Interest(FALSE, TRUE)
      /\ Goto(IF finished /\ flushed THEN "poll" ELSE AfterRead)
      /\ UNCHANGED <<peer, tasks, worker, faults>>

-----------------------------------------------------------------------------
(* ReactorConnection::OnWritable. *)

\* Under write_mutex_ the socket takes the first n responses, at least one
\* if there is one; then send would block, or the queue is empty.
Send ==
  /\ reactor.pc = "send"
  /\ \E n \in 0..Len(conn.responses) :
       /\ n = 0 => conn.responses = << >>
       /\ peer' = [peer EXCEPT !.received = @ \o SubSeq(conn.responses, 1, n)]
       /\ conn' = [conn EXCEPT !.responses = SubSeq(@, n + 1, Len(@))]
       /\ Goto(IF n = Len(conn.responses) THEN "drained" ELSE AfterWrite)
  /\ UNCHANGED <<poll, tasks, worker, faults>>

DisarmWrite ==
  /\ reactor.pc = "drained"
  /\ Interest(poll.read, FALSE)
  /\ faults' = faults \cup WriteRace
  /\ Goto("closeCheck")
  /\ UNCHANGED <<peer, conn, tasks, worker>>

\* return !close_after_flush_
CloseCheck ==
  /\ reactor.pc = "closeCheck"
  /\ IF conn.closing THEN Unregistered ELSE UNCHANGED poll
  /\ Goto(IF conn.closing THEN "poll" ELSE AfterWrite)
  /\ faults' = IF conn.closing THEN faults \cup WriteRace ELSE faults
  /\ UNCHANGED <<peer, conn, tasks, worker>>

-----------------------------------------------------------------------------
(* ReactorConnection::DrainRequests on a pool worker.                      *)

WorkerAt(w, pc) == worker[w].pc = pc
Move(w, pc) == worker' = [worker EXCEPT ![w].pc = pc]

TakeTask(w) ==
  /\ WorkerAt(w, "idle") /\ tasks > 0
  /\ tasks' = tasks - 1
  /\ Move(w, "pop")
  /\ UNCHANGED <<peer, conn, poll, reactor, faults>>

\* Under read_mutex_: the next request, or the end of this drain.
Pop(w) ==
  LET rest == Tail(conn.requests)
      resume == conn.paused /\ Len(rest) <= LowWatermark
  IN  /\ WorkerAt(w, "pop")
      /\ IF conn.requests = << >>
         THEN conn' = [conn EXCEPT !.drain = FALSE] /\ Move(w, "tail")
         ELSE /\ conn' = [conn EXCEPT !.requests = rest, !.paused = @ /\ ~resume]
              /\ worker' = [worker EXCEPT ![w] = [pc |-> IF resume THEN "resume" ELSE "process",
                                                  request |-> Head(conn.requests)]]
      /\ UNCHANGED <<peer, poll, reactor, tasks, faults>>

Resume(w) ==
  /\ WorkerAt(w, "resume")
  /\ Interest(TRUE, poll.write)
  /\ Move(w, "process")
  /\ UNCHANGED <<peer, conn, reactor, tasks, faults>>

\* The processor runs and EnqueueResponse queues its answer under
\* write_mutex_; with a full queue the drain ends, drain_scheduled_ stays set.
Process(w) ==
  LET full == Len(conn.responses) >= MaxResponses
  IN  /\ WorkerAt(w, "process")
      /\ conn' = [conn EXCEPT !.responses = IF full THEN @ ELSE Append(@, worker[w].request)]
      /\ Move(w, IF full THEN "fullClose" ELSE "arm")
      /\ faults' = faults \cup (IF full THEN {"full"} ELSE {})
      /\ UNCHANGED <<peer, poll, reactor, tasks>>

\* ArmWrite: nothing to do when the interest is there already.
Arm(w) ==
  /\ WorkerAt(w, "arm")
  /\ Interest(poll.read, TRUE)
  /\ Move(w, "pop")
  /\ UNCHANGED <<peer, conn, reactor, tasks, faults>>

\* The first half of CloseAfterFlush, after a full queue or, at the end of a
\* drain, after the end of input.
Closing(w) ==
  LET close == WorkerAt(w, "fullClose") \/ (conn.eof /\ conn.requests = << >>)
  IN  /\ WorkerAt(w, "tail") \/ WorkerAt(w, "fullClose")
      /\ conn' = [conn EXCEPT !.closing = @ \/ close]
      /\ Move(w, IF ~close THEN "idle" ELSE IF WorkerAt(w, "tail") THEN "tailArm" ELSE "fullArm")
      /\ faults' = faults \cup (IF close THEN TailRace ELSE {})
      /\ UNCHANGED <<peer, poll, reactor, tasks>>

\* Mutant: interest in writing is armed only for pending output.
CloseArmIfOutput(w) ==
  /\ WorkerAt(w, "tailArm") \/ WorkerAt(w, "fullArm")
  /\ Interest(FALSE, poll.write \/ conn.responses # << >>)
  /\ Move(w, IF WorkerAt(w, "tailArm") THEN "unregister" ELSE "tail")
  /\ UNCHANGED <<peer, conn, reactor, tasks, faults>>

\* The second half: DisarmRead and ArmWrite.  After a full queue the code
\* still looks at the end of input.
CloseArm(w) ==
  /\ WorkerAt(w, "tailArm") \/ WorkerAt(w, "fullArm")
  /\ Interest(FALSE, TRUE)
  /\ Move(w, IF WorkerAt(w, "tailArm") THEN "unregister" ELSE "tail")
  /\ UNCHANGED <<peer, conn, reactor, tasks, faults>>

UnregisterIfFlushed(w) ==
  /\ WorkerAt(w, "unregister")
  /\ IF conn.responses = << >> THEN Unregistered ELSE UNCHANGED poll
  /\ Move(w, "idle")
  /\ UNCHANGED <<peer, conn, reactor, tasks, faults>>

-----------------------------------------------------------------------------
Receive == \E k \in 1..MaxRequests : RecvFrames(k) \/ RecvDropped(k)

ReactorStep ==
  \/ Poll \/ OnError
  \/ Receive \/ RecvEnds \/ DisarmRead \/ Overflow \/ OverflowClose
  \/ ScheduleDrain \/ EofCheck
  \/ Send \/ DisarmWrite \/ CloseCheck

WorkerStep(w) ==
  \/ TakeTask(w) \/ Pop(w) \/ Resume(w) \/ Process(w) \/ Arm(w)
  \/ Closing(w) \/ CloseArm(w) \/ UnregisterIfFlushed(w)

ConnNext ==
  \/ ClientSends \/ ClientHalfCloses
  \/ ReactorStep \/ ReapIdleConnections
  \/ \E w \in Workers : WorkerStep(w)

\* The operating system schedules the reactor thread and the workers; nothing
\* is assumed of the client except that it reads what it is sent (Send).
ConnFairness ==
  /\ WF_connVars(ReactorStep)
  /\ \A w \in Workers : WF_connVars(WorkerStep(w))

ConnSpec == ConnInit /\ [][ConnNext]_connVars /\ ConnFairness

-----------------------------------------------------------------------------
\* The shape of the state; both queues stay within their limits, and the pool
\* never holds two drains of one connection (drain_scheduled_).
ConnTypeOK ==
  /\ peer \in [sent : 0..MaxRequests, closed : BOOLEAN, inbox : Seq(1..MaxRequests),
               received : Seq(0..MaxRequests)]
  /\ conn \in [requests : Seq(1..MaxRequests), responses : Seq(0..MaxRequests),
               drain : BOOLEAN, accumulated : 0..MaxRequests, eof : BOOLEAN, paused : BOOLEAN, closing : BOOLEAN]
  /\ Len(conn.requests) <= MaxPending /\ Len(conn.responses) <= MaxResponses
  /\ poll \in [registered : BOOLEAN, read : BOOLEAN, write : BOOLEAN]
  /\ reactor.pc \in {"poll", "error", "recv", "pause", "disarm", "overflow", "overflowClose",
                    "schedule", "eof", "send", "drained", "closeCheck"}
  /\ tasks \in 0..1
  /\ worker \in [Workers -> [pc : {"idle", "pop", "resume", "process", "arm", "tail", "tailArm",
                                   "fullClose", "fullArm", "unregister"},
                             request : 0..MaxRequests]]
  /\ faults \subseteq {"write", "read", "tail", "hangup", "reaped", "overflow", "dropped", "full"}

\* Answers arrive in the order of the requests, none twice and none left out,
\* whichever workers drained them: drain_scheduled_ keeps all but one worker
\* out of the loop, although a new drain may be queued while the last one is
\* still in its tail (ReactorConnection::ScheduleDrain, DrainRequests).
AnswersInOrder ==
  \A i \in 1..Len(peer.received) :
    peer.received[i] # TooLarge =>
      peer.received[i] = Cardinality({j \in 1..i : peer.received[j] # TooLarge})

\* A request that was sent is answered, unless one of the named events cut
\* the conversation short: no interleaving of the queueing of requests with
\* the end of a drain leaves a request without a worker, or a response
\* without interest in writing, other than the races WriteRace, ReadRace
\* and TailRace describe (ReactorConnection::OnReadable, OnWritable, DrainRequests).
Answered ==
  []<>(\A n \in 1..peer.sent : Contains(peer.received, n) \/ faults # {})

\* A connection that is to close after its last response does close, whatever
\* race there was for the interest in writing: the flag is set before the
\* interest, and read after it is given up (CloseAfterFlush, OnWritable).
ClosingEnds == conn.closing ~> ~poll.registered

\* What the pipelining test of the reactor expects: every request of a client
\* that stays connected is answered.
PipelinedAnswered ==
  \A n \in 1..MaxRequests :
    peer.sent >= n ~>
      (Contains(peer.received, n) \/ peer.closed \/ faults \cap {"reaped", "overflow", "full"} # {})
=============================================================================
