-------------------------- MODULE ConnectionProofs --------------------------
(***************************************************************************)
(* Answers leave a connection in the order of its requests, for any number *)
(* of workers, any watermarks and any limits of the two queues.            *)
(*                                                                         *)
(* The argument counts.  A request is its number, so it is enough that     *)
(* what lies before it (answers given, the request a worker has at hand,   *)
(* the queue, what is under way) is as many as its number says, OrderOK.   *)
(* This needs that one worker at a time is in the loop of DrainRequests    *)
(* (DrainOK).  A frame that finds the queue full stays where it was, at    *)
(* the head of what is read next.  But what recv returned while a memory   *)
(* limit was reached is gone, so nothing may be read after it              *)
(* (DroppedOK): the worker that ends a pause turns reading on, so no pause *)
(* may be on while recv runs (PauseOK).                                    *)
(* A drain that ends on a full response queue loses the request at hand;   *)
(* nobody drains afterwards (Abandoned), so no gap is ever seen.           *)
(*                                                                         *)
(* And the other end: the client returns to its caller the answer to the   *)
(* command it sent, whatever it has received of it and of others.          *)
(***************************************************************************)
EXTENDS Connection, Client, FiniteSetTheorems, SequenceTheorems, TLAPS
-----------------------------------------------------------------------------
(* The inductive invariant.                                                 *)

ReactorPcs == {"poll", "error", "recv", "pause", "disarm", "overflow", "overflowClose",
               "schedule", "eof", "send", "drained", "closeCheck"}
Events == {"read", "write", "hangup"}
ReplyNumbers == 0..MaxRequests

TypesOK ==
  /\ ConnTypeOK
  /\ reactor \in [pc : ReactorPcs, events : SUBSET Events, queued : BOOLEAN]
  /\ ~poll.registered => ~poll.read

\* A worker that may take the next request; one that has a request at hand.
InLoop(w) == worker[w].pc \in {"pop", "resume", "process", "arm"}
Serving(w) == worker[w].pc \in {"resume", "process"}

\* drain_scheduled_ stands for one drain, in the queue of the pool or on a worker.
DrainOK ==
  /\ tasks = 1 => conn.drain /\ \A w \in Workers : ~InLoop(w)
  /\ \A w \in Workers : InLoop(w) => conn.drain
  /\ \A v, w \in Workers : InLoop(v) /\ InLoop(w) => v = w

\* A drain that ended with a full response queue keeps drain_scheduled_ set:
\* nobody drains this connection again.
Abandoned == conn.drain /\ tasks = 0 /\ \A w \in Workers : ~InLoop(w)

\* Reading stays off from a pause until the worker that ends it turns it on.
PauseOK ==
  /\ (conn.paused \/ \E w \in Workers : worker[w].pc = "resume") =>
       \/ reactor.pc \in {"pause", "overflow", "overflowClose"}
       \/ ~poll.read /\ reactor.pc # "recv"
  /\ \A w \in Workers : worker[w].pc = "resume" => ~conn.paused

\* Once something was dropped nothing is read again, so it leaves no gap.
DroppedOK ==
  "dropped" \in faults =>
    /\ ~conn.paused /\ \A w \in Workers : worker[w].pc # "resume"
    /\ reactor.pc # "recv" /\ reactor.pc # "pause"
    /\ reactor.pc \in {"overflow", "overflowClose"} \/ ~poll.read

\* The answers given so far, and how many of the first i are no errors.
Replies == peer.received \o conn.responses
Count(s, i) == Cardinality({j \in 1..i : s[j] # TooLarge})
Given == Count(Replies, Len(Replies))
Serving1 == IF \E w \in Workers : Serving(w) THEN 1 ELSE 0

\* Requests go through the queues, the worker and the socket in their order.
OrderOK ==
  /\ \A i \in 1..Len(Replies) : Replies[i] # TooLarge => Replies[i] = Count(Replies, i)
  /\ ~Abandoned =>
       /\ \A w \in Workers : Serving(w) => worker[w].request = Given + 1
       /\ \A i \in 1..Len(conn.requests) : conn.requests[i] = Given + Serving1 + i
       /\ "dropped" \notin faults =>
            /\ \A i \in 1..Len(peer.inbox) : peer.inbox[i] = Given + Serving1 + Len(conn.requests) + i
            /\ peer.sent = Given + Serving1 + Len(conn.requests) + Len(peer.inbox)

ConnInv == TypesOK /\ DrainOK /\ PauseOK /\ DroppedOK /\ OrderOK

-----------------------------------------------------------------------------
(* Counting answers.                                                        *)

LEMMA CountType ==
  ASSUME NEW s, NEW i \in Nat
  PROVE  Count(s, i) \in Nat /\ IsFiniteSet({j \in 1..i : s[j] # TooLarge})
<1>1. IsFiniteSet(1..i)
  BY FS_Interval
<1>2. {j \in 1..i : s[j] # TooLarge} \subseteq 1..i
  OBVIOUS
<1>3. IsFiniteSet({j \in 1..i : s[j] # TooLarge})
  BY <1>1, <1>2, FS_Subset
<1> QED  BY <1>3, FS_CardinalityType DEF Count

\* Two sequences that agree up to i have the same count up to i.
LEMMA CountSame ==
  ASSUME NEW s, NEW t, NEW i \in Nat, \A j \in 1..i : s[j] = t[j]
  PROVE  Count(s, i) = Count(t, i)
<1>1. {j \in 1..i : s[j] # TooLarge} = {j \in 1..i : t[j] # TooLarge}
  OBVIOUS
<1> QED  BY <1>1 DEF Count

LEMMA CountNext ==
  ASSUME NEW s, NEW i \in Nat
  PROVE  Count(s, i + 1) = IF s[i + 1] = TooLarge THEN Count(s, i) ELSE Count(s, i) + 1
<1> DEFINE A == {j \in 1..i : s[j] # TooLarge}
           B == {j \in 1..i + 1 : s[j] # TooLarge}
<1>1. \A j \in 1..i + 1 : j \in 1..i \/ j = i + 1
  OBVIOUS
<1>2. IsFiniteSet(A) /\ Cardinality(A) = Count(s, i) /\ Cardinality(B) = Count(s, i + 1)
  BY CountType DEF Count
<1>3. CASE s[i + 1] = TooLarge
  <2>1. A = B
    BY <1>1, <1>3
  <2> QED  BY <1>2, <1>3, <2>1
<1>4. CASE s[i + 1] # TooLarge
  <2>1. B = A \cup {i + 1} /\ i + 1 \notin A
    BY <1>1, <1>4
  <2> HIDE DEF A, B
  <2>2. Cardinality(A \cup {i + 1}) = Cardinality(A) + 1
    BY <1>2, <2>1, FS_AddElement
  <2> QED  BY <1>2, <1>4, <2>1, <2>2
<1> QED  BY <1>3, <1>4

\* One answer more.
LEMMA CountAppend ==
  ASSUME NEW S, NEW s \in Seq(S), NEW e \in S
  PROVE  LET t == Append(s, e)
         IN  /\ \A i \in 1..Len(s) : Count(t, i) = Count(s, i)
             /\ Count(t, Len(t)) = IF e = TooLarge THEN Count(s, Len(s)) ELSE Count(s, Len(s)) + 1
<1> DEFINE t == Append(s, e)
<1>1. /\ Len(t) = Len(s) + 1 /\ Len(s) \in Nat /\ t[Len(s) + 1] = e
      /\ \A j \in 1..Len(s) : t[j] = s[j]
  OBVIOUS
<1> HIDE DEF t
<1>2. \A i \in 0..Len(s) : Count(t, i) = Count(s, i)
  <2> SUFFICES ASSUME NEW i \in 0..Len(s) PROVE Count(t, i) = Count(s, i)
    OBVIOUS
  <2>1. i \in Nat /\ \A j \in 1..i : t[j] = s[j]
    BY <1>1
  <2> QED  BY <2>1, CountSame
<1>3. Count(t, Len(s) + 1) = IF t[Len(s) + 1] = TooLarge THEN Count(t, Len(s)) ELSE Count(t, Len(s)) + 1
  BY <1>1, CountNext
<1>4. Count(t, Len(s)) = Count(s, Len(s))
  BY <1>1, <1>2
<1> QED  BY <1>1, <1>2, <1>3, <1>4 DEF t

-----------------------------------------------------------------------------
(* The state.                                                               *)

\* The types, field by field.
Typed ==
  /\ peer.sent \in 0..MaxRequests /\ peer.closed \in BOOLEAN
  /\ peer.inbox \in Seq(1..MaxRequests) /\ peer.received \in Seq(ReplyNumbers)
  /\ conn.requests \in Seq(1..MaxRequests) /\ conn.responses \in Seq(ReplyNumbers)
  /\ conn.drain \in BOOLEAN /\ conn.eof \in BOOLEAN /\ conn.paused \in BOOLEAN
  /\ conn.closing \in BOOLEAN
  /\ poll.registered \in BOOLEAN /\ poll.read \in BOOLEAN /\ poll.write \in BOOLEAN
  /\ reactor.pc \in ReactorPcs /\ reactor.events \subseteq Events /\ reactor.queued \in BOOLEAN
  /\ tasks \in 0..1
  /\ MaxRequests \in Nat /\ MaxPending \in Nat /\ MaxResponses \in Nat /\ HighWatermark \in Nat

LEMMA TypedOK == TypesOK => Typed
BY ConnectionAssumption DEF TypesOK, ConnTypeOK, Typed, ReplyNumbers

LEMMA AnswersType ==
  ASSUME TypesOK
  PROVE  /\ Replies \in Seq(ReplyNumbers) /\ Len(Replies) \in Nat
         /\ Given \in Nat /\ Serving1 \in 0..1
<1>1. peer.received \in Seq(ReplyNumbers) /\ conn.responses \in Seq(ReplyNumbers)
  BY TypedOK DEF Typed
<1>2. Replies \in Seq(ReplyNumbers) /\ Len(Replies) \in Nat
  <2>1. Replies \in Seq(ReplyNumbers)
    BY <1>1, ConcatProperties DEF Replies
  <2> HIDE DEF Replies
  <2> QED  BY <2>1
<1>3. Serving1 \in 0..1
  BY DEF Serving1
<1> QED  BY <1>2, <1>3, CountType DEF Given

\* A step that moves no request between the queues, the worker and the socket.
LEMMA SameOrder ==
  ASSUME ConnInv, Replies' = Replies,
         peer'.inbox = peer.inbox, peer'.sent = peer.sent, conn'.requests = conn.requests,
         \A w \in Workers : /\ Serving(w)' <=> Serving(w)
                            /\ Serving(w) => worker'[w].request = worker[w].request,
         Abandoned => Abandoned', faults \subseteq faults'
  PROVE  OrderOK'
<1>1. Given' = Given /\ Serving1' = Serving1
  BY DEF Given, Serving1, Count
<1>2. \A i \in 1..Len(Replies) : Replies'[i] # TooLarge => Replies'[i] = Count(Replies', i)
  BY DEF ConnInv, OrderOK
<1> QED  BY <1>1, <1>2 DEF ConnInv, OrderOK, Count

\* The first n elements of a sequence and the rest.
LEMMA Split ==
  ASSUME NEW S, NEW s \in Seq(S), NEW n \in 0..Len(s)
  PROVE  LET c == SubSeq(s, 1, n)
             d == SubSeq(s, n + 1, Len(s))
         IN  /\ c \in Seq(S) /\ Len(c) = n /\ \A i \in 1..n : c[i] = s[i]
             /\ d \in Seq(S) /\ Len(d) = Len(s) - n /\ \A i \in 1..Len(s) - n : d[i] = s[n + i]
             /\ Len(d) <= Len(s) /\ c \o d = s
<1>1. Len(s) \in Nat /\ n \in Nat /\ n <= Len(s) /\ n \in Int /\ n + 1 \in Int /\ Len(s) \in Int
  OBVIOUS
<1>2. \A i \in 1..Len(s) : s[i] \in S
  OBVIOUS
<1>3. (\A i \in 1..n : s[i] \in S) /\ (\A i \in n + 1..Len(s) : s[i] \in S)
  BY <1>1, <1>2
<1>4. /\ SubSeq(s, 1, n) \in Seq(S)
      /\ Len(SubSeq(s, 1, n)) = IF 1 <= n THEN n - 1 + 1 ELSE 0
      /\ \A i \in 1..n - 1 + 1 : SubSeq(s, 1, n)[i] = s[1 + i - 1]
  BY <1>1, <1>3, SubSeqProperties
<1>5. /\ SubSeq(s, n + 1, Len(s)) \in Seq(S)
      /\ Len(SubSeq(s, n + 1, Len(s))) = IF n + 1 <= Len(s) THEN Len(s) - (n + 1) + 1 ELSE 0
      /\ \A i \in 1..Len(s) - (n + 1) + 1 : SubSeq(s, n + 1, Len(s))[i] = s[n + 1 + i - 1]
  BY <1>1, <1>3, SubSeqProperties
<1> DEFINE c == SubSeq(s, 1, n)
           d == SubSeq(s, n + 1, Len(s))
<1>6. c \in Seq(S) /\ Len(c) = n /\ \A i \in 1..n : c[i] = s[i]
  <2>1. \A i \in 1..n : i \in 1..n - 1 + 1 /\ 1 + i - 1 = i
    BY <1>1
  <2> QED  BY <1>1, <1>4, <2>1
<1>7. d \in Seq(S) /\ Len(d) = Len(s) - n /\ \A i \in 1..Len(s) - n : d[i] = s[n + i]
  <2>1. \A i \in 1..Len(s) - n : i \in 1..Len(s) - (n + 1) + 1 /\ n + 1 + i - 1 = n + i
    BY <1>1
  <2> QED  BY <1>1, <1>5, <2>1
<1> HIDE DEF c, d
<1>8. c \o d = s
  <2>1. c \o d \in Seq(S) /\ Len(c \o d) = Len(s)
    BY <1>1, <1>6, <1>7, ConcatProperties
  <2>2. \A i \in 1..Len(c) + Len(d) : (c \o d)[i] = IF i <= Len(c) THEN c[i] ELSE d[i - Len(c)]
    BY <1>6, <1>7, ConcatProperties
  <2>3. \A i \in 1..Len(s) : (c \o d)[i] = s[i]
    <3> TAKE i \in 1..Len(s)
    <3>1. (c \o d)[i] = IF i <= n THEN c[i] ELSE d[i - n]
      BY <1>1, <1>6, <1>7, <2>2
    <3>2. CASE i <= n
      BY <1>1, <1>6, <3>1, <3>2
    <3>3. CASE ~(i <= n)
      <4>1. i - n \in 1..Len(s) - n /\ n + (i - n) = i
        BY <1>1, <3>3
      <4> QED  BY <1>7, <3>1, <3>3, <4>1
    <3> QED  BY <3>2, <3>3
  <2> QED  BY <2>1, <2>3, SeqEqual
<1>9. Len(d) <= Len(s)
  BY <1>1, <1>7
<1> QED  BY <1>6, <1>7, <1>8, <1>9, Zenon DEF c, d

WorkerPcs == {"idle", "pop", "resume", "process", "arm", "tail", "tailArm", "fullClose", "fullArm",
              "unregister"}
Faults == {"write", "read", "tail", "hangup", "reaped", "overflow", "dropped", "full"}
Peers == [sent : 0..MaxRequests, closed : BOOLEAN, inbox : Seq(1..MaxRequests), received : Seq(ReplyNumbers)]
Conns == [requests : Seq(1..MaxRequests), responses : Seq(ReplyNumbers), drain : BOOLEAN,
          accumulated : ReplyNumbers, eof : BOOLEAN, paused : BOOLEAN, closing : BOOLEAN]
Polls == [registered : BOOLEAN, read : BOOLEAN, write : BOOLEAN]
Reactors == [pc : ReactorPcs, events : SUBSET Events, queued : BOOLEAN]
WorkerStates == [pc : WorkerPcs, request : ReplyNumbers]

LEMMA TypesParts ==
  TypesOK <=> /\ peer \in Peers /\ conn \in Conns /\ poll \in Polls /\ reactor \in Reactors
              /\ Len(conn.requests) <= MaxPending /\ Len(conn.responses) <= MaxResponses
              /\ tasks \in 0..1 /\ worker \in [Workers -> WorkerStates] /\ faults \subseteq Faults
              /\ (~poll.registered => ~poll.read)
BY DEF TypesOK, ConnTypeOK, Peers, Conns, Polls, Reactors, WorkerStates, WorkerPcs, Faults, ReplyNumbers,
   ReactorPcs

LEMMA TypesPartsNext ==
  TypesOK' <=> /\ peer' \in Peers /\ conn' \in Conns /\ poll' \in Polls /\ reactor' \in Reactors
               /\ Len(conn'.requests) <= MaxPending /\ Len(conn'.responses) <= MaxResponses
               /\ tasks' \in 0..1 /\ worker' \in [Workers -> WorkerStates] /\ faults' \subseteq Faults
               /\ (~poll'.registered => ~poll'.read)
BY DEF TypesOK, ConnTypeOK, Peers, Conns, Polls, Reactors, WorkerStates, WorkerPcs, Faults, ReplyNumbers,
   ReactorPcs

\* The reactor thread goes to pc.
LEMMA Went ==
  ASSUME TypesOK, NEW pc \in ReactorPcs, Goto(pc)
  PROVE  /\ reactor' \in Reactors /\ reactor'.pc = pc
         /\ reactor'.events = reactor.events /\ reactor'.queued = reactor.queued
<1>1. reactor \in Reactors
  BY TypesParts
<1> QED  BY <1>1 DEF Goto, Reactors

\* Worker w goes to pc.
LEMMA Moved ==
  ASSUME TypesOK, NEW w \in Workers, NEW pc \in WorkerPcs, Move(w, pc)
  PROVE  /\ worker' \in [Workers -> WorkerStates]
         /\ worker'[w].pc = pc /\ worker'[w].request = worker[w].request
         /\ \A v \in Workers : v # w => worker'[v] = worker[v]
<1>1. worker \in [Workers -> WorkerStates]
  BY TypesParts
<1>2. /\ [worker[w] EXCEPT !.pc = pc] \in WorkerStates /\ [worker[w] EXCEPT !.pc = pc].pc = pc
      /\ [worker[w] EXCEPT !.pc = pc].request = worker[w].request
  BY <1>1 DEF WorkerStates
<1>3. worker' = [worker EXCEPT ![w] = [worker[w] EXCEPT !.pc = pc]]
  BY DEF Move
<1> QED  BY <1>1, <1>2, <1>3

\* The interest mask is written, or the connection is gone.
LEMMA Polled ==
  ASSUME TypesOK
  PROVE  /\ \A r, s \in BOOLEAN : Interest(r, s) =>
              poll' \in Polls /\ (~poll'.registered => ~poll'.read) /\ (poll'.read => r)
         /\ Unregistered => poll' \in Polls /\ ~poll'.read /\ ~poll'.registered
<1>1. poll \in Polls /\ (~poll.registered => ~poll.read)
  BY TypesParts
<1>2. ASSUME NEW r \in BOOLEAN, NEW s \in BOOLEAN, Interest(r, s)
      PROVE  poll' \in Polls /\ (~poll'.registered => ~poll'.read) /\ (poll'.read => r)
  <2>1. CASE poll.registered
    BY <1>1, <1>2, <2>1 DEF Interest, Polls
  <2>2. CASE ~poll.registered
    BY <1>1, <1>2, <2>2 DEF Interest, Polls
  <2> QED  BY <2>1, <2>2
<1>3. ASSUME Unregistered
      PROVE  poll' \in Polls /\ ~poll'.read /\ ~poll'.registered
  BY <1>1, <1>3 DEF Unregistered, Polls
<1> QED  BY <1>2, <1>3

\* A step of the client or the reactor thread that moves no request.
LEMMA QuietReactor ==
  ASSUME ConnInv, TypesOK', worker' = worker, tasks' = tasks,
         Replies' = Replies, peer'.inbox = peer.inbox, peer'.sent = peer.sent,
         conn'.requests = conn.requests, conn'.drain = conn.drain, conn'.paused = conn.paused,
         faults \subseteq faults', "dropped" \in faults' => "dropped" \in faults,
         poll'.read => poll.read,
         reactor'.pc \in {"recv", "pause"} => reactor'.pc = reactor.pc,
         reactor.pc = "pause" => reactor'.pc = "pause" \/ ~poll'.read,
         reactor.pc \in {"overflow", "overflowClose"} =>
           reactor'.pc \in {"overflow", "overflowClose"} \/ ~poll'.read
  PROVE  ConnInv'
<1> USE DEF ConnInv
<1>1. DrainOK'
  BY DEF DrainOK, InLoop
<1>2. PauseOK'
  BY DEF PauseOK
<1>3. DroppedOK'
  BY DEF DroppedOK
<1>4. OrderOK'
  <2>1. /\ \A w \in Workers : Serving(w)' <=> Serving(w)
        /\ Abandoned => Abandoned'
    BY DEF Serving, Abandoned, InLoop
  <2> QED  BY <2>1, SameOrder
<1> QED  BY <1>1, <1>2, <1>3, <1>4

\* A step of a worker without a request at hand, that takes none.
LEMMA QuietWorker ==
  ASSUME ConnInv, TypesOK', NEW w \in Workers, UNCHANGED <<peer, reactor>>,
         \A v \in Workers : v # w => worker'[v] = worker[v],
         worker[w].pc \notin {"resume", "process"}, worker'[w].pc \notin {"resume", "process"},
         conn'.requests = conn.requests, conn'.responses = conn.responses, conn'.paused = conn.paused,
         faults \subseteq faults', "dropped" \in faults' => "dropped" \in faults,
         poll'.read => poll.read,
         DrainOK', Abandoned => Abandoned'
  PROVE  ConnInv'
<1> USE DEF ConnInv
<1>1. PauseOK'
  BY DEF PauseOK
<1>2. DroppedOK'
  BY DEF DroppedOK
<1>3. OrderOK'
  <2>1. \A v \in Workers : /\ Serving(v)' <=> Serving(v)
                           /\ Serving(v) => worker'[v].request = worker[v].request
    BY DEF Serving
  <2>2. Replies' = Replies
    BY DEF Replies
  <2> QED  BY <2>1, <2>2, SameOrder
<1> QED  BY <1>1, <1>2, <1>3

-----------------------------------------------------------------------------
(* The steps that move no request.                                          *)

LEMMA QuietSteps ==
  ASSUME ConnInv,
         \/ ClientHalfCloses \/ OnError \/ ReapIdleConnections \/ RecvEnds \/ DisarmRead
         \/ OverflowClose \/ EofCheck \/ DisarmWrite \/ CloseCheck
  PROVE  ConnInv'
<1>1. /\ peer \in Peers /\ conn \in Conns /\ poll \in Polls /\ reactor \in Reactors
      /\ Len(conn.requests) <= MaxPending /\ Len(conn.responses) <= MaxResponses
      /\ tasks \in 0..1 /\ worker \in [Workers -> WorkerStates] /\ faults \subseteq Faults
      /\ (~poll.registered => ~poll.read)
  BY TypesParts DEF ConnInv
<1>2. UNCHANGED <<worker, tasks>>
  BY DEF ClientHalfCloses, OnError, ReapIdleConnections, RecvEnds, DisarmRead, OverflowClose, EofCheck,
     DisarmWrite, CloseCheck
<1>3. /\ peer' \in Peers /\ peer'.inbox = peer.inbox /\ peer'.sent = peer.sent
      /\ peer'.received = peer.received
  <2>1. CASE ClientHalfCloses
    BY <1>1, <2>1 DEF ClientHalfCloses, Peers
  <2> QED  BY <1>1, <2>1 DEF OnError, ReapIdleConnections, RecvEnds, DisarmRead, OverflowClose,
              EofCheck,
             DisarmWrite, CloseCheck
<1>4. /\ conn' \in Conns /\ conn'.requests = conn.requests /\ conn'.responses = conn.responses
      /\ conn'.drain = conn.drain /\ conn'.paused = conn.paused
  <2>1. CASE RecvEnds
    BY <1>1, <2>1 DEF RecvEnds, Conns
  <2>2. CASE OverflowClose
    BY <1>1, <2>2 DEF OverflowClose, Conns
  <2>3. CASE EofCheck
    <3>1. PICK b \in BOOLEAN : conn' = [conn EXCEPT !.closing = b]
      BY <1>1, <2>3 DEF EofCheck, Conns
    <3> QED  BY <1>1, <3>1 DEF Conns
  <2> QED  BY <1>1, <2>1, <2>2, <2>3 DEF ClientHalfCloses, OnError, ReapIdleConnections, DisarmRead,
             DisarmWrite, CloseCheck
<1>5. /\ faults \subseteq faults' /\ faults' \subseteq Faults
      /\ ("dropped" \in faults' => "dropped" \in faults)
  BY <1>1 DEF ClientHalfCloses, OnError, ReapIdleConnections, RecvEnds, DisarmRead, OverflowClose,
     EofCheck,
     DisarmWrite, CloseCheck, Faults, ReadRace, WriteRace
<1>6. /\ poll' \in Polls /\ (~poll'.registered => ~poll'.read) /\ (poll'.read => poll.read)
      /\ DisarmRead \/ OverflowClose => ~poll'.read
  <2>1. poll.read \in BOOLEAN /\ poll.write \in BOOLEAN
    BY <1>1 DEF Polls
  <2>2. CASE DisarmRead
    BY <2>1, <2>2, Polled DEF DisarmRead, ConnInv
  <2>3. CASE OverflowClose
    BY <2>1, <2>3, Polled DEF OverflowClose, ConnInv
  <2>4. CASE EofCheck
    <3>1. poll' = poll \/ Unregistered \/ Interest(FALSE, TRUE)
      BY <2>4 DEF EofCheck
    <3>2. ~DisarmRead /\ ~OverflowClose
      BY <2>4 DEF EofCheck, DisarmRead, OverflowClose
    <3> QED  BY <1>1, <3>1, <3>2, Polled DEF ConnInv
  <2>5. CASE DisarmWrite
    <3>1. Interest(poll.read, FALSE) /\ ~DisarmRead /\ ~OverflowClose
      BY <2>5 DEF DisarmWrite, DisarmRead, OverflowClose
    <3> QED  BY <2>1, <3>1, Polled DEF ConnInv
  <2>6. CASE OnError \/ ReapIdleConnections \/ CloseCheck
    <3>1. poll' = poll \/ Unregistered
      BY <2>6 DEF OnError, ReapIdleConnections, CloseCheck
    <3>2. ~DisarmRead /\ ~OverflowClose
      BY <2>6 DEF OnError, ReapIdleConnections, CloseCheck, DisarmRead, OverflowClose
    <3> QED  BY <1>1, <3>1, <3>2, Polled DEF ConnInv
  <2>7. CASE (ClientHalfCloses \/ RecvEnds) /\ ~DisarmRead /\ ~OverflowClose
    BY <1>1, <2>7 DEF ClientHalfCloses, RecvEnds
  <2> QED  BY <2>2, <2>3, <2>4, <2>5, <2>6, <2>7
<1>7. reactor' \in Reactors
  <2>1. ReapIdleConnections \/ ClientHalfCloses => reactor' = reactor
    BY DEF ReapIdleConnections, ClientHalfCloses
  <2>2. AfterRead \in ReactorPcs /\ AfterWrite \in ReactorPcs
    BY DEF AfterRead, AfterWrite, ReactorPcs
  <2>3. ASSUME ~(ReapIdleConnections \/ ClientHalfCloses)
        PROVE  \E pc \in ReactorPcs : Goto(pc)
    BY <2>2, <2>3 DEF OnError, RecvEnds, DisarmRead, OverflowClose, EofCheck, DisarmWrite, CloseCheck,
       ReactorPcs
  <2> QED  BY <1>1, <2>1, <2>3, Went DEF ConnInv
<1>8. /\ reactor'.pc \in {"recv", "pause"} => reactor'.pc = reactor.pc
      /\ reactor.pc = "pause" => reactor'.pc = "pause" \/ DisarmRead \/ ~poll'.read
      /\ reactor.pc \in {"overflow", "overflowClose"} =>
           reactor'.pc \in {"overflow", "overflowClose"} \/ OverflowClose
  <2>1. reactor.pc \in ReactorPcs
    BY <1>1 DEF Reactors
  <2>2. \A pc \in ReactorPcs : Goto(pc) => reactor'.pc = pc
    BY Went DEF ConnInv
  <2>3. CASE ClientHalfCloses \/ ReapIdleConnections
    BY <2>3 DEF ClientHalfCloses, ReapIdleConnections
  <2>4. AfterRead \in {"send", "poll"} /\ AfterWrite \in {"error", "poll"}
    BY DEF AfterRead, AfterWrite
  <2>5. CASE RecvEnds
    BY <2>2, <2>5 DEF RecvEnds, ReactorPcs
  <2>6. CASE DisarmRead
    BY <2>2, <2>6 DEF DisarmRead, ReactorPcs
  <2>7. CASE OverflowClose
    BY <2>2, <2>4, <2>7 DEF OverflowClose, ReactorPcs
  <2>8. CASE EofCheck
    BY <2>2, <2>4, <2>8 DEF EofCheck, ReactorPcs
  <2>9. CASE DisarmWrite \/ OnError
    BY <2>2, <2>9 DEF DisarmWrite, OnError, ReactorPcs
  <2>10. CASE CloseCheck
    BY <2>2, <2>4, <2>10 DEF CloseCheck, ReactorPcs
  <2> QED  BY <2>3, <2>5, <2>6, <2>7, <2>8, <2>9, <2>10
<1>9. Replies' = Replies
  BY <1>3, <1>4 DEF Replies
<1>10. TypesOK'
  BY <1>1, <1>2, <1>3, <1>4, <1>5, <1>6, <1>7, TypesPartsNext
<1> QED  BY <1>2, <1>3, <1>4, <1>5, <1>6, <1>8, <1>9, <1>10, QuietReactor

\* OnWritable: the socket takes the first answers.
LEMMA SendStep ==
  ASSUME ConnInv, Send
  PROVE  ConnInv'
<1>1. /\ peer \in Peers /\ conn \in Conns /\ reactor \in Reactors /\ TypesOK
      /\ Len(conn.requests) <= MaxPending /\ Len(conn.responses) <= MaxResponses
  BY TypesParts DEF ConnInv
<1>2. PICK n \in 0..Len(conn.responses) :
        /\ peer' = [peer EXCEPT !.received = @ \o SubSeq(conn.responses, 1, n)]
        /\ conn' = [conn EXCEPT !.responses = SubSeq(@, n + 1, Len(@))]
        /\ Goto(IF n = Len(conn.responses) THEN "drained" ELSE AfterWrite)
  BY DEF Send
<1> DEFINE a == peer.received
           b == conn.responses
           c == SubSeq(b, 1, n)
           d == SubSeq(b, n + 1, Len(b))
<1>3. a \in Seq(ReplyNumbers) /\ b \in Seq(ReplyNumbers) /\ Len(b) \in Nat
  BY <1>1 DEF Peers, Conns
<1>4. /\ c \in Seq(ReplyNumbers) /\ d \in Seq(ReplyNumbers) /\ Len(d) <= Len(b) /\ c \o d = b
  <2> HIDE DEF b
  <2> QED  BY <1>2, <1>3, Split DEF b
<1>5. peer'.received = a \o c /\ conn'.responses = d
  BY <1>1, <1>2 DEF Peers, Conns
<1>6. a \o c \in Seq(ReplyNumbers)
  BY <1>3, <1>4, ConcatProperties
<1>7. Replies' = Replies
  <2> HIDE DEF a, b, c, d
  <2>3. (a \o c) \o d = a \o b
    <3>1. \A x, y, z \in Seq(ReplyNumbers) : (x \o y) \o z = x \o (y \o z)
      BY ConcatAssociative
    <3>2. (a \o c) \o d = a \o (c \o d)
      BY <1>3, <1>4, <3>1, Zenon
    <3> QED  BY <1>4, <3>2
  <2> QED  BY <1>5, <2>3 DEF Replies, a, b
<1>8. /\ peer' \in Peers /\ peer'.inbox = peer.inbox /\ peer'.sent = peer.sent
  BY <1>1, <1>2, <1>6 DEF Peers
<1>9. /\ conn' \in Conns /\ conn'.requests = conn.requests
      /\ conn'.drain = conn.drain /\ conn'.paused = conn.paused
  BY <1>1, <1>2, <1>4 DEF Conns
<1>10. AfterWrite \in ReactorPcs /\ "drained" \in ReactorPcs /\ AfterWrite \in {"error", "poll"}
  BY DEF AfterWrite, ReactorPcs
<1>11. reactor' \in Reactors /\ reactor'.pc \in {"drained", "error", "poll"} /\ reactor.pc = "send"
  <2>1. PICK pc \in ReactorPcs : pc \in {"drained", "error", "poll"} /\ Goto(pc)
    BY <1>2, <1>10
  <2> QED  BY <1>1, <2>1, Went DEF Send
<1>12. UNCHANGED <<poll, tasks, worker, faults>>
  BY DEF Send
<1>13. Len(conn'.responses) <= MaxResponses
  <2> HIDE DEF b
  <2>1. MaxResponses \in Nat /\ Len(b) <= MaxResponses
    BY <1>1, ConnectionAssumption DEF b
  <2>2. Len(d) \in Nat
    BY <1>4
  <2> HIDE DEF d
  <2> QED  BY <1>3, <1>4, <1>5, <2>1, <2>2
<1>14. TypesOK'
  BY <1>1, <1>8, <1>9, <1>11, <1>12, <1>13, TypesParts, TypesPartsNext
<1> QED  BY <1>7, <1>8, <1>9, <1>11, <1>12, <1>14, QuietReactor

-----------------------------------------------------------------------------
(* The steps of the client and of the reactor that move a request.          *)

\* No worker moves: the drain is where it was.
LEMMA SameDrain ==
  ASSUME ConnInv, worker' = worker, tasks' = tasks, conn'.drain = conn.drain
  PROVE  DrainOK' /\ (Abandoned' <=> Abandoned) /\ Serving1' = Serving1
<1>1. DrainOK'
  BY DEF ConnInv, DrainOK, InLoop
<1>2. Abandoned' <=> Abandoned
  BY DEF Abandoned, InLoop
<1>3. Serving1' = Serving1
  BY DEF Serving1, Serving
<1> QED  BY <1>1, <1>2, <1>3

\* EventLoop: a connection whose requests are paused, or that overflowed, is not read.
LEMMA PollStep ==
  ASSUME ConnInv, Poll
  PROVE  ConnInv'
<1>1. /\ UNCHANGED <<peer, conn, poll, tasks, worker, faults>>
      /\ reactor.pc = "poll" /\ TypesOK
  BY DEF Poll, ConnInv
<1>2. /\ reactor'.pc \in {"recv", "send", "error"} /\ reactor'.events \subseteq Events
      /\ reactor' \in Reactors
      /\ reactor'.pc = "recv" => poll.read
  BY DEF Poll, ReadyEvents, Events, Reactors, ReactorPcs
<1>3. TypesOK'
  BY <1>1, <1>2, TypesParts, TypesPartsNext
<1>4. DrainOK' /\ (Abandoned' <=> Abandoned)
  BY <1>1, SameDrain
<1>5. PauseOK'
  BY <1>1, <1>2 DEF ConnInv, PauseOK
<1>6. DroppedOK'
  BY <1>1, <1>2 DEF ConnInv, DroppedOK
<1>7. OrderOK'
  BY <1>1, <1>4, SameOrder DEF Replies, Serving
<1> QED  BY <1>3, <1>4, <1>5, <1>6, <1>7 DEF ConnInv

\* The client sends one request more.
LEMMA SendsStep ==
  ASSUME ConnInv, ClientSends
  PROVE  ConnInv'
<1>1. /\ UNCHANGED <<conn, poll, reactor, tasks, worker, faults>>
      /\ peer.sent < MaxRequests /\ TypesOK
      /\ peer' = [peer EXCEPT !.sent = @ + 1, !.inbox = Append(@, peer.sent + 1)]
      /\ peer \in Peers /\ MaxRequests \in Nat
  BY TypesParts, ConnectionAssumption DEF ClientSends, ConnInv
<1>2. peer.sent \in 0..MaxRequests /\ peer.inbox \in Seq(1..MaxRequests)
  BY <1>1 DEF Peers
<1>3. peer.sent + 1 \in 1..MaxRequests
  BY <1>1, <1>2
<1>4. /\ Append(peer.inbox, peer.sent + 1) \in Seq(1..MaxRequests)
      /\ Len(Append(peer.inbox, peer.sent + 1)) = Len(peer.inbox) + 1
      /\ Append(peer.inbox, peer.sent + 1)[Len(peer.inbox) + 1] = peer.sent + 1
      /\ \A i \in 1..Len(peer.inbox) : Append(peer.inbox, peer.sent + 1)[i] = peer.inbox[i]
  BY <1>2, <1>3, AppendProperties
<1>5. /\ peer' \in Peers /\ peer'.sent = peer.sent + 1 /\ peer'.received = peer.received
      /\ peer'.inbox = Append(peer.inbox, peer.sent + 1)
  <2>1. \A m \in 0..MaxRequests, q \in Seq(1..MaxRequests) :
          LET p == [peer EXCEPT !.sent = m, !.inbox = q]
          IN  p \in Peers /\ p.sent = m /\ p.received = peer.received /\ p.inbox = q
    BY <1>1 DEF Peers
  <2>2. peer.sent + 1 \in 0..MaxRequests
    BY <1>1, <1>3
  <2> QED  BY <1>1, <1>4, <2>1, <2>2
<1>6. TypesOK'
  BY <1>1, <1>5, TypesParts, TypesPartsNext
<1>7. DrainOK' /\ (Abandoned' <=> Abandoned) /\ Serving1' = Serving1
  BY <1>1, SameDrain
<1>8. PauseOK' /\ DroppedOK'
  BY <1>1 DEF ConnInv, PauseOK, DroppedOK
<1>9. Replies' = Replies /\ Given' = Given
  BY <1>1, <1>5 DEF Replies, Given, Count
<1>10. OrderOK'
  <2>1. \A i \in 1..Len(Replies) : Replies'[i] # TooLarge => Replies'[i] = Count(Replies', i)
    BY <1>9 DEF ConnInv, OrderOK
  <2>2. ASSUME ~Abandoned, "dropped" \notin faults
        PROVE  /\ \A i \in 1..Len(peer'.inbox) :
                    peer'.inbox[i] = Given + Serving1 + Len(conn.requests) + i
               /\ peer'.sent = Given + Serving1 + Len(conn.requests) + Len(peer'.inbox)
    <3> DEFINE n == Given + Serving1 + Len(conn.requests)
               l == Len(peer.inbox)
    <3>1. Given \in Nat /\ Serving1 \in Nat /\ Len(conn.requests) \in Nat /\ l \in Nat
      BY <1>1, AnswersType, TypedOK DEF Typed
    <3>2. n \in Nat
      <4>1. \A x, y, z \in Nat : x + y + z \in Nat
        OBVIOUS
      <4> QED  BY <3>1, <4>1, Zenon
    <3>3. (\A i \in 1..l : peer.inbox[i] = n + i) /\ peer.sent = n + l
      BY <2>2 DEF ConnInv, OrderOK
    <3> HIDE DEF n, l
    <3>4. Len(peer'.inbox) = l + 1 /\ peer'.inbox[l + 1] = peer.sent + 1
      BY <1>4, <1>5 DEF l
    <3>5. \A i \in 1..l : peer'.inbox[i] = peer.inbox[i]
      BY <1>4, <1>5 DEF l
    <3>6. \A i \in 1..l + 1 : peer'.inbox[i] = n + i
      <4> TAKE i \in 1..l + 1
      <4>1. CASE i = l + 1
        BY <3>1, <3>2, <3>3, <3>4, <4>1
      <4>2. CASE i # l + 1
        <5>1. i \in 1..l
          BY <3>1, <4>2
        <5> QED  BY <3>3, <3>5, <5>1
      <4> QED  BY <4>1, <4>2
    <3>7. peer'.sent = n + (l + 1)
      BY <1>5, <3>1, <3>2, <3>3
    <3> QED  BY <3>4, <3>6, <3>7 DEF n
  <2>3. \A w \in Workers : Serving(w)' <=> Serving(w)
    BY <1>1 DEF Serving
  <2> QED  BY <1>1, <1>7, <1>9, <2>1, <2>2, <2>3 DEF ConnInv, OrderOK, Count
<1> QED  BY <1>6, <1>7, <1>8, <1>10 DEF ConnInv

\* OnReadable moves the first requests into the queue, in their order; what
\* does not fit stays first in line.
LEMMA RecvStep ==
  ASSUME ConnInv, NEW k \in 1..MaxRequests, RecvFrames(k)
  PROVE  ConnInv'
<1> DEFINE m == FramesTaken(k)
           r == conn.requests
           b == peer.inbox
           c == SubSeq(b, 1, m)
           d == SubSeq(b, m + 1, Len(b))
           overflow == m < k
           pause == Len(r \o c) >= HighWatermark
<1>1. /\ peer \in Peers /\ conn \in Conns /\ reactor \in Reactors /\ TypesOK /\ faults \subseteq Faults
      /\ Len(r) <= MaxPending /\ MaxPending \in Nat
      /\ r \in Seq(1..MaxRequests) /\ b \in Seq(1..MaxRequests) /\ Len(r) \in Nat /\ Len(b) \in Nat
  <2>1. /\ peer \in Peers /\ conn \in Conns /\ reactor \in Reactors /\ TypesOK
        /\ faults \subseteq Faults
        /\ Len(r) <= MaxPending
    BY TypesParts DEF ConnInv
  <2> QED  BY <2>1, TypedOK DEF Typed
<1>2. /\ reactor.pc = "recv" /\ k \in conn.accumulated + 1..Len(b)
      /\ peer' = [peer EXCEPT !.inbox = d]
      /\ conn' = [conn EXCEPT !.requests = r \o c, !.accumulated = k - m, !.paused = @ \/ pause]
      /\ faults' = faults \cup (IF overflow THEN {"overflow"} ELSE {})
      /\ UNCHANGED <<poll, tasks, worker>>
  BY DEF RecvFrames
<1>3. PICK pc \in IF overflow THEN {"overflow"} ELSE IF pause THEN {"pause"} ELSE {"recv", "schedule"} :
        reactor' = [reactor EXCEPT !.pc = pc, !.queued = @ \/ FramesTaken(k) > 0]
  BY DEF RecvFrames
<1>4. m \in 0..k /\ Len(r) + m <= MaxPending /\ m \in 0..Len(b) /\ k - m \in ReplyNumbers
  <2> HIDE DEF r, b
  <2>1. m = IF k <= MaxPending - Len(r) THEN k ELSE MaxPending - Len(r)
    BY DEF FramesTaken, r
  <2> HIDE DEF m
  <2>2. conn.accumulated \in Nat /\ MaxRequests \in Nat
    BY <1>1, ConnectionAssumption DEF Conns, ReplyNumbers
  <2>3. k \in Nat /\ k <= MaxRequests /\ k <= Len(b) /\ k >= 1
    <3> DEFINE e == conn.accumulated
    <3>1. e \in Nat /\ k \in e + 1..Len(b)
      BY <1>2, <2>2
    <3> HIDE DEF e
    <3> QED  BY <3>1, <2>2, <1>1
  <2>4. m \in 0..k /\ Len(r) + m <= MaxPending
    BY <1>1, <2>1, <2>3
  <2> QED  BY <1>1, <2>2, <2>3, <2>4 DEF ReplyNumbers
<1> HIDE DEF m
<1>5. c \in Seq(1..MaxRequests) /\ Len(c) = m /\ \A i \in 1..m : c[i] = b[i]
  <2>1. b \in Seq(1..MaxRequests) /\ m \in 0..Len(b)
    BY <1>1, <1>4
  <2> HIDE DEF b
  <2> QED  BY <2>1, Split
<1>6. d \in Seq(1..MaxRequests) /\ Len(d) = Len(b) - m /\ \A i \in 1..Len(b) - m : d[i] = b[m + i]
  <2>1. b \in Seq(1..MaxRequests) /\ m \in 0..Len(b)
    BY <1>1, <1>4
  <2> HIDE DEF b
  <2> QED  BY <2>1, Split
<1> HIDE DEF c, d
<1>7. /\ r \o c \in Seq(1..MaxRequests) /\ Len(r \o c) = Len(r) + m
      /\ \A i \in 1..Len(r) + m : (r \o c)[i] = IF i <= Len(r) THEN r[i] ELSE c[i - Len(r)]
  BY <1>1, <1>5, ConcatProperties, ZenonT(40)
<1>8. peer' \in Peers /\ peer'.inbox = d /\ peer'.sent = peer.sent /\ peer'.received = peer.received
  BY <1>1, <1>2, <1>6 DEF Peers
<1>9. pause \in BOOLEAN
  OBVIOUS
<1> HIDE DEF pause
<1>10. /\ conn' \in Conns /\ conn'.requests = r \o c /\ conn'.responses = conn.responses
       /\ conn'.drain = conn.drain /\ (conn'.paused <=> conn.paused \/ pause)
  <2> HIDE DEF r
  <2> DEFINE q == r \o c
             a == k - m
             f == conn.paused \/ pause
  <2>1. q \in Seq(1..MaxRequests) /\ a \in ReplyNumbers /\ f \in BOOLEAN
    BY <1>4, <1>7
  <2>2. conn' = [conn EXCEPT !.requests = q, !.accumulated = a, !.paused = f]
    BY <1>2
  <2> HIDE DEF q, a, f
  <2>3. /\ conn' \in Conns /\ conn'.requests = q /\ conn'.responses = conn.responses
        /\ conn'.drain = conn.drain /\ conn'.paused = f
    BY <1>1, <2>1, <2>2 DEF Conns
  <2> QED  BY <2>3 DEF q, f
<1>11. reactor' \in Reactors /\ reactor'.pc = pc
  BY <1>1, <1>3 DEF Reactors, ReactorPcs
<1>12. ~conn.paused /\ (\A w \in Workers : worker[w].pc # "resume") /\ "dropped" \notin faults
  BY <1>2 DEF ConnInv, PauseOK, DroppedOK
<1>13. TypesOK'
  <2>1. faults' \subseteq Faults
    BY <1>1, <1>2 DEF Faults
  <2>2. Len(conn'.requests) <= MaxPending
    BY <1>4, <1>7, <1>10
  <2> QED  BY <1>1, <1>2, <1>8, <1>10, <1>11, <2>1, <2>2, TypesParts, TypesPartsNext
<1>14. DrainOK' /\ (Abandoned' <=> Abandoned) /\ Serving1' = Serving1
  BY <1>2, <1>10, SameDrain
<1>15. pause => pc \in {"overflow", "pause"}
  BY <1>3
<1>16. PauseOK'
  BY <1>2, <1>10, <1>11, <1>12, <1>15 DEF PauseOK
<1>17. DroppedOK'
  BY <1>2, <1>12 DEF DroppedOK
<1>18. Replies' = Replies /\ Given' = Given
  BY <1>8, <1>10 DEF Replies, Given, Count
<1>19. OrderOK'
  <2>1. \A i \in 1..Len(Replies) : Replies'[i] # TooLarge => Replies'[i] = Count(Replies', i)
    BY <1>18 DEF ConnInv, OrderOK
  <2>2. ASSUME ~Abandoned
        PROVE  /\ \A i \in 1..Len(r \o c) : (r \o c)[i] = Given + Serving1 + i
               /\ \A i \in 1..Len(d) : d[i] = Given + Serving1 + Len(r \o c) + i
               /\ peer.sent = Given + Serving1 + Len(r \o c) + Len(d)
    <3> DEFINE n == Given + Serving1
               l == Len(r)
               h == Len(b)
    <3>1. Given \in Nat /\ Serving1 \in Nat
      BY <1>1, AnswersType
    <3>2. n \in Nat
      <4>1. \A x, y \in Nat : x + y \in Nat
        OBVIOUS
      <4> QED  BY <3>1, <4>1, Zenon
    <3>3. /\ \A i \in 1..l : r[i] = n + i
          /\ \A i \in 1..h : b[i] = n + l + i
          /\ peer.sent = n + l + h
      BY <1>12, <2>2 DEF ConnInv, OrderOK
    <3>4. l \in Nat /\ h \in Nat /\ m \in 0..h /\ m \in Nat
      BY <1>1, <1>4
    <3>5. /\ Len(r \o c) = l + m /\ Len(d) = h - m
          /\ \A i \in 1..m : c[i] = b[i]
          /\ \A i \in 1..h - m : d[i] = b[m + i]
          /\ \A i \in 1..l + m : (r \o c)[i] = IF i <= l THEN r[i] ELSE c[i - l]
      BY <1>5, <1>6, <1>7
    <3> HIDE DEF n, l, h, r, b
    <3>6. \A i \in 1..l + m : (r \o c)[i] = n + i
      <4> TAKE i \in 1..l + m
      <4>1. CASE i <= l
        <5>1. i \in 1..l
          BY <3>4, <4>1
        <5> QED  BY <3>3, <3>5, <4>1, <5>1
      <4>2. CASE ~(i <= l)
        <5>1. i - l \in 1..m /\ i - l \in 1..h /\ n + l + (i - l) = n + i
          BY <3>2, <3>4, <4>2
        <5>2. (r \o c)[i] = b[i - l]
          BY <3>5, <4>2, <5>1
        <5> QED  BY <3>3, <5>1, <5>2
      <4> QED  BY <4>1, <4>2
    <3>7. \A i \in 1..h - m : d[i] = n + (l + m) + i
      <4> TAKE i \in 1..h - m
      <4>1. m + i \in 1..h /\ n + l + (m + i) = n + (l + m) + i
        BY <3>2, <3>4
      <4> QED  BY <3>3, <3>5, <4>1
    <3>8. peer.sent = n + (l + m) + (h - m)
      <4>1. n + l + h = n + (l + m) + (h - m)
        BY <3>2, <3>4
      <4> QED  BY <3>3, <4>1
    <3> QED  BY <3>5, <3>6, <3>7, <3>8 DEF n
  <2>3. \A w \in Workers : Serving(w)' <=> Serving(w)
    BY <1>2 DEF Serving
  <2> HIDE DEF overflow, r
  <2> QED  BY <1>2, <1>8, <1>10, <1>14, <1>18, <2>1, <2>2, <2>3 DEF ConnInv, OrderOK, Count
<1> QED  BY <1>13, <1>14, <1>16, <1>17, <1>19 DEF ConnInv

\* OnReadable drops what recv returned; reading was on, so no pause is under way.
LEMMA DropStep ==
  ASSUME ConnInv, NEW k \in 1..MaxRequests, RecvDropped(k)
  PROVE  ConnInv'
<1> DEFINE b == peer.inbox
           a == conn.accumulated
           kept == SubSeq(b, 1, a) \o SubSeq(b, k + 1, Len(b))
<1>1. /\ peer \in Peers /\ reactor \in Reactors /\ TypesOK /\ faults \subseteq Faults
      /\ b \in Seq(1..MaxRequests) /\ Len(b) \in Nat /\ a \in Nat
  <2>1. /\ peer \in Peers /\ reactor \in Reactors /\ TypesOK /\ faults \subseteq Faults /\ conn \in Conns
    BY TypesParts DEF ConnInv
  <2> QED  BY <2>1, TypedOK, ConnectionAssumption DEF Typed, Conns, ReplyNumbers
<1>2. /\ reactor.pc = "recv" /\ k \in a + 1..Len(b) /\ Goto("overflow")
      /\ peer' = [peer EXCEPT !.inbox = kept]
      /\ faults' = faults \cup {"overflow", "dropped"}
      /\ UNCHANGED <<conn, poll, tasks, worker>>
  BY DEF RecvDropped
<1>3. kept \in Seq(1..MaxRequests)
  <2> HIDE DEF b, a
  <2>1. a \in 0..Len(b) /\ k \in 0..Len(b)
    BY <1>1, <1>2
  <2>2. SubSeq(b, 1, a) \in Seq(1..MaxRequests) /\ SubSeq(b, k + 1, Len(b)) \in Seq(1..MaxRequests)
    BY <1>1, <2>1, Split
  <2> QED  BY <2>2, ConcatProperties
<1> HIDE DEF kept
<1>4. peer' \in Peers /\ peer'.sent = peer.sent /\ peer'.received = peer.received
  BY <1>1, <1>2, <1>3 DEF Peers
<1>5. reactor' \in Reactors /\ reactor'.pc = "overflow"
  <2>1. "overflow" \in ReactorPcs
    BY DEF ReactorPcs
  <2> QED  BY <1>1, <1>2, <2>1, Went
<1>6. TypesOK'
  <2>1. faults' \subseteq Faults
    BY <1>1, <1>2 DEF Faults
  <2> QED  BY <1>1, <1>2, <1>4, <1>5, <2>1, TypesParts, TypesPartsNext
<1>7. DrainOK' /\ (Abandoned' <=> Abandoned) /\ Serving1' = Serving1
  BY <1>2, SameDrain
<1>8. ~conn.paused /\ \A w \in Workers : worker[w].pc # "resume"
  BY <1>2 DEF ConnInv, PauseOK
<1>9. PauseOK' /\ DroppedOK'
  BY <1>2, <1>5, <1>8 DEF PauseOK, DroppedOK
<1>10. Replies' = Replies /\ Given' = Given
  BY <1>2, <1>4 DEF Replies, Given, Count
<1>11. OrderOK'
  <2>1. \A i \in 1..Len(Replies) : Replies'[i] # TooLarge => Replies'[i] = Count(Replies', i)
    BY <1>10 DEF ConnInv, OrderOK
  <2>2. "dropped" \in faults' /\ \A w \in Workers : Serving(w)' <=> Serving(w)
    BY <1>2 DEF Serving
  <2> QED  BY <1>2, <1>7, <1>10, <2>1, <2>2 DEF ConnInv, OrderOK, Count
<1> QED  BY <1>6, <1>7, <1>9, <1>11 DEF ConnInv

\* One answer more: the error of an overflow, or the answer to the next request.
LEMMA OneAnswer ==
  ASSUME ConnInv, NEW e \in ReplyNumbers, e = TooLarge \/ e = Given + 1,
         peer'.received = peer.received, conn'.responses = Append(conn.responses, e)
  PROVE  /\ Given' = IF e = TooLarge THEN Given ELSE Given + 1
         /\ \A i \in 1..Len(Replies') : Replies'[i] # TooLarge => Replies'[i] = Count(Replies', i)
<1>1. /\ peer.received \in Seq(ReplyNumbers) /\ conn.responses \in Seq(ReplyNumbers)
      /\ Replies \in Seq(ReplyNumbers) /\ Len(Replies) \in Nat /\ Given \in Nat
  BY TypedOK, AnswersType DEF ConnInv, Typed
<1>2. Replies' = Append(Replies, e)
  <2>1. /\ Append(conn.responses, e) = conn.responses \o <<e>> /\ Append(Replies, e) = Replies \o <<e>>
        /\ <<e>> \in Seq(ReplyNumbers)
    BY <1>1, AppendIsConcat
  <2>2. \A x, y, z \in Seq(ReplyNumbers) : (x \o y) \o z = x \o (y \o z)
    BY ConcatAssociative
  <2>3. Replies' = peer.received \o (conn.responses \o <<e>>)
    BY <2>1 DEF Replies
  <2>4. Replies \o <<e>> = peer.received \o (conn.responses \o <<e>>)
    BY <1>1, <2>1, <2>2, Zenon DEF Replies
  <2> QED  BY <2>1, <2>3, <2>4
<1> DEFINE s == Replies
           t == Append(s, e)
           n == Len(s)
<1>3. /\ \A i \in 1..n : Count(t, i) = Count(s, i)
      /\ Count(t, Len(t)) = IF e = TooLarge THEN Count(s, n) ELSE Count(s, n) + 1
  BY <1>1, CountAppend
<1>4. Len(t) = n + 1 /\ n \in Nat /\ t[n + 1] = e /\ \A i \in 1..n : t[i] = s[i]
  BY <1>1, AppendProperties
<1>5. \A i \in 1..n : s[i] # TooLarge => s[i] = Count(s, i)
  BY DEF ConnInv, OrderOK
<1>6. Given = Count(s, n) /\ Given' = Count(t, Len(t))
  BY <1>2 DEF Given, Count
<1>7. \A i \in 1..Len(t) : t[i] # TooLarge => t[i] = Count(t, i)
  <2> HIDE DEF s, t, n
  <2> TAKE i \in 1..Len(t)
  <2>1. CASE i \in 1..n
    BY <1>3, <1>4, <1>5, <2>1
  <2>2. CASE i \notin 1..n
    <3>1. i = n + 1 /\ i = Len(t)
      BY <1>4, <2>2
    <3> QED  BY <1>3, <1>4, <1>6, <3>1
  <2> QED  BY <2>1, <2>2
<1>8. \A i \in 1..Len(Replies') : Replies'[i] # TooLarge => Replies'[i] = Count(Replies', i)
  BY <1>2, <1>7
<1> QED  BY <1>3, <1>6, <1>8

\* EnqueueResponse(TooLarge) on the reactor thread.
LEMMA OverflowStep ==
  ASSUME ConnInv, Overflow
  PROVE  ConnInv'
<1>1. /\ conn \in Conns /\ reactor \in Reactors /\ TypesOK /\ reactor.pc = "overflow"
      /\ conn.responses \in Seq(ReplyNumbers) /\ Len(conn.responses) <= MaxResponses
      /\ MaxResponses \in Nat /\ MaxRequests \in Nat
  <2>1. conn \in Conns /\ reactor \in Reactors /\ TypesOK /\ Len(conn.responses) <= MaxResponses
    BY TypesParts DEF ConnInv
  <2> QED  BY <2>1, TypedOK DEF Typed, Overflow
<1>2. UNCHANGED <<peer, poll, tasks, worker, faults>>
  BY DEF Overflow
<1>3. reactor' \in Reactors /\ reactor'.pc = "overflowClose"
  <2>1. "overflowClose" \in ReactorPcs /\ Goto("overflowClose")
    BY DEF Overflow, ReactorPcs
  <2> QED  BY <1>1, <2>1, Went
<1>4. \A q \in Seq(ReplyNumbers) :
        LET x == [conn EXCEPT !.responses = q]
        IN  /\ x \in Conns /\ x.requests = conn.requests /\ x.responses = q
            /\ x.drain = conn.drain /\ x.paused = conn.paused
  BY <1>1 DEF Conns
<1>5. CASE Len(conn.responses) >= MaxResponses
  <2>1. conn' = [conn EXCEPT !.responses = conn.responses]
    BY <1>1, <1>5 DEF Overflow
  <2>2. /\ conn' \in Conns /\ conn'.requests = conn.requests /\ conn'.responses = conn.responses
        /\ conn'.drain = conn.drain /\ conn'.paused = conn.paused
    BY <1>1, <1>4, <2>1
  <2>3. TypesOK'
    BY <1>1, <1>2, <1>3, <2>2, TypesParts, TypesPartsNext
  <2>4. Replies' = Replies
    BY <1>2, <2>2 DEF Replies
  <2> QED  BY <1>1, <1>2, <1>3, <2>2, <2>3, <2>4, QuietReactor
<1>6. CASE Len(conn.responses) < MaxResponses
  <2> DEFINE q == Append(conn.responses, TooLarge)
  <2>1. TooLarge \in ReplyNumbers
    BY <1>1 DEF TooLarge, ReplyNumbers
  <2>2. q \in Seq(ReplyNumbers) /\ Len(q) = Len(conn.responses) + 1 /\ Len(conn.responses) \in Nat
    BY <1>1, <2>1, AppendProperties
  <2>3. conn' = [conn EXCEPT !.responses = q]
    BY <1>6 DEF Overflow
  <2> HIDE DEF q
  <2>4. /\ conn' \in Conns /\ conn'.requests = conn.requests /\ conn'.responses = q
        /\ conn'.drain = conn.drain /\ conn'.paused = conn.paused
    BY <1>4, <2>2, <2>3
  <2>5. Len(conn'.responses) <= MaxResponses
    BY <1>1, <1>6, <2>2, <2>4
  <2>6. TypesOK'
    BY <1>1, <1>2, <1>3, <2>4, <2>5, TypesParts, TypesPartsNext
  <2>7. DrainOK' /\ (Abandoned' <=> Abandoned) /\ Serving1' = Serving1
    BY <1>2, <2>4, SameDrain
  <2>8. PauseOK'
    BY <1>1, <1>2, <1>3, <2>4 DEF ConnInv, PauseOK
  <2>9. DroppedOK'
    BY <1>1, <1>2, <1>3, <2>4 DEF ConnInv, DroppedOK
  <2>10. /\ Given' = Given
         /\ \A i \in 1..Len(Replies') : Replies'[i] # TooLarge => Replies'[i] = Count(Replies', i)
    BY <1>2, <2>1, <2>4, OneAnswer DEF q
  <2>11. OrderOK'
    <3>1. \A w \in Workers : Serving(w)' <=> Serving(w)
      BY <1>2 DEF Serving
    <3> QED  BY <1>2, <2>4, <2>7, <2>10, <3>1 DEF ConnInv, OrderOK
  <2> QED  BY <2>6, <2>7, <2>8, <2>9, <2>11 DEF ConnInv
<1> QED  BY <1>1, <1>5, <1>6

\* The compare-and-exchange: a drain is queued only when there is none.
LEMMA ScheduleStep ==
  ASSUME ConnInv, ScheduleDrain
  PROVE  ConnInv'
<1>1. /\ conn \in Conns /\ reactor \in Reactors /\ TypesOK /\ reactor.pc = "schedule" /\ tasks \in 0..1
  BY TypesParts DEF ConnInv, ScheduleDrain
<1>2. UNCHANGED <<peer, poll, worker, faults>>
  BY DEF ScheduleDrain
<1>3. reactor' \in Reactors /\ reactor'.pc = "eof"
  <2>1. "eof" \in ReactorPcs /\ Goto("eof")
    BY DEF ScheduleDrain, ReactorPcs
  <2> QED  BY <1>1, <2>1, Went
<1>4. CASE ~(reactor.queued /\ ~conn.drain)
  <2>1. UNCHANGED <<conn, tasks>>
    BY <1>4 DEF ScheduleDrain
  <2>2. TypesOK' /\ Replies' = Replies
    BY <1>1, <1>2, <1>3, <2>1, TypesParts, TypesPartsNext DEF Replies
  <2> QED  BY <1>1, <1>2, <1>3, <2>1, <2>2, QuietReactor
<1>5. CASE reactor.queued /\ ~conn.drain
  <2>1. conn' = [conn EXCEPT !.drain = TRUE] /\ tasks' = tasks + 1
    BY <1>5 DEF ScheduleDrain
  <2>2. /\ conn' \in Conns /\ conn'.requests = conn.requests /\ conn'.responses = conn.responses
        /\ conn'.drain = TRUE /\ conn'.paused = conn.paused
    BY <1>1, <2>1 DEF Conns
  <2>3. tasks' = 1 /\ \A w \in Workers : ~InLoop(w)
    BY <1>1, <1>5, <2>1 DEF ConnInv, DrainOK
  <2>4. TypesOK'
    BY <1>1, <1>2, <1>3, <2>2, <2>3, TypesParts, TypesPartsNext
  <2>5. DrainOK'
    BY <1>2, <2>2, <2>3 DEF DrainOK, InLoop
  <2>6. PauseOK'
    BY <1>1, <1>2, <1>3, <2>2 DEF ConnInv, PauseOK
  <2>7. DroppedOK'
    BY <1>1, <1>2, <1>3, <2>2 DEF ConnInv, DroppedOK
  <2>8. OrderOK'
    <3>1. Replies' = Replies
      BY <1>2, <2>2 DEF Replies
    <3>2. ~Abandoned /\ \A w \in Workers : Serving(w)' <=> Serving(w)
      BY <1>2, <1>5 DEF Abandoned, Serving
    <3> QED  BY <1>2, <2>2, <3>1, <3>2, SameOrder
  <2> QED  BY <2>4, <2>5, <2>6, <2>7, <2>8 DEF ConnInv
<1> QED  BY <1>4, <1>5

-----------------------------------------------------------------------------
(* The steps of a worker.                                                   *)

\* A worker with a request at hand, or about to take one, is alone in the loop.
LEMMA AloneInLoop ==
  ASSUME ConnInv, NEW w \in Workers, InLoop(w)
  PROVE  /\ conn.drain /\ tasks = 0 /\ ~Abandoned
         /\ \A v \in Workers : v # w => ~InLoop(v) /\ ~Serving(v)
<1>1. conn.drain /\ tasks = 0
  BY TypesParts DEF ConnInv, DrainOK
<1>2. ~Abandoned
  BY DEF Abandoned
<1>3. \A v \in Workers : v # w => ~InLoop(v)
  BY DEF ConnInv, DrainOK
<1> QED  BY <1>1, <1>2, <1>3 DEF InLoop, Serving

\* The steps at the two ends of a drain, and the interest in writing.
LEMMA QuietWorkerSteps ==
  ASSUME ConnInv, NEW w \in Workers,
         TakeTask(w) \/ Arm(w) \/ Closing(w) \/ CloseArm(w) \/ UnregisterIfFlushed(w)
  PROVE  ConnInv'
<1>1. /\ peer \in Peers /\ conn \in Conns /\ poll \in Polls /\ TypesOK /\ tasks \in 0..1
      /\ faults \subseteq Faults /\ worker \in [Workers -> WorkerStates]
      /\ (~poll.registered => ~poll.read)
  BY TypesParts DEF ConnInv
<1>2. UNCHANGED <<peer, reactor>>
  BY DEF TakeTask, Arm, Closing, CloseArm, UnregisterIfFlushed
<1>3. /\ conn' \in Conns /\ conn'.requests = conn.requests /\ conn'.responses = conn.responses
      /\ conn'.drain = conn.drain /\ conn'.paused = conn.paused
  <2>1. CASE Closing(w)
    <3>1. PICK f \in BOOLEAN : conn' = [conn EXCEPT !.closing = f]
      BY <1>1, <2>1 DEF Closing, Conns
    <3> QED  BY <1>1, <3>1 DEF Conns
  <2> QED  BY <1>1, <2>1 DEF TakeTask, Arm, CloseArm, UnregisterIfFlushed
<1>4. /\ faults \subseteq faults' /\ faults' \subseteq Faults
      /\ ("dropped" \in faults' => "dropped" \in faults)
  BY <1>1 DEF TakeTask, Arm, Closing, CloseArm, UnregisterIfFlushed, Faults, TailRace
<1>5. poll' \in Polls /\ (~poll'.registered => ~poll'.read) /\ (poll'.read => poll.read)
  <2>1. poll.read \in BOOLEAN /\ poll.write \in BOOLEAN
    BY <1>1 DEF Polls
  <2>2. poll' = poll \/ Interest(poll.read, TRUE) \/ Interest(FALSE, TRUE) \/ Unregistered
    BY DEF TakeTask, Arm, Closing, CloseArm, UnregisterIfFlushed
  <2> QED  BY <1>1, <2>1, <2>2, Polled
<1>6. PICK pc \in WorkerPcs :
        Move(w, pc) /\ pc \in {"pop", "idle", "tail", "tailArm", "fullArm", "unregister"}
  BY DEF TakeTask, Arm, Closing, CloseArm, UnregisterIfFlushed, WorkerPcs
<1>7. /\ worker' \in [Workers -> WorkerStates] /\ worker'[w].pc = pc
      /\ \A v \in Workers : v # w => worker'[v] = worker[v]
  BY <1>1, <1>6, Moved
<1>8. CASE TakeTask(w)
  <2>1. tasks = 1 /\ tasks' = 0 /\ conn.drain /\ \A v \in Workers : ~InLoop(v)
    BY <1>1, <1>8 DEF TakeTask, ConnInv, DrainOK
  <2>2. TypesOK'
    BY <1>1, <1>2, <1>3, <1>4, <1>5, <1>7, <2>1, TypesParts, TypesPartsNext
  <2>3. DrainOK' /\ ~Abandoned
    BY <1>3, <1>7, <2>1 DEF DrainOK, InLoop, Abandoned
  <2>4. worker[w].pc = "idle"
    BY <1>8 DEF TakeTask, WorkerAt
  <2> QED  BY <1>2, <1>3, <1>4, <1>5, <1>6, <1>7, <2>2, <2>3, <2>4, QuietWorker
<1>9. CASE Arm(w)
  <2>1. tasks' = tasks /\ worker[w].pc = "arm" /\ worker'[w].pc = "pop"
    <3>1. "pop" \in WorkerPcs /\ Move(w, "pop")
      BY <1>9 DEF Arm, WorkerPcs
    <3> QED  BY <1>1, <1>9, <3>1, Moved DEF Arm, WorkerAt
  <2>2. TypesOK'
    BY <1>1, <1>2, <1>3, <1>4, <1>5, <1>7, <2>1, TypesParts, TypesPartsNext
  <2>3. \A v \in Workers : InLoop(v)' <=> InLoop(v)
    BY <1>7, <2>1 DEF InLoop
  <2>4. DrainOK' /\ (Abandoned => Abandoned')
    BY <1>3, <2>1, <2>3 DEF ConnInv, DrainOK, Abandoned
  <2> QED  BY <1>2, <1>3, <1>4, <1>5, <1>7, <2>1, <2>2, <2>4, QuietWorker
<1>10. CASE Closing(w) \/ CloseArm(w) \/ UnregisterIfFlushed(w)
  <2>1. tasks' = tasks /\ worker[w].pc \in {"tail", "fullClose", "tailArm", "fullArm", "unregister"}
    BY <1>10 DEF Closing, CloseArm, UnregisterIfFlushed, WorkerAt
  <2>2. worker'[w].pc \in {"idle", "tail", "tailArm", "fullArm", "unregister"}
    <3>1. PICK q \in WorkerPcs :
            Move(w, q) /\ q \in {"idle", "tail", "tailArm", "fullArm", "unregister"}
      BY <1>10 DEF Closing, CloseArm, UnregisterIfFlushed, WorkerPcs
    <3> QED  BY <1>1, <3>1, Moved
  <2>3. TypesOK'
    BY <1>1, <1>2, <1>3, <1>4, <1>5, <1>7, <2>1, TypesParts, TypesPartsNext
  <2>4. \A v \in Workers : InLoop(v)' <=> InLoop(v)
    BY <1>7, <2>1, <2>2 DEF InLoop
  <2>5. DrainOK' /\ (Abandoned => Abandoned')
    BY <1>3, <2>1, <2>4 DEF ConnInv, DrainOK, Abandoned
  <2> QED  BY <1>2, <1>3, <1>4, <1>5, <1>7, <2>1, <2>2, <2>3, <2>5, QuietWorker
<1> QED  BY <1>8, <1>9, <1>10

\* DrainRequests finds the queue empty and gives drain_scheduled_ up.
LEMMA PopEmpty ==
  ASSUME ConnInv, NEW w \in Workers, Pop(w), conn.requests = << >>
  PROVE  ConnInv'
<1>1. conn \in Conns /\ TypesOK
  BY TypesParts DEF ConnInv
<1>2. /\ UNCHANGED <<peer, poll, reactor, tasks, faults>>
      /\ conn' = [conn EXCEPT !.drain = FALSE] /\ Move(w, "tail") /\ worker[w].pc = "pop"
  BY DEF Pop, WorkerAt
<1>3. /\ conn' \in Conns /\ conn'.requests = conn.requests /\ conn'.responses = conn.responses
      /\ conn'.drain = FALSE /\ conn'.paused = conn.paused
  BY <1>1, <1>2 DEF Conns
<1>4. /\ worker' \in [Workers -> WorkerStates] /\ worker'[w].pc = "tail"
      /\ \A v \in Workers : v # w => worker'[v] = worker[v]
  <2>1. "tail" \in WorkerPcs
    BY DEF WorkerPcs
  <2> QED  BY <1>1, <1>2, <2>1, Moved
<1>5. TypesOK'
  BY <1>1, <1>2, <1>3, <1>4, TypesParts, TypesPartsNext
<1>6. tasks = 0 /\ ~Abandoned /\ \A v \in Workers : v # w => ~InLoop(v)
  BY <1>2, AloneInLoop DEF InLoop
<1>7. DrainOK'
  BY <1>2, <1>3, <1>4, <1>6 DEF DrainOK, InLoop
<1> QED  BY <1>2, <1>3, <1>4, <1>5, <1>6, <1>7, QuietWorker

\* DrainRequests takes the next request.
LEMMA PopRequest ==
  ASSUME ConnInv, NEW w \in Workers, Pop(w), conn.requests # << >>
  PROVE  ConnInv'
<1> DEFINE q == conn.requests
           resume == conn.paused /\ Len(Tail(q)) <= LowWatermark
           pc == IF resume THEN "resume" ELSE "process"
<1>1. /\ conn \in Conns /\ TypesOK /\ worker \in [Workers -> WorkerStates] /\ q \in Seq(1..MaxRequests)
      /\ Len(q) <= MaxPending /\ MaxPending \in Nat /\ MaxRequests \in Nat
  <2>1. conn \in Conns /\ TypesOK /\ worker \in [Workers -> WorkerStates] /\ Len(q) <= MaxPending
    BY TypesParts DEF ConnInv
  <2> QED  BY <2>1, TypedOK DEF Typed
<1>2. /\ UNCHANGED <<peer, poll, reactor, tasks, faults>> /\ worker[w].pc = "pop"
      /\ conn' = [conn EXCEPT !.requests = Tail(q), !.paused = @ /\ ~resume]
      /\ worker' = [worker EXCEPT ![w] = [pc |-> pc, request |-> Head(q)]]
  BY DEF Pop, WorkerAt
<1>3. /\ Head(q) \in 1..MaxRequests /\ Tail(q) \in Seq(1..MaxRequests)
      /\ Len(Tail(q)) = Len(q) - 1 /\ Len(q) \in Nat /\ Len(q) >= 1
      /\ \A i \in 1..Len(Tail(q)) : Tail(q)[i] = q[i + 1]
  <2>1. q \in Seq(1..MaxRequests) /\ q # << >>
    BY <1>1
  <2> HIDE DEF q
  <2>2. Len(q) \in Nat /\ Len(q) # 0
    BY <2>1, EmptySeq
  <2>3. Len(q) >= 1
    BY <2>2
  <2> QED  BY <2>1, <2>2, <2>3, HeadTailProperties
<1>4. Head(q) = q[1]
  BY <1>1
<1> HIDE DEF resume
<1>5. /\ conn' \in Conns /\ conn'.requests = Tail(q) /\ conn'.responses = conn.responses
      /\ conn'.drain = conn.drain /\ (conn'.paused <=> conn.paused /\ ~resume)
  <2>1. \A s \in Seq(1..MaxRequests), f \in BOOLEAN :
          LET x == [conn EXCEPT !.requests = s, !.paused = f]
          IN  /\ x \in Conns /\ x.requests = s /\ x.responses = conn.responses
              /\ x.drain = conn.drain /\ x.paused = f
    BY <1>1 DEF Conns
  <2>2. (conn.paused /\ ~resume) \in BOOLEAN
    OBVIOUS
  <2>3. conn' = [conn EXCEPT !.requests = Tail(q), !.paused = (conn.paused /\ ~resume)]
    BY <1>2
  <2> HIDE DEF q
  <2> QED  BY <1>3, <2>1, <2>2, <2>3
<1>6. /\ worker' \in [Workers -> WorkerStates] /\ worker'[w].pc = pc /\ worker'[w].request = Head(q)
      /\ \A v \in Workers : v # w => worker'[v] = worker[v]
  <2>1. pc \in WorkerPcs /\ Head(q) \in ReplyNumbers
    BY <1>1, <1>3 DEF WorkerPcs, ReplyNumbers
  <2> HIDE DEF pc, q
  <2>2. [pc |-> pc, request |-> Head(q)] \in WorkerStates
    BY <2>1 DEF WorkerStates
  <2> QED  BY <1>1, <1>2, <2>2
<1>7. /\ conn.drain /\ tasks = 0 /\ ~Abandoned
      /\ \A v \in Workers : v # w => ~InLoop(v) /\ ~Serving(v)
  BY <1>2, AloneInLoop DEF InLoop
<1>8. TypesOK'
  <2>1. Len(conn'.requests) <= MaxPending
    BY <1>1, <1>3, <1>5
  <2> QED  BY <1>1, <1>2, <1>5, <1>6, <2>1, TypesParts, TypesPartsNext
<1>9. \A v \in Workers : v # w => ~InLoop(v)' /\ ~Serving(v)'
  BY <1>6, <1>7 DEF InLoop, Serving
<1>10. DrainOK'
  BY <1>2, <1>5, <1>7, <1>9 DEF DrainOK
<1>11. resume => conn.paused
  BY DEF resume
<1>12. PauseOK'
  <2>1. \A v \in Workers : worker'[v].pc = "resume" => v = w /\ resume
    BY <1>6, <1>9 DEF InLoop
  <2> QED  BY <1>2, <1>5, <1>11, <2>1 DEF ConnInv, PauseOK
<1>13. DroppedOK'
  <2>1. "dropped" \in faults => ~resume
    BY <1>11 DEF ConnInv, DroppedOK
  <2>2. \A v \in Workers : worker'[v].pc = "resume" => v = w /\ resume
    BY <1>6, <1>9 DEF InLoop
  <2> QED  BY <1>2, <1>5, <2>1, <2>2 DEF ConnInv, DroppedOK
<1>14. Serving1 = 0 /\ Serving1' = 1
  <2>1. ~Serving(w) /\ Serving(w)'
    BY <1>2, <1>6 DEF Serving
  <2> QED  BY <1>7, <2>1 DEF Serving1
<1>15. Replies' = Replies /\ Given' = Given
  BY <1>2, <1>5 DEF Replies, Given, Count
<1>16. OrderOK'
  <2>1. \A i \in 1..Len(Replies) : Replies'[i] # TooLarge => Replies'[i] = Count(Replies', i)
    BY <1>15 DEF ConnInv, OrderOK
  <2> DEFINE n == Given
             l == Len(q)
             h == Len(peer.inbox)
  <2>2. n \in Nat /\ l \in Nat /\ h \in Nat /\ l >= 1
    BY <1>1, <1>3, AnswersType, TypedOK DEF Typed
  <2>3. /\ \A i \in 1..l : q[i] = n + 0 + i
        /\ "dropped" \notin faults =>
             /\ \A i \in 1..h : peer.inbox[i] = n + 0 + l + i
             /\ peer.sent = n + 0 + l + h
    BY <1>7, <1>14 DEF ConnInv, OrderOK
  <2> HIDE DEF n, l, h
  <2>4. Head(q) = n + 1
    <3>1. 1 \in 1..l
      BY <2>2
    <3> QED  BY <1>4, <2>2, <2>3, <3>1
  <2>5. Len(Tail(q)) = l - 1
    BY <1>3 DEF l
  <2>6. \A i \in 1..Len(Tail(q)) : Tail(q)[i] = n + 1 + i
    <3> TAKE i \in 1..Len(Tail(q))
    <3>1. i + 1 \in 1..l /\ n + 0 + (i + 1) = n + 1 + i
      BY <2>2, <2>5
    <3> QED  BY <1>3, <2>3, <3>1
  <2>7. ASSUME "dropped" \notin faults
        PROVE  /\ \A i \in 1..h : peer.inbox[i] = n + 1 + Len(Tail(q)) + i
               /\ peer.sent = n + 1 + Len(Tail(q)) + h
    <3>1. \A i \in 1..h : n + 0 + l + i = n + 1 + (l - 1) + i
      BY <2>2
    <3>2. n + 0 + l + h = n + 1 + (l - 1) + h
      BY <2>2
    <3> QED  BY <2>3, <2>5, <2>7, <3>1, <3>2
  <2>8. \A v \in Workers : Serving(v)' => worker'[v].request = n + 1
    BY <1>6, <1>9, <2>4
  <2> HIDE DEF q
  <2> QED  BY <1>2, <1>5, <1>14, <1>15, <2>1, <2>6, <2>7, <2>8 DEF OrderOK, n, h
<1> QED  BY <1>8, <1>10, <1>12, <1>13, <1>16 DEF ConnInv

\* DrainRequests turns reading on again: nothing was dropped meanwhile.
LEMMA ResumeStep ==
  ASSUME ConnInv, NEW w \in Workers, Resume(w)
  PROVE  ConnInv'
<1>1. poll \in Polls /\ TypesOK /\ poll.write \in BOOLEAN
  BY TypesParts DEF ConnInv, Polls
<1>2. /\ UNCHANGED <<peer, conn, reactor, tasks, faults>> /\ worker[w].pc = "resume"
      /\ Interest(TRUE, poll.write) /\ Move(w, "process")
  BY DEF Resume, WorkerAt
<1>3. poll' \in Polls /\ (~poll'.registered => ~poll'.read)
  BY <1>1, <1>2, Polled
<1>4. /\ worker' \in [Workers -> WorkerStates] /\ worker'[w].pc = "process"
      /\ worker'[w].request = worker[w].request
      /\ \A v \in Workers : v # w => worker'[v] = worker[v]
  <2>1. "process" \in WorkerPcs
    BY DEF WorkerPcs
  <2> QED  BY <1>1, <1>2, <2>1, Moved
<1>5. TypesOK'
  BY <1>1, <1>2, <1>3, <1>4, TypesParts, TypesPartsNext
<1>6. \A v \in Workers : (InLoop(v)' <=> InLoop(v)) /\ (Serving(v)' <=> Serving(v))
  BY <1>2, <1>4 DEF InLoop, Serving
<1>7. DrainOK' /\ (Abandoned => Abandoned')
  BY <1>2, <1>6 DEF ConnInv, DrainOK, Abandoned
<1>8. \A v \in Workers : v # w => ~InLoop(v) /\ ~Serving(v)
  BY <1>2, AloneInLoop DEF InLoop
<1>9. \A v \in Workers : worker'[v].pc # "resume"
  BY <1>4, <1>8 DEF InLoop
<1>10. ~conn.paused /\ "dropped" \notin faults
  BY <1>2 DEF ConnInv, PauseOK, DroppedOK
<1>11. PauseOK' /\ DroppedOK'
  BY <1>2, <1>9, <1>10 DEF PauseOK, DroppedOK
<1>12. OrderOK'
  <2>1. \A v \in Workers : Serving(v) => worker'[v].request = worker[v].request
    BY <1>4
  <2>2. Replies' = Replies
    BY <1>2 DEF Replies
  <2> QED  BY <1>2, <1>6, <1>7, <2>1, <2>2, SameOrder
<1> QED  BY <1>5, <1>7, <1>11, <1>12 DEF ConnInv

\* The answer to the request at hand is queued, or the drain ends for good.
LEMMA ProcessStep ==
  ASSUME ConnInv, NEW w \in Workers, Process(w)
  PROVE  ConnInv'
<1> DEFINE full == Len(conn.responses) >= MaxResponses
<1>1. /\ conn \in Conns /\ TypesOK /\ worker \in [Workers -> WorkerStates] /\ faults \subseteq Faults
      /\ conn.responses \in Seq(ReplyNumbers) /\ Len(conn.responses) <= MaxResponses
      /\ MaxResponses \in Nat /\ Len(conn.responses) \in Nat
  <2>1. /\ conn \in Conns /\ TypesOK /\ worker \in [Workers -> WorkerStates] /\ faults \subseteq Faults
        /\ Len(conn.responses) <= MaxResponses
    BY TypesParts DEF ConnInv
  <2> QED  BY <2>1, TypedOK DEF Typed
<1>2. /\ UNCHANGED <<peer, poll, reactor, tasks>> /\ worker[w].pc = "process"
      /\ Move(w, IF full THEN "fullClose" ELSE "arm")
      /\ faults' = faults \cup (IF full THEN {"full"} ELSE {})
      /\ conn' = [conn EXCEPT !.responses = IF full THEN @ ELSE Append(@, worker[w].request)]
  BY DEF Process, WorkerAt
<1>3. /\ worker' \in [Workers -> WorkerStates]
      /\ worker'[w].pc = IF full THEN "fullClose" ELSE "arm"
      /\ \A v \in Workers : v # w => worker'[v] = worker[v]
  <2>1. (IF full THEN "fullClose" ELSE "arm") \in WorkerPcs
    BY DEF WorkerPcs
  <2> HIDE DEF full
  <2> QED  BY <1>1, <1>2, <2>1, Moved
<1>4. /\ conn.drain /\ tasks = 0 /\ ~Abandoned
      /\ \A v \in Workers : v # w => ~InLoop(v) /\ ~Serving(v)
  BY <1>2, AloneInLoop DEF InLoop
<1>5. /\ faults \subseteq faults' /\ faults' \subseteq Faults
      /\ ("dropped" \in faults' => "dropped" \in faults)
      /\ ("dropped" \in faults => "dropped" \in faults')
  BY <1>1, <1>2 DEF Faults
<1>6. \A v \in Workers : v # w => ~InLoop(v)' /\ ~Serving(v)'
  BY <1>3, <1>4 DEF InLoop, Serving
<1>7. ~Serving(w)'
  BY <1>3 DEF Serving
<1>8. \A r \in Seq(ReplyNumbers) :
        LET x == [conn EXCEPT !.responses = r]
        IN  /\ x \in Conns /\ x.requests = conn.requests /\ x.responses = r
            /\ x.drain = conn.drain /\ x.paused = conn.paused
  BY <1>1 DEF Conns
<1>9. CASE full
  <2>1. conn' = [conn EXCEPT !.responses = conn.responses]
    BY <1>2, <1>9
  <2>2. /\ conn' \in Conns /\ conn'.requests = conn.requests /\ conn'.responses = conn.responses
        /\ conn'.drain = conn.drain /\ conn'.paused = conn.paused
    BY <1>1, <1>8, <2>1
  <2>3. TypesOK'
    BY <1>1, <1>2, <1>3, <1>5, <2>2, TypesParts, TypesPartsNext
  <2>4. ~InLoop(w)'
    BY <1>3, <1>9 DEF InLoop
  <2>5. DrainOK' /\ Abandoned'
    BY <1>2, <1>4, <1>6, <2>2, <2>4 DEF DrainOK, Abandoned
  <2>6. \A v \in Workers : worker'[v].pc # "resume"
    BY <1>6, <1>7 DEF Serving
  <2>7. PauseOK' /\ DroppedOK'
    BY <1>2, <1>5, <2>2, <2>6 DEF ConnInv, PauseOK, DroppedOK
  <2>8. Replies' = Replies
    BY <1>2, <2>2 DEF Replies
  <2>9. \A i \in 1..Len(Replies) : Replies'[i] # TooLarge => Replies'[i] = Count(Replies', i)
    BY <2>8 DEF ConnInv, OrderOK
  <2>10. OrderOK'
    BY <2>5, <2>8, <2>9 DEF OrderOK, Count
  <2> QED  BY <2>3, <2>5, <2>7, <2>10 DEF ConnInv
<1>10. CASE ~full
  <2> DEFINE e == worker[w].request
             r == Append(conn.responses, e)
  <2>1. e \in ReplyNumbers
    BY <1>1 DEF WorkerStates
  <2>2. r \in Seq(ReplyNumbers) /\ Len(r) = Len(conn.responses) + 1
    BY <1>1, <2>1, AppendProperties
  <2>3. conn' = [conn EXCEPT !.responses = r]
    BY <1>2, <1>10
  <2> HIDE DEF r
  <2>4. /\ conn' \in Conns /\ conn'.requests = conn.requests /\ conn'.responses = r
        /\ conn'.drain = conn.drain /\ conn'.paused = conn.paused
    BY <1>8, <2>2, <2>3
  <2>5. Len(conn'.responses) <= MaxResponses
    BY <1>1, <1>10, <2>2, <2>4
  <2>6. TypesOK'
    BY <1>1, <1>2, <1>3, <1>5, <2>4, <2>5, TypesParts, TypesPartsNext
  <2>7. DrainOK'
    BY <1>2, <1>4, <1>6, <2>4 DEF DrainOK
  <2>8. \A v \in Workers : worker'[v].pc # "resume"
    BY <1>6, <1>7 DEF Serving
  <2>9. PauseOK' /\ DroppedOK'
    BY <1>2, <1>5, <2>4, <2>8 DEF ConnInv, PauseOK, DroppedOK
  <2>10. Serving(w) /\ Serving1 = 1 /\ Serving1' = 0
    BY <1>2, <1>6, <1>7 DEF Serving1, Serving
  <2>11. e = Given + 1 /\ Given \in Nat /\ e # TooLarge
    <3>1. e = Given + 1
      BY <1>4, <2>10 DEF ConnInv, OrderOK
    <3>2. Given \in Nat
      BY <1>1, AnswersType
    <3>3. \A x \in Nat : x + 1 # TooLarge
      BY DEF TooLarge
    <3> QED  BY <3>1, <3>2, <3>3, Zenon
  <2>12. /\ Given' = Given + 1
         /\ \A i \in 1..Len(Replies') : Replies'[i] # TooLarge => Replies'[i] = Count(Replies', i)
    <3>1. peer'.received = peer.received /\ conn'.responses = Append(conn.responses, e)
      BY <1>2, <2>4 DEF r
    <3> HIDE DEF e
    <3> QED  BY <2>1, <2>11, <3>1, OneAnswer
  <2>13. OrderOK'
    <3> DEFINE n == Given
    <3>1. /\ \A i \in 1..Len(conn.requests) : conn.requests[i] = n + 1 + i
          /\ "dropped" \notin faults =>
               /\ \A i \in 1..Len(peer.inbox) : peer.inbox[i] = n + 1 + Len(conn.requests) + i
               /\ peer.sent = n + 1 + Len(conn.requests) + Len(peer.inbox)
      BY <1>4, <2>10 DEF ConnInv, OrderOK
    <3>2. n + 1 + 0 = n + 1
      <4>1. \A x \in Nat : x + 1 + 0 = x + 1
        OBVIOUS
      <4> QED  BY <2>11, <4>1, Zenon
    <3>3. \A v \in Workers : ~Serving(v)'
      BY <1>6, <1>7
    <3> HIDE DEF n
    <3>4. Given' = n + 1
      BY <2>12 DEF n
    <3> QED  BY <1>2, <1>5, <2>4, <2>10, <2>12, <3>1, <3>2, <3>3, <3>4 DEF OrderOK
  <2> QED  BY <2>6, <2>7, <2>9, <2>13 DEF ConnInv
<1> QED  BY <1>9, <1>10

-----------------------------------------------------------------------------
LEMMA ConnInvInit == ConnInit => ConnInv
<1> SUFFICES ASSUME ConnInit PROVE ConnInv
  OBVIOUS
<1>1. MaxRequests \in Nat /\ MaxPending \in Nat /\ MaxResponses \in Nat
  BY ConnectionAssumption
<1>2. TypesOK
  <2>1. /\ peer \in Peers /\ conn \in Conns /\ poll \in Polls /\ reactor \in Reactors
        /\ (~poll.registered => ~poll.read)
    BY <1>1 DEF ConnInit, Peers, Conns, Polls, Reactors, ReactorPcs, ReplyNumbers
  <2>2. Len(conn.requests) <= MaxPending /\ Len(conn.responses) <= MaxResponses
    BY <1>1 DEF ConnInit
  <2>3. [pc |-> "idle", request |-> TooLarge] \in WorkerStates
    BY <1>1 DEF WorkerStates, WorkerPcs, ReplyNumbers, TooLarge
  <2>4. tasks \in 0..1 /\ worker \in [Workers -> WorkerStates] /\ faults \subseteq Faults
    BY <2>3 DEF ConnInit
  <2> QED  BY <2>1, <2>2, <2>4, TypesParts
<1>3. \A w \in Workers : worker[w].pc = "idle"
  BY DEF ConnInit
<1>4. \A w \in Workers : ~InLoop(w) /\ ~Serving(w) /\ worker[w].pc # "resume"
  BY <1>3 DEF InLoop, Serving
<1>5. DrainOK /\ PauseOK /\ DroppedOK
  BY <1>4 DEF ConnInit, DrainOK, PauseOK, DroppedOK
<1>6. OrderOK
  <2>1. /\ peer.received = << >> /\ conn.responses = << >> /\ peer.inbox = << >>
        /\ conn.requests = << >> /\ peer.sent = 0
    BY DEF ConnInit
  <2>2. Replies = << >>
    BY <2>1 DEF Replies
  <2>3. Len(Replies) = 0 /\ Len(conn.requests) = 0 /\ Len(peer.inbox) = 0
    BY <2>1, <2>2
  <2>4. {j \in 1..0 : Replies[j] # TooLarge} = {}
    OBVIOUS
  <2>5. Given = 0
    BY <2>3, <2>4, FS_EmptySet DEF Given, Count
  <2>6. Serving1 = 0
    BY <1>4 DEF Serving1
  <2> QED  BY <1>4, <2>1, <2>3, <2>5, <2>6 DEF OrderOK
<1> QED  BY <1>2, <1>5, <1>6 DEF ConnInv

LEMMA ConnInvNext == ConnInv /\ [ConnNext]_connVars => ConnInv'
<1> SUFFICES ASSUME ConnInv, [ConnNext]_connVars PROVE ConnInv'
  OBVIOUS
<1>1. CASE ClientSends
  BY <1>1, SendsStep
<1>2. CASE ClientHalfCloses \/ ReapIdleConnections
  BY <1>2, QuietSteps
<1>3. CASE ReactorStep
  <2>1. ASSUME Receive PROVE ConnInv'
    BY <2>1, RecvStep, DropStep DEF Receive
  <2> QED  BY <1>3, <2>1, PollStep, OverflowStep, ScheduleStep, SendStep, QuietSteps DEF ReactorStep
<1>4. ASSUME NEW w \in Workers, WorkerStep(w)
      PROVE  ConnInv'
  BY <1>4, QuietWorkerSteps, PopEmpty, PopRequest, ResumeStep, ProcessStep DEF WorkerStep
<1>5. CASE UNCHANGED connVars
  <2>1. /\ UNCHANGED <<peer, conn, poll, reactor, tasks, worker, faults>>
    BY <1>5 DEF connVars
  <2>2. TypesOK' /\ Replies' = Replies
    BY <2>1, TypesParts, TypesPartsNext DEF ConnInv, Replies
  <2> QED  BY <2>1, <2>2, QuietReactor
<1> QED  BY <1>1, <1>2, <1>3, <1>4, <1>5 DEF ConnNext

\* The answers received so far are the first of the answers given so far.
LEMMA InOrder == ConnInv => AnswersInOrder
<1> SUFFICES ASSUME ConnInv PROVE AnswersInOrder
  OBVIOUS
<1> DEFINE a == peer.received
           b == conn.responses
           s == Replies
<1>1. a \in Seq(ReplyNumbers) /\ b \in Seq(ReplyNumbers) /\ Len(a) \in Nat /\ Len(b) \in Nat
  BY TypedOK DEF ConnInv, Typed
<1>2. Len(s) = Len(a) + Len(b) /\ \A i \in 1..Len(a) : s[i] = a[i]
  <2>1. Len(a \o b) = Len(a) + Len(b)
    BY <1>1, ConcatProperties
  <2>2. \A i \in 1..Len(a) + Len(b) : (a \o b)[i] = IF i <= Len(a) THEN a[i] ELSE b[i - Len(a)]
    BY <1>1, ConcatProperties
  <2>3. s = a \o b
    BY DEF Replies
  <2> HIDE DEF a, b, s
  <2> QED  BY <1>1, <2>1, <2>2, <2>3
<1>3. \A i \in 1..Len(s) : s[i] # TooLarge => s[i] = Count(s, i)
  BY DEF ConnInv, OrderOK
<1>4. \A i \in 1..Len(a) : a[i] # TooLarge => a[i] = Count(a, i)
  <2> HIDE DEF a, b, s
  <2> TAKE i \in 1..Len(a)
  <2>1. i \in 1..Len(s) /\ i \in Nat /\ \A j \in 1..i : a[j] = s[j]
    BY <1>1, <1>2
  <2>2. Count(a, i) = Count(s, i)
    BY <2>1, CountSame
  <2> QED  BY <1>2, <1>3, <2>1, <2>2
<1> QED  BY <1>4 DEF AnswersInOrder, Count

\* Whatever the workers, the limits and the interleaving of the reactor thread
\* with the drains, the k-th answer the client receives is that of its k-th
\* request: none twice, none left out, none in the wrong order (ScheduleDrain
\* and DrainRequests keep one worker in the loop; an overflow ends reading).
THEOREM AnsweredInOrder == ConnSpec => []AnswersInOrder
<1>1. ConnSpec => []ConnInv
  BY ConnInvInit, ConnInvNext, PTL DEF ConnSpec
<1> QED  BY <1>1, InOrder, PTL

-----------------------------------------------------------------------------
(* The client's end of a connection (module Client).  The argument has two   *)
(* parts: the framing finds the end of every answer exactly (FramingIsExact), *)
(* and at any time the buffer and the wire hold the answer to the command     *)
(* under way and no other line (ClientInv).                                  *)

\* A line of an answer, and a buffer that holds the first lines of one.
LineKinds == {"text", "bulk", "array", "results", "debug", "end", "error"}
WireLines == [of : Nat, kind : LineKinds, count : Nat]
Begins(b, r) ==
  /\ b \in Seq(WireLines) /\ r \in Seq(WireLines) /\ Len(b) <= Len(r)
  /\ \A i \in 1..Len(b) : b[i] = r[i]

\* The framing reports the answer complete when it is there, and not before.
Framed(b, r, frame) == CompleteResponseLength(b, frame) = IF Len(b) = Len(r) THEN Len(r) ELSE 0

\* The connection's mode after the answer r to the command c.
ModeAfter(c, r, debug) ==
  IF r = FormatError(c.n) \/ c.kind \notin {"debugOn", "debugOff"} THEN debug ELSE c.kind = "debugOn"

\* The frame of a command, as a function of the mode.
FrameOf(c, debug) == [end_terminated |-> c.kind = "info", debug_similarity |-> debug /\ c.kind = "sim"]

\* A round trip under way: the server has still to answer, or never will; or what it answered
\* is partly in the buffer and partly on the wire.
AwaitsAnswer ==
  /\ response_buffer = <<>> /\ wire = <<>> /\ serverDebug = debug_mode
  /\ inbox = command \/ (inbox = Nothing /\ ~serverOpen)
UnderWay(buffer, rest, r) ==
  /\ Begins(buffer, r) /\ rest \in Seq(WireLines) /\ Len(buffer) + Len(rest) = Len(r)
  /\ \A i \in 1..Len(rest) : rest[i] = r[Len(buffer) + i]
HasAnswer ==
  /\ inbox = Nothing /\ response \in Answers(command, debug_mode)
  /\ UnderWay(response_buffer, wire, response)
  /\ serverDebug = ModeAfter(command, response, debug_mode)

\* Between two round trips nothing is left of the last one.
RoundTripOver ==
  /\ response_buffer = <<>> /\ wire = <<>> /\ inbox = Nothing
  /\ sock => serverDebug = debug_mode
  /\ answer # <<>> => answer = response /\ answer[1].of = sent

\* The inductive invariant of the client.
ClientInv ==
  /\ sent \in Nat /\ debug_mode \in BOOLEAN /\ serverDebug \in BOOLEAN
  /\ ~sock => command = Nothing /\ ~debug_mode /\ ~serverOpen
  /\ \/ command = Nothing /\ RoundTripOver
     \/ /\ command \in [n : {sent}, kind : CommandKinds] /\ answer = <<>>
        /\ AwaitsAnswer \/ HasAnswer

\* A line by its fields.
LEMMA LineFields ==
  ASSUME NEW n \in Nat, NEW kind \in LineKinds, NEW count \in Nat, NEW l, l = Line(n, kind, count)
  PROVE  l \in WireLines /\ l.of = n /\ l.kind = kind /\ l.count = count
BY DEF Line, WireLines

\* The items of an answer.
LEMMA ItemLines ==
  ASSUME NEW n \in Nat, NEW k \in Nat, NEW s, s = Lines(n, "text", k)
  PROVE  s \in Seq(WireLines) /\ Len(s) = k /\ \A i \in 1..k : s[i].kind = "text"
<1> DEFINE l == Line(n, "text", 0)
<1>1. l \in WireLines /\ l.kind = "text"
  BY DEF Line, WireLines, LineKinds
<1>2. s = [i \in 1..k |-> l]
  BY DEF Lines
<1> HIDE DEF l
<1> QED
  BY <1>1, <1>2

\* A sequence of one line.
LEMMA OneLine ==
  ASSUME NEW l \in WireLines, NEW s, s = <<l>>
  PROVE  s \in Seq(WireLines) /\ Len(s) = 1 /\ s[1] = l
OBVIOUS

\* An answer of one line: an error, or the plain reply of most commands.
LEMMA FrameOneLine ==
  ASSUME NEW b, NEW r, Begins(b, r), Len(r) = 1, NEW frame,
         r[1].kind = "error" \/ (r[1].kind = "text" /\ ~frame.end_terminated)
  PROVE  Framed(b, r, frame)
<1>1. b \in Seq(WireLines) /\ Len(b) \in Nat /\ Len(b) <= 1 /\ \A i \in 1..Len(b) : b[i] = r[i]
  BY DEF Begins
<1>2. CASE Len(b) = 0
  <2>1. b = <<>>
    BY <1>1, <1>2
  <2> QED
    BY <2>1, <1>2 DEF Framed, CompleteResponseLength
<1>3. CASE Len(b) # 0
  <2>0. \A m \in Nat : m <= 1 /\ m # 0 => m = 1 /\ 1 \in 1..m
    OBVIOUS
  <2>1. Len(b) = 1 /\ 1 \in 1..Len(b)
    BY <2>0, <1>1, <1>3, Zenon
  <2>2. b # <<>> /\ b[1] = r[1]
    BY <2>1, <1>1
  <2>3. CompleteResponseLength(b, frame) = 1
    BY <2>2 DEF CompleteResponseLength, CompleteValueLength
  <2> QED
    BY <2>1, <2>3 DEF Framed
<1> QED
  BY <1>2, <1>3

\* A bulk string: a header and its payload.
LEMMA FrameBulk ==
  ASSUME NEW b, NEW r, Begins(b, r), Len(r) = 2, r[1].kind = "bulk", NEW frame, ~frame.end_terminated
  PROVE  Framed(b, r, frame)
<1>1. b \in Seq(WireLines) /\ Len(b) \in Nat /\ Len(b) <= 2 /\ \A i \in 1..Len(b) : b[i] = r[i]
  BY DEF Begins
<1>2. CASE Len(b) = 0
  <2>1. b = <<>>
    BY <1>1, <1>2
  <2> QED
    BY <2>1, <1>2 DEF Framed, CompleteResponseLength
<1>3. CASE Len(b) # 0
  <2>n. \A m \in Nat : m <= 2 /\ m # 0 => 1 \in 1..m /\ (m = 2 \/ ~(2 <= m)) /\ m # 0
    OBVIOUS
  <2>0. 1 \in 1..Len(b) /\ (Len(b) = 2 \/ ~(2 <= Len(b)))
    BY <2>n, <1>1, <1>3, Zenon
  <2>1. b # <<>> /\ b[1].kind = "bulk"
    BY <2>0, <1>1
  <2>2. CompleteResponseLength(b, frame) = Complete(b, 2)
    BY <2>1 DEF CompleteResponseLength, CompleteValueLength
  <2> QED
    <3>1. Len(r) = 2
      OBVIOUS
    <3>2. CASE Len(b) = 2
      BY <3>1, <3>2, <2>2 DEF Framed, Complete
    <3>3. CASE ~(2 <= Len(b))
      <4>1. \A m \in Nat : ~(2 <= m) => m # 2
        OBVIOUS
      <4>2. Len(b) # 2
        BY <4>1, <3>3, <1>1, Zenon
      <4> QED
        BY <4>2, <3>1, <3>3, <2>2, Zenon DEF Framed, Complete
    <3> QED
      BY <3>2, <3>3, <2>0
<1> QED
  BY <1>2, <1>3

\* An array of bulk strings.
LEMMA FrameArray ==
  ASSUME NEW b, NEW r, Begins(b, r), NEW k \in Nat, Len(r) = 1 + 2 * k, r[1].kind = "array",
         r[1].count = k, NEW frame, ~frame.end_terminated
  PROVE  Framed(b, r, frame)
<1>1. b \in Seq(WireLines) /\ Len(b) \in Nat /\ Len(b) <= 1 + 2 * k
  BY DEF Begins
<1>2. CASE Len(b) = 0
  <2>1. b = <<>>
    BY <1>1, <1>2
  <2> QED
    BY <2>1, <1>2 DEF Framed, CompleteResponseLength
<1>3. CASE Len(b) # 0
  <2>1. b # <<>> /\ b[1] = r[1]
    BY <1>1, <1>3 DEF Begins
  <2>2. CompleteResponseLength(b, frame) = Complete(b, 1 + 2 * k)
    BY <2>1 DEF CompleteResponseLength, CompleteValueLength
  <2> QED
    BY <2>2, <1>1 DEF Framed, Complete
<1> QED
  BY <1>2, <1>3

\* An answer that ends with END.
LEMMA FrameEnd ==
  ASSUME NEW b, NEW r, Begins(b, r), NEW m \in Nat, m >= 2, Len(r) = m, r[m].kind = "end",
         \A i \in 1..(m - 1) : r[i].kind = "text", NEW frame, frame.end_terminated
  PROVE  Framed(b, r, frame)
<1> DEFINE ends == {i \in 2..Len(b) : b[i].kind = "end"}
<1>1. b \in Seq(WireLines) /\ Len(b) \in Nat /\ Len(b) <= m /\ \A i \in 1..Len(b) : b[i] = r[i]
  BY DEF Begins
<1>2. CASE Len(b) = 0
  <2>1. b = <<>>
    BY <1>1, <1>2
  <2> QED
    BY <2>1, <1>2 DEF Framed, CompleteResponseLength
<1>3. CASE Len(b) # 0
  <2>1. b # <<>> /\ b[1].kind = "text"
    BY <1>1, <1>3
  <2>2. CompleteResponseLength(b, frame) = EndLength(b)
    BY <2>1 DEF CompleteResponseLength
  <2>3. CASE Len(b) < m
    <3>1. \A i \in 2..Len(b) : b[i].kind = "text"
      BY <2>3, <1>1
    <3>2. ends = {}
      BY <3>1
    <3> QED
      BY <3>2, <2>2, <2>3, <1>1 DEF Framed, EndLength
  <2>4. CASE Len(b) = m
    <3>1. \A i \in 2..Len(b) : b[i].kind = "end" <=> i = m
      BY <2>4, <1>1
    <3>2. ends = {m}
      BY <3>1, <2>4
    <3> HIDE DEF ends
    <3>3. (CHOOSE i \in ends : \A j \in ends : i <= j) = m /\ ends # {}
      BY <3>2
    <3> QED
      BY <3>3, <2>2, <2>4 DEF Framed, EndLength, ends
  <2> QED
    BY <2>3, <2>4, <1>1
<1> QED
  BY <1>2, <1>3

\* Results, and the debug block that follows them in DEBUG mode.
LEMMA FrameResults ==
  ASSUME NEW b, NEW r, Begins(b, r), NEW k \in Nat, r[1].kind = "results", r[1].count = k,
         NEW frame, ~frame.end_terminated,
         \/ ~frame.debug_similarity /\ Len(r) = 1 + k
         \/ /\ frame.debug_similarity /\ Len(r) = k + 2 + DebugFields
            /\ r[k + 2].kind = "debug" /\ r[k + 2].count = DebugFields
  PROVE  Framed(b, r, frame)
<1>1. b \in Seq(WireLines) /\ Len(b) \in Nat /\ Len(b) <= Len(r) /\ \A i \in 1..Len(b) : b[i] = r[i]
  BY DEF Begins
<1>l. Len(r) \in Nat
  BY DEF Begins
<1>2. CASE Len(b) = 0
  <2>1. b = <<>>
    BY <1>1, <1>2
  <2>2. Len(r) # 0
    BY DEF DebugFields
  <2> QED
    BY <2>1, <2>2, <1>2 DEF Framed, CompleteResponseLength
<1>3. CASE Len(b) # 0
  <2>1. b # <<>> /\ b[1].kind = "results" /\ b[1].count = k
    BY <1>1, <1>3, SMTT(30)
  <2>2. CompleteResponseLength(b, frame) = ResultsLength(b, frame.debug_similarity)
    BY <2>1 DEF CompleteResponseLength
  <2>3. CASE ~frame.debug_similarity /\ Len(r) = 1 + k
    <3>1. ResultsLength(b, frame.debug_similarity) = Complete(b, k + 1)
      <4>1. (k + 2) - 1 = k + 1
        OBVIOUS
      <4> QED
        BY <4>1, <2>1, <2>3 DEF ResultsLength
    <3> QED
      BY <3>1, <2>2, <2>3, <1>1 DEF Framed, Complete
  <2>4. CASE /\ frame.debug_similarity /\ Len(r) = k + 2 + DebugFields
             /\ r[k + 2].kind = "debug" /\ r[k + 2].count = DebugFields
    <3>1. CASE Len(b) < k + 2
      <4>1. ResultsLength(b, frame.debug_similarity) = 0
        BY <3>1, <2>1, <2>4 DEF ResultsLength
      <4> QED
        BY <4>1, <3>1, <2>2, <2>4, <1>1 DEF Framed, DebugFields
    <3>2. CASE ~(Len(b) < k + 2)
      <4>1. b[k + 2].kind = "debug" /\ b[k + 2].count = DebugFields
        BY <3>2, <2>4, <1>1
      <4>2. ResultsLength(b, frame.debug_similarity) = Complete(b, k + 2 + DebugFields)
        BY <4>1, <3>2, <2>1, <2>4 DEF ResultsLength
      <4> QED
        BY <4>2, <2>2, <2>4, <1>1 DEF Framed, Complete, DebugFields
    <3> QED
      BY <3>1, <3>2
  <2> QED
    BY <2>3, <2>4
<1> QED
  BY <1>2, <1>3

\* Two parts of an answer, one after the other.
LEMMA TwoParts ==
  ASSUME NEW s \in Seq(WireLines), NEW t \in Seq(WireLines), NEW r, r = s \o t
  PROVE  /\ r \in Seq(WireLines) /\ Len(r) = Len(s) + Len(t)
         /\ \A i \in 1..(Len(s) + Len(t)) : r[i] = IF i <= Len(s) THEN s[i] ELSE t[i - Len(s)]
<1>1. r \in Seq(WireLines) /\ Len(r) = Len(s) + Len(t)
  BY ConcatProperties, Zenon
<1>2. \A i \in 1..(Len(s) + Len(t)) : r[i] = IF i <= Len(s) THEN s[i] ELSE t[i - Len(s)]
  BY ConcatProperties, Zenon
<1> QED
  BY <1>1, <1>2, Zenon

\* The answers of the server, by the lines the framing looks at.
LEMMA ErrorAnswer ==
  ASSUME NEW n \in Nat, NEW r, r = FormatError(n)
  PROVE  r \in Seq(WireLines) /\ Len(r) = 1 /\ r[1].kind = "error" /\ r[1].of = n
<1> DEFINE l == Line(n, "error", 0)
<1>1. l \in WireLines /\ l.kind = "error" /\ l.of = n
  BY DEF Line, WireLines, LineKinds
<1>2. r = <<l>>
  BY DEF FormatError
<1> HIDE DEF l
<1> QED
  BY <1>1, <1>2

LEMMA PlainAnswer ==
  ASSUME NEW n \in Nat, NEW r, r = <<Line(n, "text", 0)>>
  PROVE  r \in Seq(WireLines) /\ Len(r) = 1 /\ r[1].kind = "text" /\ r[1].of = n
<1> DEFINE l == Line(n, "text", 0)
<1>1. l \in WireLines /\ l.kind = "text" /\ l.of = n
  BY DEF Line, WireLines, LineKinds
<1>2. r = <<l>>
  OBVIOUS
<1> HIDE DEF l
<1> QED
  BY <1>1, <1>2

LEMMA BulkAnswer ==
  ASSUME NEW n \in Nat, NEW r, r = Bulk(n)
  PROVE  r \in Seq(WireLines) /\ Len(r) = 2 /\ r[1].kind = "bulk" /\ r[1].of = n
<1> DEFINE h == Line(n, "bulk", 0)
           l == Line(n, "text", 0)
<1>1. h \in WireLines /\ h.kind = "bulk" /\ h.of = n /\ l \in WireLines
  BY DEF Line, WireLines, LineKinds
<1>2. r = <<h, l>>
  BY DEF Bulk
<1> HIDE DEF h, l
<1> QED
  BY <1>1, <1>2

LEMMA ArrayAnswer ==
  ASSUME NEW n \in Nat, NEW k \in Nat, NEW r, r = HandleShowVariables(n, k)
  PROVE  r \in Seq(WireLines) /\ Len(r) = 1 + 2 * k /\ r[1] = Line(n, "array", k)
<1> DEFINE h == Line(n, "array", k)
           b == Bulk(n)
           items == [i \in 1..2 * k |-> b[IF i % 2 = 1 THEN 1 ELSE 2]]
<1>1. h \in WireLines /\ h.kind = "array" /\ h.count = k /\ h.of = n
  BY DEF Line, WireLines, LineKinds
<1>2. b \in Seq(WireLines) /\ Len(b) = 2
  BY BulkAnswer
<1>3. r = <<h>> \o items
  BY DEF HandleShowVariables
<1> HIDE DEF h, b
<1>4. \A i \in 1..2 * k : b[IF i % 2 = 1 THEN 1 ELSE 2] \in WireLines
  <2>1. 1 \in 1..2 /\ 2 \in 1..2 /\ DOMAIN b = 1..2
    BY <1>2
  <2>2. b[1] \in WireLines /\ b[2] \in WireLines
    BY <2>1, <1>2
  <2> QED
    BY <2>2
<1>5. items \in Seq(WireLines) /\ Len(items) = 2 * k
  BY <1>4
<1> HIDE DEF items
<1>6. <<h>> \in Seq(WireLines) /\ Len(<<h>>) = 1 /\ <<h>>[1] = h
  BY <1>1
<1> DEFINE s == <<h>>
<1>7. s \in Seq(WireLines) /\ Len(s) = 1 /\ s[1] = h /\ r = s \o items
  BY <1>3, <1>6
<1> HIDE DEF s
<1>8. /\ r \in Seq(WireLines) /\ Len(r) = 1 + 2 * k
      /\ \A i \in 1..(1 + 2 * k) : r[i] = IF i <= 1 THEN s[i] ELSE items[i - 1]
  <2>p. /\ r \in Seq(WireLines) /\ Len(r) = Len(s) + Len(items)
        /\ \A i \in 1..(Len(s) + Len(items)) : r[i] = IF i <= Len(s) THEN s[i] ELSE items[i - Len(s)]
    BY <1>5, <1>7, TwoParts, Zenon
  <2> QED
    BY <2>p, <1>5, <1>7, Zenon
<1>9. 1 \in 1..(1 + 2 * k) /\ 1 <= 1
  OBVIOUS
<1>10. r[1] = h
  BY <1>5, <1>7, <1>8, <1>9
<1> QED
  BY <1>8, <1>10, Zenon DEF h

LEMMA EndAnswer ==
  ASSUME NEW n \in Nat, NEW k \in Nat, NEW r, r = EndTerminated(n, k)
  PROVE  /\ r \in Seq(WireLines) /\ Len(r) = k + 2 /\ r[1] = Line(n, "text", 0)
         /\ r[k + 2] = Line(n, "end", 0) /\ \A i \in 1..(k + 1) : r[i].kind = "text"
<1> DEFINE h == Line(n, "text", 0)
           e == Line(n, "end", 0)
           items == Lines(n, "text", k)
           s == <<h>>
           t == <<e>>
<1>1. h \in WireLines /\ h.kind = "text" /\ h.of = n /\ e \in WireLines /\ e.kind = "end"
  BY DEF Line, WireLines, LineKinds
<1>2. items \in Seq(WireLines) /\ Len(items) = k /\ \A i \in 1..k : items[i].kind = "text"
  BY ItemLines
<1>3. r = (s \o items) \o t
  BY DEF EndTerminated
<1> HIDE DEF h, e, items
<1>4. s \in Seq(WireLines) /\ Len(s) = 1 /\ s[1] = h /\ t \in Seq(WireLines) /\ Len(t) = 1 /\ t[1] = e
  BY <1>1
<1> DEFINE u == s \o items
<1> HIDE DEF s, t
<1>5. /\ u \in Seq(WireLines) /\ Len(u) = 1 + k
      /\ \A i \in 1..(1 + k) : u[i] = IF i <= 1 THEN s[i] ELSE items[i - 1]
  <2>1. u = s \o items
    OBVIOUS
  <2> HIDE DEF u
  <2> QED
    <3>p. /\ u \in Seq(WireLines) /\ Len(u) = Len(s) + Len(items)
          /\ \A i \in 1..(Len(s) + Len(items)) : u[i] = IF i <= Len(s) THEN s[i] ELSE items[i - Len(s)]
      BY <2>1, <1>2, <1>4, TwoParts, ZenonT(40)
    <3> QED
      BY <3>p, <2>1, <1>2, <1>4, Zenon
<1>6. r = u \o t
  BY <1>3
<1> HIDE DEF u
<1>7. /\ r \in Seq(WireLines) /\ Len(r) = (1 + k) + 1
      /\ \A i \in 1..((1 + k) + 1) : r[i] = IF i <= 1 + k THEN u[i] ELSE t[i - (1 + k)]
  <2>1. 1 + k \in Nat
    OBVIOUS
  <2> QED
    <3>p. /\ r \in Seq(WireLines) /\ Len(r) = Len(u) + Len(t)
          /\ \A i \in 1..(Len(u) + Len(t)) : r[i] = IF i <= Len(u) THEN u[i] ELSE t[i - Len(u)]
      BY <1>4, <1>5, <1>6, TwoParts, ZenonT(40)
    <3> QED
      BY <3>p, <1>4, <1>5, <1>6, Zenon
<1>8. u[1] = h /\ \A i \in 1..(1 + k) : u[i].kind = "text"
  <2>1. u[1] = h
    BY <1>4, <1>5
  <2>2. ASSUME NEW i \in 1..(1 + k), i # 1 PROVE u[i].kind = "text"
    <3>1. i - 1 \in 1..k /\ ~(i <= 1)
      BY <2>2
    <3> QED
      BY <3>1, <1>2, <1>5
  <2> QED
    BY <2>1, <2>2, <1>1
<1>9. r[k + 2] = e
  <2>1. k + 2 \in 1..((1 + k) + 1) /\ ~(k + 2 <= 1 + k) /\ (k + 2) - (1 + k) = 1
    OBVIOUS
  <2> QED
    BY <2>1, <1>4, <1>7
<1>10. r[1] = h /\ \A i \in 1..(k + 1) : r[i].kind = "text"
  <2>1. \A i \in 1..(k + 1) : i \in 1..((1 + k) + 1) /\ i <= 1 + k /\ i \in 1..(1 + k)
    OBVIOUS
  <2>2. 1 \in 1..(k + 1)
    OBVIOUS
  <2> QED
    BY <2>1, <2>2, <1>7, <1>8
<1>11. (1 + k) + 1 = k + 2
  OBVIOUS
<1> QED
  BY <1>7, <1>9, <1>10, <1>11, Zenon DEF h, e

\* Results without and with the debug block.
ResultLines(n, k) == <<Line(n, "results", k)>> \o Lines(n, "text", k)

LEMMA ResultLinesFacts ==
  ASSUME NEW n \in Nat, NEW k \in Nat, NEW r, r = ResultLines(n, k)
  PROVE  r \in Seq(WireLines) /\ Len(r) = 1 + k /\ r[1] = Line(n, "results", k)
<1> DEFINE h == Line(n, "results", k)
           items == Lines(n, "text", k)
           s == <<h>>
<1>1. h \in WireLines
  BY DEF Line, WireLines, LineKinds
<1>2. items \in Seq(WireLines) /\ Len(items) = k
  BY ItemLines
<1>3. r = s \o items
  BY DEF ResultLines
<1> HIDE DEF h, items
<1>4. s \in Seq(WireLines) /\ Len(s) = 1 /\ s[1] = h
  BY <1>1
<1> HIDE DEF s
<1>5. /\ r \in Seq(WireLines) /\ Len(r) = Len(s) + Len(items)
      /\ \A i \in 1..(Len(s) + Len(items)) : r[i] = IF i <= Len(s) THEN s[i] ELSE items[i - Len(s)]
  BY <1>2, <1>3, <1>4, TwoParts, Zenon
<1>6. Len(r) = 1 + k /\ \A i \in 1..(1 + k) : r[i] = IF i <= 1 THEN s[i] ELSE items[i - 1]
  BY <1>2, <1>4, <1>5, Zenon
<1>7. 1 \in 1..(1 + k) /\ 1 <= 1
  OBVIOUS
<1>8. r[1] = h
  BY <1>4, <1>6, <1>7
<1> QED
  BY <1>5, <1>6, <1>8, Zenon DEF h

LEMMA PlainResults ==
  ASSUME NEW n \in Nat, NEW k \in Nat, NEW r, r = ResultLines(n, k) \o <<>>
  PROVE  r \in Seq(WireLines) /\ Len(r) = 1 + k /\ r[1] = Line(n, "results", k)
<1> DEFINE u == ResultLines(n, k)
<1>1. u \in Seq(WireLines) /\ Len(u) = 1 + k /\ u[1] = Line(n, "results", k)
  BY ResultLinesFacts
<1>2. r = u \o <<>>
  OBVIOUS
<1> HIDE DEF u
<1>3. r = u
  BY <1>1, <1>2, ConcatEmptySeq, Zenon
<1> QED
  BY <1>1, <1>3, Zenon

LEMMA DebugResults ==
  ASSUME NEW n \in Nat, NEW k \in Nat, NEW r, r = ResultLines(n, k) \o FormatSimDebugBlock(n)
  PROVE  /\ r \in Seq(WireLines) /\ Len(r) = k + 2 + DebugFields
         /\ r[1] = Line(n, "results", k) /\ r[k + 2] = Line(n, "debug", DebugFields)
<1> DEFINE u == ResultLines(n, k)
           block == FormatSimDebugBlock(n)
           d == Line(n, "debug", DebugFields)
           fields == Lines(n, "text", DebugFields)
           q == <<d>>
<1>0. DebugFields = 1 /\ DebugFields \in Nat
  BY DEF DebugFields
<1>1. u \in Seq(WireLines) /\ Len(u) = 1 + k /\ u[1] = Line(n, "results", k)
  BY ResultLinesFacts
<1>2. d \in WireLines
  BY <1>0 DEF Line, WireLines, LineKinds
<1>3. fields \in Seq(WireLines) /\ Len(fields) = 1
  BY <1>0, ItemLines
<1>4. block = q \o fields
  BY DEF FormatSimDebugBlock
<1>5. r = u \o block
  OBVIOUS
<1> HIDE DEF u, block, d, fields
<1>6. q \in Seq(WireLines) /\ Len(q) = 1 /\ q[1] = d
  BY <1>2
<1> HIDE DEF q
<1>7. block \in Seq(WireLines) /\ Len(block) = 2 /\ block[1] = d
  <2>1. /\ block \in Seq(WireLines) /\ Len(block) = Len(q) + Len(fields)
        /\ \A i \in 1..(Len(q) + Len(fields)) :
             block[i] = IF i <= Len(q) THEN q[i] ELSE fields[i - Len(q)]
    BY <1>3, <1>4, <1>6, TwoParts, Zenon
  <2>2. Len(block) = 1 + 1 /\ \A i \in 1..(1 + 1) : block[i] = IF i <= 1 THEN q[i] ELSE fields[i - 1]
    BY <2>1, <1>3, <1>6, Zenon
  <2>3. 1 + 1 = 2 /\ 1 \in 1..(1 + 1) /\ 1 <= 1
    OBVIOUS
  <2>4. block[1] = q[1]
    BY <2>2, <2>3, Zenon
  <2> QED
    BY <2>1, <2>2, <2>3, <2>4, <1>6, Zenon
<1>8. /\ r \in Seq(WireLines) /\ Len(r) = Len(u) + Len(block)
      /\ \A i \in 1..(Len(u) + Len(block)) : r[i] = IF i <= Len(u) THEN u[i] ELSE block[i - Len(u)]
  BY <1>1, <1>5, <1>7, TwoParts, Zenon
<1>9. /\ Len(r) = (1 + k) + 2
      /\ \A i \in 1..((1 + k) + 2) : r[i] = IF i <= 1 + k THEN u[i] ELSE block[i - (1 + k)]
  BY <1>1, <1>7, <1>8, Zenon
<1>10. 1 \in 1..((1 + k) + 2) /\ 1 <= 1 + k
  OBVIOUS
<1>11. k + 2 \in 1..((1 + k) + 2) /\ ~(k + 2 <= 1 + k) /\ (k + 2) - (1 + k) = 1
  OBVIOUS
<1>12. r[1] = u[1]
  BY <1>9, <1>10
<1>13. r[k + 2] = block[1]
  BY <1>9, <1>11
<1>14. Len(r) = k + 2 + DebugFields
  BY <1>0, <1>9
<1> QED
  BY <1>1, <1>7, <1>8, <1>12, <1>13, <1>14, Zenon DEF d

\* The commands whose framing the library knows.
Framable == [n : Nat, kind : FramedKinds]

\* The answers of the server by kind of command.
LEMMA AnswersByKind ==
  ASSUME NEW c \in Framable, NEW debug \in BOOLEAN, NEW r \in Answers(c, debug)
  PROVE  \/ r = FormatError(c.n)
         \/ c.kind = "sim" /\ \E k \in 0..MaxItems : r = FormatSimResponse(c.n, k, debug)
         \/ c.kind = "info" /\ \E k \in 0..MaxItems : r = EndTerminated(c.n, k)
         \/ c.kind = "get" /\ r = Bulk(c.n)
         \/ c.kind = "show" /\ \E k \in 0..MaxItems : r = HandleShowVariables(c.n, k)
         \/ c.kind \in {"one", "debugOn", "debugOff"} /\ r = <<Line(c.n, "text", 0)>>
<1>0. c.kind \in {"one", "sim", "info", "get", "show", "debugOn", "debugOff"}
  BY DEF Framable, FramedKinds
<1>1. CASE c.kind = "sim"
  BY <1>1 DEF Answers
<1>2. CASE c.kind = "info"
  BY <1>2 DEF Answers
<1>3. CASE c.kind = "get"
  BY <1>3 DEF Answers
<1>4. CASE c.kind = "show"
  BY <1>4 DEF Answers
<1>5. CASE c.kind \in {"one", "debugOn", "debugOff"}
  BY <1>5 DEF Answers
<1> QED
  BY <1>0, <1>1, <1>2, <1>3, <1>4, <1>5

\* Whatever the server answers, the framing finds its end exactly: the first lines of an
\* answer are never taken for all of it, and all of it is recognised.
LEMMA FramingIsExact ==
  ASSUME NEW c \in Framable, NEW debug \in BOOLEAN, NEW r \in Answers(c, debug)
  PROVE  /\ r \in Seq(WireLines) /\ Len(r) \in Nat \ {0} /\ r[1].of = c.n
         /\ r[1].kind = "error" <=> r = FormatError(c.n)
         /\ \A b : Begins(b, r) => Framed(b, r, FrameOf(c, debug))
<1> DEFINE f == FrameOf(c, debug)
<1>f. f.end_terminated = (c.kind = "info") /\ f.debug_similarity = (debug /\ c.kind = "sim")
  BY DEF FrameOf
<1>n. c.n \in Nat /\ \A k \in 0..MaxItems : k \in Nat
  BY ClientAssumption DEF Framable
<1> HIDE DEF f
<1>1. CASE r = FormatError(c.n)
  <2>1. r \in Seq(WireLines) /\ Len(r) = 1 /\ r[1].kind = "error" /\ r[1].of = c.n
    BY <1>1, <1>n, ErrorAnswer
  <2>2. \A b : Begins(b, r) => Framed(b, r, f)
    BY <2>1, FrameOneLine
  <2> QED
    BY <2>1, <2>2, <1>1 DEF f
<1>e. ASSUME r[1].kind # "error" PROVE r # FormatError(c.n)
  <2>1. ASSUME NEW q, q = FormatError(c.n) PROVE q[1].kind = "error"
    BY <2>1, <1>n, ErrorAnswer
  <2> QED
    BY <2>1, <1>e
<1>2. CASE c.kind \in {"one", "debugOn", "debugOff"} /\ r = <<Line(c.n, "text", 0)>>
  <2>1. r \in Seq(WireLines) /\ Len(r) = 1 /\ r[1].kind = "text" /\ r[1].of = c.n
    BY <1>2, <1>n, PlainAnswer
  <2>2. ~f.end_terminated
    BY <1>2, <1>f
  <2>3. \A b : Begins(b, r) => Framed(b, r, f)
    BY <2>1, <2>2, FrameOneLine
  <2> QED
    BY <2>1, <2>3, <1>e DEF f
<1>3. CASE c.kind = "get" /\ r = Bulk(c.n)
  <2>1. r \in Seq(WireLines) /\ Len(r) = 2 /\ r[1].kind = "bulk" /\ r[1].of = c.n
    BY <1>3, <1>n, BulkAnswer
  <2>2. ~f.end_terminated
    BY <1>3, <1>f
  <2>3. \A b : Begins(b, r) => Framed(b, r, f)
    BY <2>1, <2>2, FrameBulk
  <2> QED
    BY <2>1, <2>3, <1>e DEF f
<1>4. CASE c.kind = "show" /\ \E k \in 0..MaxItems : r = HandleShowVariables(c.n, k)
  <2>0. PICK k \in Nat : r = HandleShowVariables(c.n, k)
    BY <1>4, <1>n
  <2>1. /\ r \in Seq(WireLines) /\ Len(r) = 1 + 2 * k /\ r[1].kind = "array" /\ r[1].count = k
        /\ r[1].of = c.n
    <3>1. c.n \in Nat
      BY <1>n
    <3>2. r \in Seq(WireLines) /\ Len(r) = 1 + 2 * k /\ r[1] = Line(c.n, "array", k)
      BY <3>1, <2>0, ArrayAnswer, Zenon
    <3> QED
      BY <3>2 DEF Line
  <2>2. ~f.end_terminated
    BY <1>4, <1>f
  <2>3. \A b : Begins(b, r) => Framed(b, r, f)
    BY <2>1, <2>2, FrameArray
  <2>4. Len(r) \in Nat \ {0}
    BY <2>1
  <2> QED
    BY <2>1, <2>3, <2>4, <1>e DEF f
<1>5. CASE c.kind = "info" /\ \E k \in 0..MaxItems : r = EndTerminated(c.n, k)
  <2>0. PICK k \in Nat : r = EndTerminated(c.n, k)
    BY <1>5, <1>n
  <2>1. /\ r \in Seq(WireLines) /\ Len(r) = k + 2 /\ r[k + 2].kind = "end" /\ r[1].of = c.n
        /\ \A i \in 1..(k + 1) : r[i].kind = "text"
    <3>1. c.n \in Nat
      BY <1>n
    <3>2. /\ r \in Seq(WireLines) /\ Len(r) = k + 2 /\ r[1] = Line(c.n, "text", 0)
          /\ r[k + 2] = Line(c.n, "end", 0) /\ \A i \in 1..(k + 1) : r[i].kind = "text"
      BY <3>1, <2>0, EndAnswer, Zenon
    <3> QED
      BY <3>2 DEF Line
  <2>2. f.end_terminated
    BY <1>5, <1>f
  <2>m. k + 2 \in Nat /\ k + 2 >= 2 /\ (k + 2) - 1 = k + 1 /\ 1 \in 1..(k + 1)
    OBVIOUS
  <2>3. \A b : Begins(b, r) => Framed(b, r, f)
    <3> DEFINE m == k + 2
    <3>1. /\ m \in Nat /\ m >= 2 /\ Len(r) = m /\ r[m].kind = "end"
          /\ \A i \in 1..(m - 1) : r[i].kind = "text"
      BY <2>1, <2>m
    <3> HIDE DEF m
    <3> QED
      BY <3>1, <2>2, FrameEnd
  <2>4. r[1].kind # "error"
    BY <2>1, <2>m
  <2>5. Len(r) \in Nat \ {0}
    BY <2>1
  <2> QED
    BY <2>1, <2>3, <2>4, <2>5, <1>e DEF f
<1>6. CASE c.kind = "sim" /\ \E k \in 0..MaxItems : r = FormatSimResponse(c.n, k, debug)
  <2>0. PICK k \in Nat : r = FormatSimResponse(c.n, k, debug)
    BY <1>6, <1>n
  <2>1. c.n \in Nat
    BY <1>n
  <2>2. ~f.end_terminated /\ (f.debug_similarity <=> debug)
    BY <1>6, <1>f
  <2>3. CASE ~debug
    <3>1. r = ResultLines(c.n, k) \o <<>>
      BY <2>0, <2>3 DEF FormatSimResponse, ResultLines
    <3>2. r \in Seq(WireLines) /\ Len(r) = 1 + k /\ r[1] = Line(c.n, "results", k)
      BY <3>1, <2>1, PlainResults, Zenon
    <3>3. r[1].kind = "results" /\ r[1].count = k /\ r[1].of = c.n
      BY <3>2 DEF Line
    <3>4. \A b : Begins(b, r) => Framed(b, r, f)
      BY <3>2, <3>3, <2>2, <2>3, FrameResults
    <3>5. Len(r) \in Nat \ {0}
      BY <3>2
    <3> QED
      BY <3>2, <3>3, <3>4, <3>5, <1>e DEF f
  <2>4. CASE debug
    <3>1. r = ResultLines(c.n, k) \o FormatSimDebugBlock(c.n)
      BY <2>0, <2>4 DEF FormatSimResponse, ResultLines
    <3>2. /\ r \in Seq(WireLines) /\ Len(r) = k + 2 + DebugFields
          /\ r[1] = Line(c.n, "results", k) /\ r[k + 2] = Line(c.n, "debug", DebugFields)
      BY <3>1, <2>1, DebugResults, Zenon
    <3>3. /\ r[1].kind = "results" /\ r[1].count = k /\ r[1].of = c.n
          /\ r[k + 2].kind = "debug" /\ r[k + 2].count = DebugFields
      BY <3>2 DEF Line
    <3>4. \A b : Begins(b, r) => Framed(b, r, f)
      BY <3>2, <3>3, <2>2, <2>4, FrameResults
    <3>5. Len(r) \in Nat \ {0}
      BY <3>2 DEF DebugFields
    <3> QED
      BY <3>2, <3>3, <3>4, <3>5, <1>e DEF f
  <2> QED
    BY <2>3, <2>4
<1> QED
  BY <1>1, <1>2, <1>3, <1>4, <1>5, <1>6, AnswersByKind

\* The lines of a round trip after a partial receive.
LEMMA ReceiveMoves ==
  ASSUME NEW buffer, NEW rest, NEW r, UnderWay(buffer, rest, r), NEW k \in 1..Len(rest),
         NEW b2, b2 = buffer \o SubSeq(rest, 1, k), NEW w2, w2 = SubSeq(rest, k + 1, Len(rest))
  PROVE  UnderWay(b2, w2, r)
<1> DEFINE B == Len(buffer)
           W == Len(rest)
           part == SubSeq(rest, 1, k)
<1>1. /\ buffer \in Seq(WireLines) /\ r \in Seq(WireLines) /\ rest \in Seq(WireLines)
      /\ B \in Nat /\ W \in Nat /\ Len(r) = B + W /\ B <= Len(r)
  BY DEF UnderWay, Begins
<1>2. /\ \A i \in 1..B : buffer[i] = r[i]
      /\ \A i \in 1..W : rest[i] = r[B + i] /\ rest[i] \in WireLines
  BY <1>1 DEF UnderWay, Begins
<1>3. k \in Nat /\ k \in 1..W
  BY <1>1
<1>4. w2 = SubSeq(rest, k + 1, W)
  OBVIOUS
<1> HIDE DEF B, W
<1>5. part \in Seq(WireLines) /\ Len(part) = k /\ \A i \in 1..k : part[i] = rest[i]
  <2>1. \A i \in 1..k : rest[i] \in WireLines
    BY <1>2, <1>3, <1>1
  <2> QED
    BY <2>1, <1>3, SubSeqProperties
<1>6. w2 \in Seq(WireLines) /\ Len(w2) = W - k /\ \A i \in 1..(W - k) : w2[i] = rest[k + i]
  <2>1. \A i \in (k + 1)..W : rest[i] \in WireLines
    BY <1>2, <1>3, <1>1
  <2>2. k + 1 \in Int /\ W \in Int /\ W - (k + 1) + 1 = W - k
    BY <1>1, <1>3
  <2>3. /\ w2 \in Seq(WireLines) /\ Len(w2) = IF k + 1 <= W THEN W - (k + 1) + 1 ELSE 0
        /\ \A i \in 1..(W - (k + 1) + 1) : w2[i] = rest[(k + 1) + i - 1]
    <3> DEFINE lo == k + 1
    <3>1. lo \in Int /\ W \in Int /\ w2 = SubSeq(rest, lo, W) /\ \A i \in lo..W : rest[i] \in WireLines
      BY <2>1, <2>2, <1>4
    <3> HIDE DEF lo
    <3>2. /\ w2 \in Seq(WireLines) /\ Len(w2) = IF lo <= W THEN W - lo + 1 ELSE 0
          /\ \A i \in 1..(W - lo + 1) : w2[i] = rest[lo + i - 1]
      <4>1. /\ SubSeq(rest, lo, W) \in Seq(WireLines)
            /\ Len(SubSeq(rest, lo, W)) = IF lo <= W THEN W - lo + 1 ELSE 0
            /\ \A i \in 1..(W - lo + 1) : SubSeq(rest, lo, W)[i] = rest[lo + i - 1]
        BY <3>1, SubSeqProperties
      <4> QED
        BY <4>1, <3>1, Zenon
    <3> QED
      BY <3>2 DEF lo
  <2>4. \A i \in 1..(W - k) : (k + 1) + i - 1 = k + i
    BY <1>1, <1>3
  <2> QED
    BY <2>2, <2>3, <2>4, <1>1, <1>3
<1> HIDE DEF part
<1>7. b2 = buffer \o part
  BY DEF part
<1>8. /\ b2 \in Seq(WireLines) /\ Len(b2) = B + k
      /\ \A i \in 1..(B + k) : b2[i] = IF i <= B THEN buffer[i] ELSE part[i - B]
  <2>1. /\ b2 \in Seq(WireLines) /\ Len(b2) = Len(buffer) + Len(part)
        /\ \A i \in 1..(Len(buffer) + Len(part)) :
             b2[i] = IF i <= Len(buffer) THEN buffer[i] ELSE part[i - Len(buffer)]
    BY <1>1, <1>5, <1>7, TwoParts, ZenonT(40)
  <2> QED
    BY <2>1, <1>5, Zenon DEF B
<1>9. \A i \in 1..(B + k) : b2[i] = r[i]
  <2> TAKE i \in 1..(B + k)
  <2>1. CASE i <= B
    <3>1. i \in 1..B
      BY <2>1, <1>1, <1>3
    <3> QED
      BY <3>1, <2>1, <1>2, <1>8
  <2>2. CASE ~(i <= B)
    <3> DEFINE j == i - B
    <3>1. j \in 1..k /\ j \in 1..W /\ B + j = i
      BY <2>2, <1>1, <1>3
    <3>2. b2[i] = part[j]
      BY <2>2, <1>8
    <3> HIDE DEF j
    <3> QED
      BY <3>1, <3>2, <1>2, <1>5
  <2> QED
    BY <2>1, <2>2
<1>10. \A i \in 1..(W - k) : w2[i] = r[(B + k) + i]
  <2> TAKE i \in 1..(W - k)
  <2>1. k + i \in 1..W /\ B + (k + i) = (B + k) + i
    BY <1>1, <1>3
  <2> QED
    BY <2>1, <1>2, <1>6
<1>11. B + k <= Len(r) /\ (B + k) + (W - k) = Len(r)
  BY <1>1, <1>3
<1> QED
  BY <1>1, <1>6, <1>8, <1>9, <1>10, <1>11 DEF UnderWay, Begins

\* A buffer as long as the answer is the answer.
LEMMA UnderWayDone ==
  ASSUME NEW buffer, NEW rest, NEW r, UnderWay(buffer, rest, r), Len(buffer) = Len(r)
  PROVE  buffer = r /\ rest = <<>>
<1>1. /\ buffer \in Seq(WireLines) /\ r \in Seq(WireLines) /\ rest \in Seq(WireLines)
      /\ Len(buffer) \in Nat /\ Len(rest) \in Nat /\ Len(buffer) + Len(rest) = Len(r)
      /\ \A i \in 1..Len(buffer) : buffer[i] = r[i]
  BY DEF UnderWay, Begins
<1>2. Len(rest) = 0
  BY <1>1
<1>3. rest = <<>>
  BY <1>1, <1>2
<1>4. buffer = r
  BY <1>1, SeqEqual
<1> QED
  BY <1>3, <1>4

\* The absence of a command is no command.
LEMMA NothingIsNoCommand ==
  Nothing \notin [n : {sent}, kind : CommandKinds]
<1>1. Nothing.kind = "none" /\ "none" \notin CommandKinds
  BY ClientAssumption DEF Nothing, AllKinds, FramedKinds, MisframedKinds
<1> HIDE DEF Nothing
<1> QED
  BY <1>1

LEMMA BetweenRoundTrips ==
  ASSUME ClientInv, command = Nothing
  PROVE  RoundTripOver
BY NothingIsNoCommand DEF ClientInv

\* The invariant holds at start-up.
LEMMA ClientInvInit ==
  ASSUME ClientInit
  PROVE  ClientInv
BY DEF ClientInit, ClientInv, RoundTripOver

\* The facts of a round trip under way.
LEMMA AnsweredFacts ==
  ASSUME ClientInv, CommandKinds \subseteq FramedKinds, command # Nothing, HasAnswer
  PROVE  /\ command \in Framable /\ command.n = sent /\ sock /\ response \in Seq(WireLines)
         /\ Len(response) \in Nat \ {0} /\ response[1].of = sent
         /\ response[1].kind = "error" <=> response = FormatError(command.n)
         /\ Length = IF Len(response_buffer) = Len(response) THEN Len(response) ELSE 0
<1>1. /\ command \in [n : {sent}, kind : CommandKinds] /\ sent \in Nat /\ debug_mode \in BOOLEAN /\ sock
  BY DEF ClientInv
<1>2. command \in Framable /\ command.n = sent
  BY <1>1 DEF Framable
<1>3. response \in Answers(command, debug_mode) /\ UnderWay(response_buffer, wire, response)
  BY DEF HasAnswer
<1>4. /\ response \in Seq(WireLines) /\ Len(response) \in Nat \ {0} /\ response[1].of = command.n
      /\ response[1].kind = "error" <=> response = FormatError(command.n)
      /\ \A b : Begins(b, response) => Framed(b, response, FrameOf(command, debug_mode))
  BY <1>1, <1>2, <1>3, FramingIsExact
<1>5. Begins(response_buffer, response)
  BY <1>3 DEF UnderWay
<1>6. Framed(response_buffer, response, FrameOf(command, debug_mode))
  BY <1>4, <1>5
<1>7. FrameOf(command, debug_mode) = FrameForCommand(command)
  BY <1>2 DEF FrameOf, FrameForCommand, Framable, FramedKinds
<1>8. Length = IF Len(response_buffer) = Len(response) THEN Len(response) ELSE 0
  BY <1>6, <1>7 DEF Framed, Length
<1> QED
  BY <1>1, <1>2, <1>4, <1>8

\* An empty buffer holds no answer.
LEMMA NothingReceived ==
  ASSUME response_buffer = <<>>
  PROVE  Length = 0
BY DEF Length, CompleteResponseLength

\* Closing the descriptor settles whatever was under way.
LEMMA DisconnectSettles ==
  ASSUME ClientInv, DisconnectUnlocked, command' = Nothing,
         answer' = <<>> \/ (command = Nothing /\ answer' = answer)
  PROVE  ClientInv'
<1>1. sent' = sent /\ serverDebug' = serverDebug /\ debug_mode' = FALSE /\ ~sock' /\ ~serverOpen'
      /\ response' = response
  BY DEF DisconnectUnlocked
<1>2. RoundTripOver'
  <2>1. response_buffer' = <<>> /\ wire' = <<>> /\ inbox' = Nothing
    BY DEF DisconnectUnlocked
  <2>2. answer' # <<>> => answer' = response' /\ answer'[1].of = sent'
    <3>1. CASE answer' = <<>>
      BY <3>1
    <3>2. CASE command = Nothing /\ answer' = answer
      <4>1. RoundTripOver
        BY <3>2, BetweenRoundTrips
      <4> QED
        BY <4>1, <3>2, <1>1 DEF RoundTripOver
    <3> QED
      BY <3>1, <3>2
  <2> QED
    BY <2>1, <2>2, <1>1 DEF RoundTripOver
<1> QED
  BY <1>1, <1>2 DEF ClientInv

\* The invariant depends on the variables of the specification alone.
LEMMA ClientStutter ==
  ASSUME ClientInv, UNCHANGED <<sock, response_buffer, debug_mode, command, answer, sent, serverOpen,
                                serverDebug, inbox, wire, response>>
  PROVE  ClientInv'
BY DEF ClientInv, RoundTripOver, AwaitsAnswer, HasAnswer

\* Sending a command starts a round trip.
LEMMA SendStarts ==
  ASSUME ClientInv, NEW kind \in CommandKinds, SendCommand(kind)
  PROVE  ClientInv'
<1>1. sock /\ command = Nothing /\ sent \in Nat /\ RoundTripOver
  BY BetweenRoundTrips DEF SendCommand, ClientInv
<1>2. /\ sent' = sent + 1 /\ command' = [n |-> sent + 1, kind |-> kind] /\ answer' = <<>>
      /\ sock' = sock /\ response_buffer' = response_buffer /\ debug_mode' = debug_mode
      /\ serverOpen' = serverOpen /\ serverDebug' = serverDebug /\ wire' = wire
      /\ inbox' = IF serverOpen THEN command' ELSE Nothing
  BY DEF SendCommand
<1>3. command' \in [n : {sent'}, kind : CommandKinds]
  BY <1>2
<1>4. AwaitsAnswer'
  BY <1>1, <1>2 DEF AwaitsAnswer, RoundTripOver
<1>5. sent' \in Nat
  BY <1>1, <1>2
<1> QED
  BY <1>1, <1>2, <1>3, <1>4, <1>5 DEF ClientInv

\* The server answers.
LEMMA AnswerArrives ==
  ASSUME ClientInv, CommandKinds \subseteq FramedKinds, Answer
  PROVE  ClientInv'
<1>1. inbox # Nothing /\ serverOpen
  BY DEF Answer
<1>2. command # Nothing /\ AwaitsAnswer /\ inbox = command
  BY <1>1, BetweenRoundTrips DEF ClientInv, RoundTripOver, AwaitsAnswer, HasAnswer
<1>3. /\ command \in [n : {sent}, kind : CommandKinds] /\ answer = <<>> /\ sent \in Nat
      /\ debug_mode \in BOOLEAN /\ sock
  BY <1>2 DEF ClientInv
<1>4. PICK r \in Answers(command, debug_mode) :
        wire' = wire \o r /\ response' = r /\ serverDebug' = HandleDebug(command, r)
  BY <1>2 DEF Answer, AwaitsAnswer
<1>5. /\ inbox' = Nothing /\ sock' = sock /\ response_buffer' = response_buffer
      /\ debug_mode' = debug_mode
      /\ command' = command /\ answer' = answer /\ sent' = sent /\ serverOpen' = serverOpen
  BY DEF Answer
<1>6. command \in Framable
  BY <1>3 DEF Framable
<1>7. r \in Seq(WireLines) /\ Len(r) \in Nat
  BY <1>3, <1>6, FramingIsExact
<1>8. response_buffer' = <<>> /\ wire' = r
  <2>1. wire = <<>> /\ response_buffer = <<>>
    BY <1>2 DEF AwaitsAnswer
  <2>2. <<>> \o r = r
    BY <1>7, ConcatEmptySeq, Zenon
  <2> QED
    BY <2>1, <2>2, <1>4, <1>5
<1>9. UnderWay(<<>>, r, r)
  BY <1>7 DEF UnderWay, Begins
<1>10. serverDebug' = ModeAfter(command, r, debug_mode) /\ serverDebug' \in BOOLEAN
  BY <1>2, <1>3, <1>4 DEF HandleDebug, ModeAfter, AwaitsAnswer, FramedKinds
<1>11. HasAnswer'
  BY <1>4, <1>5, <1>8, <1>9, <1>10 DEF HasAnswer
<1> QED
  BY <1>2, <1>3, <1>5, <1>10, <1>11 DEF ClientInv

\* A partial receive.
LEMMA ReceiveProgresses ==
  ASSUME ClientInv, ReceiveRetryingEintr
  PROVE  ClientInv'
<1>1. command # Nothing
  BY DEF ReceiveRetryingEintr
<1>2. PICK k \in 1..Len(wire) : /\ response_buffer' = response_buffer \o SubSeq(wire, 1, k)
                               /\ wire' = SubSeq(wire, k + 1, Len(wire))
  BY DEF ReceiveRetryingEintr
<1>3. UNCHANGED <<sock, debug_mode, command, answer, sent, serverOpen, serverDebug, inbox, response>>
  BY DEF ReceiveRetryingEintr
<1>4. wire # <<>>
  BY <1>2
<1>5. HasAnswer
  BY <1>1, <1>4 DEF ClientInv, AwaitsAnswer
<1>6. UnderWay(response_buffer, wire, response)
  BY <1>5 DEF HasAnswer
<1>7. UnderWay(response_buffer', wire', response)
  BY <1>2, <1>6, ReceiveMoves
<1>8. HasAnswer'
  BY <1>3, <1>5, <1>7 DEF HasAnswer
<1> QED
  BY <1>1, <1>3, <1>8 DEF ClientInv

\* A round trip returns: all of its answer, and the mode that the server is in.
LEMMA ReturnSettles ==
  ASSUME ClientInv, CommandKinds \subseteq FramedKinds, Return
  PROVE  ClientInv'
<1>1. command # Nothing /\ Length > 0
  BY DEF Return
<1>2. HasAnswer
  <2>1. CASE AwaitsAnswer
    <3>1. Length = 0
      BY <2>1, NothingReceived DEF AwaitsAnswer
    <3> QED
      BY <3>1, <1>1
  <2> QED
    BY <2>1, <1>1 DEF ClientInv
<1>3. /\ command \in Framable /\ command.n = sent /\ sock /\ response \in Seq(WireLines)
      /\ Len(response) \in Nat \ {0} /\ response[1].of = sent
      /\ response[1].kind = "error" <=> response = FormatError(command.n)
      /\ Length = IF Len(response_buffer) = Len(response) THEN Len(response) ELSE 0
  BY <1>1, <1>2, AnsweredFacts
<1>4. Length = Len(response) /\ Len(response_buffer) = Len(response)
  BY <1>1, <1>3
<1>5. response_buffer = response /\ wire = <<>>
  BY <1>2, <1>4, UnderWayDone DEF HasAnswer
<1> DEFINE L == Len(response)
           reply == SubSeq(response, 1, L)
           rest == SubSeq(response, L + 1, L)
<1>6. reply = response /\ rest = <<>>
  <2>1. L \in Nat /\ \A i \in 1..L : response[i] \in WireLines
    BY <1>3
  <2>2. reply \in Seq(WireLines) /\ Len(reply) = L /\ \A i \in 1..L : reply[i] = response[i]
    <3> HIDE DEF L
    <3> QED
      BY <2>1, SubSeqProperties
  <2>3. reply = response
    <3> HIDE DEF reply
    <3> QED
      BY <2>2, <1>3, SeqEqual
  <2>4. rest = <<>>
    <3>1. L + 1 \in Int /\ L \in Int /\ L < L + 1
      BY <2>1
    <3> HIDE DEF L
    <3> QED
      BY <3>1, SubSeqEmpty
  <2> QED
    BY <2>3, <2>4
<1>7. /\ answer' = response /\ response_buffer' = <<>> /\ debug_mode' = DebugAfter(response)
      /\ command' = Nothing /\ sock' = sock /\ sent' = sent /\ serverOpen' = serverOpen
      /\ serverDebug' = serverDebug /\ inbox' = inbox /\ wire' = wire /\ response' = response
  <2> HIDE DEF L
  <2>1. Length = L /\ Len(response) = L
    BY <1>4 DEF L
  <2> QED
    BY <2>1, <1>5, <1>6 DEF Return
<1>8. debug_mode' = serverDebug /\ debug_mode' \in BOOLEAN
  <2>1. serverDebug = ModeAfter(command, response, debug_mode) /\ debug_mode \in BOOLEAN
    BY <1>2 DEF HasAnswer, ClientInv
  <2>2. DebugAfter(response) = ModeAfter(command, response, debug_mode)
    BY <1>3 DEF DebugAfter, ModeAfter
  <2> QED
    BY <2>1, <2>2, <1>7 DEF ModeAfter
<1>9. RoundTripOver'
  BY <1>2, <1>3, <1>5, <1>7, <1>8 DEF RoundTripOver, HasAnswer
<1> QED
  BY <1>3, <1>7, <1>8, <1>9 DEF ClientInv

\* The invariant is inductive.
LEMMA ClientInvNext ==
  ASSUME ClientInv, CommandKinds \subseteq FramedKinds, [ClientNext]_clientVars
  PROVE  ClientInv'
<1>1. CASE Connect
  <2>1. /\ ~sock /\ sock' /\ serverOpen' /\ ~serverDebug'
        /\ UNCHANGED <<response_buffer, debug_mode, command, answer, sent, inbox, wire, response>>
    BY <1>1 DEF Connect
  <2>2. command = Nothing /\ ~debug_mode /\ sent \in Nat /\ RoundTripOver
    BY <2>1, BetweenRoundTrips DEF ClientInv
  <2>3. serverDebug' = FALSE /\ debug_mode' = FALSE
    BY <1>1, <2>2 DEF Connect, ClientInv
  <2>4. RoundTripOver'
    BY <2>1, <2>2, <2>3 DEF RoundTripOver
  <2> QED
    BY <2>1, <2>2, <2>3, <2>4 DEF ClientInv
<1>2. CASE ConnectRefused \/ ServerReady
  BY <1>2, ClientStutter DEF ConnectRefused, ServerReady
<1>3. CASE Disconnect
  BY <1>3, DisconnectSettles DEF Disconnect
<1>4. CASE \E kind \in CommandKinds : SendCommand(kind)
  BY <1>4, SendStarts
<1>5. CASE SendFails
  BY <1>5, DisconnectSettles DEF SendFails
<1>6. CASE ReceiveRetryingEintr
  BY <1>6, ReceiveProgresses
<1>7. CASE Return
  BY <1>7, ReturnSettles
<1>8. CASE ReceiveFails
  <2>1. command # Nothing /\ DisconnectUnlocked /\ command' = Nothing /\ answer' = answer
    BY <1>8 DEF ReceiveFails
  <2>2. answer' = <<>>
    BY <2>1 DEF ClientInv
  <2> QED
    BY <2>1, <2>2, DisconnectSettles
<1>9. CASE Answer
  BY <1>9, AnswerArrives
<1>10. CASE ServerCloses
  <2>1. /\ serverOpen /\ ~serverOpen' /\ inbox' = Nothing
        /\ UNCHANGED <<sock, response_buffer, debug_mode, command, answer, sent, serverDebug, wire,
                       response>>
    BY <1>10 DEF ServerCloses
  <2>2. CASE command = Nothing
    <3>1. RoundTripOver'
      BY <2>1, <2>2, BetweenRoundTrips DEF RoundTripOver
    <3> QED
      BY <2>1, <2>2, <3>1 DEF ClientInv
  <2>3. CASE command # Nothing
    <3>1. AwaitsAnswer => AwaitsAnswer'
      BY <2>1 DEF AwaitsAnswer
    <3>2. HasAnswer => HasAnswer'
      BY <2>1 DEF HasAnswer
    <3> QED
      BY <2>1, <2>3, <3>1, <3>2 DEF ClientInv
  <2> QED
    BY <2>2, <2>3
<1>11. CASE UNCHANGED clientVars
  BY <1>11, ClientStutter DEF clientVars
<1> QED
  BY <1>1, <1>2, <1>3, <1>4, <1>5, <1>6, <1>7, <1>8, <1>9, <1>10, <1>11 DEF ClientNext

\* A round trip returns the whole answer to its own command and nothing else, however the
\* lines arrive, time out or are cut off by a close, and the client never waits for lines
\* that will not come (NvecdClient::SendCommand, CompleteResponseLength).  For any number
\* of commands, items and connections, of the kinds whose answers the client can delimit
\* (for the others, MisframedKinds, the runs on ClientDumpInfo, ClientVerify and
\* ClientEmpty show that it does not).
THEOREM ClientReturnsItsAnswer ==
  ASSUME CommandKinds \subseteq FramedKinds
  PROVE  ClientSpec => []AnswersTheCommand
<1>1. ClientInv => AnswersTheCommand
  <2> SUFFICES ASSUME ClientInv PROVE AnswersTheCommand
    OBVIOUS
  <2>1. answer # <<>> /\ command = Nothing => answer = response /\ answer[1].of = sent
    BY BetweenRoundTrips DEF RoundTripOver
  <2>2. ASSUME command # Nothing, serverOpen, inbox = Nothing, wire = <<>> PROVE Length > 0
    <3>1. HasAnswer
      BY <2>2 DEF ClientInv, AwaitsAnswer
    <3>2. /\ Len(response) \in Nat \ {0}
          /\ Length = IF Len(response_buffer) = Len(response) THEN Len(response) ELSE 0
      BY <2>2, <3>1, AnsweredFacts
    <3>3. Len(response_buffer) = Len(response)
      BY <2>2, <3>1 DEF HasAnswer, UnderWay, Begins
    <3> QED
      BY <3>2, <3>3
  <2> QED
    BY <2>1, <2>2 DEF AnswersTheCommand, ReturnsTheAnswer, WaitsForNoMore
<1>2. ClientInv /\ [ClientNext]_clientVars => ClientInv'
  BY ClientInvNext
<1>3. ClientInit => ClientInv
  BY ClientInvInit
<1> QED
  BY <1>1, <1>2, <1>3, PTL DEF ClientSpec
=============================================================================
