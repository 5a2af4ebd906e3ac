------------------------------- MODULE Server -------------------------------
(***************************************************************************)
(* The life of connections in the server process: the TCP and the Unix     *)
(* acceptor thread (ConnectionAcceptor::AcceptLoop), the reactor's         *)
(* connection table (IoReactor::Register, Unregister), the worker pool     *)
(* (ThreadPool) and the shutdown of all of them (NvecdServer::Stop).  What *)
(* happens inside one connection is module Connection: here a connection   *)
(* hands drains to the pool and ends at some time.                         *)
(***************************************************************************)
EXTENDS Naturals, FiniteSets, FiniteSetsExt

CONSTANTS
  Fds,            \* descriptor numbers
  Ips,            \* client addresses
  MaxConnections, \* max_connections of each acceptor
  MaxPerIp,       \* max_connections_per_ip
  PoolWorkers     \* threads of the pool

ASSUME ServerAssumption ==
  /\ IsFiniteSet(Fds) /\ IsFiniteSet(Ips) /\ IsFiniteSet(PoolWorkers)
  /\ "none" \notin Fds /\ "unix" \notin Ips
  /\ MaxConnections \in Nat /\ MaxPerIp \in Nat

VARIABLES
  acceptor,   \* each accept thread: where it is and the client it handles
  active,     \* active_fds_ of each acceptor, with the address of each client (fd_to_ip_)
  perIp,      \* per_ip_connections_ of each acceptor
  fds,        \* open descriptors of clients
  table,      \* connections_ of the reactor
  leaving,    \* erased from the table, close callback still to come
  connections,\* stats_.active_connections
  queue,      \* drains in the queue of the pool
  job,        \* the connection each worker drains; None when it waits
  pool,       \* "open", "shutdown" or, after the deadline, "detached"
  exited,     \* workers whose thread function has returned
  stop,       \* how far Stop has come
  doubleClosed \* history: a descriptor was closed that had a new owner

serverVars == <<acceptor, active, perIp, fds, table, leaving, connections, queue, job, pool, exited, stop, doubleClosed>>

\* The listeners: acceptor_ and unix_acceptor_.
Acceptors == {"tcp", "unix"}

\* Clients of the Unix socket have no address and no limit per address.
AddressesOf(a) == IF a = "unix" THEN {"unix"} ELSE Ips

None == "none"
Idle == [pc |-> "accept", fd |-> None, ip |-> None]

ServerInit ==
  /\ acceptor = [a \in Acceptors |-> Idle]
  /\ active = [a \in Acceptors |-> {}]
  /\ perIp = [a \in Acceptors |-> [i \in Ips |-> 0]]
  /\ fds = {} /\ table = {} /\ leaving = {}
  /\ connections = 0
  /\ queue = {}
  /\ job = [w \in PoolWorkers |-> None]
  /\ pool = "open"
  /\ exited = {}
  /\ stop = "running"
  /\ doubleClosed = FALSE

-----------------------------------------------------------------------------
(* ConnectionAcceptor. *)

\* Stop sets should_stop_ and shuts the listening socket, which ends accept.
Stopping == stop # "running"
ClientsOf(a) == {c.fd : c \in active[a]}

\* Bound: no client is accepted once a descriptor was closed under its owner.
Accept(a, fd, ip) ==
  /\ acceptor[a].pc = "accept" /\ ~Stopping /\ ~doubleClosed
  /\ fd \notin fds
  /\ fds' = fds \cup {fd}
  /\ acceptor' = [acceptor EXCEPT ![a] = [pc |-> "limit", fd |-> fd, ip |-> ip]]
  /\ UNCHANGED <<active, perIp, table, leaving, connections, queue, job, pool, exited, stop, doubleClosed>>

\* The checks, each under fds_mutex_, and the access list in between; the
\* numbers can only fall until this thread adds its client.
LimitReached(a) == Cardinality(active[a]) >= MaxConnections
IpLimitReached(a, ip) == MaxPerIp > 0 /\ ip \in Ips /\ perIp[a][ip] >= MaxPerIp

Reject(a) ==
  /\ acceptor[a].pc = "limit"
  /\ fds' = fds \ {acceptor[a].fd}
  /\ acceptor' = [acceptor EXCEPT ![a] = Idle]
  /\ UNCHANGED <<active, perIp, table, leaving, connections, queue, job, pool, exited, stop, doubleClosed>>

Track(a) ==
  LET fd == acceptor[a].fd
      ip == acceptor[a].ip
  IN  /\ acceptor[a].pc = "limit"
      /\ ~LimitReached(a) /\ ~IpLimitReached(a, ip)
      /\ active' = [active EXCEPT ![a] = @ \cup {[fd |-> fd, ip |-> ip]}]
      /\ perIp' = [perIp EXCEPT ![a] = [i \in Ips |-> IF i = ip THEN @[i] + 1 ELSE @[i]]]
      /\ acceptor' = [acceptor EXCEPT ![a].pc = "register"]
      /\ UNCHANGED <<fds, table, leaving, connections, queue, job, pool, exited, stop, doubleClosed>>

\* register_connection: the statistics count the connection before Register.
CountConnection(a) ==
  /\ acceptor[a].pc = "register"
  /\ connections' = connections + 1
  /\ acceptor' = [acceptor EXCEPT ![a].pc = "add"]
  /\ UNCHANGED <<active, perIp, fds, table, leaving, queue, job, pool, exited, stop, doubleClosed>>

\* running_ of the reactor, until IoReactor::Stop; the event loop runs as long.
LoopRuns == stop \in {"running", "acceptors"}

\* Under lifecycle_mutex_, which IoReactor::Stop holds from end to end.
Register(a) ==
  /\ acceptor[a].pc = "add" /\ LoopRuns /\ acceptor[a].fd \notin table
  /\ table' = table \cup {acceptor[a].fd}
  /\ acceptor' = [acceptor EXCEPT ![a] = Idle]
  /\ UNCHANGED <<active, perIp, fds, leaving, connections, queue, job, pool, exited, stop, doubleClosed>>

\* Registration fails (the reactor is stopped, fcntl, a number still in the
\* table, or the poller has no room): the connection object closes the
\* descriptor ...
RegisterFails(a) ==
  /\ acceptor[a].pc = "add"
  /\ connections' = connections - 1
  /\ fds' = fds \ {acceptor[a].fd}
  /\ acceptor' = [acceptor EXCEPT ![a].pc = "close"]
  /\ UNCHANGED <<active, perIp, table, leaving, queue, job, pool, exited, stop, doubleClosed>>

\* ... and the acceptor closes it again, whoever has the number by then.
CloseAgain(a) ==
  /\ acceptor[a].pc = "close"
  /\ doubleClosed' = (doubleClosed \/ acceptor[a].fd \in fds)
  /\ fds' = fds \ {acceptor[a].fd}
  /\ acceptor' = [acceptor EXCEPT ![a].pc = "remove"]
  /\ UNCHANGED <<active, perIp, table, leaving, connections, queue, job, pool, exited, stop>>

\* RemoveConnection, a no-op for a descriptor the acceptor does not know.
Removed(a, fd) == {c \in active[a] : c.fd # fd}
IpsWithout(a, fd) ==
  [i \in Ips |-> IF [fd |-> fd, ip |-> i] \in active[a] /\ perIp[a][i] > 0
                 THEN perIp[a][i] - 1 ELSE perIp[a][i]]

RemoveFailed(a) ==
  /\ acceptor[a].pc = "remove"
  /\ active' = [active EXCEPT ![a] = Removed(a, acceptor[a].fd)]
  /\ perIp' = [perIp EXCEPT ![a] = IpsWithout(a, acceptor[a].fd)]
  /\ acceptor' = [acceptor EXCEPT ![a] = Idle]
  /\ UNCHANGED <<fds, table, leaving, connections, queue, job, pool, exited, stop, doubleClosed>>

-----------------------------------------------------------------------------
(* Connections in the reactor. *)

\* ScheduleDrain: at most one drain of a connection is queued.
Submit(fd) ==
  /\ LoopRuns /\ fd \in table /\ fd \notin queue
  /\ queue' = queue \cup {fd}
  /\ UNCHANGED <<acceptor, active, perIp, fds, table, leaving, connections, job, pool, exited, stop, doubleClosed>>

\* Unregister: the entry is taken out under connections_mutex_ by whoever
\* comes first, the event loop, a worker at the end of a drain, or Stop.
Unregister(fd) ==
  /\ fd \in table
  /\ table' = table \ {fd}
  /\ leaving' = leaving \cup {fd}

LoopUnregisters(fd) ==
  /\ LoopRuns
  /\ Unregister(fd)
  /\ UNCHANGED <<acceptor, active, perIp, fds, connections, queue, job, pool, exited, stop, doubleClosed>>

WorkerUnregisters(w) ==
  /\ job[w] # None /\ stop # "stopped"
  /\ Unregister(job[w])
  /\ UNCHANGED <<acceptor, active, perIp, fds, connections, queue, job, pool, exited, stop, doubleClosed>>

\* Mutant: connections with a queued drain are left to the pool.
StopUnregistersIdle(fd) ==
  /\ stop = "reactor" /\ fd \notin queue
  /\ Unregister(fd)
  /\ UNCHANGED <<acceptor, active, perIp, fds, connections, queue, job, pool, exited, stop, doubleClosed>>

StopUnregisters(fd) ==
  /\ stop = "reactor"
  /\ Unregister(fd)
  /\ UNCHANGED <<acceptor, active, perIp, fds, connections, queue, job, pool, exited, stop, doubleClosed>>

\* Mutant: the descriptor is closed before the acceptors forget it.
CloseCallbackLate(fd) ==
  /\ fd \in leaving
  /\ leaving' = IF fd \in fds THEN leaving ELSE leaving \ {fd}
  /\ fds' = fds \ {fd}
  /\ active' = IF fd \in fds THEN active ELSE [a \in Acceptors |-> Removed(a, fd)]
  /\ perIp' = IF fd \in fds THEN perIp ELSE [a \in Acceptors |-> IpsWithout(a, fd)]
  /\ connections' = IF fd \in fds THEN connections ELSE connections - 1
  /\ UNCHANGED <<acceptor, table, queue, job, pool, exited, stop, doubleClosed>>

\* The close callback tells both acceptors and the statistics.  The two calls
\* of RemoveConnection and the fetch_sub are one step: Unregister holds the
\* connection until they are done, so its number is not reused between them,
\* and only the acceptor that tracks it has something to remove.
CloseCallback(fd) ==
  /\ fd \in leaving
  /\ leaving' = leaving \ {fd}
  /\ active' = [a \in Acceptors |-> Removed(a, fd)]
  /\ perIp' = [a \in Acceptors |-> IpsWithout(a, fd)]
  /\ connections' = connections - 1
  /\ UNCHANGED <<acceptor, fds, table, queue, job, pool, exited, stop, doubleClosed>>

\* The last reference to the connection object goes: ~ReactorConnection
\* closes the descriptor.
Referenced(fd) ==
  \/ fd \in table \cup leaving \cup queue
  \/ \E w \in PoolWorkers : job[w] = fd
  \/ \E a \in Acceptors : acceptor[a].fd = fd

Destroy(fd) ==
  /\ fd \in fds /\ ~Referenced(fd)
  /\ fds' = fds \ {fd}
  /\ UNCHANGED <<acceptor, active, perIp, table, leaving, connections, queue, job, pool, exited, stop, doubleClosed>>

-----------------------------------------------------------------------------
(* ThreadPool. *)

TakeJob(w, fd) ==
  /\ w \notin exited /\ job[w] = None /\ fd \in queue
  /\ queue' = queue \ {fd}
  /\ job' = [job EXCEPT ![w] = fd]
  /\ UNCHANGED <<acceptor, active, perIp, fds, table, leaving, connections, pool, exited, stop, doubleClosed>>

FinishJob(w) ==
  /\ job[w] # None
  /\ job' = [job EXCEPT ![w] = None]
  /\ UNCHANGED <<acceptor, active, perIp, fds, table, leaving, connections, queue, pool, exited, stop, doubleClosed>>

WorkerExits(w) ==
  /\ w \notin exited /\ job[w] = None
  /\ pool # "open" /\ queue = {}
  /\ exited' = exited \cup {w}
  /\ UNCHANGED <<acceptor, active, perIp, fds, table, leaving, connections, queue, job, pool, stop, doubleClosed>>

-----------------------------------------------------------------------------
(* NvecdServer::Stop. *)

StopPhase(from, to) == stop = from /\ stop' = to

\* Stop comes to the acceptors: should_stop_ is set and the listening sockets
\* are shut.  What it ends before that leaves them running and is over by now:
\* the schedulers, the child of a snapshot, HttpServer::Stop with its join of
\* unbounded length.
StopBegins ==
  /\ StopPhase("running", "acceptors")
  /\ UNCHANGED <<acceptor, active, perIp, fds, table, leaving, connections, queue, job, pool, exited, doubleClosed>>

\* Both acceptors are joined: their threads are out of the loop body.
AcceptorsJoined ==
  /\ StopPhase("acceptors", "reactor")
  /\ \A a \in Acceptors : acceptor[a].pc = "accept"
  /\ UNCHANGED <<acceptor, active, perIp, fds, table, leaving, connections, queue, job, pool, exited, doubleClosed>>

\* Mutant: a connection that is being drained is left to its worker.
ReactorStoppedBusy ==
  /\ StopPhase("reactor", "drain")
  /\ table \subseteq {job[w] : w \in PoolWorkers}
  /\ UNCHANGED <<acceptor, active, perIp, fds, table, leaving, connections, queue, job, pool, exited, doubleClosed>>

\* IoReactor::Stop has joined the event loop and unregistered what it found.
ReactorStopped ==
  /\ StopPhase("reactor", "drain")
  /\ table = {}
  /\ UNCHANGED <<acceptor, active, perIp, fds, table, leaving, connections, queue, job, pool, exited, doubleClosed>>

\* No active connection is left, or the deadline has passed; the pool then
\* takes no more tasks and drops those that wait.
ShutdownPool ==
  /\ StopPhase("drain", "pool")
  /\ pool' = "shutdown"
  /\ queue' = {}
  /\ UNCHANGED <<acceptor, active, perIp, fds, table, leaving, connections, job, exited, doubleClosed>>

\* Shutdown waits until the queue is empty and active_workers is 0 ...
PoolIdle ==
  /\ StopPhase("pool", "join")
  /\ queue = {} /\ \A w \in PoolWorkers : job[w] = None
  /\ UNCHANGED <<acceptor, active, perIp, fds, table, leaving, connections, queue, job, pool, exited, doubleClosed>>

\* ... or its deadline passes and the workers are detached.
PoolDeadline ==
  /\ StopPhase("pool", "free")
  /\ pool' = "detached"
  /\ queue' = {}
  /\ UNCHANGED <<acceptor, active, perIp, fds, table, leaving, connections, job, exited, doubleClosed>>

PoolJoined ==
  /\ StopPhase("join", "free")
  /\ exited = PoolWorkers
  /\ UNCHANGED <<acceptor, active, perIp, fds, table, leaving, connections, queue, job, pool, exited, doubleClosed>>

\* reactor_.reset(), unix_acceptor_.reset(), and the log is closed.
StopEnds ==
  /\ StopPhase("free", "stopped")
  /\ UNCHANGED <<acceptor, active, perIp, fds, table, leaving, connections, queue, job, pool, exited, doubleClosed>>

-----------------------------------------------------------------------------
AcceptorStep(a) ==
  \/ Reject(a) \/ Track(a) \/ CountConnection(a) \/ Register(a) \/ RegisterFails(a)
  \/ CloseAgain(a) \/ RemoveFailed(a)

StopStep ==
  \/ AcceptorsJoined \/ ReactorStopped \/ ShutdownPool \/ PoolIdle \/ PoolDeadline \/ PoolJoined \/ StopEnds
  \/ \E fd \in Fds : StopUnregisters(fd)

ServerNext ==
  \/ \E a \in Acceptors :
       \/ \E fd \in Fds, ip \in AddressesOf(a) : Accept(a, fd, ip)
       \/ AcceptorStep(a)
  \/ \E fd \in Fds : Submit(fd) \/ LoopUnregisters(fd) \/ CloseCallback(fd) \/ Destroy(fd)
  \/ \E w \in PoolWorkers :
       \/ \E fd \in Fds : TakeJob(w, fd)
       \/ WorkerUnregisters(w) \/ FinishJob(w) \/ WorkerExits(w)
  \/ StopBegins \/ StopStep

\* Threads inside a step of their own are scheduled.  Nothing is assumed of
\* clients, of how long a request takes (FinishJob) or of when Stop is called.
ServerFairness ==
  /\ \A a \in Acceptors : WF_serverVars(AcceptorStep(a))
  /\ WF_serverVars(StopStep)
  /\ \A w \in PoolWorkers : WF_serverVars(WorkerExits(w))

ServerSpec == ServerInit /\ [][ServerNext]_serverVars /\ ServerFairness

-----------------------------------------------------------------------------
Clients == [fd : Fds, ip : Ips \cup {"unix"}]

\* The shape of the state.
ServerTypeOK ==
  /\ acceptor \in [Acceptors -> [pc : {"accept", "limit", "register", "add", "close", "remove"},
                                 fd : Fds \cup {None}, ip : Ips \cup {"unix", None}]]
  /\ \A a \in Acceptors : active[a] \subseteq Clients /\ perIp[a] \in [Ips -> Nat]
  /\ table \cup leaving \cup fds \subseteq Fds /\ doubleClosed \in BOOLEAN
  /\ connections \in Nat
  /\ queue \subseteq Fds /\ job \in [PoolWorkers -> Fds \cup {None}]
  /\ pool \in {"open", "shutdown", "detached"} /\ exited \subseteq PoolWorkers
  /\ stop \in {"running", "acceptors", "reactor", "drain", "pool", "join", "free", "stopped"}

Entering(a) == IF acceptor[a].pc \in {"register", "add"} THEN {acceptor[a].fd} ELSE {}
Failed(a) == IF acceptor[a].pc \in {"close", "remove"} THEN {acceptor[a].fd} ELSE {}

\* The acceptors' books agree with the reactor's table at every moment: a
\* descriptor counts against one acceptor exactly while its connection is
\* being registered, registered or being closed, the counts per address are
\* the sizes of their sets, both limits hold, and the statistics count each
\* connection once and open.  Close callbacks come from three threads, and
\* descriptor numbers are reused; the one way out is the second close of
\* CloseAgain (AcceptLoop, RemoveConnection, IoReactor::Unregister).
Accounting ==
  \/ doubleClosed
  \/ /\ UNION {ClientsOf(a) \ Failed(a) : a \in Acceptors} = table \cup leaving \cup UNION {Entering(a) : a \in Acceptors}
     /\ table \cup leaving \subseteq fds
     /\ connections = Cardinality(table \cup leaving) + Cardinality({a \in Acceptors : acceptor[a].pc = "add"})
     /\ \A a \in Acceptors :
          /\ Cardinality(active[a]) <= MaxConnections
          /\ \A i \in Ips : /\ perIp[a][i] = Cardinality({c \in active[a] : c.ip = i})
                            /\ MaxPerIp > 0 => perIp[a][i] <= MaxPerIp

\* After the reactor has been stopped nothing enters its table again, and it
\* is destroyed only when no worker can call it, unless the deadline for the
\* workers has passed (NvecdServer::Stop, ThreadPool::Shutdown).
ReactorOutlivesUse ==
  /\ stop \in {"drain", "pool", "join", "free", "stopped"} => table = {}
  /\ stop = "stopped" /\ pool # "detached" => \A w \in PoolWorkers : job[w] = None

\* Once Stop has come to the acceptors it returns, however many clients are
\* connected over TCP or the Unix socket and even when a request of theirs
\* never ends (NvecdServer::Stop from the acceptors on; what comes before,
\* HttpServer::Stop among it, waits without a deadline).
StopTerminates == stop = "acceptors" ~> stop = "stopped"
=============================================================================
