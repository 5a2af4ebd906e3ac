---------------------------- MODULE ServerProofs ----------------------------
(***************************************************************************)
(* Theorems about Server, for every set of descriptors, addresses and      *)
(* workers and every limit: the three books of the connections agree, and  *)
(* the reactor is not destroyed under a worker that Stop has waited for.   *)
(***************************************************************************)
EXTENDS Server, FiniteSetTheorems, TLAPS

-----------------------------------------------------------------------------
(* The inductive invariant.                                                 *)

Addresses == Ips \cup {"unix"}

\* The connections the reactor answers for.
Live == table \cup leaving

\* The accept thread of a owns an open descriptor that is not in the table yet;
\* its registration failed; the statistics have its client already.
Holds(a) == acceptor[a].pc \in {"limit", "register", "add"}
Failing(a) == acceptor[a].pc \in {"close", "remove"}
Counted == {a \in Acceptors : acceptor[a].pc = "add"}

\* The clients of acceptor a from address i.
From(a, i) == {c \in active[a] : c.ip = i}

TypesOK ==
  /\ ServerTypeOK
  /\ active \in [Acceptors -> SUBSET Clients]
  /\ perIp \in [Acceptors -> [Ips -> Nat]]
  /\ \A a \in Acceptors : acceptor[a].pc # "accept" =>
                            acceptor[a].fd \in Fds /\ acceptor[a].ip \in Addresses

\* A descriptor is in one place: the table, the close callback, one acceptor.
PlacesOK ==
  /\ table \cap leaving = {}
  /\ \A a \in Acceptors : Holds(a) => acceptor[a].fd \notin Live
  /\ \A a, b \in Acceptors : Holds(a) /\ Holds(b) /\ a # b => acceptor[a].fd # acceptor[b].fd

\* As long as no descriptor was closed under its owner, all of them are open.
OpenOK ==
  ~doubleClosed => /\ Live \subseteq fds
                   /\ \A a \in Acceptors : Holds(a) => acceptor[a].fd \in fds

\* The books of an acceptor: one entry for each descriptor, and only of
\* connections the reactor has or the accept thread is busy with.
EntriesOK ==
  \A a \in Acceptors :
    /\ \A c, d \in active[a] : c.fd = d.fd => c = d
    /\ \A c \in active[a] :
         \/ c.fd \in Live
         \/ acceptor[a].pc \in {"register", "add", "close", "remove"} /\ c.fd = acceptor[a].fd
    /\ acceptor[a].pc = "limit" => \A c \in active[a] : c.fd # acceptor[a].fd
    /\ acceptor[a].pc \in {"register", "add"} => \E c \in active[a] : c.fd = acceptor[a].fd

\* Each connection of the reactor is in the books of an acceptor that is not
\* about to strike it out.
OwnersOK ==
  \A f \in Live : \E a \in Acceptors :
    /\ \E c \in active[a] : c.fd = f
    /\ ~(Failing(a) /\ acceptor[a].fd = f)

\* The statistics count each connection once, from register_connection on.
StatisticsOK == connections = Cardinality(Live) + Cardinality(Counted)

\* The limits hold, and the count of an address is that of its clients.
LimitsOK ==
  \A a \in Acceptors :
    /\ IsFiniteSet(active[a]) /\ Cardinality(active[a]) <= MaxConnections
    /\ \A i \in Ips : /\ perIp[a][i] = Cardinality(From(a, i))
                      /\ MaxPerIp > 0 => perIp[a][i] <= MaxPerIp

\* What each phase of Stop leaves behind.
StopOK ==
  /\ stop \notin {"running", "acceptors"} => \A a \in Acceptors : acceptor[a].pc = "accept"
  /\ stop \in {"drain", "pool", "join", "free", "stopped"} => table = {}
  /\ stop \in {"pool", "join", "free", "stopped"} => queue = {}
  /\ stop = "join" \/ (stop \in {"free", "stopped"} /\ pool # "detached") =>
       \A w \in PoolWorkers : job[w] = None

ServerInv ==
  /\ TypesOK /\ PlacesOK /\ OpenOK /\ EntriesOK /\ OwnersOK /\ StatisticsOK /\ LimitsOK /\ StopOK

-----------------------------------------------------------------------------
(* Facts the steps share.                                                   *)

\* A step that touches no connection keeps the books.
LEMMA SameBooks ==
  ASSUME ServerInv,
         UNCHANGED <<acceptor, active, perIp, fds, table, leaving, connections, doubleClosed>>
  PROVE  PlacesOK' /\ OpenOK' /\ EntriesOK' /\ OwnersOK' /\ StatisticsOK' /\ LimitsOK'
<1>1. PlacesOK'  BY DEF ServerInv, PlacesOK, Live, Holds
<1>2. OpenOK'  BY DEF ServerInv, OpenOK, Live, Holds
<1>3. EntriesOK'  BY DEF ServerInv, EntriesOK, Live
<1>4. OwnersOK'  BY DEF ServerInv, OwnersOK, Live, Failing
<1>5. StatisticsOK'  BY DEF ServerInv, StatisticsOK, Live, Counted
<1>6. LimitsOK'  BY DEF ServerInv, LimitsOK, From
<1> QED  BY <1>1, <1>2, <1>3, <1>4, <1>5, <1>6

\* There are finitely many connections to count.
LEMMA FiniteLive ==
  ASSUME TypesOK
  PROVE  /\ IsFiniteSet(Live) /\ Cardinality(Live) \in Nat
         /\ IsFiniteSet(Counted) /\ Cardinality(Counted) \in Nat
<1>1. IsFiniteSet(Acceptors)
  <2>1. IsFiniteSet({"tcp"})  BY FS_Singleton
  <2>2. Acceptors = {"tcp"} \cup {"unix"}  BY DEF Acceptors
  <2> QED  BY <2>1, <2>2, FS_AddElement
<1>2. Live \subseteq Fds  BY DEF TypesOK, ServerTypeOK, Live
<1>3. Counted \subseteq Acceptors  BY DEF Counted
<1> QED  BY <1>1, <1>2, <1>3, FS_Subset, FS_CardinalityType, ServerAssumption

\* The books of acceptor a once RemoveConnection has struck out fd.
FromAfter(a, fd, i) == {c \in Removed(a, fd) : c.ip = i}

StruckOK(a, fd) ==
  /\ Removed(a, fd) \subseteq Clients
  /\ IsFiniteSet(Removed(a, fd)) /\ Cardinality(Removed(a, fd)) <= MaxConnections
  /\ IpsWithout(a, fd) \in [Ips -> Nat]
  /\ \A i \in Ips : /\ IpsWithout(a, fd)[i] = Cardinality(FromAfter(a, fd, i))
                    /\ MaxPerIp > 0 => IpsWithout(a, fd)[i] <= MaxPerIp

\* RemoveConnection keeps the counts exact, known descriptor or not.
LEMMA StruckOut ==
  ASSUME ServerInv, NEW a \in Acceptors, NEW fd \in Fds
  PROVE  StruckOK(a, fd)
<1>0. active[a] \subseteq Clients /\ IsFiniteSet(active[a]) /\ Cardinality(active[a]) <= MaxConnections
  BY DEF ServerInv, TypesOK, LimitsOK
<1>1. Removed(a, fd) \in SUBSET active[a]
  BY DEF Removed
<1>2. IsFiniteSet(Removed(a, fd)) /\ Cardinality(Removed(a, fd)) <= MaxConnections
  <2>1. IsFiniteSet(Removed(a, fd)) /\ Cardinality(Removed(a, fd)) <= Cardinality(active[a])
    BY <1>0, <1>1, FS_Subset
  <2> QED  BY <1>0, <2>1, FS_CardinalityType, ServerAssumption
<1>3. ASSUME NEW i \in Ips
      PROVE  /\ IpsWithout(a, fd)[i] \in Nat
             /\ IpsWithout(a, fd)[i] = Cardinality(FromAfter(a, fd, i))
             /\ MaxPerIp > 0 => IpsWithout(a, fd)[i] <= MaxPerIp
  <2> DEFINE e == [fd |-> fd, ip |-> i]
  <2>1. IsFiniteSet(From(a, i)) /\ Cardinality(From(a, i)) \in Nat
    BY <1>0, FS_Subset, FS_CardinalityType DEF From
  <2>2. FromAfter(a, fd, i) = From(a, i) \ {e}
    BY <1>0 DEF Removed, From, FromAfter, Clients
  <2>3. e \in From(a, i) <=> e \in active[a]
    BY DEF From
  <2>4. Cardinality(From(a, i) \ {e}) = IF e \in active[a] THEN Cardinality(From(a, i)) - 1
                                                          ELSE Cardinality(From(a, i))
    BY <2>1, <2>3, FS_RemoveElement
  <2>5. e \in active[a] => Cardinality(From(a, i)) # 0
    BY <2>1, <2>3, FS_EmptySet
  <2>6. perIp[a][i] = Cardinality(From(a, i)) /\ (MaxPerIp > 0 => perIp[a][i] <= MaxPerIp)
    BY DEF ServerInv, LimitsOK
  <2>7. IpsWithout(a, fd)[i] = IF e \in active[a] /\ perIp[a][i] > 0 THEN perIp[a][i] - 1
                                                                   ELSE perIp[a][i]
    BY DEF IpsWithout
  <2>8. Cardinality(FromAfter(a, fd, i)) = Cardinality(From(a, i) \ {e})
    BY <2>2
  <2> DEFINE n == Cardinality(FromAfter(a, fd, i))
             m == Cardinality(From(a, i) \ {e})
  <2> HIDE DEF e, n, m
  <2> QED  BY <2>1, <2>4, <2>5, <2>6, <2>7, <2>8, ServerAssumption DEF n, m
<1>4. IpsWithout(a, fd) \in [Ips -> Nat]
  BY <1>3 DEF IpsWithout
<1> QED  BY <1>0, <1>1, <1>2, <1>3, <1>4 DEF StruckOK

-----------------------------------------------------------------------------
(* One lemma for each step that touches a connection.                       *)

LEMMA AcceptOK ==
  ASSUME ServerInv, NEW a \in Acceptors, NEW fd \in Fds, NEW ip \in AddressesOf(a), Accept(a, fd, ip)
  PROVE  ServerInv'
<1> USE DEF ServerInv, Accept, Stopping, AddressesOf
<1>1. TypesOK'
  BY DEF ServerTypeOK, TypesOK, Clients, Addresses
<1>2. PlacesOK'
  BY DEF PlacesOK, OpenOK, Live, Holds
<1>3. OpenOK'
  BY DEF OpenOK, Live, Holds
<1>4. EntriesOK'
  BY DEF OpenOK, EntriesOK, Live
<1>5. OwnersOK'
  BY DEF EntriesOK, OwnersOK, Live, Failing
<1>6. StatisticsOK'
  BY DEF TypesOK, ServerTypeOK, StatisticsOK, Live, Counted
<1>7. LimitsOK'
  BY DEF LimitsOK, From
<1>8. StopOK'
  BY DEF StopOK
<1> QED  BY <1>1, <1>2, <1>3, <1>4, <1>5, <1>6, <1>7, <1>8 DEF ServerInv

LEMMA RejectOK ==
  ASSUME ServerInv, NEW a \in Acceptors, Reject(a)
  PROVE  ServerInv'
<1> USE DEF ServerInv, Reject
<1>1. TypesOK'
  BY DEF ServerTypeOK, TypesOK, Idle
<1>2. PlacesOK'
  BY DEF PlacesOK, Live, Holds, Idle
<1>3. OpenOK'
  BY DEF TypesOK, ServerTypeOK, PlacesOK, OpenOK, Live, Holds, Idle
<1>4. EntriesOK'
  BY DEF EntriesOK, Live, Idle
<1>5. OwnersOK'
  BY DEF EntriesOK, OwnersOK, Live, Failing, Idle
<1>6. StatisticsOK'
  BY DEF StatisticsOK, Live, Counted, Idle
<1>7. LimitsOK'
  BY DEF LimitsOK, From
<1>8. StopOK'
  BY DEF StopOK
<1> QED  BY <1>1, <1>2, <1>3, <1>4, <1>5, <1>6, <1>7, <1>8 DEF ServerInv

LEMMA TrackOK ==
  ASSUME ServerInv, NEW a \in Acceptors, Track(a)
  PROVE  ServerInv'
<1> USE DEF ServerInv, Track, LimitReached, IpLimitReached
<1>1. TypesOK'
  BY DEF ServerTypeOK, TypesOK, Clients, Addresses
<1>2. PlacesOK'
  BY DEF PlacesOK, Live, Holds
<1>3. OpenOK'
  BY DEF OpenOK, Live, Holds
<1>4. EntriesOK'
  <2> DEFINE e == [fd |-> acceptor[a].fd, ip |-> acceptor[a].ip]
  <2>1. /\ acceptor[a].pc = "limit" /\ acceptor[a].fd \in Fds
        /\ acceptor'[a].fd = acceptor[a].fd /\ acceptor'[a].pc = "register"
    BY DEF TypesOK, ServerTypeOK
  <2>2. \A b \in Acceptors : b # a => acceptor'[b] = acceptor[b] /\ active'[b] = active[b]
    OBVIOUS
  <2>3. active'[a] = active[a] \cup {e} /\ e.fd = acceptor[a].fd
    BY DEF TypesOK, ServerTypeOK
  <2>4. \A c \in active[a] : c.fd # acceptor[a].fd
    BY <2>1 DEF EntriesOK
  <2>5. Live' = Live
    BY DEF Live
  <2> HIDE DEF ServerInv, Track, e
  <2>6. EntriesOK
    BY DEF ServerInv
  <2> QED  BY <2>1, <2>2, <2>3, <2>4, <2>5, <2>6 DEF EntriesOK
<1>5. OwnersOK'
  BY DEF OpenOK, EntriesOK, OwnersOK, Live, Failing, Clients
<1>6. StatisticsOK'
  BY DEF TypesOK, ServerTypeOK, StatisticsOK, Live, Counted
<1>7. LimitsOK'
  <2> DEFINE e == [fd |-> acceptor[a].fd, ip |-> acceptor[a].ip]
  <2>1. /\ active' = [active EXCEPT ![a] = active[a] \cup {e}]
        /\ active \in [Acceptors -> SUBSET Clients] /\ e.ip = acceptor[a].ip
    BY DEF TypesOK
  <2>2. \A c \in active[a] : c.fd # acceptor[a].fd
    BY DEF EntriesOK
  <2>3. e \notin active[a]
    BY <2>2
  <2>4. /\ IsFiniteSet(active[a])
        /\ Cardinality(active[a]) \in Nat /\ Cardinality(active[a]) < MaxConnections
    BY FS_CardinalityType, ServerAssumption DEF LimitsOK
  <2> HIDE DEF e
  <2>5. IsFiniteSet(active'[a]) /\ Cardinality(active'[a]) <= MaxConnections
    <3>1. active'[a] = active[a] \cup {e}
      BY <2>1
    <3>2. /\ IsFiniteSet(active[a] \cup {e})
          /\ Cardinality(active[a] \cup {e}) = Cardinality(active[a]) + 1
      BY <2>3, <2>4, FS_AddElement
    <3> HIDE DEF Track, ServerInv
    <3>3. Cardinality(active[a]) + 1 <= MaxConnections
      BY <2>4, ServerAssumption
    <3> QED  BY <3>1, <3>2, <3>3
  <2>6. ASSUME NEW i \in Ips
        PROVE  perIp'[a][i] = Cardinality(From(a, i)') /\ (MaxPerIp > 0 => perIp'[a][i] <= MaxPerIp)
    <3>1. IsFiniteSet(From(a, i)) /\ Cardinality(From(a, i)) \in Nat /\ e \notin From(a, i)
      BY <2>3, <2>4, FS_Subset, FS_CardinalityType DEF From
    <3>2. perIp[a][i] = Cardinality(From(a, i)) /\ (MaxPerIp > 0 => perIp[a][i] <= MaxPerIp)
      BY DEF LimitsOK
    <3>3. perIp'[a][i] = IF i = acceptor[a].ip THEN perIp[a][i] + 1 ELSE perIp[a][i]
      BY DEF TypesOK
    <3>4. CASE i = acceptor[a].ip
      <4>1. From(a, i)' = From(a, i) \cup {e}
        BY <2>1, <3>4 DEF From
      <4>2. Cardinality(From(a, i) \cup {e}) = Cardinality(From(a, i)) + 1
        BY <3>1, FS_AddElement
      <4>3. ~(MaxPerIp > 0 /\ perIp[a][i] >= MaxPerIp)
        BY <3>4
      <4> QED  BY <3>1, <3>2, <3>3, <3>4, <4>1, <4>2, <4>3, ServerAssumption
    <3>5. CASE i # acceptor[a].ip
      <4>1. From(a, i)' = From(a, i)
        BY <2>1, <3>5 DEF From
      <4> QED  BY <3>2, <3>3, <3>5, <4>1
    <3> QED  BY <3>4, <3>5
  <2>7. ASSUME NEW b \in Acceptors, b # a
        PROVE  active'[b] = active[b] /\ perIp'[b] = perIp[b]
    BY <2>7
  <2> QED  BY <2>5, <2>6, <2>7 DEF LimitsOK, From
<1>8. StopOK'
  BY ServerAssumption DEF TypesOK, ServerTypeOK, StopOK, Idle
<1> QED  BY <1>1, <1>2, <1>3, <1>4, <1>5, <1>6, <1>7, <1>8 DEF ServerInv

LEMMA CountConnectionOK ==
  ASSUME ServerInv, NEW a \in Acceptors, CountConnection(a)
  PROVE  ServerInv'
<1> USE DEF ServerInv, CountConnection
<1>1. TypesOK'
  BY DEF ServerTypeOK, TypesOK
<1>2. PlacesOK'
  BY DEF PlacesOK, Live, Holds
<1>3. OpenOK'
  BY DEF OpenOK, Live, Holds
<1>4. EntriesOK'
  BY DEF EntriesOK, Live
<1>5. OwnersOK'
  <2>1. \A b \in Acceptors : /\ acceptor'[b].fd = acceptor[b].fd /\ (Failing(b)' => Failing(b))
                             /\ active'[b] = active[b]
    BY DEF Failing
  <2>2. Live' = Live /\ OwnersOK
    BY DEF Live
  <2> QED  BY <2>1, <2>2 DEF OwnersOK
<1>6. StatisticsOK'
  <2>1. Counted' = Counted \cup {a} /\ a \notin Counted /\ Live' = Live
    BY DEF Counted, Live, TypesOK, ServerTypeOK
  <2>2. Cardinality(Counted') = Cardinality(Counted) + 1
    BY <2>1, FiniteLive, FS_AddElement
  <2> QED  BY <2>1, <2>2, FiniteLive DEF StatisticsOK
<1>7. LimitsOK'
  BY DEF LimitsOK, From
<1>8. StopOK'
  BY DEF StopOK
<1> QED  BY <1>1, <1>2, <1>3, <1>4, <1>5, <1>6, <1>7, <1>8 DEF ServerInv

LEMMA RegisterOK ==
  ASSUME ServerInv, NEW a \in Acceptors, Register(a)
  PROVE  ServerInv'
<1> USE DEF ServerInv, Register
<1>1. TypesOK'
  BY DEF ServerTypeOK, TypesOK, Idle
<1>2. PlacesOK'
  BY DEF TypesOK, ServerTypeOK, PlacesOK, Live, Holds, Idle
<1>3. OpenOK'
  BY DEF OpenOK, Live, Holds, Idle
<1>4. EntriesOK'
  BY DEF EntriesOK, Live, Idle
<1>5. OwnersOK'
  BY DEF EntriesOK, OwnersOK, Live, Failing, Idle, Clients
<1>6. StatisticsOK'
  <2>1. Counted' = Counted \ {a} /\ a \in Counted
    BY DEF Counted, TypesOK, ServerTypeOK, Idle
  <2>2. Live' = Live \cup {acceptor[a].fd} /\ acceptor[a].fd \notin Live
    BY DEF Live, PlacesOK, Holds
  <2>3. Cardinality(Counted') = Cardinality(Counted) - 1
    BY <2>1, FiniteLive, FS_RemoveElement
  <2>4. Cardinality(Live') = Cardinality(Live) + 1
    BY <2>2, FiniteLive, FS_AddElement
  <2> QED  BY <2>3, <2>4, FiniteLive DEF StatisticsOK
<1>7. LimitsOK'
  BY DEF LimitsOK, From
<1>8. StopOK'
  BY DEF StopOK
<1> QED  BY <1>1, <1>2, <1>3, <1>4, <1>5, <1>6, <1>7, <1>8 DEF ServerInv

LEMMA RegisterFailsOK ==
  ASSUME ServerInv, NEW a \in Acceptors, RegisterFails(a)
  PROVE  ServerInv'
<1> USE DEF ServerInv, RegisterFails
<1>1. TypesOK'
  <2>1. a \in Counted
    BY DEF Counted
  <2>2. Cardinality(Counted) # 0
    BY <2>1, FiniteLive, FS_EmptySet
  <2>3. connections - 1 \in Nat
    BY <2>2, FiniteLive DEF StatisticsOK
  <2> QED  BY <2>3 DEF ServerTypeOK, TypesOK
<1>2. PlacesOK'
  BY ServerAssumption DEF TypesOK, ServerTypeOK, PlacesOK, Live, Holds, Idle
<1>3. OpenOK'
  BY DEF TypesOK, ServerTypeOK, PlacesOK, OpenOK, Live, Holds
<1>4. EntriesOK'
  BY DEF EntriesOK, Live
<1>5. OwnersOK'
  <2>1. \A b \in Acceptors : b # a => acceptor'[b] = acceptor[b]
    OBVIOUS
  <2>2. acceptor'[a].fd = acceptor[a].fd /\ acceptor[a].fd \notin Live
    BY DEF PlacesOK, Holds
  <2>3. Live' = Live /\ OwnersOK /\ active' = active
    BY DEF Live
  <2> QED  BY <2>1, <2>2, <2>3 DEF OwnersOK, Failing
<1>6. StatisticsOK'
  <2>1. Counted' = Counted \ {a} /\ a \in Counted /\ Live' = Live
    BY DEF Counted, Live, TypesOK, ServerTypeOK
  <2>2. Cardinality(Counted') = Cardinality(Counted) - 1
    BY <2>1, FiniteLive, FS_RemoveElement
  <2> QED  BY <2>1, <2>2, FiniteLive DEF StatisticsOK
<1>7. LimitsOK'
  BY DEF LimitsOK, From
<1>8. StopOK'
  BY DEF StopOK
<1> QED  BY <1>1, <1>2, <1>3, <1>4, <1>5, <1>6, <1>7, <1>8 DEF ServerInv

LEMMA CloseAgainOK ==
  ASSUME ServerInv, NEW a \in Acceptors, CloseAgain(a)
  PROVE  ServerInv'
<1> USE DEF ServerInv, CloseAgain
<1>1. TypesOK'
  BY DEF ServerTypeOK, TypesOK
<1>2. PlacesOK'
  BY DEF PlacesOK, Live, Holds
<1>3. OpenOK'
  BY DEF TypesOK, ServerTypeOK, OpenOK, Live, Holds
<1>4. EntriesOK'
  BY DEF EntriesOK, Live
<1>5. OwnersOK'
  BY ServerAssumption DEF PlacesOK, OpenOK, EntriesOK, OwnersOK, Live, Failing, Clients
<1>6. StatisticsOK'
  BY DEF StatisticsOK, Live, Counted
<1>7. LimitsOK'
  BY DEF LimitsOK, From
<1>8. StopOK'
  BY DEF StopOK
<1> QED  BY <1>1, <1>2, <1>3, <1>4, <1>5, <1>6, <1>7, <1>8 DEF ServerInv

LEMMA RemoveFailedOK ==
  ASSUME ServerInv, NEW a \in Acceptors, RemoveFailed(a)
  PROVE  ServerInv'
<1> USE DEF ServerInv, RemoveFailed, Removed, IpsWithout
<1>1. TypesOK'
  BY DEF ServerTypeOK, TypesOK, Idle
<1>2. PlacesOK'
  BY DEF PlacesOK, Live, Holds, Idle
<1>3. OpenOK'
  BY DEF OpenOK, Live, Holds, Idle
<1>4. EntriesOK'
  BY DEF TypesOK, ServerTypeOK, EntriesOK, Live, Idle
<1>5. OwnersOK'
  BY DEF PlacesOK, EntriesOK, OwnersOK, Live, Failing, Idle, Clients
<1>6. StatisticsOK'
  BY DEF TypesOK, ServerTypeOK, StatisticsOK, Live, Counted, Idle
<1>7. LimitsOK'
  <2> HIDE DEF ServerInv, Removed, IpsWithout
  <2>1. acceptor[a].fd \in Fds
    BY DEF ServerInv, TypesOK, ServerTypeOK
  <2>2. active'[a] = Removed(a, acceptor[a].fd) /\ perIp'[a] = IpsWithout(a, acceptor[a].fd)
    BY DEF ServerInv, TypesOK
  <2>3. ASSUME NEW b \in Acceptors, b # a
        PROVE  active'[b] = active[b] /\ perIp'[b] = perIp[b]
    BY <2>3 DEF ServerInv
  <2>4. LimitsOK
    BY DEF ServerInv
  <2> HIDE DEF RemoveFailed
  <2>5. /\ IsFiniteSet(active'[a]) /\ Cardinality(active'[a]) <= MaxConnections
        /\ \A i \in Ips : /\ perIp'[a][i] = Cardinality(From(a, i)')
                          /\ MaxPerIp > 0 => perIp'[a][i] <= MaxPerIp
    <3>1. \A i \in Ips : From(a, i)' = FromAfter(a, acceptor[a].fd, i)
      BY <2>2 DEF From, FromAfter
    <3>2. StruckOK(a, acceptor[a].fd)
      BY <2>1, StruckOut
    <3>3. IsFiniteSet(active'[a]) /\ Cardinality(active'[a]) <= MaxConnections
      BY <2>2, <3>2 DEF StruckOK
    <3>4. ASSUME NEW i \in Ips
          PROVE  perIp'[a][i] = Cardinality(From(a, i)') /\ (MaxPerIp > 0 => perIp'[a][i] <= MaxPerIp)
      <4>1. /\ IpsWithout(a, acceptor[a].fd)[i] = Cardinality(FromAfter(a, acceptor[a].fd, i))
            /\ MaxPerIp > 0 => IpsWithout(a, acceptor[a].fd)[i] <= MaxPerIp
        BY <3>2 DEF StruckOK
      <4>2. /\ perIp'[a][i] = IpsWithout(a, acceptor[a].fd)[i]
            /\ From(a, i)' = FromAfter(a, acceptor[a].fd, i)
        BY <2>2, <3>1
      <4> QED  BY <4>1, <4>2
    <3> QED  BY <3>3, <3>4
  <2> QED  BY <2>3, <2>4, <2>5 DEF LimitsOK, From
<1>8. StopOK'
  BY DEF StopOK
<1> QED  BY <1>1, <1>2, <1>3, <1>4, <1>5, <1>6, <1>7, <1>8 DEF ServerInv

\* The entry of a connection leaves the table, by the event loop, a worker or Stop.
LEMMA UnregisterOK ==
  ASSUME ServerInv, NEW fd,
         \/ LoopUnregisters(fd) \/ StopUnregisters(fd)
         \/ \E w \in PoolWorkers : WorkerUnregisters(w) /\ fd = job[w]
  PROVE  ServerInv'
<1>0. /\ fd \in table /\ table' = table \ {fd} /\ leaving' = leaving \cup {fd}
      /\ UNCHANGED <<acceptor, active, perIp, fds, connections, queue, job, pool, exited, stop, doubleClosed>>
  BY DEF LoopUnregisters, StopUnregisters, WorkerUnregisters, Unregister
<1>1. TypesOK'
  BY <1>0 DEF ServerInv, ServerTypeOK, TypesOK
<1>2. PlacesOK'
  BY <1>0 DEF ServerInv, PlacesOK, Live, Holds
<1>3. OpenOK'
  BY <1>0 DEF ServerInv, OpenOK, Live, Holds
<1>4. EntriesOK'
  BY <1>0 DEF ServerInv, EntriesOK, Live
<1>5. OwnersOK'
  BY <1>0 DEF ServerInv, EntriesOK, OwnersOK, Live, Failing
<1>6. StatisticsOK'
  BY <1>0 DEF ServerInv, StatisticsOK, Live, Counted
<1>7. LimitsOK'
  BY <1>0 DEF ServerInv, LimitsOK, From
<1>8. StopOK'
  BY <1>0 DEF ServerInv, StopOK
<1> QED  BY <1>1, <1>2, <1>3, <1>4, <1>5, <1>6, <1>7, <1>8 DEF ServerInv

LEMMA CloseCallbackOK ==
  ASSUME ServerInv, NEW fd \in Fds, CloseCallback(fd)
  PROVE  ServerInv'
<1> USE DEF ServerInv, CloseCallback, Removed, IpsWithout
<1>1. TypesOK'
  <2>1. Cardinality(Live) # 0
    BY FiniteLive, FS_EmptySet DEF Live
  <2>2. connections - 1 \in Nat
    BY <2>1, FiniteLive DEF StatisticsOK
  <2>3. \A a \in Acceptors : Removed(a, fd) \subseteq Clients /\ IpsWithout(a, fd) \in [Ips -> Nat]
    BY StruckOut DEF StruckOK
  <2> HIDE DEF Removed, IpsWithout
  <2> QED  BY <2>2, <2>3 DEF ServerTypeOK, TypesOK
<1>2. PlacesOK'
  BY DEF PlacesOK, Live, Holds
<1>3. OpenOK'
  BY DEF OpenOK, Live, Holds
<1>4. EntriesOK'
  BY DEF PlacesOK, EntriesOK, Live, Holds, Clients
<1>5. OwnersOK'
  <2>1. \A a \in Acceptors : /\ acceptor'[a] = acceptor[a]
                             /\ \A c \in active[a] : c.fd # fd => c \in active'[a]
    OBVIOUS
  <2>2. Live' \subseteq Live /\ fd \notin Live' /\ OwnersOK
    BY DEF Live, PlacesOK
  <2> QED  BY <2>1, <2>2 DEF OwnersOK, Failing
<1>6. StatisticsOK'
  <2>1. Counted' = Counted /\ Live' = Live \ {fd} /\ fd \in Live
    BY DEF Counted, Live, PlacesOK
  <2>2. Cardinality(Live') = Cardinality(Live) - 1
    BY <2>1, FiniteLive, FS_RemoveElement
  <2> QED  BY <2>1, <2>2, FiniteLive DEF StatisticsOK
<1>7. LimitsOK'
  <2> HIDE DEF Removed, IpsWithout, ServerInv
  <2>1. \A a \in Acceptors : active'[a] = Removed(a, fd) /\ perIp'[a] = IpsWithout(a, fd)
    OBVIOUS
  <2> HIDE DEF CloseCallback
  <2>2. ASSUME NEW a \in Acceptors
        PROVE  /\ IsFiniteSet(active'[a]) /\ Cardinality(active'[a]) <= MaxConnections
               /\ \A i \in Ips : /\ perIp'[a][i] = Cardinality(From(a, i)')
                                 /\ MaxPerIp > 0 => perIp'[a][i] <= MaxPerIp
    <3>1. \A i \in Ips : From(a, i)' = FromAfter(a, fd, i)
      BY <2>1 DEF From, FromAfter
    <3>2. StruckOK(a, fd)
      BY StruckOut
    <3>3. IsFiniteSet(active'[a]) /\ Cardinality(active'[a]) <= MaxConnections
      BY <2>1, <3>2 DEF StruckOK
    <3>4. ASSUME NEW i \in Ips
          PROVE  perIp'[a][i] = Cardinality(From(a, i)') /\ (MaxPerIp > 0 => perIp'[a][i] <= MaxPerIp)
      <4>1. /\ IpsWithout(a, fd)[i] = Cardinality(FromAfter(a, fd, i))
            /\ MaxPerIp > 0 => IpsWithout(a, fd)[i] <= MaxPerIp
        BY <3>2 DEF StruckOK
      <4>2. perIp'[a][i] = IpsWithout(a, fd)[i] /\ From(a, i)' = FromAfter(a, fd, i)
        BY <2>1, <3>1
      <4> QED  BY <4>1, <4>2
    <3> QED  BY <3>3, <3>4
  <2> QED  BY <2>2 DEF LimitsOK
<1>8. StopOK'
  BY DEF StopOK
<1> QED  BY <1>1, <1>2, <1>3, <1>4, <1>5, <1>6, <1>7, <1>8 DEF ServerInv

LEMMA DestroyOK ==
  ASSUME ServerInv, NEW fd \in Fds, Destroy(fd)
  PROVE  ServerInv'
<1> USE DEF ServerInv, Destroy, Referenced
<1>1. TypesOK'
  BY DEF ServerTypeOK, TypesOK
<1>2. PlacesOK'
  BY DEF PlacesOK, Live, Holds
<1>3. OpenOK'
  BY DEF OpenOK, Live, Holds
<1>4. EntriesOK'
  BY DEF EntriesOK, Live
<1>5. OwnersOK'
  BY DEF EntriesOK, OwnersOK, Live, Failing
<1>6. StatisticsOK'
  BY DEF StatisticsOK, Live, Counted
<1>7. LimitsOK'
  BY DEF LimitsOK, From
<1>8. StopOK'
  BY DEF StopOK
<1> QED  BY <1>1, <1>2, <1>3, <1>4, <1>5, <1>6, <1>7, <1>8 DEF ServerInv

\* The pool and the phases of Stop leave the books alone.
LEMMA PoolOK ==
  ASSUME ServerInv,
         \/ \E fd \in Fds : Submit(fd) \/ \E w \in PoolWorkers : TakeJob(w, fd)
         \/ \E w \in PoolWorkers : FinishJob(w) \/ WorkerExits(w)
  PROVE  ServerInv'
<1>1. TypesOK'
  BY DEF ServerInv, TypesOK, ServerTypeOK, Submit, TakeJob, FinishJob, WorkerExits
<1>2. StopOK'
  BY DEF ServerInv, StopOK, Submit, LoopRuns, TakeJob, FinishJob, WorkerExits
<1>3. UNCHANGED <<acceptor, active, perIp, fds, table, leaving, connections, doubleClosed>>
  BY DEF Submit, TakeJob, FinishJob, WorkerExits
<1> QED  BY <1>1, <1>2, <1>3, SameBooks DEF ServerInv

LEMMA StopPhaseOK ==
  ASSUME ServerInv,
         \/ StopBegins \/ AcceptorsJoined \/ ReactorStopped \/ ShutdownPool
         \/ PoolIdle \/ PoolDeadline \/ PoolJoined \/ StopEnds
  PROVE  ServerInv'
<1> USE DEF StopBegins, AcceptorsJoined, ReactorStopped, ShutdownPool, PoolIdle, PoolDeadline,
            PoolJoined, StopEnds, StopPhase
<1>1. TypesOK'
  BY DEF ServerInv, TypesOK, ServerTypeOK
<1>2. StopOK'
  BY DEF ServerInv, StopOK
<1>3. UNCHANGED <<acceptor, active, perIp, fds, table, leaving, connections, doubleClosed>>
  OBVIOUS
<1> QED  BY <1>1, <1>2, <1>3, SameBooks DEF ServerInv

-----------------------------------------------------------------------------
(* The invariant holds.                                                     *)

LEMMA ServerInitOK == ServerInit => ServerInv
<1> SUFFICES ASSUME ServerInit  PROVE ServerInv
  OBVIOUS
<1>1. IsFiniteSet({}) /\ Cardinality({}) = 0
  BY FS_EmptySet
<1>2. Live = {} /\ Counted = {} /\ \A a \in Acceptors, i \in Ips : From(a, i) = {}
  BY DEF ServerInit, Live, Counted, From, Idle
<1>3. TypesOK
  BY DEF ServerInit, TypesOK, ServerTypeOK, Idle
<1>4. PlacesOK /\ OpenOK
  BY DEF ServerInit, PlacesOK, OpenOK, Live, Holds, Idle
<1>5. EntriesOK /\ OwnersOK
  BY <1>2 DEF ServerInit, EntriesOK, OwnersOK, Idle
<1>6. StatisticsOK
  BY <1>1, <1>2 DEF ServerInit, StatisticsOK
<1>7. LimitsOK
  <2>1. \A a \in Acceptors : active[a] = {} /\ \A i \in Ips : perIp[a][i] = 0
    BY DEF ServerInit
  <2>2. 0 <= MaxConnections /\ (MaxPerIp > 0 => 0 <= MaxPerIp)
    BY ServerAssumption
  <2> QED  BY <1>1, <1>2, <2>1, <2>2 DEF LimitsOK
<1>8. StopOK
  BY DEF ServerInit, StopOK
<1> QED  BY <1>3, <1>4, <1>5, <1>6, <1>7, <1>8 DEF ServerInv

LEMMA ServerStepOK == ServerInv /\ [ServerNext]_serverVars => ServerInv'
<1> SUFFICES ASSUME ServerInv, [ServerNext]_serverVars  PROVE ServerInv'
  OBVIOUS
<1>1. ASSUME NEW a \in Acceptors, NEW fd \in Fds, NEW ip \in AddressesOf(a), Accept(a, fd, ip)
      PROVE  ServerInv'
  BY <1>1, AcceptOK
<1>2. ASSUME NEW a \in Acceptors, AcceptorStep(a)
      PROVE  ServerInv'
  BY <1>2, RejectOK, TrackOK, CountConnectionOK, RegisterOK, RegisterFailsOK, CloseAgainOK,
     RemoveFailedOK DEF AcceptorStep
<1>3. ASSUME NEW fd \in Fds, LoopUnregisters(fd) \/ CloseCallback(fd) \/ Destroy(fd)
      PROVE  ServerInv'
  BY <1>3, UnregisterOK, CloseCallbackOK, DestroyOK
<1>4. ASSUME NEW w \in PoolWorkers, WorkerUnregisters(w)
      PROVE  ServerInv'
  BY <1>4, UnregisterOK
<1>5. CASE \/ \E fd \in Fds : Submit(fd) \/ \E w \in PoolWorkers : TakeJob(w, fd)
           \/ \E w \in PoolWorkers : FinishJob(w) \/ WorkerExits(w)
  BY <1>5, PoolOK
<1>6. CASE StopBegins \/ StopStep
  BY <1>6, StopPhaseOK, UnregisterOK DEF StopStep
<1>7. CASE UNCHANGED serverVars
  <2>1. TypesOK' /\ StopOK'
    BY <1>7 DEF ServerInv, TypesOK, ServerTypeOK, StopOK, serverVars
  <2>2. UNCHANGED <<acceptor, active, perIp, fds, table, leaving, connections, doubleClosed>>
    BY <1>7 DEF serverVars
  <2> QED  BY <2>1, <2>2, SameBooks DEF ServerInv
<1> QED  BY <1>1, <1>2, <1>3, <1>4, <1>5, <1>6, <1>7 DEF ServerNext

\* The invariant holds in every state of the server.
LEMMA ServerInvariant == ServerSpec => []ServerInv
BY ServerInitOK, ServerStepOK, PTL DEF ServerSpec

-----------------------------------------------------------------------------
(* The theorems.                                                            *)

\* What the invariant says of each acceptor adds up to the books of the server.
LEMMA InvAccounts == ServerInv => Accounting
<1> SUFFICES ASSUME ServerInv, ~doubleClosed  PROVE Accounting
  BY DEF Accounting
<1>1. UNION {ClientsOf(a) \ Failed(a) : a \in Acceptors} = Live \cup UNION {Entering(a) : a \in Acceptors}
  <2>1. ASSUME NEW a \in Acceptors, NEW f \in ClientsOf(a) \ Failed(a)
        PROVE  f \in Live \cup Entering(a)
    <3>1. PICK c \in active[a] : c.fd = f
      BY <2>1 DEF ClientsOf
    <3> QED  BY <2>1, <3>1 DEF ServerInv, EntriesOK, Failed, Entering
  <2>2. ASSUME NEW f \in Live
        PROVE  \E a \in Acceptors : f \in ClientsOf(a) \ Failed(a)
    <3>1. PICK a \in Acceptors : (\E c \in active[a] : c.fd = f) /\ ~(Failing(a) /\ acceptor[a].fd = f)
      BY DEF ServerInv, OwnersOK
    <3> QED  BY <3>1 DEF ClientsOf, Failed, Failing
  <2>3. ASSUME NEW a \in Acceptors, NEW f \in Entering(a)
        PROVE  f \in ClientsOf(a) \ Failed(a)
    <3>1. acceptor[a].pc \in {"register", "add"} /\ f = acceptor[a].fd
      BY DEF Entering
    <3>2. \E c \in active[a] : c.fd = f
      BY <3>1 DEF ServerInv, EntriesOK
    <3> QED  BY <3>1, <3>2 DEF ClientsOf, Failed
  <2> QED  BY <2>1, <2>2, <2>3
<1>2. Live \subseteq fds
  BY DEF ServerInv, OpenOK
<1>3. connections = Cardinality(Live) + Cardinality(Counted)
  BY DEF ServerInv, StatisticsOK
<1>4. \A a \in Acceptors :
        /\ Cardinality(active[a]) <= MaxConnections
        /\ \A i \in Ips : /\ perIp[a][i] = Cardinality(From(a, i))
                          /\ MaxPerIp > 0 => perIp[a][i] <= MaxPerIp
  BY DEF ServerInv, LimitsOK
<1> QED  BY <1>1, <1>2, <1>3, <1>4 DEF Accounting, Live, Counted, From

\* The books of the acceptors, of the statistics and of the reactor agree at
\* every moment, and both limits hold, whatever the number of descriptors,
\* addresses and workers, until a descriptor is closed under its owner
\* (ConnectionAcceptor::AcceptLoop, RemoveConnection, IoReactor::Register, Unregister).
THEOREM BooksAgree == ServerSpec => []Accounting
BY ServerInvariant, InvAccounts, PTL

\* Nothing enters the table of a stopped reactor, and the reactor is destroyed
\* only when no worker that Stop has waited for can call it (NvecdServer::Stop,
\* ThreadPool::Shutdown).
THEOREM ReactorFreedLast == ServerSpec => []ReactorOutlivesUse
<1>1. ServerInv => ReactorOutlivesUse
  BY DEF ServerInv, StopOK, ReactorOutlivesUse
<1> QED  BY <1>1, ServerInvariant, PTL

=============================================================================
