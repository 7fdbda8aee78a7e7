--------------------------- MODULE ServersProofs ----------------------------
(***************************************************************************)
(* Proofs about Servers, for any clients, descriptors and workers, and any *)
(* situation.  A pool of threads has each of its connections in one place; *)
(* with an event loop no reader outlives its socket.                       *)
(***************************************************************************)
EXTENDS Servers, Integers, SequenceTheorems, FiniteSetTheorems, TLAPS

-----------------------------------------------------------------------------
(* How often a descriptor is in a queue, and how many workers have it.     *)

One(condition) == IF condition THEN 1 ELSE 0

CountOf(f, s) == Cardinality({i \in 1..Len(s) : s[i] = f})

(* The count is a number, zero if the descriptor is not there.             *)
LEMMA CountNat ==
  ASSUME NEW S, NEW s \in Seq(S), NEW f
  PROVE  /\ IsFiniteSet({i \in 1..Len(s) : s[i] = f})
         /\ CountOf(f, s) \in Nat
         /\ CountOf(f, s) = 0 <=> \A i \in 1..Len(s) : s[i] # f
<1>. DEFINE I == {i \in 1..Len(s) : s[i] = f}
<1>1. IsFiniteSet(1..Len(s))
  BY LenProperties, FS_Interval
<1>2. IsFiniteSet(I)
  BY <1>1, FS_Subset
<1>3. Cardinality(I) \in Nat /\ (Cardinality(I) = 0 <=> I = {})
  BY <1>2, FS_CardinalityType, FS_EmptySet
<1>. QED
  BY <1>2, <1>3 DEF CountOf

(* A descriptor put into the queue.                                        *)
LEMMA CountAppend ==
  ASSUME NEW S, NEW s \in Seq(S), NEW e \in S, NEW f
  PROVE  CountOf(f, Append(s, e)) = CountOf(f, s) + One(e = f)
<1>. DEFINE I == {i \in 1..Len(s) : s[i] = f}
            J == {i \in 1..Len(Append(s, e)) : Append(s, e)[i] = f}
            n == Len(s) + 1
<1>1. /\ Len(s) \in Nat /\ Len(Append(s, e)) = n
      /\ \A i \in 1..Len(s) : Append(s, e)[i] = s[i]
      /\ Append(s, e)[n] = e
  BY LenProperties, AppendProperties
<1>2. J = IF e = f THEN I \cup {n} ELSE I
  <2>. HIDE DEF n
  <2>. QED
    BY <1>1 DEF n
<1>3. IsFiniteSet(I) /\ CountOf(f, s) \in Nat
  BY CountNat
<1>4. Cardinality(I) \in Nat /\ n \notin I
  BY <1>1, <1>3 DEF CountOf
<1>5. Cardinality(I \cup {n}) = Cardinality(I) + 1
  <2>. HIDE DEF I, n
  <2>. QED
    BY <1>3, <1>4, FS_AddElement
<1>. HIDE DEF I, J, n
<1>6. Cardinality(J) = Cardinality(I) + One(e = f)
  BY <1>2, <1>4, <1>5 DEF One
<1>. QED
  BY <1>6 DEF CountOf, I, J

(* The first descriptor taken from the queue.                              *)
LEMMA CountTail ==
  ASSUME NEW S, NEW s \in Seq(S), s # <<>>, NEW f
  PROVE  CountOf(f, s) = CountOf(f, Tail(s)) + One(Head(s) = f)
<1>. DEFINE t == Tail(s)
            I == {i \in 1..Len(s) : s[i] = f}
            J == {i \in 1..Len(t) : t[i] = f}
            next == [i \in J |-> i + 1]
<1>1. /\ Len(s) \in Nat \ {0} /\ Head(s) = s[1]
      /\ t \in Seq(S) /\ Len(t) = Len(s) - 1
      /\ \A i \in 1..(Len(s) - 1) : t[i] = s[i + 1]
  BY EmptySeq, HeadTailProperties
<1>2. next \in Bijection(J, I \ {1})
  <2>. HIDE DEF t
  <2>1. \A i \in J : i + 1 \in I \ {1}
    BY <1>1
  <2>2. \A i \in I \ {1} : i - 1 \in J /\ (i - 1) + 1 = i
    BY <1>1
  <2>3. \A i \in J : i \in Nat
    BY <1>1
  <2>. HIDE DEF I, J
  <2>. QED
    BY <2>1, <2>2, <2>3 DEF Bijection, Injection, IsInjective, Surjection
<1>3. IsFiniteSet(I) /\ IsFiniteSet(J) /\ Cardinality(I) \in Nat /\ Cardinality(J) \in Nat
  <2>. HIDE DEF t
  <2>1. IsFiniteSet(I) /\ CountOf(f, s) \in Nat
    BY CountNat
  <2>2. IsFiniteSet(J) /\ CountOf(f, t) \in Nat
    BY <1>1, CountNat, ZenonT(40)
  <2>. QED
    BY <2>1, <2>2 DEF CountOf
<1>4. 1 \in I <=> Head(s) = f
  BY <1>1
<1>. HIDE DEF I, J, next, t
<1>5. Cardinality(I \ {1}) = Cardinality(J)
  BY <1>2, <1>3, FS_Bijection DEF ExistsBijection
<1>6. Cardinality(I \ {1}) = IF 1 \in I THEN Cardinality(I) - 1 ELSE Cardinality(I)
  BY <1>3, FS_RemoveElement
<1>7. Cardinality(I) = Cardinality(J) + One(Head(s) = f)
  BY <1>3, <1>4, <1>5, <1>6 DEF One
<1>. QED
  BY <1>7 DEF CountOf, I, J, t

(* Put at its end what is none of it.                                      *)
LEMMA CountConcat ==
  ASSUME NEW S, NEW s \in Seq(S), NEW t \in Seq(S), NEW f, \A i \in 1..Len(t) : t[i] # f
  PROVE  s \o t \in Seq(S) /\ CountOf(f, s \o t) = CountOf(f, s)
<1>. DEFINE all == s \o t
<1>1. /\ all \in Seq(S) /\ Len(all) = Len(s) + Len(t) /\ Len(s) \in Nat /\ Len(t) \in Nat
      /\ \A i \in 1..(Len(s) + Len(t)) : all[i] = IF i <= Len(s) THEN s[i] ELSE t[i - Len(s)]
  BY ConcatProperties, LenProperties
<1>. HIDE DEF all
<1>2. \A i \in 1..Len(all) : all[i] = f => i \in 1..Len(s) /\ s[i] = f
  BY <1>1, SMTT(30)
<1>3. \A i \in 1..Len(s) : i \in 1..Len(all) /\ all[i] = s[i]
  BY <1>1
<1>4. {i \in 1..Len(all) : all[i] = f} = {i \in 1..Len(s) : s[i] = f}
  BY <1>2, <1>3
<1>5. CountOf(f, all) = CountOf(f, s)
  BY <1>4 DEF CountOf
<1>. QED
  BY <1>1, <1>5 DEF all

(* The workers that have a descriptor, and are not just giving it up.      *)
Has(w, f) == worker[w].fd = f /\ worker[w].at \notin {"drop", "delete"}
Held(f) == Cardinality({w \in Workers : Has(w, f)})

(* The count of those workers is a number.                                 *)
LEMMA HeldNat ==
  ASSUME IsFiniteSet(Workers), NEW f
  PROVE  /\ IsFiniteSet({w \in Workers : Has(w, f)})
         /\ Held(f) \in Nat
         /\ Held(f) = 0 <=> \A w \in Workers : ~Has(w, f)
<1>. DEFINE H == {w \in Workers : Has(w, f)}
<1>1. IsFiniteSet(H)
  BY FS_Subset
<1>2. Cardinality(H) \in Nat /\ (Cardinality(H) = 0 <=> H = {})
  BY <1>1, FS_CardinalityType, FS_EmptySet
<1>. QED
  BY <1>1, <1>2 DEF Held

(* One worker changes what it does.                                        *)
LEMMA HeldChanges ==
  ASSUME IsFiniteSet(Workers), NEW w \in Workers, NEW f,
         \A u \in Workers \ {w} : worker'[u] = worker[u]
  PROVE  /\ Held(f) \in Nat /\ Held(f)' \in Nat
         /\ Held(f)' + One(Has(w, f)) = Held(f) + One(Has(w, f)')
<1>. DEFINE H == {u \in Workers : Has(u, f)}
            rest == {u \in Workers \ {w} : Has(u, f)}
<1>1. IsFiniteSet(rest) /\ w \notin rest
  BY FS_Subset
<1>2. H = IF Has(w, f) THEN rest \cup {w} ELSE rest
  OBVIOUS
<1>3. H' = IF Has(w, f)' THEN rest \cup {w} ELSE rest
  BY DEF Has
<1>. HIDE DEF H, rest
<1>4. Cardinality(rest) \in Nat /\ Cardinality(rest \cup {w}) = Cardinality(rest) + 1
  BY <1>1, FS_CardinalityType, FS_AddElement
<1>5. /\ Cardinality(H) = Cardinality(rest) + One(Has(w, f))
      /\ Cardinality(H') = Cardinality(rest) + One(Has(w, f)')
  BY <1>2, <1>3, <1>4 DEF One
<1>6. /\ Held(f) = Cardinality(rest) + One(Has(w, f))
      /\ Held(f)' = Cardinality(rest) + One(Has(w, f)')
  BY <1>5 DEF Held, H
<1>. QED
  BY <1>4, <1>6 DEF One

-----------------------------------------------------------------------------
(* With threads: what the tables hold.                                     *)

Sessions == {"none", "accepted", "pooled", "serving", "ended"}
Busy == {"serve", "handler", "inactive", "drop", "delete"}
Early == {"accepted", "admit", "build"}
Closes == {"idle", "begin", "listener", "shut", "join", "workers", "returned"}

ThreadTypes ==
  /\ setup \in ThreadSetups
  /\ peer \in [Clients -> {"out", "connected", "gone"}]
  /\ data \in [Clients -> Nat] /\ made \in [Clients -> 0..setup.requests]
  /\ \A c \in Clients : data[c] <= made[c]
  /\ fd \in [Clients -> Fds \cup {0}]
  /\ active \in BOOLEAN /\ closed \in BOOLEAN /\ listening \in BOOLEAN
  /\ clients \subseteq Clients /\ closer \in [T!Closers -> Closes]
  /\ session \in [Clients -> Sessions]

AcceptorTypes ==
  /\ acceptor \in [at : Early \cup {"accept", "serve", "register", "ended"},
                   of : Clients \cup Fds \cup {T!Nobody}]
  /\ acceptor.at \in Early \cup {"serve"} => acceptor.of \in Clients
  /\ acceptor.at = "register" => acceptor.of \in Fds

PoolTypes ==
  /\ fd_to_conn \in [Fds -> Clients \cup {T!Nobody}]
  /\ polled \in SUBSET Fds /\ queue \in Seq(Fds \cup {0}) /\ stolen \in SUBSET Clients
  /\ poller \in [at : {"poll", "handle", "delete", "ended"},
                 found : SUBSET (Fds \X {"r", "h", "n"}), fd : Fds \cup {0},
                 conn : Clients \cup {T!Nobody}, hung : BOOLEAN]
  /\ worker \in [Workers -> [at : Busy \cup {"get", "waiting", "ended"}, fd : Fds \cup {0},
                             conn : Clients \cup {T!Nobody}, left : Nat]]
  /\ \A w \in Workers : /\ (worker[w].fd = 0) <=> (worker[w].at \notin Busy)
                        /\ worker[w].at = "handler" => worker[w].conn \in Clients
                        /\ worker[w].at \in Busy => worker[w].left # 0

(* Only a pool has tables, and its connections have no threads.            *)
Kinds ==
  /\ setup.kind # "pool" => /\ \A f \in Fds : fd_to_conn[f] = T!Nobody
                            /\ acceptor.at \notin {"build", "register"}
  /\ setup.kind = "pool" => \A c \in Clients : session[c] # "serving"

(* Who closes connections has made the server inactive; it stays so.       *)
Stopped ==
  /\ closed => ~active
  /\ \A t \in T!Closers : closer[t] \in {"listener", "shut"} => ~active

(* A descriptor is of one client, and a client is accepted once; what the  *)
(* map, the handlers and the poller hold has no other descriptor than theirs.*)
Descriptors ==
  /\ \A c, d \in Clients : fd[c] = fd[d] => c = d \/ fd[c] = 0
  /\ \A f \in Fds : fd_to_conn[f] # T!Nobody =>
       fd[fd_to_conn[f]] \in {0, f} /\ session[fd_to_conn[f]] = "pooled"
  /\ \A w \in Workers : worker[w].at = "handler" =>
       fd[worker[w].conn] \in {0, worker[w].fd} /\ session[worker[w].conn] = "pooled"
  /\ poller.at = "delete" => /\ poller.fd \in Fds /\ poller.conn \in Clients
                             /\ fd[poller.conn] \in {0, poller.fd}
                             /\ session[poller.conn] = "pooled"
  /\ \A c \in Clients : fd[c] # 0 => session[c] # "none"

(* The client that is accepted just now is not in the map yet.             *)
Arriving ==
  /\ acceptor.at \in {"accepted", "admit"} => session[acceptor.of] = "accepted"
  /\ acceptor.at = "build" => /\ session[acceptor.of] = "pooled"
                              /\ \A f \in Fds : fd_to_conn[f] # acceptor.of

(* The poll thread has one event of a descriptor that is still polled.     *)
FoundOnce ==
  /\ \A r \in poller.found : r[1] \in polled
  /\ \A r, s \in poller.found : r[1] = s[1] => r = s

(* A connection of the pool is in the map and in one place, or still on    *)
(* its way to the map and in none; no descriptor without a connection is   *)
(* anywhere while there may still come one; a handler has the connection   *)
(* that has its descriptor, if any has it.                                 *)
Arrives(c) == acceptor.at \in Early /\ acceptor.of = c

OpenPlaced ==
  \A c \in Clients, f \in Fds :
    fd[c] = f => \/ fd_to_conn[f] = c /\ T!Places(f) = 1
                 \/ Arrives(c) /\ T!Places(f) = 0
NoStray ==
  active => \A f \in Fds : (\A c \in Clients : fd[c] # f) => T!Places(f) = 0

HandlersOwn ==
  \A w \in Workers, c \in Clients :
    worker[w].at = "handler" /\ fd[c] = worker[w].fd => c = worker[w].conn

Placed == OpenPlaced /\ NoStray /\ HandlersOwn

Tables ==
  /\ ThreadTypes /\ AcceptorTypes /\ PoolTypes /\ Kinds /\ Stopped /\ Descriptors
  /\ Arriving /\ FoundOnce

PoolInv == Tables /\ (setup.kind = "pool" /\ stolen = {} => Placed)

-----------------------------------------------------------------------------
(* How the places of a descriptor change.                                  *)

Registers(f) == acceptor.at = "register" /\ acceptor.of = f
Drops(f) == poller.at = "delete" /\ poller.fd = f

(* At the accepting thread, or at the poller.                              *)
Waiting(f) == One(Registers(f)) + One(Drops(f))

(* ThreadServers counts with the same operators.                           *)
LEMMA SameCardinality == \A S : T!Cardinality(S) = Cardinality(S)
BY DEF T!Cardinality, Cardinality

LEMMA SameFinite == \A S : T!IsFiniteSet(S) <=> IsFiniteSet(S)
BY DEF T!IsFiniteSet, IsFiniteSet

(* The number of places, in its four parts.                                *)
LEMMA PlacesParts ==
  ASSUME IsFiniteSet(Workers), queue \in Seq(Fds \cup {0}), NEW f
  PROVE  /\ T!Places(f) = One(f \in polled) + CountOf(f, queue) + Held(f) + Waiting(f)
         /\ CountOf(f, queue) \in Nat /\ Held(f) \in Nat /\ T!Places(f) \in Nat
<1>1. CountOf(f, queue) \in Nat /\ Held(f) \in Nat
  BY CountNat, HeldNat
<1>2. T!Places(f) = One(f \in polled) + CountOf(f, queue) + Held(f)
                     + One(Registers(f)) + One(Drops(f))
  BY SameCardinality, Zenon DEF T!Places, One, CountOf, Held, Has, Registers, Drops
<1>. QED
  BY <1>1, <1>2 DEF One, Waiting

LEMMA PlacesPartsNext ==
  ASSUME IsFiniteSet(Workers), queue' \in Seq(Fds \cup {0}), NEW f
  PROVE  /\ T!Places(f)' = One(f \in polled') + CountOf(f, queue') + Held(f)' + Waiting(f)'
         /\ CountOf(f, queue') \in Nat /\ Held(f)' \in Nat /\ T!Places(f)' \in Nat
<1>1. CountOf(f, queue') \in Nat
  BY CountNat
<1>2. Held(f)' \in Nat
  <2>1. IsFiniteSet({w \in Workers : Has(w, f)'})
    BY FS_Subset
  <2>. QED
    BY <2>1, FS_CardinalityType DEF Held
<1>3. T!Places(f)' = One(f \in polled') + CountOf(f, queue') + Held(f)'
                      + One(Registers(f)') + One(Drops(f)')
  BY SameCardinality, Zenon DEF T!Places, One, CountOf, Held, Has, Registers, Drops
<1>. QED
  BY <1>1, <1>2, <1>3 DEF One, Waiting

(* Somewhere: a descriptor that is polled or at a worker has a place.      *)
LEMMA Somewhere ==
  ASSUME IsFiniteSet(Workers), queue \in Seq(Fds \cup {0}), NEW f,
         f \in polled \/ \E w \in Workers : Has(w, f)
  PROVE  T!Places(f) # 0
<1>1. f \in polled \/ Held(f) # 0
  BY HeldNat
<1>2. /\ T!Places(f) = One(f \in polled) + CountOf(f, queue) + Held(f) + Waiting(f)
      /\ CountOf(f, queue) \in Nat /\ Held(f) \in Nat
  BY PlacesParts
<1>. QED
  BY <1>1, <1>2 DEF One, Waiting

-----------------------------------------------------------------------------
(* The tables keep what they hold, step by step.                           *)

(* What the constants and the situation are.                               *)
LEMMA Situation ==
  /\ T!Nobody \notin Clients /\ 0 \notin Fds /\ IsFiniteSet(Workers)
  /\ \A s \in ThreadSetups : /\ s.kind \in {"threaded", "oneshot", "pool"}
                             /\ s.requests \in Nat /\ s.batch \in Nat \ {0}
                             /\ s.clients \subseteq Clients /\ s.fds \subseteq Fds
BY ServersAssumption, SameFinite DEF T!ThreadServersAssumption, T!Nobody

(* What close() puts into the queue for the workers is no descriptor.      *)
LEMMA NonesInQueue ==
  T!Nones \in Seq(Fds \cup {0}) /\ \A i \in 1..Len(T!Nones) : T!Nones[i] \notin Fds
<1>. DEFINE n == Cardinality(Workers)
<1>1. n \in Nat
  BY Situation, FS_CardinalityType
<1>2. T!Nones = [i \in 1..n |-> 0]
  BY SameCardinality, Zenon DEF T!Nones
<1>. HIDE DEF n
<1>3. T!Nones \in [1..n -> {0}]
  BY <1>2
<1>4. T!Nones \in Seq(Fds \cup {0}) /\ Len(T!Nones) = n
  BY <1>1, <1>3, SeqDef, LenProperties
<1>. QED
  BY <1>2, <1>4, Situation

(* The clients, and the threads that serve one each.                       *)
LEMMA ClientTables ==
  ASSUME Tables, NEW c \in Clients,
         T!Connect(c) \/ T!Request(c) \/ T!Leave(c) \/ T!SessionServes(c)
  PROVE  Tables'
<1>. USE DEF Tables
<1>. UNCHANGED <<setup, fd, T!startVars, session, T!poolVars>>
  BY DEF T!Connect, T!Request, T!Leave, T!SessionServes, T!clientVars, T!startVars, T!poolVars
<1>1. ThreadTypes'
  <2>1. CASE T!Connect(c) \/ T!Leave(c)
    BY <2>1 DEF ThreadTypes, T!Connect, T!Leave, T!startVars
  <2>2. CASE T!Request(c) \/ T!SessionServes(c)
    <3>1. setup.requests \in Nat
      BY Situation DEF ThreadTypes
    <3>2. /\ data' \in [Clients -> Nat] /\ made' \in [Clients -> 0..setup.requests]
          /\ \A d \in Clients : data'[d] <= made'[d]
      BY <2>2, <3>1 DEF ThreadTypes, T!Request, T!SessionServes, T!clientVars
    <3>. QED
      BY <2>2, <3>2 DEF ThreadTypes, T!Request, T!SessionServes, T!clientVars, T!startVars
  <2>. QED
    BY <2>1, <2>2
<1>2. AcceptorTypes' /\ PoolTypes' /\ Kinds' /\ Stopped' /\ FoundOnce'
  BY DEF AcceptorTypes, PoolTypes, Kinds, Stopped, FoundOnce, T!startVars, T!poolVars
<1>3. Descriptors' /\ Arriving'
  BY DEF Descriptors, Arriving, T!startVars, T!poolVars
<1>. QED
  BY <1>1, <1>2, <1>3

LEMMA SessionTables ==
  ASSUME Tables, NEW c \in Clients, T!Ends(c)
  PROVE  Tables'
<1>. USE DEF Tables
<1>1. setup.kind # "pool"
  BY DEF Kinds, T!Ends
<1>2. ThreadTypes'
  BY DEF ThreadTypes, Sessions, T!Ends, T!CloseSockets, T!clientVars
<1>3. AcceptorTypes' /\ PoolTypes' /\ Kinds' /\ Stopped' /\ FoundOnce'
  BY <1>1 DEF AcceptorTypes, PoolTypes, Kinds, Stopped, FoundOnce, T!Ends, T!clientVars,
         T!poolVars
<1>4. Descriptors'
  BY <1>1 DEF ThreadTypes, PoolTypes, Kinds, Descriptors, T!Ends, T!CloseSockets, T!clientVars,
         T!poolVars
<1>5. Arriving'
  BY <1>1 DEF ThreadTypes, Kinds, AcceptorTypes, Arriving, T!Ends, T!clientVars, T!poolVars
<1>. QED
  BY <1>2, <1>3, <1>4, <1>5

(* The thread of start().                                                  *)
LEMMA AcceptTables ==
  ASSUME Tables, NEW c \in Clients, NEW f \in Fds, T!Accept(c, f)
  PROVE  Tables'
<1>. USE DEF Tables
<1>1. ThreadTypes' /\ AcceptorTypes'
  BY DEF ThreadTypes, AcceptorTypes, Sessions, Early, T!Accept, T!clientVars
<1>2. PoolTypes' /\ Kinds' /\ Stopped' /\ FoundOnce'
  BY DEF ThreadTypes, PoolTypes, Kinds, Stopped, FoundOnce, T!Accept, T!clientVars, T!poolVars
<1>3. Descriptors'
  BY Situation DEF ThreadTypes, PoolTypes, Descriptors, T!Accept, T!Free, T!Open, T!poolVars
<1>4. Arriving'
  BY DEF ThreadTypes, Arriving, T!Accept
<1>. QED
  BY <1>1, <1>2, <1>3, <1>4

LEMMA AdmitTables ==
  ASSUME Tables, T!CheckActive \/ T!Admit
  PROVE  Tables'
<1>. USE DEF Tables
<1>1. acceptor.of \in Clients /\ session[acceptor.of] = "accepted"
  BY DEF AcceptorTypes, Arriving, Early, T!CheckActive, T!Admit
<1>2. ThreadTypes' /\ AcceptorTypes'
  BY <1>1, Situation DEF ThreadTypes, AcceptorTypes, Sessions, Early, T!CheckActive, T!Admit,
                         T!AcceptorGoes,
          T!CloseSockets, T!clientVars, T!kind
<1>3. PoolTypes' /\ Kinds' /\ Stopped' /\ FoundOnce'
  BY <1>1, Situation DEF ThreadTypes, AcceptorTypes, PoolTypes, Kinds, Stopped, FoundOnce,
                         T!CheckActive, T!Admit,
          T!AcceptorGoes, T!clientVars, T!poolVars, T!kind
<1>4. Descriptors'
  BY <1>1 DEF ThreadTypes, PoolTypes, Descriptors, T!CheckActive, T!Admit, T!CloseSockets,
              T!poolVars
<1>5. Arriving'
  <2>1. \A f \in Fds : fd_to_conn[f] # acceptor.of
    BY <1>1, Situation DEF PoolTypes, Descriptors
  <2>2. CASE T!CheckActive
    BY <2>2, <1>1 DEF AcceptorTypes, Arriving, T!CheckActive, T!AcceptorGoes
  <2>3. CASE T!Admit
    <3>1. acceptor'.of = acceptor.of /\ acceptor'.at \in {"accept", "serve", "build"}
      BY <2>3, Situation DEF ThreadTypes, AcceptorTypes, T!Admit, T!AcceptorGoes, T!kind
    <3>2. acceptor'.at = "build" => session'[acceptor.of] = "pooled"
      BY <2>3, <1>1, Situation DEF ThreadTypes, AcceptorTypes, T!Admit, T!AcceptorGoes, T!kind
    <3>. QED
      BY <2>1, <2>3, <3>1, <3>2 DEF Arriving, T!Admit, T!poolVars
  <2>. QED
    BY <2>2, <2>3
<1>. QED
  BY <1>2, <1>3, <1>4, <1>5

LEMMA BuildTables ==
  ASSUME Tables, T!BuildFails \/ T!Build \/ T!Register \/ T!StartEnds
  PROVE  Tables'
<1>. USE DEF Tables
<1>1. acceptor.at = "build" => acceptor.of \in Clients
  BY DEF AcceptorTypes, Early
<1>2. ThreadTypes'
  BY DEF ThreadTypes, T!BuildFails, T!Build, T!Register, T!StartEnds, T!CloseSockets,
         T!clientVars, T!Closers, Closes
<1>3. AcceptorTypes'
  BY <1>1 DEF ThreadTypes, AcceptorTypes, Early, T!BuildFails, T!Build, T!Register, T!StartEnds,
          T!AcceptorGoes, T!Open
<1>4. PoolTypes' /\ FoundOnce'
  BY <1>1 DEF ThreadTypes, AcceptorTypes, PoolTypes, FoundOnce, T!BuildFails, T!Build, T!Register,
          T!StartEnds, T!poolVars, T!Open
<1>5. Kinds' /\ Stopped'
  BY <1>1 DEF ThreadTypes, AcceptorTypes, Kinds, Stopped, T!BuildFails, T!Build, T!Register,
              T!StartEnds,
          T!AcceptorGoes, T!clientVars, T!poolVars
<1>6. Descriptors'
  BY <1>1 DEF ThreadTypes, PoolTypes, Descriptors, Arriving, T!BuildFails, T!Build, T!Register,
          T!StartEnds, T!CloseSockets, T!Open, T!poolVars
<1>7. Arriving'
  <2>1. acceptor'.at \in {"accept", "register", "ended"}
    BY DEF AcceptorTypes, T!BuildFails, T!Build, T!Register, T!StartEnds, T!AcceptorGoes
  <2>. QED
    BY <2>1 DEF Arriving
<1>. QED
  BY <1>2, <1>3, <1>4, <1>5, <1>6, <1>7

(* close().                                                                *)
LEMMA CloseTables ==
  ASSUME Tables, T!Stop \/ \E t \in T!Closers : T!Closing(t)
  PROVE  Tables'
<1>. USE DEF Tables
<1>1. UNCHANGED <<setup, peer, made, data, acceptor, session, fd_to_conn, polled, poller, worker,
                  stolen>>
  BY DEF T!Stop, T!Closing, T!Close, T!CloseListener, T!ShutClients, T!JoinPoller, T!JoinWorkers,
         T!clientVars, T!poolVars
<1>2. fd' \in [Clients -> Fds \cup {0}] /\ \A c \in Clients : fd'[c] \in {0, fd[c]}
  BY DEF ThreadTypes, T!Stop, T!Closing, T!Close, T!CloseListener, T!ShutClients, T!JoinPoller,
         T!JoinWorkers,
         T!CloseSockets
<1>3. ThreadTypes' /\ Stopped'
  <2>1. CASE T!Stop
    BY <2>1, <1>2 DEF ThreadTypes, Stopped, Closes, T!Stop, T!CloserGoes, T!Closers, T!clientVars
  <2>2. ASSUME NEW t \in T!Closers, T!Closing(t) PROVE ThreadTypes' /\ Stopped'
    <3>1. ThreadTypes'
      BY <1>1, <1>2, <2>2 DEF ThreadTypes, Closes, T!Closing, T!Close, T!CloseListener,
                             T!ShutClients,
         T!JoinPoller, T!JoinWorkers, T!CloserGoes, T!AfterClose
    <3>2. Stopped'
      BY <2>2 DEF ThreadTypes, Stopped, T!Closing, T!Close, T!CloseListener, T!ShutClients,
         T!JoinPoller, T!JoinWorkers, T!CloserGoes, T!AfterClose
    <3>. QED
      BY <3>1, <3>2
  <2>. QED
    BY <2>1, <2>2
<1>4. queue' \in Seq(Fds \cup {0})
  <2>1. CASE queue' = queue
    BY <2>1 DEF PoolTypes
  <2>2. queue \o T!Nones \in Seq(Fds \cup {0})
    BY NonesInQueue, ConcatProperties DEF PoolTypes
  <2>3. queue' \in {queue, queue \o T!Nones}
    BY DEF T!Stop, T!Closing, T!Close, T!CloseListener, T!ShutClients, T!JoinPoller,
       T!JoinWorkers, T!poolVars, T!ForWorkers
  <2>. QED
    BY <2>1, <2>2, <2>3
<1>5. AcceptorTypes' /\ PoolTypes' /\ Kinds' /\ Arriving' /\ FoundOnce'
  BY <1>1, <1>4 DEF AcceptorTypes, PoolTypes, Kinds, Arriving, FoundOnce
<1>6. Descriptors'
  BY <1>1, <1>2 DEF ThreadTypes, PoolTypes, Descriptors
<1>. QED
  BY <1>3, <1>5, <1>6

(* The poll thread.                                                        *)
LEMMA PollTables ==
  ASSUME Tables, T!Poll \/ T!PollEnds
  PROVE  Tables'
<1>. USE DEF Tables
<1>1. UNCHANGED <<T!clientVars, data, fd, T!startVars, session, fd_to_conn, polled, queue, worker,
                  stolen>>
  BY DEF T!Poll, T!PollEnds, T!clientVars, T!startVars
<1>2. /\ poller' \in [at : {"poll", "handle", "ended"}, found : SUBSET (Fds \X {"r", "h", "n"}),
                       fd : {0}, conn : {T!Nobody}, hung : {FALSE}]
      /\ FoundOnce'
  <2>1. CASE T!PollEnds
    BY <2>1 DEF FoundOnce, T!PollEnds, T!PollerGoes
  <2>2. CASE T!Poll
    <3>1. PICK bad \in SUBSET {f \in polled : T!Gone(f)} :
            poller' = [at |-> "handle", found |->
                        {<<f, "h">> : f \in bad}
                        \cup {<<f, "n">> : f \in {f \in polled : T!Invalid(f)}}
                        \cup {<<f, "r">> : f \in {f \in polled \ bad : T!Readable(f)}},
                       fd |-> 0, conn |-> T!Nobody, hung |-> FALSE]
      BY <2>2 DEF T!Poll, T!PollerGoes
    <3>2. \A f \in bad : ~T!Invalid(f)
      BY DEF T!Gone, T!Invalid
    <3>3. \A f \in polled : T!Readable(f) => ~T!Invalid(f)
      BY DEF T!Readable, T!Gone, T!Invalid
    <3>4. \A r \in poller'.found :
            \/ r[1] \in bad /\ r = <<r[1], "h">>
            \/ r[1] \in polled /\ T!Invalid(r[1]) /\ r = <<r[1], "n">>
            \/ r[1] \in polled \ bad /\ T!Readable(r[1]) /\ r = <<r[1], "r">>
      BY <3>1
    <3>5. FoundOnce'
      BY <1>1, <3>2, <3>3, <3>4 DEF FoundOnce
    <3>6. poller'.found \subseteq Fds \X {"r", "h", "n"}
      BY <3>1 DEF PoolTypes
    <3>. QED
      BY <3>1, <3>5, <3>6
  <2>. QED
    BY <2>1, <2>2
<1>3. ThreadTypes' /\ AcceptorTypes' /\ Kinds' /\ Stopped' /\ Arriving'
  BY <1>1 DEF ThreadTypes, AcceptorTypes, Kinds, Stopped, Arriving, T!clientVars, T!startVars
<1>4. PoolTypes' /\ Descriptors'
  BY <1>1, <1>2 DEF PoolTypes, Descriptors
<1>. QED
  BY <1>2, <1>3, <1>4

(* What a drop does to the map and to the descriptors: one that hits no    *)
(* other connection closes none but what hung up, and unmaps no open one.  *)
LEMMA DeleteEffect ==
  ASSUME ThreadTypes, PoolTypes, NEW f \in Fds, NEW c \in Clients \cup {T!Nobody},
         NEW hung \in BOOLEAN, T!Delete(f, c, hung)
  PROVE  /\ fd_to_conn' = [fd_to_conn EXCEPT ![f] = T!Nobody]
         /\ fd' = [d \in Clients |-> IF d = c THEN 0 ELSE fd[d]]
         /\ stolen' \in SUBSET Clients /\ stolen \subseteq stolen'
         /\ stolen' = {} => \A d \in Clients :
              d \in {c, fd_to_conn[f]} => fd[d] = 0 \/ (d = c /\ hung)
BY DEF T!Delete, T!CloseSockets, T!Open, PoolTypes

LEMMA HandleTables ==
  ASSUME Tables, NEW r \in poller.found, T!HandlePolled(r[1], r[2])
  PROVE  Tables'
<1>. USE DEF Tables
<1>. DEFINE f == r[1]
            left == poller.found \ {r}
<1>1. /\ f \in Fds /\ r = <<f, r[2]>> /\ r[2] \in {"r", "h", "n"}
      /\ UNCHANGED <<T!clientVars, data, fd, T!startVars, session, fd_to_conn, worker, stolen>>
  BY DEF PoolTypes, T!HandlePolled
<1>2. /\ polled' = polled \ {f}
      /\ queue' \in {queue, Append(queue, f)}
      /\ \/ poller' = [at |-> IF left = {} THEN "poll" ELSE "handle", found |-> left, fd |-> 0,
                       conn |-> T!Nobody, hung |-> FALSE]
         \/ /\ poller' = [at |-> "delete", found |-> left, fd |-> f, conn |-> fd_to_conn[f],
                          hung |-> r[2] = "h"]
            /\ fd_to_conn[f] # T!Nobody
  BY <1>1 DEF T!HandlePolled, T!PollerGoesOn, T!PollerGoes, T!Unpolled, T!Dropped
<1>3. FoundOnce'
  BY <1>1, <1>2 DEF FoundOnce
<1>. HIDE DEF f
<1>4. queue' \in Seq(Fds \cup {0})
  <2>1. queue \in Seq(Fds \cup {0}) /\ f \in Fds \cup {0}
    BY <1>1 DEF PoolTypes
  <2>2. Append(queue, f) \in Seq(Fds \cup {0})
    BY <2>1, AppendProperties
  <2>. QED
    BY <2>1, <2>2, <1>2
<1>5. fd_to_conn[f] \in Clients \cup {T!Nobody} /\ left \in SUBSET (Fds \X {"r", "h", "n"})
  BY <1>1 DEF PoolTypes
<1>. HIDE DEF left
<1>6. poller' \in [at : {"poll", "handle", "delete", "ended"},
                  found : SUBSET (Fds \X {"r", "h", "n"}), fd : Fds \cup {0},
                  conn : Clients \cup {T!Nobody}, hung : BOOLEAN]
  <2>1. (r[2] = "h") \in BOOLEAN /\ T!Nobody \in Clients \cup {T!Nobody}
    OBVIOUS
  <2>2. CASE poller' = [at |-> IF left = {} THEN "poll" ELSE "handle", found |-> left, fd |-> 0,
                        conn |-> T!Nobody, hung |-> FALSE]
    BY <1>5, <2>2
  <2>3. CASE poller' = [at |-> "delete", found |-> left, fd |-> f, conn |-> fd_to_conn[f],
                        hung |-> r[2] = "h"]
    BY <1>1, <1>5, <2>1, <2>3
  <2>. QED
    BY <1>2, <2>2, <2>3
<1>7. ThreadTypes' /\ AcceptorTypes' /\ Stopped' /\ Kinds' /\ Arriving'
  BY <1>1 DEF ThreadTypes, AcceptorTypes, Stopped, Kinds, Arriving, T!clientVars, T!startVars
<1>8. PoolTypes'
  BY <1>1, <1>2, <1>4, <1>6 DEF PoolTypes
<1>9. Descriptors'
  <2>1. poller'.at = "delete" => /\ poller'.fd \in Fds /\ poller'.conn \in Clients
                                 /\ fd[poller'.conn] \in {0, poller'.fd}
                                 /\ session[poller'.conn] = "pooled"
    BY <1>1, <1>2, <1>5 DEF Descriptors
  <2>. QED
    BY <1>1, <2>1 DEF Descriptors
<1>. QED
  BY <1>3, <1>7, <1>8, <1>9

(* The end of a drop, by the poll thread or by a worker.                   *)
LEMMA DeleteTables ==
  ASSUME Tables, NEW f \in Fds, NEW c \in Clients \cup {T!Nobody}, NEW hung \in BOOLEAN,
         T!Delete(f, c, hung), UNCHANGED <<T!clientVars, data, T!startVars, session>>
  PROVE  /\ ThreadTypes' /\ AcceptorTypes' /\ Stopped' /\ Kinds' /\ Arriving'
         /\ fd_to_conn' \in [Fds -> Clients \cup {T!Nobody}]
         /\ \A g \in Fds : fd_to_conn'[g] \in {T!Nobody, fd_to_conn[g]}
         /\ \A d \in Clients : fd'[d] \in {0, fd[d]}
         /\ stolen' \in SUBSET Clients
<1>. USE DEF Tables
<1>1. /\ fd_to_conn' = [fd_to_conn EXCEPT ![f] = T!Nobody]
      /\ fd' = [d \in Clients |-> IF d = c THEN 0 ELSE fd[d]]
      /\ stolen' \in SUBSET Clients
  BY DeleteEffect
<1>2. /\ fd_to_conn' \in [Fds -> Clients \cup {T!Nobody}]
      /\ \A g \in Fds : fd_to_conn'[g] \in {T!Nobody, fd_to_conn[g]}
      /\ fd' \in [Clients -> Fds \cup {0}]
      /\ \A d \in Clients : fd'[d] \in {0, fd[d]}
  BY <1>1 DEF ThreadTypes, PoolTypes
<1>3. ThreadTypes' /\ AcceptorTypes' /\ Stopped'
  BY <1>2 DEF ThreadTypes, AcceptorTypes, Stopped, T!clientVars, T!startVars
<1>4. Kinds' /\ Arriving'
  BY <1>2, Situation DEF PoolTypes, AcceptorTypes, Early, Kinds, Arriving, T!clientVars,
                         T!startVars
<1>. QED
  BY <1>1, <1>2, <1>3, <1>4

LEMMA DropTables ==
  ASSUME Tables, T!DropPolled
  PROVE  Tables'
<1>1. /\ poller.at = "delete" /\ poller.fd \in Fds /\ poller.hung \in BOOLEAN
      /\ poller.conn \in Clients \cup {T!Nobody}
      /\ T!Delete(poller.fd, poller.conn, poller.hung)
      /\ UNCHANGED <<T!clientVars, data, T!startVars, session, polled, queue, worker>>
  BY DEF Tables, PoolTypes, Descriptors, T!DropPolled
<1>2. poller' = [at |-> IF poller.found = {} THEN "poll" ELSE "handle", found |-> poller.found,
                 fd |-> 0, conn |-> T!Nobody, hung |-> FALSE]
  BY DEF T!DropPolled, T!PollerGoesOn, T!PollerGoes
<1>3. /\ ThreadTypes' /\ AcceptorTypes' /\ Stopped' /\ Kinds' /\ Arriving'
      /\ fd_to_conn' \in [Fds -> Clients \cup {T!Nobody}]
      /\ \A g \in Fds : fd_to_conn'[g] \in {T!Nobody, fd_to_conn[g]}
      /\ \A d \in Clients : fd'[d] \in {0, fd[d]}
      /\ stolen' \in SUBSET Clients
  BY <1>1, DeleteTables
<1>4. PoolTypes' /\ FoundOnce'
  BY <1>1, <1>2, <1>3 DEF Tables, PoolTypes, FoundOnce
<1>5. Descriptors'
  BY <1>1, <1>2, <1>3 DEF Tables, ThreadTypes, PoolTypes, Descriptors
<1>. QED
  BY <1>3, <1>4, <1>5 DEF Tables

(* Connection.__del__                                                      *)
LEMMA CollectTables ==
  ASSUME Tables, NEW c \in Clients, T!Collect(c)
  PROVE  Tables'
<1>1. /\ fd' \in [Clients -> Fds \cup {0}] /\ \A d \in Clients : fd'[d] \in {0, fd[d]}
      /\ UNCHANGED <<T!clientVars, data, T!startVars, session, T!poolVars>>
  BY DEF Tables, ThreadTypes, T!Collect, T!CloseSockets
<1>2. ThreadTypes' /\ AcceptorTypes' /\ PoolTypes' /\ Kinds' /\ Stopped'
  BY <1>1 DEF Tables, ThreadTypes, AcceptorTypes, PoolTypes, Kinds, Stopped, T!clientVars,
              T!startVars, T!poolVars
<1>3. Descriptors' /\ Arriving' /\ FoundOnce'
  BY <1>1 DEF Tables, ThreadTypes, PoolTypes, Descriptors, Arriving, FoundOnce, T!clientVars,
              T!startVars, T!poolVars
<1>. QED
  BY <1>2, <1>3 DEF Tables

(* The workers.                                                            *)
LEMMA WorkTables ==
  ASSUME Tables, NEW w \in Workers,
         T!Get(w) \/ T!ServeUnknown(w) \/ T!Serve(w) \/ T!HandlerEnds(w) \/ T!PutInactive(w)
           \/ T!DropClosed(w) \/ T!DeleteClosed(w)
  PROVE  Tables'
<1>. USE DEF Tables
<1>1. UNCHANGED <<T!clientVars, T!startVars, session, poller>>
  BY DEF T!Get, T!ServeUnknown, T!Serve, T!HandlerEnds, T!PutInactive, T!DropClosed,
         T!DeleteClosed
<1>2. worker[w].at \in Busy => worker[w].fd \in Fds
  BY DEF PoolTypes
<1>3. /\ fd' \in [Clients -> Fds \cup {0}] /\ \A c \in Clients : fd'[c] \in {0, fd[c]}
      /\ fd_to_conn' \in [Fds -> Clients \cup {T!Nobody}]
      /\ \A g \in Fds : fd_to_conn'[g] \in {T!Nobody, fd_to_conn[g]}
      /\ stolen' \in SUBSET Clients
  <2>1. CASE T!Serve(w)
    BY <2>1 DEF ThreadTypes, PoolTypes, T!Serve, T!CloseSockets
  <2>2. CASE T!DeleteClosed(w)
    <3>1. /\ worker[w].fd \in Fds /\ T!Delete(worker[w].fd, worker[w].conn, FALSE)
          /\ worker[w].conn \in Clients \cup {T!Nobody} /\ UNCHANGED data
      BY <2>2, <1>2 DEF Busy, PoolTypes, T!DeleteClosed
    <3>. QED
      BY <1>1, <3>1, DeleteTables DEF ThreadTypes
  <2>3. CASE UNCHANGED <<fd, fd_to_conn, stolen>>
    BY <2>3 DEF ThreadTypes, PoolTypes
  <2>. QED
    BY <2>1, <2>2, <2>3 DEF T!Get, T!ServeUnknown, T!HandlerEnds, T!PutInactive,
                               T!DropClosed
<1>4. polled' \in SUBSET Fds /\ polled \subseteq polled'
  BY <1>2 DEF PoolTypes, Busy, T!Get, T!ServeUnknown, T!Serve, T!HandlerEnds, T!PutInactive,
              T!DropClosed, T!DeleteClosed
<1>5. queue' \in Seq(Fds \cup {0})
  <2>1. queue # <<>> => Tail(queue) \in Seq(Fds \cup {0})
    BY HeadTailProperties DEF PoolTypes
  <2>2. Append(queue, worker[w].fd) \in Seq(Fds \cup {0})
    BY AppendProperties DEF PoolTypes
  <2>3. \/ queue' = queue
        \/ queue' = Append(queue, worker[w].fd)
        \/ queue # <<>> /\ queue' = Tail(queue)
    BY DEF T!Get, T!ServeUnknown, T!Serve, T!HandlerEnds, T!PutInactive, T!DropClosed,
           T!DeleteClosed, T!AfterBatch, T!PutBack
  <2>. QED
    BY <2>1, <2>2, <2>3 DEF PoolTypes
<1>6. /\ data' \in [Clients -> Nat]
      /\ \A c \in Clients : data'[c] <= data[c]
  <2>1. CASE data' = data
    BY <2>1 DEF ThreadTypes
  <2>2. ASSUME NEW c \in Clients, data[c] > 0, data' = [data EXCEPT ![c] = @ - 1]
        PROVE  /\ data' \in [Clients -> Nat]
               /\ \A d \in Clients : data'[d] <= data[d]
    BY <2>2 DEF ThreadTypes
  <2>3. CASE T!Serve(w)
    BY <2>1, <2>2, <2>3, <1>2 DEF Busy, PoolTypes, T!Serve
  <2>. QED
    BY <2>1, <2>3 DEF T!Get, T!ServeUnknown, T!HandlerEnds, T!PutInactive, T!DropClosed,
                         T!DeleteClosed
<1>7. ThreadTypes' /\ AcceptorTypes' /\ Stopped'
  BY <1>1, <1>3, <1>6, Situation DEF ThreadTypes, AcceptorTypes, Stopped, T!clientVars, T!startVars
<1>8. /\ worker' \in [Workers -> [at : Busy \cup {"get", "waiting", "ended"}, fd : Fds \cup {0},
                                  conn : Clients \cup {T!Nobody}, left : Nat]]
      /\ \A u \in Workers \ {w} : worker'[u] = worker[u]
      /\ (worker'[w].fd = 0) <=> (worker'[w].at \notin Busy)
      /\ worker'[w].at \in Busy => worker'[w].left # 0
      /\ worker'[w].at = "handler" => worker'[w].conn \in Clients
      /\ worker'[w].at = "handler" => /\ session[worker'[w].conn] = "pooled"
                                      /\ fd[worker'[w].conn] \in {0, worker'[w].fd}
  <2>1. setup.batch \in Nat \ {0}
    BY Situation DEF ThreadTypes
  <2>2. CASE T!WorkerIsFree(w)
    BY <2>2 DEF PoolTypes, Busy, T!WorkerIsFree
  <2>3. CASE T!Get(w)
    <3>1. queue # <<>> => Head(queue) \in Fds \cup {0}
      BY HeadTailProperties DEF PoolTypes
    <3>2. CASE worker[w].at = "get" /\ T!WorkerGoes(w, "ended")
      BY <3>2, ZenonT(40) DEF PoolTypes, Busy, T!WorkerGoes
    <3>3. CASE worker[w].at = "get" /\ T!WorkerGoes(w, "waiting")
      BY <3>3, ZenonT(40) DEF PoolTypes, Busy, T!WorkerGoes
    <3>4. CASE /\ queue # <<>> /\ Head(queue) # 0
               /\ worker' = [worker EXCEPT ![w] = [at |-> "serve", fd |-> Head(queue),
                                                  conn |-> T!Nobody, left |-> setup.batch]]
      BY <3>1, <3>4, <2>1 DEF PoolTypes, Busy
    <3>. QED
      BY <3>2, <3>3, <3>4, <2>2, <2>3, Zenon DEF T!Get
  <2>4. CASE T!Serve(w)
    <3>. DEFINE c == fd_to_conn[worker[w].fd]
    <3>1. /\ worker[w].at = "serve" /\ c \in Clients
          /\ session[c] = "pooled" /\ fd[c] \in {0, worker[w].fd}
      BY <1>2, <2>4 DEF PoolTypes, Descriptors, Busy, T!Serve
    <3>. HIDE DEF c
    <3>2. CASE worker' = [worker EXCEPT ![w].at = "handler", ![w].conn = c]
      BY <3>1, <3>2, ZenonT(40) DEF PoolTypes, Busy
    <3>3. CASE T!WorkerGoes(w, "inactive")
      BY <3>1, <3>3, ZenonT(40) DEF PoolTypes, Busy, T!WorkerGoes
    <3>4. CASE T!WorkerGoes(w, "drop")
      BY <3>1, <3>4, ZenonT(40) DEF PoolTypes, Busy, T!WorkerGoes
    <3>. QED
      BY <3>2, <3>3, <3>4, <2>4, Zenon DEF T!Serve, c
  <2>5. CASE T!HandlerEnds(w)
    <3>1. CASE T!WorkerGoes(w, "drop")
      BY <3>1, <2>5 DEF PoolTypes, Busy, T!HandlerEnds, T!WorkerGoes
    <3>2. CASE /\ worker[w].left # 1 /\ worker[w].at = "handler"
               /\ worker' = [worker EXCEPT ![w].at = "serve", ![w].conn = T!Nobody, ![w].left = @ - 1]
      <4>1. worker[w].left \in Nat \ {0} /\ worker[w].left - 1 \in Nat \ {0}
        BY <3>2 DEF PoolTypes, Busy
      <4>. QED
        BY <3>2, <4>1 DEF PoolTypes, Busy
    <3>3. \/ T!WorkerGoes(w, "drop") \/ T!WorkerIsFree(w)
          \/ /\ worker[w].left # 1 /\ worker[w].at = "handler"
             /\ worker' = [worker EXCEPT ![w].at = "serve", ![w].conn = T!Nobody, ![w].left = @ - 1]
      BY <2>5, Zenon DEF T!HandlerEnds, T!AfterBatch, T!PutBack
    <3>. QED
      BY <3>1, <3>2, <3>3, <2>2
  <2>6. CASE /\ worker[w].at = "drop"
             /\ worker' = [worker EXCEPT ![w].at = "delete", ![w].conn = fd_to_conn[worker[w].fd]]
    <3>1. worker[w].fd \in Fds /\ fd_to_conn[worker[w].fd] \in Clients \cup {T!Nobody}
      BY <1>2, <2>6 DEF PoolTypes, Busy
    <3>. QED
      BY <2>6, <3>1, ZenonT(40) DEF PoolTypes, Busy
  <2>7. \/ T!Get(w) \/ T!Serve(w) \/ T!HandlerEnds(w) \/ T!WorkerIsFree(w)
        \/ /\ worker[w].at = "drop"
           /\ worker' = [worker EXCEPT ![w].at = "delete", ![w].conn = fd_to_conn[worker[w].fd]]
    BY DEF T!ServeUnknown, T!PutBack, T!PutInactive, T!DropClosed, T!DeleteClosed, T!Dropped
  <2>. QED
    BY <2>2, <2>3, <2>4, <2>5, <2>6, <2>7, Zenon
<1>9. PoolTypes'
  BY <1>1, <1>3, <1>4, <1>5, <1>8, ZenonT(40) DEF PoolTypes
<1>10. Kinds' /\ Arriving' /\ FoundOnce'
  BY <1>1, <1>3, <1>4, Situation DEF PoolTypes, AcceptorTypes, Early, Kinds, Arriving, FoundOnce,
                         T!clientVars,
     T!startVars
<1>11. Descriptors'
  <2>1. \A u \in Workers : worker'[u].at = "handler" =>
          fd'[worker'[u].conn] \in {0, worker'[u].fd} /\ session'[worker'[u].conn] = "pooled"
    <3>1. \A u \in Workers : worker'[u].at = "handler" =>
            /\ worker'[u].conn \in Clients /\ session[worker'[u].conn] = "pooled"
            /\ fd[worker'[u].conn] \in {0, worker'[u].fd}
      <4>. SUFFICES ASSUME NEW u \in Workers, worker'[u].at = "handler"
                    PROVE  /\ worker'[u].conn \in Clients /\ session[worker'[u].conn] = "pooled"
                           /\ fd[worker'[u].conn] \in {0, worker'[u].fd}
        OBVIOUS
      <4>1. CASE u = w
        BY <1>8, <4>1
      <4>2. CASE u # w
        <5>1. worker'[u] = worker[u]
          BY <1>8, <4>2
        <5>. QED
          BY <5>1 DEF PoolTypes, Descriptors
      <4>. QED
        BY <4>1, <4>2
    <3>. QED
      BY <1>1, <1>3, <3>1
  <2>2. poller'.at = "delete" => /\ poller'.fd \in Fds /\ poller'.conn \in Clients
                                 /\ fd'[poller'.conn] \in {0, poller'.fd}
                                 /\ session[poller'.conn] = "pooled"
    BY <1>1, <1>3 DEF Descriptors
  <2>. QED
    BY <1>1, <1>3, <2>1, <2>2, Situation DEF ThreadTypes, PoolTypes, Descriptors
<1>. QED
  BY <1>7, <1>9, <1>10, <1>11

-----------------------------------------------------------------------------
(* A pool keeps each connection in one place, until a drop hits another.   *)

(* A connection stays where it is, if it stays open at all.                *)
LEMMA OpenKept ==
  ASSUME Tables, OpenPlaced,
         \A c \in Clients, f \in Fds : fd'[c] = f =>
           /\ fd[c] = f
           /\ fd_to_conn[f] = c => fd_to_conn'[f] = c
           /\ Arrives(c) => Arrives(c)'
           /\ T!Places(f) \in {0, 1} => T!Places(f)' = T!Places(f)
  PROVE  OpenPlaced'
BY DEF OpenPlaced

LEMMA StrayKept ==
  ASSUME NoStray, active' => active, UNCHANGED fd,
         \A f \in Fds : T!Places(f) = 0 => T!Places(f)' = 0
  PROVE  NoStray'
BY DEF NoStray

LEMMA HandlersKept ==
  ASSUME Tables, HandlersOwn,
         \A w \in Workers : worker'[w].at = "handler" =>
           /\ worker[w].at = "handler" /\ worker'[w].fd = worker[w].fd
           /\ worker'[w].conn = worker[w].conn,
         \A c \in Clients : fd'[c] \in {0, fd[c]}
  PROVE  HandlersOwn'
BY DEF Tables, PoolTypes, Busy, HandlersOwn

(* Whose descriptor it is that has a place.                                *)
LEMMA Owned ==
  ASSUME Tables, Placed, NEW f \in Fds, T!Places(f) # 0
  PROVE  \/ \E c \in Clients : fd[c] = f /\ fd_to_conn[f] = c /\ T!Places(f) = 1
         \/ ~active /\ \A c \in Clients : fd[c] # f
BY DEF Placed, OpenPlaced, NoStray

(* A step of other threads changes no place.                               *)
LEMMA PlacesSame ==
  ASSUME UNCHANGED <<polled, queue, worker>>, NEW f, Registers(f)' <=> Registers(f),
         Drops(f)' <=> Drops(f)
  PROVE  T!Places(f)' = T!Places(f)
BY DEF T!Places, Registers, Drops

(* A step of one worker.                                                   *)
LEMMA WorkerPlaces ==
  ASSUME Tables, NEW w \in Workers, \A u \in Workers \ {w} : worker'[u] = worker[u],
         UNCHANGED <<acceptor, poller>>, queue' \in Seq(Fds \cup {0}), NEW f
  PROVE  /\ T!Places(f) \in Nat /\ T!Places(f)' \in Nat
         /\ CountOf(f, queue) \in Nat /\ CountOf(f, queue') \in Nat
         /\ T!Places(f)' + One(f \in polled) + CountOf(f, queue) + One(Has(w, f))
              = T!Places(f) + One(f \in polled') + CountOf(f, queue') + One(Has(w, f)')
         /\ One(f \in polled) + One(Has(w, f)) <= T!Places(f)
<1>1. IsFiniteSet(Workers) /\ queue \in Seq(Fds \cup {0})
  BY Situation DEF Tables, PoolTypes
<1>2. /\ T!Places(f) = One(f \in polled) + CountOf(f, queue) + Held(f) + Waiting(f)
      /\ CountOf(f, queue) \in Nat /\ T!Places(f) \in Nat
  BY <1>1, PlacesParts
<1>3. /\ T!Places(f)' = One(f \in polled') + CountOf(f, queue') + Held(f)' + Waiting(f)'
      /\ CountOf(f, queue') \in Nat /\ T!Places(f)' \in Nat
  BY <1>1, PlacesPartsNext
<1>4. /\ Held(f) \in Nat /\ Held(f)' \in Nat
      /\ Held(f)' + One(Has(w, f)) = Held(f) + One(Has(w, f)')
  BY <1>1, HeldChanges
<1>5. One(Has(w, f)) <= Held(f)
  <2>1. Held(f) \in Nat /\ (Has(w, f) => Held(f) # 0)
    BY <1>1, HeldNat
  <2>. QED
    BY <2>1 DEF One
<1>6. Waiting(f)' = Waiting(f)
  BY DEF Waiting, Registers, Drops
<1>. DEFINE p == T!Places(f)
            q == T!Places(f)'
            a == One(f \in polled)
            b == One(f \in polled')
            c == CountOf(f, queue)
            d == CountOf(f, queue')
            h == Held(f)
            k == Held(f)'
            x == One(Has(w, f))
            y == One(Has(w, f)')
            r == Waiting(f)
<1>7. a \in Nat /\ b \in Nat /\ x \in Nat /\ y \in Nat /\ r \in Nat
  BY DEF One, Waiting
<1>8. /\ p = a + c + h + r /\ p \in Nat /\ c \in Nat
      /\ q = b + d + k + r /\ q \in Nat /\ d \in Nat
      /\ h \in Nat /\ k \in Nat /\ k + x = h + y /\ x <= h
  BY <1>2, <1>3, <1>4, <1>5, <1>6
<1>. HIDE DEF a, b, c, d, h, k, p, q, r, x, y
<1>9. q + a + c + x = p + b + d + y /\ a + x <= p
  BY <1>7, <1>8
<1>. QED
  BY <1>8, <1>9 DEF a, b, c, d, p, q, x, y

(* A step of any other thread.                                             *)
LEMMA OtherPlaces ==
  ASSUME Tables, UNCHANGED worker, queue' \in Seq(Fds \cup {0}), NEW f
  PROVE  /\ T!Places(f) \in Nat /\ T!Places(f)' \in Nat
         /\ CountOf(f, queue) \in Nat /\ CountOf(f, queue') \in Nat
         /\ T!Places(f)' + One(f \in polled) + CountOf(f, queue) + Waiting(f)
              = T!Places(f) + One(f \in polled') + CountOf(f, queue') + Waiting(f)'
         /\ One(f \in polled) + Waiting(f) <= T!Places(f)
<1>1. IsFiniteSet(Workers) /\ queue \in Seq(Fds \cup {0})
  BY Situation DEF Tables, PoolTypes
<1>2. /\ T!Places(f) = One(f \in polled) + CountOf(f, queue) + Held(f) + Waiting(f)
      /\ CountOf(f, queue) \in Nat /\ Held(f) \in Nat /\ T!Places(f) \in Nat
  BY <1>1, PlacesParts
<1>3. /\ T!Places(f)' = One(f \in polled') + CountOf(f, queue') + Held(f)' + Waiting(f)'
      /\ CountOf(f, queue') \in Nat /\ T!Places(f)' \in Nat
  BY <1>1, PlacesPartsNext
<1>4. Held(f)' = Held(f)
  BY DEF Held, Has
<1>. DEFINE p == T!Places(f)
            q == T!Places(f)'
            a == One(f \in polled)
            b == One(f \in polled')
            c == CountOf(f, queue)
            d == CountOf(f, queue')
            h == Held(f)
            r == Waiting(f)
            s == Waiting(f)'
<1>5. a \in Nat /\ b \in Nat /\ r \in Nat /\ s \in Nat
  BY DEF One, Waiting
<1>6. /\ p = a + c + h + r /\ p \in Nat /\ c \in Nat /\ h \in Nat
      /\ q = b + d + h + s /\ q \in Nat /\ d \in Nat
  BY <1>2, <1>3, <1>4
<1>. HIDE DEF a, b, c, d, h, p, q, r, s
<1>7. q + a + c + r = p + b + d + s /\ a + r <= p
  BY <1>5, <1>6
<1>. QED
  BY <1>6, <1>7 DEF a, b, c, d, p, q, r, s

-----------------------------------------------------------------------------
(* The clients, start() at its end, the poll thread while it looks, and    *)
(* close(), but for what it does to the connections.                       *)
LEMMA OthersPlaced ==
  ASSUME Tables, Placed, UNCHANGED <<fd, fd_to_conn, polled, queue, worker>>, active' => active,
         UNCHANGED acceptor \/ T!StartEnds, UNCHANGED poller \/ T!Poll \/ T!PollEnds
  PROVE  Placed'
<1>1. \A f \in Fds : (Registers(f)' <=> Registers(f)) /\ (Drops(f)' <=> Drops(f))
  BY DEF Tables, AcceptorTypes, Registers, Drops, T!StartEnds, T!AcceptorGoes, T!Poll, T!PollEnds,
         T!PollerGoes
<1>2. \A c \in Clients : Arrives(c) => Arrives(c)'
  BY DEF Arrives, Early, T!StartEnds
<1>3. \A f \in Fds : T!Places(f)' = T!Places(f)
  BY <1>1, PlacesSame
<1>4. OpenPlaced'
  BY <1>2, <1>3, OpenKept DEF Placed
<1>5. NoStray' /\ HandlersOwn'
  BY <1>3, StrayKept, HandlersKept DEF Placed
<1>. QED
  BY <1>4, <1>5 DEF Placed

LEMMA JoinPlaced ==
  ASSUME Tables, Placed, NEW t, T!JoinPoller(t)
  PROVE  Placed'
<1>1. UNCHANGED <<fd, fd_to_conn, polled, worker, acceptor, poller, active>>
  BY DEF T!JoinPoller
<1>2. \A f \in Fds : T!Places(f)' = T!Places(f)
  <2>. SUFFICES ASSUME NEW f \in Fds PROVE T!Places(f)' = T!Places(f)
    OBVIOUS
  <2>1. IsFiniteSet(Workers)
    BY Situation
  <2>2. queue \in Seq(Fds \cup {0})
    BY DEF Tables, PoolTypes
  <2>3. queue' = queue \o T!Nones
    BY DEF T!JoinPoller, T!ForWorkers
  <2>4. queue' \in Seq(Fds \cup {0}) /\ CountOf(f, queue') = CountOf(f, queue)
    <3>. DEFINE S == Fds \cup {0}
    <3>1. /\ queue \in Seq(S) /\ T!Nones \in Seq(S)
          /\ \A i \in 1..Len(T!Nones) : T!Nones[i] # f
      BY <2>2, NonesInQueue
    <3>. HIDE DEF S
    <3>2. /\ queue \o T!Nones \in Seq(S)
          /\ CountOf(f, queue \o T!Nones) = CountOf(f, queue)
      BY <3>1, CountConcat
    <3>. QED
      BY <2>3, <3>2, Zenon DEF S
  <2>5. Held(f)' = Held(f) /\ Waiting(f)' = Waiting(f)
    BY <1>1 DEF Held, Has, Waiting, Registers, Drops
  <2>6. T!Places(f) = One(f \in polled) + CountOf(f, queue) + Held(f) + Waiting(f)
    BY <2>1, <2>2, PlacesParts
  <2>7. T!Places(f)' = One(f \in polled') + CountOf(f, queue') + Held(f)' + Waiting(f)'
    BY <2>1, <2>4, PlacesPartsNext
  <2>. QED
    BY <1>1, <2>4, <2>5, <2>6, <2>7 DEF One
<1>3. OpenPlaced'
  BY <1>1, <1>2, OpenKept DEF Placed, Arrives
<1>4. NoStray' /\ HandlersOwn'
  BY <1>1, <1>2, StrayKept, HandlersKept DEF Placed
<1>. QED
  BY <1>3, <1>4 DEF Placed

LEMMA ShutPlaced ==
  ASSUME Tables, Placed, NEW t \in T!Closers, T!ShutClients(t)
  PROVE  Placed'
<1>1. /\ ~active' /\ UNCHANGED <<fd_to_conn, polled, queue, worker, poller, acceptor>>
      /\ \A c \in Clients : fd'[c] \in {0, fd[c]}
  BY DEF T!ShutClients, T!CloseSockets, T!poolVars, Tables, Stopped, ThreadTypes
<1>2. \A f \in Fds : T!Places(f)' = T!Places(f)
  BY <1>1, PlacesSame DEF Registers, Drops
<1>3. OpenPlaced'
  BY <1>1, <1>2, Situation, OpenKept DEF Placed, Arrives
<1>4. NoStray' /\ HandlersOwn'
  BY <1>1, HandlersKept DEF Placed, NoStray
<1>. QED
  BY <1>3, <1>4 DEF Placed

(* start(): a connection arrives with a descriptor that nobody has, and    *)
(* that is nowhere.                                                        *)
LEMMA AcceptPlaced ==
  ASSUME Tables, Placed, NEW c \in Clients, NEW f \in Fds, T!Accept(c, f)
  PROVE  Placed'
<1>1. /\ fd' = [fd EXCEPT ![c] = f] /\ \A d \in Clients : fd[d] # f
      /\ acceptor.at = "accept" /\ acceptor' = [at |-> "accepted", of |-> c]
      /\ active /\ fd[c] = 0 /\ UNCHANGED <<active, fd_to_conn, polled, queue, worker, poller>>
  BY DEF T!Accept, T!Free, T!Open, T!poolVars
<1>2. \A g \in Fds : T!Places(g)' = T!Places(g)
  BY <1>1, PlacesSame DEF Registers, Drops
<1>3. T!Places(f) = 0
  BY <1>1 DEF Placed, NoStray
<1>4. \A d \in Clients : fd'[d] = IF d = c THEN f ELSE fd[d]
  BY <1>1 DEF Tables, ThreadTypes
<1>5. OpenPlaced'
  <2>1. Arrives(c)' /\ \A d \in Clients : ~Arrives(d)
    BY <1>1 DEF Arrives, Early
  <2>. QED
    BY <1>1, <1>2, <1>3, <1>4, <2>1 DEF Placed, OpenPlaced
<1>6. NoStray'
  BY <1>1, <1>2, <1>4, Situation DEF Placed, NoStray
<1>7. HandlersOwn'
  <2>1. \A w \in Workers : worker[w].at = "handler" => worker[w].fd # f
    <3>. SUFFICES ASSUME NEW w \in Workers, worker[w].at = "handler", worker[w].fd = f PROVE FALSE
      OBVIOUS
    <3>1. Has(w, f)
      BY DEF Has
    <3>. QED
      BY <3>1, <1>3, Situation, Somewhere DEF Tables, PoolTypes
  <2>. QED
    BY <1>1, <1>4, <2>1 DEF Placed, HandlersOwn
<1>. QED
  BY <1>5, <1>6, <1>7 DEF Placed

LEMMA AdmitPlaced ==
  ASSUME Tables, Placed, setup.kind = "pool", T!CheckActive \/ T!Admit
  PROVE  Placed'
<1>1. /\ UNCHANGED <<fd_to_conn, polled, queue, worker, poller, active>>
      /\ acceptor.at \in {"accepted", "admit"} /\ acceptor'.at \in {"accept", "admit", "build"}
      /\ acceptor'.of = acceptor.of
  BY DEF Tables, AcceptorTypes, T!CheckActive, T!Admit, T!AcceptorGoes, T!poolVars, T!kind
<1>2. \A f \in Fds : T!Places(f)' = T!Places(f)
  BY <1>1, PlacesSame DEF Registers, Drops
<1>3. \/ fd' = fd /\ acceptor'.at \in Early
      \/ /\ ~active
         /\ \A c \in Clients : fd'[c] = IF c = acceptor.of THEN 0 ELSE fd[c]
  BY DEF Tables, AcceptorTypes, Early, T!CheckActive, T!Admit, T!AcceptorGoes, T!CloseSockets,
         T!kind
<1>4. OpenPlaced'
  BY <1>1, <1>2, <1>3, Situation, OpenKept DEF Placed, Arrives
<1>5. NoStray'
  BY <1>1, <1>2, <1>3 DEF Placed, NoStray
<1>6. HandlersOwn'
  BY <1>1, <1>3, HandlersKept DEF Placed
<1>. QED
  BY <1>4, <1>5, <1>6 DEF Placed

(* _authenticate_and_build_connection: into the map, and to be registered; *)
(* or closed again, when it is nowhere yet.                                *)
LEMMA BuildFailsPlaced ==
  ASSUME Tables, Placed, T!BuildFails
  PROVE  Placed'
<1>. DEFINE c == acceptor.of
<1>1. /\ c \in Clients /\ acceptor.at = "build" /\ acceptor'.at = "accept"
      /\ UNCHANGED <<fd_to_conn, polled, queue, worker, poller, active>>
      /\ \A d \in Clients : fd'[d] = IF d = c THEN 0 ELSE fd[d]
      /\ \A f \in Fds : fd_to_conn[f] # c
  BY DEF Tables, AcceptorTypes, Arriving, Early, T!BuildFails, T!AcceptorGoes, T!CloseSockets,
         T!poolVars
<1>2. \A f \in Fds : T!Places(f)' = T!Places(f)
  BY <1>1, PlacesSame DEF Registers, Drops
<1>3. OpenPlaced'
  BY <1>1, <1>2, Situation, OpenKept DEF Placed, Arrives
<1>4. \A f \in Fds : fd[c] = f => T!Places(f) = 0
  BY <1>1 DEF Placed, OpenPlaced
<1>5. NoStray'
  BY <1>1, <1>2, <1>4 DEF Placed, NoStray
<1>6. HandlersOwn'
  BY <1>1, HandlersKept DEF Placed
<1>. QED
  BY <1>3, <1>5, <1>6 DEF Placed

LEMMA BuildPlaced ==
  ASSUME Tables, Placed, T!Build
  PROVE  Placed'
<1>. DEFINE c == acceptor.of
            f == fd[c]
<1>1. /\ c \in Clients /\ acceptor.at = "build" /\ acceptor' = [at |-> "register", of |-> f]
      /\ UNCHANGED <<fd, polled, queue, worker, poller, active>>
      /\ f \in Fds /\ fd_to_conn' = [fd_to_conn EXCEPT ![f] = c] /\ fd_to_conn[f] # c
  BY DEF Tables, ThreadTypes, AcceptorTypes, Arriving, Early, T!Build, T!Open
<1>2. T!Places(f) = 0
  BY <1>1 DEF Placed, OpenPlaced
<1>3. \A d \in Clients : fd[d] = f => d = c
  BY <1>1, Situation DEF Tables, Descriptors
<1>. HIDE DEF c, f
<1>4. \A g \in Fds : T!Places(g)' = IF g = f THEN 1 ELSE T!Places(g)
  <2>. SUFFICES ASSUME NEW g \in Fds PROVE T!Places(g)' = IF g = f THEN 1 ELSE T!Places(g)
    OBVIOUS
  <2>1. IsFiniteSet(Workers) /\ queue \in Seq(Fds \cup {0}) /\ queue' \in Seq(Fds \cup {0})
    BY <1>1, Situation DEF Tables, PoolTypes
  <2>2. /\ T!Places(g) = One(g \in polled) + CountOf(g, queue) + Held(g) + Waiting(g)
        /\ CountOf(g, queue) \in Nat /\ Held(g) \in Nat
    BY <2>1, PlacesParts
  <2>3. T!Places(g)' = One(g \in polled') + CountOf(g, queue') + Held(g)' + Waiting(g)'
    BY <2>1, PlacesPartsNext
  <2>4. One(g \in polled') = One(g \in polled) /\ CountOf(g, queue') = CountOf(g, queue) /\ Held(g)' = Held(g)
    BY <1>1 DEF Held, Has, CountOf
  <2>5. Waiting(g)' = Waiting(g) + One(g = f) /\ Waiting(g) \in Nat
    BY <1>1 DEF One, Waiting, Registers, Drops
  <2>6. T!Places(g)' = T!Places(g) + One(g = f)
    <3>1. One(g = f) \in Nat /\ One(g \in polled) \in Nat
      BY DEF One
    <3>. QED
      BY <2>2, <2>3, <2>4, <2>5, <3>1
  <2>7. T!Places(g) \in Nat
    BY <2>1, PlacesParts
  <2>. QED
    BY <1>2, <2>6, <2>7 DEF One
<1>5. OpenPlaced'
  <2>. SUFFICES ASSUME NEW d \in Clients, NEW g \in Fds, fd[d] = g
                PROVE  \/ fd_to_conn'[g] = d /\ T!Places(g)' = 1
                       \/ Arrives(d)' /\ T!Places(g)' = 0
    BY <1>1 DEF OpenPlaced
  <2>1. CASE g = f
    BY <2>1, <1>1, <1>3, <1>4 DEF Tables, PoolTypes
  <2>2. CASE g # f
    <3>1. d # c
      BY <2>2 DEF f
    <3>2. fd_to_conn[g] = d /\ T!Places(g) = 1
      BY <3>1, <1>1 DEF Placed, OpenPlaced, Arrives, c
    <3>. QED
      BY <2>2, <3>2, <1>1, <1>4 DEF Tables, PoolTypes
  <2>. QED
    BY <2>1, <2>2
<1>6. NoStray'
  BY <1>1, <1>4 DEF Placed, NoStray, One, c, f
<1>7. HandlersOwn'
  BY <1>1, HandlersKept DEF Placed, Tables, ThreadTypes
<1>. QED
  BY <1>5, <1>6, <1>7 DEF Placed

LEMMA RegisterPlaced ==
  ASSUME Tables, Placed, T!Register
  PROVE  Placed'
<1>. DEFINE f == acceptor.of
<1>1. /\ f \in Fds /\ acceptor.at = "register" /\ acceptor'.at = "accept"
      /\ polled' = polled \cup {f}
      /\ UNCHANGED <<fd, fd_to_conn, queue, worker, poller, active>>
  BY DEF Tables, AcceptorTypes, T!Register
<1>2. \A g \in Fds : T!Places(g) \in {0, 1} => T!Places(g)' = T!Places(g)
  <2>. SUFFICES ASSUME NEW g \in Fds, T!Places(g) \in {0, 1} PROVE T!Places(g)' = T!Places(g)
    OBVIOUS
  <2>1. queue' \in Seq(Fds \cup {0})
    BY <1>1 DEF Tables, PoolTypes
  <2>2. /\ T!Places(g) \in Nat /\ T!Places(g)' \in Nat /\ CountOf(g, queue) \in Nat
        /\ T!Places(g)' + One(g \in polled) + CountOf(g, queue) + Waiting(g)
             = T!Places(g) + One(g \in polled') + CountOf(g, queue') + Waiting(g)'
        /\ One(g \in polled) + Waiting(g) <= T!Places(g)
    BY <1>1, <2>1, OtherPlaces
  <2>3. Waiting(g) = Waiting(g)' + One(g = f) /\ Waiting(g)' \in Nat
    BY <1>1 DEF One, Waiting, Registers, Drops
  <2>4. One(g \in polled') = IF g = f THEN 1 ELSE One(g \in polled)
    BY <1>1 DEF One
  <2>5. One(g \in polled) \in {0, 1} /\ One(g = f) = IF g = f THEN 1 ELSE 0
    BY DEF One
  <2>6. CountOf(g, queue') = CountOf(g, queue)
    BY <1>1
  <2>. HIDE DEF f
  <2>. QED
    BY <2>2, <2>3, <2>4, <2>5, <2>6
<1>3. OpenPlaced'
  BY <1>1, <1>2, OpenKept DEF Placed, Arrives, Early
<1>4. NoStray' /\ HandlersOwn'
  BY <1>1, <1>2, StrayKept, HandlersKept DEF Placed, Tables, ThreadTypes
<1>. QED
  BY <1>3, <1>4 DEF Placed

(* _poll_inactive_clients: from the poll object to the queue, or to the    *)
(* drop; or away, if the map has no connection for it.                     *)
LEMMA HandlePlaced ==
  ASSUME Tables, Placed, NEW r \in poller.found, T!HandlePolled(r[1], r[2])
  PROVE  Placed'
<1>. DEFINE f == r[1]
<1>1. /\ f \in Fds /\ f \in polled /\ polled' = polled \ {f}
      /\ UNCHANGED <<fd, fd_to_conn, worker, acceptor, active>>
      /\ poller.at = "handle"
  BY DEF Tables, PoolTypes, FoundOnce, T!HandlePolled, T!Unpolled, T!startVars
<1>2. \/ /\ queue' = Append(queue, f) /\ poller'.at # "delete"
      \/ /\ queue' = queue /\ poller'.at = "delete" /\ poller'.fd = f
      \/ /\ queue' = queue /\ poller'.at # "delete" /\ fd_to_conn[f] = T!Nobody
  BY DEF T!HandlePolled, T!PollerGoesOn, T!PollerGoes, T!Dropped
<1>. HIDE DEF f
<1>3. queue \in Seq(Fds \cup {0}) /\ f \in Fds \cup {0}
  BY <1>1 DEF Tables, PoolTypes
<1>4. queue' \in Seq(Fds \cup {0})
  <2>. DEFINE longer == Append(queue, f)
  <2>1. longer \in Seq(Fds \cup {0})
    BY <1>3, AppendProperties
  <2>2. queue' = longer \/ queue' = queue
    BY <1>2
  <2>. HIDE DEF longer
  <2>. QED
    BY <1>3, <2>1, <2>2
<1>5. ASSUME NEW g \in Fds
      PROVE  /\ T!Places(g) \in Nat /\ T!Places(g)' \in Nat
             /\ CountOf(g, queue) \in Nat /\ CountOf(g, queue') \in Nat
             /\ T!Places(g)' + One(g = f) + CountOf(g, queue)
                  = T!Places(g) + CountOf(g, queue') + One(Drops(g)')
  <2>1. /\ T!Places(g) \in Nat /\ T!Places(g)' \in Nat
        /\ CountOf(g, queue) \in Nat /\ CountOf(g, queue') \in Nat
        /\ T!Places(g)' + One(g \in polled) + CountOf(g, queue) + Waiting(g)
             = T!Places(g) + One(g \in polled') + CountOf(g, queue') + Waiting(g)'
    BY <1>1, <1>4, OtherPlaces
  <2>2. One(g \in polled) = One(g = f) + One(g \in polled')
    BY <1>1 DEF One
  <2>3. Waiting(g)' = Waiting(g) + One(Drops(g)')
    BY <1>1 DEF Waiting, One, Registers, Drops
  <2>. DEFINE a == One(g \in polled)
              b == One(g \in polled')
              x == One(g = f)
              m == Waiting(g)
              y == One(Drops(g)')
  <2>4. a \in Nat /\ b \in Nat /\ x \in Nat /\ m \in Nat /\ y \in Nat
    BY DEF One, Waiting
  <2>5. /\ T!Places(g)' + a + CountOf(g, queue) + m = T!Places(g) + b + CountOf(g, queue') + (m + y)
        /\ a = x + b
    BY <2>1, <2>2, <2>3
  <2>. HIDE DEF a, b, x, m, y
  <2>6. T!Places(g)' + x + CountOf(g, queue) = T!Places(g) + CountOf(g, queue') + y
    BY <2>1, <2>4, <2>5
  <2>. QED
    BY <2>1, <2>6 DEF x, y
<1>6. \A c \in Clients : Arrives(c)' <=> Arrives(c)
  BY <1>1 DEF Arrives
<1>7. HandlersOwn'
  BY <1>1, HandlersKept DEF Placed, Tables, ThreadTypes
<1>8. ASSUME \A g \in Fds : T!Places(g)' = T!Places(g)
      PROVE  Placed'
  <2>1. OpenPlaced'
    BY <1>1, <1>6, <1>8, OpenKept DEF Placed
  <2>2. NoStray'
    BY <1>1, <1>8, StrayKept DEF Placed
  <2>. QED
    BY <1>7, <2>1, <2>2 DEF Placed
<1>9. CASE queue' = Append(queue, f) /\ poller'.at # "delete"
  <2>. SUFFICES ASSUME NEW g \in Fds PROVE T!Places(g)' = T!Places(g)
    BY <1>8
  <2>1. CountOf(g, queue') = CountOf(g, queue) + One(f = g)
    BY <1>3, <1>9, CountAppend
  <2>. DEFINE x == One(f = g)
  <2>2. x \in Nat /\ One(g = f) = x /\ One(Drops(g)') = 0
    BY <1>9 DEF One, Drops
  <2>3. T!Places(g)' + x + CountOf(g, queue) = T!Places(g) + (CountOf(g, queue) + x) + 0
    BY <1>5, <2>1, <2>2
  <2>4. T!Places(g) \in Nat /\ T!Places(g)' \in Nat /\ CountOf(g, queue) \in Nat
    BY <1>5
  <2>. HIDE DEF x
  <2>. QED
    BY <2>2, <2>3, <2>4, SMTT(30)
<1>10. CASE queue' = queue /\ poller'.at = "delete" /\ poller'.fd = f
  <2>. SUFFICES ASSUME NEW g \in Fds PROVE T!Places(g)' = T!Places(g)
    BY <1>8
  <2>. DEFINE x == One(g = f)
  <2>1. One(Drops(g)') = x /\ x \in Nat
    BY <1>10 DEF One, Drops
  <2>2. T!Places(g)' + x + CountOf(g, queue) = T!Places(g) + CountOf(g, queue) + x
    BY <1>5, <1>10, <2>1
  <2>3. T!Places(g) \in Nat /\ T!Places(g)' \in Nat /\ CountOf(g, queue) \in Nat
    BY <1>5
  <2>. HIDE DEF x
  <2>. QED
    BY <2>1, <2>2, <2>3, SMTT(30)
<1>11. CASE queue' = queue /\ poller'.at # "delete" /\ fd_to_conn[f] = T!Nobody
  <2>1. T!Places(f) # 0
    BY <1>1, <1>3, Situation, Somewhere
  <2>2. ~active /\ \A d \in Clients : fd[d] # f
    BY <1>1, <1>11, <2>1, Owned, Situation
  <2>3. ASSUME NEW g \in Fds, g # f PROVE T!Places(g)' = T!Places(g)
    <3>1. One(g = f) = 0 /\ One(Drops(g)') = 0
      BY <1>11, <2>3 DEF One, Drops
    <3>. QED
      BY <1>5, <1>11, <3>1
  <2>4. OpenPlaced'
    BY <1>1, <1>6, <2>2, <2>3, OpenKept DEF Placed
  <2>5. NoStray'
    BY <1>1, <2>2 DEF NoStray
  <2>. QED
    BY <1>7, <2>4, <2>5 DEF Placed
<1>. QED
  BY <1>2, <1>9, <1>10, <1>11

(* The poll thread drops what was in no other place, and closes it.        *)
LEMMA DropPlaced ==
  ASSUME Tables, Placed, T!DropPolled, stolen' = {}
  PROVE  Placed'
<1>. DEFINE f == poller.fd
            c == poller.conn
<1>1. /\ f \in Fds /\ c \in Clients /\ fd[c] \in {0, f} /\ poller.hung \in BOOLEAN
      /\ poller.at = "delete" /\ poller'.at # "delete"
      /\ T!Delete(f, c, poller.hung)
      /\ UNCHANGED <<polled, queue, worker, acceptor, active>>
  BY DEF Tables, PoolTypes, Descriptors, T!DropPolled, T!PollerGoesOn, T!PollerGoes, T!startVars
<1>2. /\ fd_to_conn' = [fd_to_conn EXCEPT ![f] = T!Nobody]
      /\ fd' = [d \in Clients |-> IF d = c THEN 0 ELSE fd[d]]
      /\ \A d \in Clients : d \in {c, fd_to_conn[f]} => fd[d] = 0 \/ (d = c /\ poller.hung)
  <2>1. c \in Clients \cup {T!Nobody}
    BY <1>1
  <2>. HIDE DEF f, c
  <2>. QED
    BY <1>1, <2>1, DeleteEffect DEF Tables
<1>3. ASSUME NEW g \in Fds PROVE T!Places(g)' = IF g = f THEN T!Places(g) - 1 ELSE T!Places(g)
  <2>1. queue' \in Seq(Fds \cup {0})
    BY <1>1 DEF Tables, PoolTypes
  <2>2. /\ T!Places(g) \in Nat /\ T!Places(g)' \in Nat /\ CountOf(g, queue) \in Nat
        /\ T!Places(g)' + One(g \in polled) + CountOf(g, queue) + Waiting(g)
             = T!Places(g) + One(g \in polled') + CountOf(g, queue') + Waiting(g)'
    BY <1>1, <2>1, OtherPlaces
  <2>3. Waiting(g) = Waiting(g)' + (IF g = f THEN 1 ELSE 0) /\ Waiting(g)' \in Nat
    BY <1>1 DEF Waiting, One, Registers, Drops
  <2>4. One(g \in polled') = One(g \in polled) /\ One(g \in polled) \in Nat
    BY <1>1 DEF One
  <2>5. CountOf(g, queue') = CountOf(g, queue)
    BY <1>1
  <2>. HIDE DEF f, c
  <2>. QED
    BY <2>2, <2>3, <2>4, <2>5
<1>4. T!Places(f) # 0
  <2>1. /\ T!Places(f) = One(f \in polled) + CountOf(f, queue) + Held(f) + Waiting(f)
        /\ CountOf(f, queue) \in Nat /\ Held(f) \in Nat
    BY Situation, PlacesParts DEF Tables, PoolTypes
  <2>2. One(Drops(f)) = 1
    BY <1>1 DEF One, Drops
  <2>3. One(f \in polled) \in Nat /\ One(Registers(f)) \in Nat
    BY DEF One
  <2>. QED
    BY <2>1, <2>2, <2>3 DEF Waiting
<1>5. \/ \E d \in Clients : fd[d] = f /\ fd_to_conn[f] = d /\ T!Places(f) = 1
      \/ ~active /\ \A d \in Clients : fd[d] # f
  BY <1>1, <1>4, Owned
<1>6. /\ active => T!Places(f) = 1
      /\ \A d \in Clients : fd[d] = f => d = c
  BY <1>1, <1>2, <1>5, Situation DEF Tables, Descriptors
<1>. HIDE DEF f, c
<1>7. OpenPlaced'
  <2>. SUFFICES ASSUME NEW d \in Clients, NEW g \in Fds, fd'[d] = g
                PROVE  /\ fd[d] = g
                       /\ fd_to_conn[g] = d => fd_to_conn'[g] = d
                       /\ Arrives(d) => Arrives(d)'
                       /\ T!Places(g) \in {0, 1} => T!Places(g)' = T!Places(g)
    BY OpenKept DEF Placed
  <2>1. d # c /\ fd[d] = g
    BY <1>2, Situation
  <2>2. g # f
    BY <1>6, <2>1
  <2>. QED
    BY <1>1, <1>2, <1>3, <2>1, <2>2 DEF Tables, PoolTypes, Arrives
<1>8. NoStray'
  <2>. SUFFICES ASSUME active, NEW g \in Fds, \A d \in Clients : fd'[d] # g
                PROVE  T!Places(g)' = 0
    BY <1>1 DEF NoStray
  <2>1. CASE g = f
    BY <1>3, <1>6, <2>1
  <2>2. CASE g # f
    BY <1>1, <1>2, <1>3, <2>2, Situation DEF Placed, NoStray
  <2>. QED
    BY <2>1, <2>2
<1>9. HandlersOwn'
  BY <1>1, <1>2, HandlersKept DEF Placed, Tables, ThreadTypes
<1>. QED
  BY <1>7, <1>8, <1>9 DEF Placed

(* The workers.  Those that look for work, or put a connection back:       *)
LEMMA WorkKept ==
  ASSUME Tables, Placed, UNCHANGED <<fd, fd_to_conn, acceptor, active>>, HandlersOwn',
         \A g \in Fds : T!Places(g) \in {0, 1} => T!Places(g)' = T!Places(g)
  PROVE  Placed'
<1>1. OpenPlaced'
  BY OpenKept DEF Placed, Arrives
<1>2. NoStray'
  BY StrayKept DEF Placed
<1>. QED
  BY <1>1, <1>2 DEF Placed

(* A step of a worker that leaves the poll object alone.                   *)
LEMMA PlacesAtWork ==
  ASSUME Tables, NEW w \in Workers, \A u \in Workers \ {w} : worker'[u] = worker[u],
         UNCHANGED <<acceptor, poller, polled>>, queue' \in Seq(Fds \cup {0}), NEW f
  PROVE  /\ T!Places(f) \in Nat /\ T!Places(f)' \in Nat
         /\ CountOf(f, queue) \in Nat /\ CountOf(f, queue') \in Nat
         /\ T!Places(f)' + CountOf(f, queue) + One(Has(w, f))
              = T!Places(f) + CountOf(f, queue') + One(Has(w, f)')
<1>1. /\ T!Places(f) \in Nat /\ T!Places(f)' \in Nat
      /\ CountOf(f, queue) \in Nat /\ CountOf(f, queue') \in Nat
      /\ T!Places(f)' + One(f \in polled) + CountOf(f, queue) + One(Has(w, f))
           = T!Places(f) + One(f \in polled') + CountOf(f, queue') + One(Has(w, f)')
  BY WorkerPlaces
<1>. DEFINE a == One(f \in polled)
            x == One(Has(w, f))
            y == One(Has(w, f)')
<1>2. a \in Nat /\ x \in Nat /\ y \in Nat
  BY DEF One
<1>3. One(f \in polled') = a
  OBVIOUS
<1>4. T!Places(f)' + a + CountOf(f, queue) + x = T!Places(f) + a + CountOf(f, queue') + y
  BY <1>1, <1>3
<1>. HIDE DEF a, x, y
<1>5. T!Places(f)' + CountOf(f, queue) + x = T!Places(f) + CountOf(f, queue') + y
  BY <1>1, <1>2, <1>4, SMTT(30)
<1>. QED
  BY <1>1, <1>5 DEF x, y

LEMMA GetPlaced ==
  ASSUME Tables, Placed, NEW w \in Workers, T!Get(w)
  PROVE  Placed'
<1>1. UNCHANGED <<fd, fd_to_conn, polled, acceptor, poller, active>>
  BY DEF T!Get, T!startVars
<1>2. queue' \in Seq(Fds \cup {0})
  BY WorkTables DEF Tables, PoolTypes
<1>3. worker[w].fd = 0
  BY DEF Tables, PoolTypes, Busy, T!Get
<1>4. /\ \A u \in Workers \ {w} : worker'[u] = worker[u]
      /\ worker'[w].at \notin {"drop", "delete", "handler"}
      /\ \/ queue' = queue /\ worker'[w].fd = 0
         \/ queue # <<>> /\ queue' = Tail(queue) /\ worker'[w].fd = Head(queue)
  BY <1>3 DEF Tables, PoolTypes, T!Get, T!WorkerGoes, T!WorkerIsFree
<1>5. ASSUME NEW g \in Fds PROVE T!Places(g)' = T!Places(g)
  <2>1. /\ T!Places(g) \in Nat /\ T!Places(g)' \in Nat
        /\ CountOf(g, queue) \in Nat /\ CountOf(g, queue') \in Nat
        /\ T!Places(g)' + CountOf(g, queue) + One(Has(w, g))
             = T!Places(g) + CountOf(g, queue') + One(Has(w, g)')
    BY <1>1, <1>2, <1>4, PlacesAtWork
  <2>2. One(Has(w, g)) = 0
    BY <1>3, Situation DEF Has, One
  <2>3. CASE queue' = queue /\ worker'[w].fd = 0
    <3>1. One(Has(w, g)') = 0
      BY <2>3, Situation DEF Has, One
    <3>. QED
      BY <2>1, <2>2, <2>3, <3>1
  <2>4. CASE queue # <<>> /\ queue' = Tail(queue) /\ worker'[w].fd = Head(queue)
    <3>1. One(Has(w, g)') = One(Head(queue) = g)
      BY <1>4, <2>4 DEF Has, One
    <3>2. CountOf(g, queue) = CountOf(g, queue') + One(Head(queue) = g)
      BY <2>4, CountTail DEF Tables, PoolTypes
    <3>3. One(Head(queue) = g) \in Nat
      BY DEF One
    <3>. QED
      BY <2>1, <2>2, <3>1, <3>2, <3>3
  <2>. QED
    BY <1>4, <2>3, <2>4
<1>6. HandlersOwn'
  BY <1>1, <1>4, HandlersKept DEF Placed, Tables, ThreadTypes
<1>. QED
  BY <1>1, <1>5, <1>6, WorkKept

LEMMA PutBackPlaced ==
  ASSUME Tables, Placed, NEW w \in Workers, T!PutBack(w), worker[w].at \in {"serve", "handler"},
         UNCHANGED <<fd, fd_to_conn, polled, acceptor, poller, active>>
  PROVE  Placed'
<1>. DEFINE f == worker[w].fd
<1>1. /\ f \in Fds /\ f \in Fds \cup {0} /\ queue \in Seq(Fds \cup {0})
      /\ queue' = Append(queue, f)
      /\ worker'[w].fd = 0 /\ worker'[w].at = "get"
      /\ \A u \in Workers \ {w} : worker'[u] = worker[u]
  BY DEF Tables, PoolTypes, Busy, T!PutBack, T!WorkerIsFree
<1>2. queue' \in Seq(Fds \cup {0})
  BY <1>1, AppendProperties
<1>3. ASSUME NEW g \in Fds PROVE T!Places(g)' = T!Places(g)
  <2>1. /\ T!Places(g) \in Nat /\ T!Places(g)' \in Nat
        /\ CountOf(g, queue) \in Nat /\ CountOf(g, queue') \in Nat
        /\ T!Places(g)' + CountOf(g, queue) + One(Has(w, g))
             = T!Places(g) + CountOf(g, queue') + One(Has(w, g)')
    BY <1>1, <1>2, PlacesAtWork
  <2>2. One(Has(w, g)) = One(f = g) /\ One(Has(w, g)') = 0
    BY <1>1, Situation DEF Has, One
  <2>. HIDE DEF f
  <2>. DEFINE x == One(f = g)
  <2>3. CountOf(g, queue') = CountOf(g, queue) + x
    BY <1>1, CountAppend
  <2>4. x \in Nat
    BY DEF One
  <2>5. T!Places(g)' + CountOf(g, queue) + x = T!Places(g) + CountOf(g, queue') + 0
    BY <2>1, <2>2
  <2>. HIDE DEF x
  <2>. QED
    BY <2>1, <2>3, <2>4, <2>5
<1>4. HandlersOwn'
  BY <1>1, HandlersKept DEF Placed, Tables, ThreadTypes
<1>. QED
  BY <1>3, <1>4, WorkKept

LEMMA PutInactivePlaced ==
  ASSUME Tables, Placed, NEW w \in Workers, T!PutInactive(w)
  PROVE  Placed'
<1>. DEFINE f == worker[w].fd
<1>1. /\ f \in Fds /\ worker[w].at = "inactive" /\ polled' = polled \cup {f}
      /\ UNCHANGED <<fd, fd_to_conn, queue, acceptor, poller, active>>
      /\ worker'[w].fd = 0 /\ worker'[w].at = "get"
      /\ \A u \in Workers \ {w} : worker'[u] = worker[u]
      /\ queue' \in Seq(Fds \cup {0})
  BY DEF Tables, PoolTypes, Busy, T!PutInactive, T!WorkerIsFree, T!startVars
<1>2. ASSUME NEW g \in Fds, T!Places(g) \in {0, 1} PROVE T!Places(g)' = T!Places(g)
  <2>1. /\ T!Places(g) \in Nat /\ T!Places(g)' \in Nat /\ CountOf(g, queue) \in Nat
        /\ T!Places(g)' + One(g \in polled) + CountOf(g, queue) + One(Has(w, g))
             = T!Places(g) + One(g \in polled') + CountOf(g, queue') + One(Has(w, g)')
        /\ One(g \in polled) + One(Has(w, g)) <= T!Places(g)
    BY <1>1, WorkerPlaces
  <2>2. One(Has(w, g)) = One(g = f) /\ One(Has(w, g)') = 0
    BY <1>1, Situation DEF Has, One
  <2>3. One(g \in polled') = IF g = f THEN 1 ELSE One(g \in polled)
    BY <1>1 DEF One
  <2>4. One(g \in polled) \in {0, 1} /\ One(g = f) = IF g = f THEN 1 ELSE 0
    BY DEF One
  <2>5. CountOf(g, queue') = CountOf(g, queue)
    BY <1>1
  <2>. DEFINE a == One(g \in polled)
              b == One(g \in polled')
              x == One(g = f)
  <2>6. /\ T!Places(g)' + a + CountOf(g, queue) + x = T!Places(g) + b + CountOf(g, queue) + 0
        /\ a + x <= T!Places(g)
    BY <2>1, <2>2, <2>5
  <2>7. a \in {0, 1} /\ ((x = 0 /\ b = a) \/ (x = 1 /\ b = 1))
    BY <2>3, <2>4
  <2>. HIDE DEF f, a, b, x
  <2>. QED
    BY <1>2, <2>1, <2>6, <2>7
<1>3. HandlersOwn'
  BY <1>1, HandlersKept DEF Placed, Tables, ThreadTypes
<1>. QED
  BY <1>1, <1>2, <1>3, WorkKept

(* _serve_requests: a connection that a worker has; it goes on with it, or *)
(* finds it closed, and is to drop it.                                     *)
LEMMA LetGo ==
  ASSUME Tables, Placed, NEW w \in Workers, worker[w].at \in {"serve", "handler"},
         worker' = [worker EXCEPT ![w].at = "drop"],
         UNCHANGED <<fd_to_conn, polled, queue, acceptor, poller, active>>,
         fd' = [c \in Clients |-> IF fd[c] = worker[w].fd THEN 0 ELSE fd[c]]
  PROVE  Placed'
<1>. DEFINE f == worker[w].fd
<1>1. /\ f \in Fds /\ Has(w, f) /\ queue' \in Seq(Fds \cup {0})
      /\ worker'[w].at = "drop"
      /\ \A u \in Workers \ {w} : worker'[u] = worker[u]
  BY DEF Tables, PoolTypes, Busy, Has
<1>2. /\ \A c \in Clients : fd'[c] = IF fd[c] = f THEN 0 ELSE fd[c]
  OBVIOUS
<1>3. \A g \in Fds : Has(w, g) => g = f
  BY DEF Has
<1>. HIDE DEF f
<1>4. ASSUME NEW g \in Fds PROVE T!Places(g)' = IF g = f THEN T!Places(g) - 1 ELSE T!Places(g)
  <2>1. /\ T!Places(g) \in Nat /\ T!Places(g)' \in Nat
        /\ CountOf(g, queue) \in Nat /\ CountOf(g, queue') \in Nat
        /\ T!Places(g)' + CountOf(g, queue) + One(Has(w, g))
             = T!Places(g) + CountOf(g, queue') + One(Has(w, g)')
    BY <1>1, PlacesAtWork
  <2>2. One(Has(w, g)) = (IF g = f THEN 1 ELSE 0) /\ One(Has(w, g)') = 0
    BY <1>1, <1>3 DEF Has, One
  <2>3. CountOf(g, queue') = CountOf(g, queue)
    OBVIOUS
  <2>. QED
    BY <2>1, <2>2, <2>3
<1>5. OpenPlaced'
  BY <1>1, <1>2, <1>4, Situation, OpenKept DEF Placed, Arrives
<1>6. NoStray'
  <2>. SUFFICES ASSUME active, NEW g \in Fds, \A c \in Clients : fd'[c] # g
                PROVE  T!Places(g)' = 0
    BY DEF NoStray
  <2>1. CASE g = f
    <3>1. T!Places(f) # 0
      BY <1>1, Situation, Somewhere DEF Tables, PoolTypes
    <3>2. T!Places(f) = 1
      BY <1>1, <3>1, Owned
    <3>. QED
      BY <1>4, <2>1, <3>2
  <2>2. CASE g # f
    BY <1>2, <1>4, <2>2 DEF Placed, NoStray
  <2>. QED
    BY <2>1, <2>2
<1>7. HandlersOwn'
  BY <1>1, <1>2, HandlersKept DEF Placed
<1>. QED
  BY <1>5, <1>6, <1>7 DEF Placed

(* What a worker has is the connection of its descriptor, if it is open.   *)
LEMMA HasOwner ==
  ASSUME Tables, Placed, NEW w \in Workers, worker[w].at \in {"serve", "handler", "inactive"},
         NEW c \in Clients, fd[c] = worker[w].fd
  PROVE  fd_to_conn[worker[w].fd] = c /\ T!Places(worker[w].fd) = 1
<1>. DEFINE f == worker[w].fd
<1>1. f \in Fds /\ Has(w, f)
  BY DEF Tables, PoolTypes, Busy, Has
<1>. HIDE DEF f
<1>2. T!Places(f) # 0
  BY <1>1, Situation, Somewhere DEF Tables, PoolTypes
<1>3. \E d \in Clients : fd[d] = f /\ fd_to_conn[f] = d /\ T!Places(f) = 1
  BY <1>1, <1>2, Owned DEF f
<1>. QED
  BY <1>1, <1>3, Situation DEF Tables, Descriptors, f

(* It goes on with the connection.                                         *)
LEMMA GoesOn ==
  ASSUME Tables, Placed, NEW w \in Workers, worker[w].at \notin {"drop", "delete"},
         worker'[w].at \notin {"drop", "delete"},
         worker'[w].fd = worker[w].fd, \A u \in Workers \ {w} : worker'[u] = worker[u],
         UNCHANGED <<fd, fd_to_conn, polled, queue, acceptor, poller, active>>, HandlersOwn'
  PROVE  Placed'
<1>1. \A g \in Fds : T!Places(g)' = T!Places(g)
  <2>. SUFFICES ASSUME NEW g \in Fds PROVE T!Places(g)' = T!Places(g)
    OBVIOUS
  <2>1. queue' \in Seq(Fds \cup {0}) /\ UNCHANGED <<acceptor, poller, polled>>
    BY DEF Tables, PoolTypes
  <2>2. /\ T!Places(g) \in Nat /\ T!Places(g)' \in Nat
        /\ CountOf(g, queue) \in Nat
        /\ T!Places(g)' + CountOf(g, queue) + One(Has(w, g))
             = T!Places(g) + CountOf(g, queue') + One(Has(w, g)')
    BY <2>1, PlacesAtWork
  <2>. DEFINE x == One(Has(w, g))
  <2>3. One(Has(w, g)') = x /\ x \in Nat
    BY DEF Has, One
  <2>4. T!Places(g)' + CountOf(g, queue) + x = T!Places(g) + CountOf(g, queue) + x
    BY <2>2, <2>3
  <2>. HIDE DEF x
  <2>. QED
    BY <2>2, <2>3, <2>4
<1>. QED
  BY <1>1, WorkKept

LEMMA ServePlaced ==
  ASSUME Tables, Placed, NEW w \in Workers, T!Serve(w)
  PROVE  Placed'
<1>. DEFINE f == worker[w].fd
            c == fd_to_conn[f]
<1>1. /\ f \in Fds /\ c \in Clients /\ worker[w].at = "serve" /\ fd[c] \in {0, f}
      /\ UNCHANGED <<fd_to_conn, polled, queue, acceptor, poller, active>>
      /\ worker \in [Workers -> [at : Busy \cup {"get", "waiting", "ended"}, fd : Fds \cup {0},
                                 conn : Clients \cup {T!Nobody}, left : Nat]]
  BY DEF Tables, PoolTypes, Descriptors, Busy, T!Serve, T!startVars
<1>2. \A d \in Clients : fd[d] = f => d = c
  BY <1>1, HasOwner
<1>3. CASE /\ worker' = [worker EXCEPT ![w].at = "handler", ![w].conn = c]
           /\ fd[c] # 0 /\ UNCHANGED fd
  <2>1. /\ worker'[w].fd = f /\ worker'[w].at = "handler" /\ worker'[w].conn = c
        /\ \A u \in Workers \ {w} : worker'[u] = worker[u]
    BY <1>1, <1>3
  <2>2. HandlersOwn'
    <3>. HIDE DEF f, c
    <3>. SUFFICES ASSUME NEW u \in Workers, NEW d \in Clients,
                         worker'[u].at = "handler", fd[d] = worker'[u].fd
                  PROVE  d = worker'[u].conn
      BY <1>3 DEF HandlersOwn
    <3>1. CASE u = w
      BY <1>2, <2>1, <3>1
    <3>2. CASE u # w
      BY <2>1, <3>2 DEF Placed, HandlersOwn
    <3>. QED
      BY <3>1, <3>2
  <2>. QED
    BY <1>1, <1>3, <2>1, <2>2, GoesOn
<1>4. CASE T!WorkerGoes(w, "inactive") /\ UNCHANGED fd
  <2>1. /\ worker'[w].fd = f /\ worker'[w].at = "inactive"
        /\ \A u \in Workers \ {w} : worker'[u] = worker[u]
    BY <1>1, <1>4 DEF T!WorkerGoes
  <2>2. HandlersOwn'
    BY <1>4, <2>1 DEF Placed, HandlersOwn
  <2>. QED
    BY <1>1, <1>4, <2>1, <2>2, GoesOn
<1>5. CASE T!WorkerGoes(w, "drop") /\ T!CloseSockets({c})
  <2>1. fd' = [d \in Clients |-> IF fd[d] = f THEN 0 ELSE fd[d]]
    BY <1>1, <1>2, <1>5 DEF T!CloseSockets
  <2>. QED
    BY <1>1, <1>5, <2>1, LetGo DEF T!WorkerGoes
<1>. QED
  BY <1>3, <1>4, <1>5 DEF T!Serve, T!Open

LEMMA HandlerEndsPlaced ==
  ASSUME Tables, Placed, NEW w \in Workers, T!HandlerEnds(w)
  PROVE  Placed'
<1>1. /\ worker[w].at = "handler" /\ worker[w].conn \in Clients
      /\ UNCHANGED <<fd, fd_to_conn, polled, acceptor, poller, active>>
      /\ worker \in [Workers -> [at : Busy \cup {"get", "waiting", "ended"}, fd : Fds \cup {0},
                                 conn : Clients \cup {T!Nobody}, left : Nat]]
  BY DEF Tables, PoolTypes, T!HandlerEnds, T!startVars
<1>2. CASE fd[worker[w].conn] = 0 /\ T!WorkerGoes(w, "drop") /\ UNCHANGED queue
  <2>1. worker[w].fd # 0
    BY <1>1 DEF Tables, PoolTypes, Busy
  <2>2. \A d \in Clients : fd[d] # worker[w].fd
    BY <1>1, <1>2, <2>1 DEF Placed, HandlersOwn
  <2>3. fd' = [d \in Clients |-> IF fd[d] = worker[w].fd THEN 0 ELSE fd[d]]
    BY <1>1, <2>2 DEF Tables, ThreadTypes
  <2>. QED
    BY <1>1, <1>2, <2>3, LetGo DEF T!WorkerGoes
<1>3. CASE T!PutBack(w)
  BY <1>1, <1>3, PutBackPlaced
<1>4. CASE /\ worker' = [worker EXCEPT ![w].at = "serve", ![w].conn = T!Nobody, ![w].left = @ - 1]
           /\ UNCHANGED queue
  <2>1. /\ worker'[w].fd = worker[w].fd /\ worker'[w].at = "serve"
        /\ \A u \in Workers \ {w} : worker'[u] = worker[u]
    BY <1>1, <1>4
  <2>2. HandlersOwn'
    BY <1>1, <2>1 DEF Placed, HandlersOwn
  <2>. QED
    BY <1>1, <1>4, <2>1, <2>2, GoesOn
<1>. QED
  BY <1>2, <1>3, <1>4 DEF T!HandlerEnds, T!AfterBatch, T!Open

(* _drop_connection by a worker: what it had is in no place any more; the  *)
(* descriptor may be another's by now, who is hit unless it still arrives. *)
LEMMA WorkerDropPlaced ==
  ASSUME Tables, Placed, NEW w \in Workers, T!DropClosed(w) \/ T!DeleteClosed(w), stolen' = {}
  PROVE  Placed'
<1>. DEFINE f == worker[w].fd
            c == worker[w].conn
<1>1. /\ f \in Fds /\ worker[w].at \in {"drop", "delete"}
      /\ UNCHANGED <<polled, queue, acceptor, poller, active>>
      /\ worker'[w].at \in {"delete", "get"}
      /\ worker'[w].at = "delete" \/ worker'[w].fd = 0
      /\ \A u \in Workers \ {w} : worker'[u] = worker[u]
  <2>1. /\ worker[w].at \in {"drop", "delete"}
        /\ UNCHANGED <<polled, queue, acceptor, poller, active>>
        /\ \/ worker' = [worker EXCEPT ![w] = [at |-> "get", fd |-> 0, conn |-> T!Nobody, left |-> 0]]
           \/ worker' = [worker EXCEPT ![w].at = "delete", ![w].conn = fd_to_conn[f]]
    BY DEF T!DropClosed, T!DeleteClosed, T!WorkerIsFree, T!Dropped, T!startVars
  <2>2. f \in Fds /\ worker \in [Workers -> [at : Busy \cup {"get", "waiting", "ended"},
                            fd : Fds \cup {0}, conn : Clients \cup {T!Nobody}, left : Nat]]
    BY <2>1 DEF Tables, PoolTypes, Busy
  <2>. QED
    BY <2>1, <2>2
<1>2. /\ fd' = fd
      /\ \A d \in Clients, g \in Fds :
           fd[d] = g /\ fd_to_conn[g] = d => fd_to_conn'[g] = d
  <2>1. CASE T!DropClosed(w)
    BY <2>1 DEF T!DropClosed
  <2>2. CASE T!DeleteClosed(w)
    <3>1. T!Delete(f, c, FALSE) /\ c \in Clients \cup {T!Nobody}
      BY <2>2 DEF Tables, PoolTypes, T!DeleteClosed
    <3>2. /\ fd_to_conn' = [fd_to_conn EXCEPT ![f] = T!Nobody]
          /\ fd' = [d \in Clients |-> IF d = c THEN 0 ELSE fd[d]]
          /\ \A d \in Clients : d \in {c, fd_to_conn[f]} => fd[d] = 0
      <4>1. f \in Fds /\ FALSE \in BOOLEAN
        BY <1>1
      <4>. HIDE DEF f, c
      <4>. QED
        BY <3>1, <4>1, DeleteEffect DEF Tables
    <3>. QED
      BY <1>1, <3>2, Situation DEF Tables, ThreadTypes, PoolTypes
  <2>. QED
    BY <2>1, <2>2
<1>. HIDE DEF f, c
<1>3. \A g \in Fds : T!Places(g)' = T!Places(g)
  <2>. SUFFICES ASSUME NEW g \in Fds PROVE T!Places(g)' = T!Places(g)
    OBVIOUS
  <2>1. queue' \in Seq(Fds \cup {0})
    BY <1>1 DEF Tables, PoolTypes
  <2>2. /\ T!Places(g) \in Nat /\ T!Places(g)' \in Nat
        /\ CountOf(g, queue) \in Nat
        /\ T!Places(g)' + CountOf(g, queue) + One(Has(w, g))
             = T!Places(g) + CountOf(g, queue') + One(Has(w, g)')
    BY <1>1, <2>1, PlacesAtWork
  <2>3. One(Has(w, g)) = 0 /\ One(Has(w, g)') = 0
    BY <1>1, Situation DEF Has, One
  <2>4. CountOf(g, queue') = CountOf(g, queue)
    BY <1>1
  <2>. QED
    BY <2>2, <2>3, <2>4
<1>4. OpenPlaced'
  BY <1>1, <1>2, <1>3, OpenKept DEF Placed, Arrives
<1>5. NoStray'
  BY <1>1, <1>2, <1>3, StrayKept DEF Placed
<1>6. HandlersOwn'
  BY <1>1, <1>2, HandlersKept DEF Placed, Tables, ThreadTypes
<1>. QED
  BY <1>4, <1>5, <1>6 DEF Placed

-----------------------------------------------------------------------------
(* A server with threads.                                                  *)

LEMMA PoolInit == T!Init => PoolInv
<1>. SUFFICES ASSUME T!Init PROVE PoolInv
  OBVIOUS
<1>1. ThreadTypes /\ AcceptorTypes
  <2>1. setup \in ThreadSetups /\ setup.requests \in Nat
    BY Situation DEF T!Init
  <2>2. ThreadTypes
    <3>1. /\ data \in [Clients -> Nat] /\ made \in [Clients -> 0..setup.requests]
          /\ \A c \in Clients : data[c] <= made[c]
      BY <2>1 DEF T!Init
    <3>2. /\ peer \in [Clients -> {"out", "connected", "gone"}]
          /\ fd \in [Clients -> Fds \cup {0}] /\ session \in [Clients -> Sessions]
          /\ closer \in [T!Closers -> Closes]
      BY DEF T!Init, Closes, Sessions
    <3>. QED
      BY <2>1, <3>1, <3>2 DEF T!Init, ThreadTypes
  <2>3. AcceptorTypes
    BY DEF T!Init, AcceptorTypes, Early
  <2>. QED
    BY <2>2, <2>3
<1>2. PoolTypes
  <2>1. queue \in Seq(Fds \cup {0})
    BY EmptySeq DEF T!Init
  <2>. QED
    BY <2>1 DEF T!Init, PoolTypes, Busy, T!kind
<1>3. Kinds /\ Stopped /\ FoundOnce /\ Arriving
  BY DEF T!Init, Kinds, Stopped, FoundOnce, Arriving, T!kind
<1>4. Descriptors
  BY DEF T!Init, Descriptors, T!kind
<1>5. Placed
  <2>1. OpenPlaced
    BY Situation DEF T!Init, OpenPlaced
  <2>2. ASSUME NEW f \in Fds PROVE T!Places(f) = 0
    <3>1. IsFiniteSet(Workers) /\ queue = <<>> /\ queue \in Seq(Fds \cup {0})
      BY Situation, EmptySeq DEF T!Init
    <3>2. CountOf(f, queue) = 0
      <4>1. {i \in 1..Len(queue) : queue[i] = f} = {}
        BY <3>1
      <4>. QED
        BY <4>1, FS_EmptySet DEF CountOf
    <3>3. Held(f) = 0
      BY <3>1, HeldNat, Situation DEF T!Init, Has
    <3>4. One(f \in polled) = 0 /\ Waiting(f) = 0
      BY DEF T!Init, One, Waiting, Registers, Drops, T!kind
    <3>. QED
      BY <3>1, <3>2, <3>3, <3>4, PlacesParts
  <2>3. NoStray
    BY <2>2 DEF NoStray
  <2>4. HandlersOwn
    BY DEF T!Init, HandlersOwn, T!kind
  <2>. QED
    BY <2>1, <2>3, <2>4 DEF Placed
<1>. QED
  BY <1>1, <1>2, <1>3, <1>4, <1>5 DEF PoolInv, Tables

(* The situation stays, and who was hit by the drop of another.            *)
LEMMA Stays ==
  ASSUME Tables, T!Next
  PROVE  setup' = setup /\ stolen \subseteq stolen'
<1>1. ASSUME NEW f, NEW c, NEW b, T!Delete(f, c, b) PROVE stolen \subseteq stolen'
  BY <1>1 DEF T!Delete
<1>2. CASE \E c \in Clients : T!Connect(c) \/ T!Request(c) \/ T!Leave(c) \/ T!Session(c) \/ T!Refused(c) \/ T!Collect(c)
  BY <1>2 DEF T!Connect, T!Request, T!Leave, T!Session, T!SessionServes, T!SessionEnds, T!Refused,
              T!Ends, T!Collect, T!clientVars, T!poolVars
<1>3. CASE T!Accepting
  BY <1>3 DEF T!Accepting, T!Accept, T!CheckActive, T!Admit, T!BuildFails, T!Build, T!Register,
              T!StartEnds,
     T!clientVars, T!poolVars
<1>4. CASE T!Stop \/ \E t \in T!Closers : T!Closing(t)
  BY <1>4 DEF T!Stop, T!Closing, T!Close, T!CloseListener, T!ShutClients, T!JoinPoller,
              T!JoinWorkers,
     T!clientVars, T!poolVars
<1>5. CASE T!Polling
  BY <1>1, <1>5 DEF T!Polling, T!Poll, T!PollEnds, T!DropPolled, T!HandlePolled, T!clientVars
<1>6. CASE \E w \in Workers : T!Work(w)
  BY <1>1, <1>6 DEF T!Work, T!Get, T!ServeUnknown, T!Serve, T!HandlerEnds, T!PutInactive,
                    T!DropClosed, T!DeleteClosed, T!clientVars
<1>. QED
  BY <1>2, <1>3, <1>4, <1>5, <1>6 DEF T!Next

LEMMA PoolNext ==
  ASSUME PoolInv, T!Next
  PROVE  PoolInv'
<1>. USE DEF PoolInv
<1>1. Tables'
  <2>1. CASE \E c \in Clients : T!Connect(c) \/ T!Request(c) \/ T!Leave(c) \/ T!Session(c) \/ T!Refused(c) \/ T!Collect(c)
    BY <2>1, ClientTables, SessionTables, CollectTables DEF T!Session, T!SessionEnds, T!Refused
  <2>2. CASE T!Accepting
    BY <2>2, AcceptTables, AdmitTables, BuildTables DEF T!Accepting
  <2>3. CASE T!Stop \/ \E t \in T!Closers : T!Closing(t)
    BY <2>3, CloseTables
  <2>4. CASE T!Polling
    BY <2>4, PollTables, HandleTables, DropTables DEF T!Polling
  <2>5. CASE \E w \in Workers : T!Work(w)
    BY <2>5, WorkTables DEF T!Work
  <2>. QED
    BY <2>1, <2>2, <2>3, <2>4, <2>5 DEF T!Next
<1>2. ASSUME setup'.kind = "pool", stolen' = {} PROVE Placed'
  <2>1. setup.kind = "pool" /\ stolen = {} /\ Placed
    BY <1>2, Stays
  <2>2. CASE \E c \in Clients : T!Connect(c) \/ T!Request(c) \/ T!Leave(c) \/ T!Session(c) \/ T!Refused(c) \/ T!Collect(c)
    <3>1. PICK c \in Clients : T!Connect(c) \/ T!Request(c) \/ T!Leave(c) \/ T!Session(c) \/ T!Refused(c) \/ T!Collect(c)
      BY <2>2
    <3>2. ~T!SessionEnds(c) /\ ~T!Refused(c)
      BY <2>1 DEF Tables, Kinds, T!SessionEnds, T!Refused, T!Ends
    <3>3. ~T!Collect(c)
      BY <2>1, Situation DEF Tables, ThreadTypes, Arriving, Placed, OpenPlaced, Arrives, Early,
                             T!Collect, T!Unmapped, T!Open
    <3>4. UNCHANGED <<fd, fd_to_conn, polled, queue, worker, active, acceptor, poller>>
      BY <3>1, <3>2, <3>3 DEF T!Connect, T!Request, T!Leave, T!Session, T!SessionServes, T!startVars,
                        T!poolVars
    <3>. QED
      BY <2>1, <3>4, OthersPlaced
  <2>3. CASE T!Accepting
    <3>1. CASE T!StartEnds
      <4>1. UNCHANGED <<fd, fd_to_conn, polled, queue, worker, active, poller>>
        BY <3>1 DEF T!StartEnds, T!poolVars
      <4>. QED
        BY <2>1, <3>1, <4>1, OthersPlaced
    <3>. QED
      BY <2>1, <2>3, <3>1, AcceptPlaced, AdmitPlaced, BuildFailsPlaced, BuildPlaced, RegisterPlaced
         DEF T!Accepting
  <2>4. CASE T!Stop \/ \E t \in T!Closers : T!Closing(t)
    <3>1. CASE T!Stop \/ \E t \in T!Closers : T!Close(t) \/ T!CloseListener(t) \/ T!JoinWorkers(t)
      <4>1. UNCHANGED <<fd, fd_to_conn, polled, queue, worker, acceptor, poller>> /\ (active' => active)
        BY <3>1 DEF Tables, ThreadTypes, T!Stop, T!Close, T!CloseListener, T!JoinWorkers, T!poolVars
      <4>. QED
        BY <2>1, <4>1, OthersPlaced
    <3>. QED
      BY <2>1, <2>4, <3>1, JoinPlaced, ShutPlaced DEF T!Closing
  <2>5. CASE T!Polling
    <3>1. CASE T!Poll \/ T!PollEnds
      <4>1. UNCHANGED <<fd, fd_to_conn, polled, queue, worker, active, acceptor>>
        BY <3>1 DEF T!Poll, T!PollEnds, T!startVars
      <4>. QED
        BY <2>1, <3>1, <4>1, OthersPlaced
    <3>2. CASE T!DropPolled
      BY <1>2, <2>1, <3>2, DropPlaced
    <3>. QED
      BY <2>1, <2>5, <3>1, <3>2, HandlePlaced DEF T!Polling
  <2>6. CASE \E w \in Workers : T!Work(w)
    <3>1. PICK w \in Workers : T!Work(w)
      BY <2>6
    <3>2. CASE T!ServeUnknown(w)
      <4>1. /\ T!PutBack(w) /\ worker[w].at = "serve"
            /\ UNCHANGED <<fd, fd_to_conn, polled, acceptor, poller, active>>
        BY <3>2 DEF T!ServeUnknown, T!startVars
      <4>. QED
        BY <2>1, <4>1, PutBackPlaced
    <3>3. CASE T!DropClosed(w) \/ T!DeleteClosed(w)
      BY <1>2, <2>1, <3>3, WorkerDropPlaced
    <3>. QED
      BY <2>1, <3>1, <3>2, <3>3, GetPlaced, ServePlaced, HandlerEndsPlaced, PutInactivePlaced
         DEF T!Work
  <2>. QED
    BY <2>2, <2>3, <2>4, <2>5, <2>6 DEF T!Next
<1>. QED
  BY <1>1, <1>2

(* A pool of threads: the tables hold what they should, and, until a drop  *)
(* hits another connection, every open connection is in the map and in one *)
(* place, a free descriptor is nowhere, and a handler has its connection.  *)
THEOREM PoolInvariant == Spec => [](~asyncio => PoolInv)
<1>1. Init => (~asyncio => PoolInv)
  BY PoolInit DEF Init
<1>2. (~asyncio => PoolInv) /\ [Next]_vars => (~asyncio => PoolInv)'
  <2>. SUFFICES ASSUME ~asyncio => PoolInv, [Next]_vars PROVE (~asyncio => PoolInv)'
    OBVIOUS
  <2>1. CASE Threaded /\ T!Next
    BY <2>1, PoolNext DEF Threaded
  <2>2. CASE Looped /\ A!Next
    BY <2>2 DEF Looped
  <2>3. CASE UNCHANGED vars
    <3>1. UNCHANGED <<asyncio, setup, acceptor, listening, threadsOnly>>
      BY <2>3 DEF vars
    <3>2. Tables' <=> Tables
      BY <3>1 DEF threadsOnly, Tables, ThreadTypes, AcceptorTypes, PoolTypes, Kinds, Stopped,
                  Descriptors,
                  Arriving, FoundOnce
    <3>3. ASSUME Tables, Placed PROVE Placed'
      BY <3>1, <3>3, OthersPlaced DEF threadsOnly
    <3>. QED
      BY <3>1, <3>2, <3>3 DEF threadsOnly, PoolInv
  <2>. QED
    BY <2>1, <2>2, <2>3 DEF Next
<1>. QED
  BY <1>1, <1>2, PTL DEF Spec

(* The variables of a server with threads stay in their ranges, and no two *)
(* clients have one descriptor.                                            *)
THEOREM PoolTypeCorrect == Spec => [](~asyncio => T!TypeOK)
<1>1. ASSUME PoolInv PROVE T!TypeOK
  <2>1. setup.requests \in Nat
    BY <1>1, Situation DEF PoolInv, Tables, ThreadTypes
  <2>2. data \in [Clients -> 0..setup.requests]
    <3>1. ASSUME NEW c \in Clients PROVE data[c] \in 0..setup.requests
      BY <1>1, <2>1 DEF PoolInv, Tables, ThreadTypes
    <3>. QED
      BY <1>1, <3>1 DEF PoolInv, Tables, ThreadTypes
  <2>3. \A i \in 1..Len(queue) : queue[i] \in Fds \cup {0}
    BY <1>1, ElementOfSeq DEF PoolInv, Tables, PoolTypes
  <2>. QED
    BY <1>1, <2>2, <2>3 DEF PoolInv, Tables, ThreadTypes, PoolTypes, Descriptors, T!TypeOK
<1>. QED
  BY <1>1, PoolInvariant, PTL

(* A pool has each of its connections in one place: in the poll object, in *)
(* the queue, at one worker or still at the accepting thread - until a     *)
(* drop hits a connection that reuses a descriptor.                        *)
THEOREM OnePlaceHolds == Spec => []OnePlace
<1>1. (~asyncio => PoolInv) => OnePlace
  <2>. SUFFICES ASSUME ~asyncio, PoolInv, stolen = {}, NEW c \in Clients, T!Open(c), fd_to_conn[fd[c]] = c
                PROVE  T!Places(fd[c]) = 1
    BY DEF OnePlace, T!OnePlace
  <2>1. fd[c] \in Fds
    BY DEF PoolInv, Tables, ThreadTypes, T!Open
  <2>2. setup.kind = "pool"
    BY <2>1, Situation DEF PoolInv, Tables, Kinds
  <2>3. ~Arrives(c)
    BY <2>1, Situation DEF PoolInv, Tables, Arriving, Descriptors, Arrives, Early
  <2>. QED
    BY <2>1, <2>2, <2>3 DEF PoolInv, Placed, OpenPlaced
<1>. QED
  BY <1>1, PoolInvariant, PTL

-----------------------------------------------------------------------------
(* The server with a loop.  That a reader never outlives its socket needs  *)
(* to know whose socket each step may close: the accepting task closes one *)
(* that no task has yet (Handed), and a client's task is past its wait     *)
(* when it takes the reader off (Served).                                  *)

(* A client that is accepted, or still to be accepted, has no task; one    *)
(* that has not dialled is neither.                                        *)
Handed ==
  /\ acceptor.at = "accepted" => acceptor.of \in sopen /\ task[acceptor.of] = "none"
  /\ \A c \in backlog : task[c] = "none" /\ acceptor.of # c
  /\ \A c \in Clients : phase[c] \in {"idle", "dialling"} =>
                          task[c] = "none" /\ c \notin backlog /\ acceptor.of # c

(* A new task has its socket, and only a task that waits has a reader.     *)
Served ==
  /\ \A c \in Clients : task[c] = "new" => c \in sopen
  /\ \A c \in sreader : task[c] = "waiting"

LoopInv == A!TypeOK /\ Handed /\ Served /\ A!ReaderHasSocket

-----------------------------------------------------------------------------
LEMMA LoopInit == A!Init => LoopInv
<1>. SUFFICES ASSUME A!Init PROVE LoopInv
  OBVIOUS
<1>1. A!TypeOK
  BY DEF A!Init, A!TypeOK, A!Nobody
<1>2. Handed
  BY ServersAssumption DEF A!AsyncServingAssumption, A!Init, Handed, A!Nobody
<1>3. Served /\ A!ReaderHasSocket
  BY DEF A!Init, Served, A!ReaderHasSocket
<1>. QED
  BY <1>1, <1>2, <1>3 DEF LoopInv

(* async_connect, and the reader of the client's loop.                     *)
LEMMA ClientSteps ==
  ASSUME LoopInv, NEW c \in Clients,
         A!Dial(c) \/ A!Connecting(c) \/ A!Cancelled(c) \/ A!ClientReads(c) \/ A!Leave(c)
  PROVE  LoopInv'
<1>. USE DEF LoopInv
<1>1. A!TypeOK'
  BY DEF A!TypeOK, A!Dial, A!Connecting, A!DialFails, A!Dialled, A!HandshakeFails, A!Cancelled,
         A!ClientReads,
         A!Answered, A!ClientEOF, A!Leave, A!PhaseIs, A!Armed, A!RollBack, A!taskVars, A!serverVars
<1>2. Handed'
  BY DEF A!TypeOK, Handed, A!Dial, A!Connecting, A!DialFails, A!Dialled, A!HandshakeFails,
         A!Cancelled,
         A!ClientReads, A!Answered, A!ClientEOF, A!Leave, A!PhaseIs, A!taskVars, A!serverVars
<1>3. Served'
  BY DEF Served, A!Dial, A!Connecting, A!DialFails, A!Dialled, A!HandshakeFails, A!Cancelled,
         A!ClientReads, A!Answered, A!ClientEOF, A!Leave, A!taskVars
<1>4. A!ReaderHasSocket'
  BY DEF A!ReaderHasSocket, A!Dial, A!Connecting, A!DialFails, A!Dialled, A!HandshakeFails,
         A!Cancelled,
         A!ClientReads, A!Answered, A!ClientEOF, A!Leave, A!Armed, A!RollBack, A!taskVars
<1>. QED
  BY <1>1, <1>2, <1>3, <1>4

(* _accept_loop.                                                           *)
LEMMA AcceptSteps ==
  ASSUME LoopInv, A!Accepting
  PROVE  LoopInv'
<1>. USE DEF LoopInv
<1>1. ASSUME NEW c \in Clients, A!Accept(c) PROVE LoopInv'
  <2>1. A!TypeOK'
    BY <1>1 DEF A!TypeOK, A!Accept, A!clientVars
  <2>2. Handed' /\ Served' /\ A!ReaderHasSocket'
    BY <1>1 DEF A!TypeOK, Handed, Served, A!ReaderHasSocket, A!Accept, A!clientVars
  <2>. QED
    BY <2>1, <2>2
<1>2. ASSUME A!AcceptorGoesOn, closing = "no" PROVE LoopInv'
  <2>1. acceptor.of \in Clients
    BY <1>2 DEF A!TypeOK, Handed, A!AcceptorGoesOn
  <2>2. A!TypeOK'
    BY <1>2, <2>1 DEF A!TypeOK, A!AcceptorGoesOn, A!clientVars, A!Nobody
  <2>3. Handed'
    BY <1>2, <2>1, ServersAssumption
       DEF A!AsyncServingAssumption, A!TypeOK, Handed, A!AcceptorGoesOn, A!clientVars, A!Nobody
  <2>4. Served' /\ A!ReaderHasSocket'
    BY <1>2, <2>1 DEF A!TypeOK, Handed, Served, A!ReaderHasSocket, A!AcceptorGoesOn, A!clientVars
  <2>. QED
    BY <2>2, <2>3, <2>4
<1>3. ASSUME A!AcceptorGoesOn, closing # "no" PROVE LoopInv'
  <2>1. A!TypeOK'
    BY <1>3 DEF A!TypeOK, A!AcceptorGoesOn, A!clientVars, A!Nobody
  <2>2. Handed'
    BY <1>3, ServersAssumption
       DEF A!AsyncServingAssumption, A!TypeOK, Handed, A!AcceptorGoesOn, A!clientVars, A!Nobody
  <2>3. Served' /\ A!ReaderHasSocket'
    BY <1>3 DEF A!TypeOK, Handed, Served, A!ReaderHasSocket, A!AcceptorGoesOn, A!clientVars
  <2>. QED
    BY <2>1, <2>2, <2>3
<1>4. ASSUME A!AcceptorCancelled \/ A!AcceptFails PROVE LoopInv'
  <2>1. A!TypeOK'
    BY <1>4 DEF A!TypeOK, A!AcceptorCancelled, A!AcceptFails, A!clientVars, A!taskVars
  <2>2. Handed' /\ Served' /\ A!ReaderHasSocket'
    BY <1>4 DEF A!TypeOK, Handed, Served, A!ReaderHasSocket, A!AcceptorCancelled, A!AcceptFails,
                A!clientVars, A!taskVars
  <2>. QED
    BY <2>1, <2>2
<1>. QED
  BY <1>1, <1>2, <1>3, <1>4 DEF A!Accepting

(* _handle_client, and the reader of the server's loop.                    *)
LEMMA TaskSteps ==
  ASSUME LoopInv, NEW c \in Clients, A!Serving(c) \/ A!Collected(c)
  PROVE  LoopInv'
<1>. USE DEF LoopInv
<1>1. A!TypeOK'
  BY DEF A!TypeOK, A!Serving, A!TaskStarts, A!AnswerRoot, A!ServerEOF, A!TaskWakes, A!TaskEnds,
         A!Collected,
         A!TaskIs, A!clientVars, A!taskVars, A!serverVars
<1>2. Handed'
  BY DEF A!TypeOK, Handed, Served, A!Serving, A!TaskStarts, A!AnswerRoot, A!ServerEOF, A!TaskWakes,
         A!TaskEnds, A!Collected, A!TaskIs, A!clientVars, A!taskVars, A!serverVars
<1>3. Served'
  BY DEF A!TypeOK, Served, A!Serving, A!TaskStarts, A!AnswerRoot, A!ServerEOF, A!TaskWakes,
         A!TaskEnds,
         A!Collected, A!TaskIs, A!taskVars
<1>4. A!ReaderHasSocket'
  BY DEF A!TypeOK, Served, A!ReaderHasSocket, A!Serving, A!TaskStarts, A!AnswerRoot, A!ServerEOF,
         A!TaskWakes, A!TaskEnds, A!Collected, A!TaskIs, A!clientVars, A!taskVars
<1>. QED
  BY <1>1, <1>2, <1>3, <1>4

(* close() of the server, and the end of its loop.                         *)
LEMMA CloseSteps ==
  ASSUME LoopInv, A!Close \/ A!CancelTasks \/ A!RunEnds
  PROVE  LoopInv'
<1>. USE DEF LoopInv
<1>1. A!TypeOK'
  BY DEF A!TypeOK, A!Close, A!CancelTasks, A!RunEnds, A!ToCancel, A!Live, A!clientVars, A!taskVars
<1>2. Handed' /\ Served' /\ A!ReaderHasSocket'
  BY DEF A!TypeOK, Handed, Served, A!ReaderHasSocket, A!Close, A!CancelTasks, A!RunEnds,
         A!clientVars,
         A!taskVars
<1>. QED
  BY <1>1, <1>2

-----------------------------------------------------------------------------

(* A step of the server with a loop keeps the invariant.                   *)
LEMMA LoopNext ==
  ASSUME LoopInv, A!Next
  PROVE  LoopInv'
BY ClientSteps, AcceptSteps, TaskSteps, CloseSteps DEF A!Next

(* The tasks of an AsyncioServer and the accepting task hand each socket   *)
(* on, and a task is past its wait when it takes its reader off.           *)
THEOREM LoopInvariant == Spec => [](asyncio => LoopInv)
<1>1. Init => (asyncio => LoopInv)
  BY LoopInit DEF Init
<1>2. (asyncio => LoopInv) /\ [Next]_vars => (asyncio => LoopInv)'
  <2>. SUFFICES ASSUME asyncio => LoopInv, [Next]_vars PROVE (asyncio => LoopInv)'
    OBVIOUS
  <2>1. CASE Threaded /\ T!Next
    BY <2>1 DEF Threaded
  <2>2. CASE Looped /\ A!Next
    BY <2>2, LoopNext DEF Looped
  <2>3. CASE UNCHANGED vars
    BY <2>3 DEF vars, loopOnly, LoopInv, A!TypeOK, Handed, Served, A!ReaderHasSocket
  <2>. QED
    BY <2>1, <2>2, <2>3 DEF Next
<1>. QED
  BY <1>1, <1>2, PTL DEF Spec

(* The variables of an AsyncioServer and of its clients stay in their      *)
(* ranges.                                                                 *)
THEOREM LoopTypeCorrect == Spec => [](asyncio => A!TypeOK)
<1>1. LoopInv => A!TypeOK
  BY DEF LoopInv
<1>. QED
  BY <1>1, LoopInvariant, PTL

(* Whoever is cancelled, refused or stopped at any await: on_readable is   *)
(* never left on a loop whose descriptor was given back.                   *)
THEOREM ReaderHasSocketHolds == Spec => []ReaderHasSocket
<1>1. (asyncio => LoopInv) => ReaderHasSocket
  BY DEF LoopInv, ReaderHasSocket
<1>. QED
  BY <1>1, LoopInvariant, PTL

=============================================================================
