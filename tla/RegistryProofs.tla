--------------------------- MODULE RegistryProofs ---------------------------
(* A server that runs and believes itself registered is listed, and stays  *)
(* listed until it registers again.  Proved for any servers, names and     *)
(* times, and however many datagrams are lost, doubled or late.            *)
EXTENDS Registry, SequenceTheorems, TLAPS

Places == {"check", "send", "await", "sleep", "ended"}

Requests == [cmd : {"REGISTER", "UNREGISTER"}, of : Servers]

RegistryTypes ==
  /\ setup \in Setups
  /\ services = [n \in Names |-> services[n]]
  /\ \A n \in Names : \A s \in Known(n) : services[n][s] \in 0..(Pruning + 1)
  /\ \A n \in Names : Known(n) \subseteq Servers
  /\ line \in Seq(Requests)
  /\ acks \subseteq Servers /\ active \subseteq Servers /\ closer \subseteq Servers
  /\ bg \in [Servers -> Places]
  /\ due \in [Servers -> 0..Interval]
  /\ answer \in [Names -> SUBSET Servers]

(* A registry has s under all its names, and will for some time to come.   *)
ListedFor(s, time, registry) ==
  \A n \in Offers[s] : s \in DOMAIN registry[n] /\ registry[n][s] + time <= Pruning

(* A server waits no longer for its "OK" than the registrar's timeout; and *)
(* no time has passed since the "OK" on its way to it was sent.            *)
AckIsFresh ==
  \A s \in Servers : bg[s] = "await" =>
    /\ due[s] <= Timeout
    /\ s \in (acks \cap active) \ struck => ListedFor(s, Pruning, services)

(* A server that has still to wait before it registers again is listed for *)
(* as long.  (It waits in steps: between two of them it looks at the time.)*)
WaitersListed ==
  \A s \in active \ struck :
    bg[s] \in {"sleep", "check"} /\ due[s] > 0 => ListedFor(s, due[s], services)

RegistryInv == RegistryTypes /\ AckIsFresh /\ WaitersListed

-----------------------------------------------------------------------------
(* Types.                                                                  *)

LEMMA RegistryInit == RegistryAssumption /\ Init => RegistryInv
<1>. SUFFICES ASSUME RegistryAssumption, Init PROVE RegistryInv
  OBVIOUS
<1>1. \A n \in Names : Known(n) = {}
  BY DEF Init, Known
<1>2. line \in Seq(Requests)
  BY DEF Init
<1>3. services = [n \in Names |-> services[n]]
  BY DEF Init
<1>4. setup \in Setups /\ active = setup.servers /\ setup.servers \subseteq Servers
  BY DEF Init, RegistryAssumption
<1>5. bg \in [Servers -> Places] /\ due \in [Servers -> 0..Interval]
  BY DEF Init, RegistryAssumption, Places
<1>6. acks = {} /\ closer = {} /\ answer \in [Names -> SUBSET Servers]
  BY DEF Init
<1>7. RegistryTypes
  BY <1>1, <1>2, <1>3, <1>4, <1>5, <1>6 DEF RegistryTypes
<1>8. AckIsFresh /\ WaitersListed
  BY DEF Init, AckIsFresh, WaitersListed
<1>. QED
  BY <1>7, <1>8 DEF RegistryInv

(* What is left of the line when a request has been taken from it.         *)
LEMMA RestType ==
  ASSUME line \in Seq(Requests), NEW i \in 1..Len(line)
  PROVE  line[i] \in Requests /\ Rest(i) \in Seq(Requests)
<1>1. Len(line) \in Nat /\ line[i] \in Requests
  BY ElementOfSeq, LenProperties
<1>2. SubSeq(line, 1, i - 1) \in Seq(Requests) /\ SubSeq(line, i + 1, Len(line)) \in Seq(Requests)
  BY <1>1, SubSeqProperties
<1>. QED
  BY <1>1, <1>2, ConcatProperties DEF Rest

(* The services of the registry after each of its operations.              *)
LEMMA ServicesTypes ==
  ASSUME RegistryAssumption, RegistryTypes, NEW s \in Servers,
         \/ services' = services
         \/ services' = Registered(s)
         \/ services' = Unregistered(s)
         \/ services' = [n \in Names |-> << >>]
         \/ \E m \in Names : services' = [services EXCEPT ![m] = Without(@, Stale(m))]
         \/ services' = [n \in Names |-> [t \in Known(n) |-> Aged(services[n][t])]]
  PROVE  /\ services' = [n \in Names |-> services'[n]]
         /\ \A n \in Names : Known(n)' \subseteq Servers
         /\ \A n \in Names : \A t \in Known(n)' : services'[n][t] \in 0..(Pruning + 1)
<1>. USE DEF RegistryTypes
<1>1. CASE services' = services
  BY <1>1 DEF Known
<1>2. CASE services' = Registered(s)
  <2>1. ASSUME NEW n \in Names, n \in Offers[s]
        PROVE  /\ Known(n)' = Known(n) \cup {s}
               /\ \A t \in Known(n)' : services'[n][t] = IF t = s THEN 0 ELSE services[n][t]
    BY <1>2, <2>1 DEF Registered, With, Known
  <2>2. ASSUME NEW n \in Names, n \notin Offers[s] PROVE services'[n] = services[n]
    BY <1>2, <2>2 DEF Registered
  <2>3. services' = [n \in Names |-> services'[n]]
    BY <1>2 DEF Registered
  <2>4. 0 \in 0..(Pruning + 1)
    BY DEF RegistryAssumption
  <2>5. ASSUME NEW n \in Names
        PROVE  /\ Known(n)' \subseteq Servers
               /\ \A t \in Known(n)' : services'[n][t] \in 0..(Pruning + 1)
    <3>1. CASE n \in Offers[s]
      <4>1. /\ Known(n)' = Known(n) \cup {s}
            /\ \A t \in Known(n)' : services'[n][t] = IF t = s THEN 0 ELSE services[n][t]
        BY <3>1, <2>1
      <4>2. Known(n) \subseteq Servers /\ \A t \in Known(n) : services[n][t] \in 0..(Pruning + 1)
        OBVIOUS
      <4>. QED
        BY <4>1, <4>2, <2>4
    <3>2. CASE n \notin Offers[s]
      <4>1. services'[n] = services[n]
        BY <3>2, <2>2
      <4>. QED
        BY <4>1 DEF Known
    <3>. QED
      BY <3>1, <3>2
  <2>. QED
    BY <2>3, <2>5
<1>3. CASE services' = Unregistered(s)
  BY <1>3 DEF Unregistered, Without, Known
<1>4. CASE services' = [n \in Names |-> << >>]
  BY <1>4 DEF Known
<1>5. ASSUME NEW m \in Names, services' = [services EXCEPT ![m] = Without(@, Stale(m))]
      PROVE  /\ services' = [n \in Names |-> services'[n]]
             /\ \A n \in Names : Known(n)' \subseteq Servers
             /\ \A n \in Names : \A t \in Known(n)' : services'[n][t] \in 0..(Pruning + 1)
  <2>1. /\ Known(m)' = Known(m) \ Stale(m)
        /\ \A t \in Known(m)' : services'[m][t] = services[m][t]
    BY <1>5 DEF Known, Without
  <2>2. \A n \in Names \ {m} : services'[n] = services[n]
    BY <1>5
  <2>3. services' = [n \in Names |-> services'[n]]
    BY <1>5
  <2>. QED
    BY <2>1, <2>2, <2>3 DEF Known
<1>6. CASE services' = [n \in Names |-> [t \in Known(n) |-> Aged(services[n][t])]]
  <2>1. ASSUME NEW n \in Names
        PROVE  /\ Known(n)' = Known(n)
               /\ \A t \in Known(n) : services'[n][t] = Aged(services[n][t])
    BY <1>6 DEF Known
  <2>2. services' = [n \in Names |-> services'[n]]
    BY <1>6
  <2>3. \A age \in 0..(Pruning + 1) : Aged(age) \in 0..(Pruning + 1)
    BY DEF Aged, RegistryAssumption
  <2>. QED
    BY <2>1, <2>2, <2>3 DEF Known
<1>. QED
  BY <1>1, <1>2, <1>3, <1>4, <1>5, <1>6

LEMMA TypesStep == RegistryAssumption /\ RegistryInv /\ [Next]_vars => RegistryTypes'
<1>. SUFFICES ASSUME RegistryAssumption, RegistryTypes, AckIsFresh, [Next]_vars
              PROVE  RegistryTypes'
  BY DEF RegistryInv
<1>. USE DEF RegistryTypes
<1>1. ASSUME UNCHANGED vars PROVE RegistryTypes'
  BY <1>1 DEF vars, serverVars, Known
<1>2. ASSUME NEW i \in 1..Len(line), TakeRegister(i) \/ TakeUnregister(i)
      PROVE  RegistryTypes'
  <2>. DEFINE s == line[i].of
  <2>1. s \in Servers /\ line' \in Seq(Requests)
    BY <1>2, RestType DEF TakeRegister, TakeUnregister, Requests
  <2>2. /\ services' = [n \in Names |-> services'[n]]
        /\ \A n \in Names : Known(n)' \subseteq Servers
        /\ \A n \in Names : \A t \in Known(n)' : services'[n][t] \in 0..(Pruning + 1)
    BY <1>2, <2>1, ServicesTypes DEF TakeRegister, TakeUnregister
  <2>3. acks' \subseteq Servers
    BY <1>2, <2>1 DEF TakeRegister, TakeUnregister
  <2>. QED
    BY <1>2, <2>1, <2>2, <2>3 DEF TakeRegister, TakeUnregister, serverVars
<1>3. ASSUME NEW n \in Names, Query(n) PROVE RegistryTypes'
  <2>1. answer' \in [Names -> SUBSET Servers]
    BY <1>3 DEF Query, Replied, Unreplied, Learns, Known
  <2>2. CASE Servers = {}
    BY <1>3, <2>1, <2>2 DEF Query, serverVars, Known, Without
  <2>3. CASE Servers # {}
    BY <1>3, <2>1, <2>3, ServicesTypes DEF Query, serverVars
  <2>. QED
    BY <2>2, <2>3
<1>4. CASE RegistryRestarts
  BY <1>4 DEF RegistryRestarts, serverVars, Known
<1>5. ASSUME NEW i \in 1..Len(line), Lose(i) \/ Double(i) PROVE RegistryTypes'
  <2>1. line' \in Seq(Requests)
    <3>1. line[i] \in Requests /\ Rest(i) \in Seq(Requests)
      BY RestType
    <3>2. Append(line, line[i]) \in Seq(Requests)
      BY <3>1, AppendProperties
    <3>. QED
      BY <1>5, <3>1, <3>2 DEF Lose, Double
  <2>. QED
    BY <1>5, <2>1 DEF Lose, Double, serverVars, Known
<1>6. ASSUME NEW s \in acks, LoseAck(s) PROVE RegistryTypes'
  BY <1>6 DEF LoseAck, serverVars, Known
<1>7. CASE Tick
  <2>1. due' \in [Servers -> 0..Interval]
    BY <1>7 DEF Tick, RegistryAssumption
  <2>2. bg' \in [Servers -> Places]
    BY <1>7 DEF Tick, Places
  <2>3. CASE Servers = {}
    BY <1>7, <2>1, <2>2, <2>3 DEF Tick, Known
  <2>4. CASE Servers # {}
    BY <1>7, <2>1, <2>2, <2>4, ServicesTypes DEF Tick
  <2>. QED
    BY <2>3, <2>4
<1>8. ASSUME NEW s \in Servers, Registering(s) \/ Close(s) \/ Unregister(s) \/ Crash(s) \/ Restart(s)
      PROVE  RegistryTypes'
  <2>1. CASE Check(s)
    BY <2>1 DEF Check, BgGoes, Places, Known
  <2>2. CASE Register(s)
    <3>1. line' \in Seq(Requests)
      BY <2>2, AppendProperties DEF Register, Ask, Requests
    <3>. QED
      BY <2>2, <3>1 DEF Register, Ask, BgGoes, Places, Known, RegistryAssumption
  <2>3. CASE Acknowledged(s)
    <3>1. due[s] \in 0..Timeout
      <4>1. bg[s] = "await"
        BY <2>3 DEF Acknowledged
      <4>2. due[s] <= Timeout
        BY <4>1 DEF AckIsFresh
      <4>3. due[s] \in 0..Interval
        OBVIOUS
      <4>. QED
        BY <4>2, <4>3 DEF RegistryAssumption
    <3>2. Interval - (Timeout - due[s]) \in 0..Interval
      BY <3>1 DEF RegistryAssumption
    <3>3. due' = [due EXCEPT ![s] = Interval - (Timeout - due[s])]
      BY <2>3 DEF Acknowledged, Acked
    <3>4. due' \in [Servers -> 0..Interval]
      BY <3>2, <3>3
    <3>. QED
      BY <2>3, <3>4 DEF Acknowledged, BgGoes, Places, Known
  <2>4. CASE GiveUp(s)
    BY <2>4 DEF GiveUp, BgGoes, Places, Known
  <2>5. CASE Close(s)
    BY <2>5 DEF Close, Known
  <2>6. CASE Unregister(s)
    <3>1. line' \in Seq(Requests)
      BY <2>6, AppendProperties DEF Unregister, Ask, Requests
    <3>. QED
      BY <2>6, <3>1 DEF Unregister, Ask, Known
  <2>7. CASE Crash(s)
    BY <2>7 DEF Crash, BgGoes, Places, Known, RegistryAssumption
  <2>8. CASE Restart(s)
    BY <2>8 DEF Restart, BgGoes, Places, Known, RegistryAssumption
  <2>. QED
    BY <1>8, <2>1, <2>2, <2>3, <2>4, <2>5, <2>6, <2>7, <2>8 DEF Registering
<1>. QED
  BY <1>1, <1>2, <1>3, <1>4, <1>5, <1>6, <1>7, <1>8 DEF Next, Take

-----------------------------------------------------------------------------
(* What the registry says of a server.                                     *)

(* Another server that is struck, or registers, leaves s listed.           *)
LEMMA OthersStayListed ==
  ASSUME RegistryAssumption, RegistryTypes, NEW s \in Servers, NEW t \in Servers, t # s,
         NEW time \in Nat, ListedFor(s, time, services),
         services' \in {services, Registered(t), Unregistered(t)}
  PROVE  ListedFor(s, time, services')
<1>. SUFFICES ASSUME NEW n \in Offers[s]
              PROVE  s \in DOMAIN services'[n] /\ services'[n][s] + time <= Pruning
  BY DEF ListedFor
<1>1. n \in Names /\ s \in Known(n) /\ services[n][s] + time <= Pruning
  BY DEF ListedFor, Known, RegistryAssumption
<1>2. s \in Known(n)' /\ services'[n][s] = services[n][s]
  <2>1. CASE services' = services
    BY <2>1, <1>1 DEF Known
  <2>2. CASE services' = Registered(t)
    BY <2>2, <1>1 DEF Registered, With, Known
  <2>3. CASE services' = Unregistered(t)
    BY <2>3, <1>1 DEF Unregistered, Without, Known
  <2>. QED
    BY <2>1, <2>2, <2>3
<1>. QED
  BY <1>1, <1>2 DEF Known

(* Who has just registered is listed for as long as nobody is pruned.      *)
LEMMA RegisteredIsListed ==
  ASSUME RegistryAssumption, RegistryTypes, NEW s \in Servers, NEW time \in 0..Pruning,
         services' = Registered(s)
  PROVE  ListedFor(s, time, services')
<1>. SUFFICES ASSUME NEW n \in Offers[s]
              PROVE  s \in DOMAIN services'[n] /\ services'[n][s] + time <= Pruning
  BY DEF ListedFor
<1>1. n \in Names
  BY DEF RegistryAssumption
<1>2. s \in Known(n)' /\ services'[n][s] = 0
  BY <1>1 DEF Registered, With, Known
<1>. QED
  BY <1>2 DEF Known, RegistryAssumption

(* A query prunes nobody who is listed for any time at all.                *)
LEMMA QueryKeepsListed ==
  ASSUME RegistryAssumption, RegistryTypes, NEW s \in Servers, NEW time \in Nat,
         ListedFor(s, time, services), NEW m \in Names,
         services' = [services EXCEPT ![m] = Without(@, Stale(m))]
  PROVE  ListedFor(s, time, services')
<1>. SUFFICES ASSUME NEW n \in Offers[s]
              PROVE  s \in DOMAIN services'[n] /\ services'[n][s] + time <= Pruning
  BY DEF ListedFor
<1>1. n \in Names /\ s \in Known(n) /\ services[n][s] + time <= Pruning
  BY DEF ListedFor, Known, RegistryAssumption
<1>2. services[n][s] \in Nat /\ Pruning \in Nat
  BY <1>1 DEF RegistryTypes, RegistryAssumption
<1>3. s \notin Stale(n)
  BY <1>1, <1>2 DEF Stale
<1>4. s \in Known(n)' /\ services'[n][s] = services[n][s]
  <2>1. CASE n = m
    BY <2>1, <1>1, <1>3 DEF Known, Without, RegistryTypes
  <2>2. CASE n # m
    BY <2>2, <1>1 DEF Known, RegistryTypes
  <2>. QED
    BY <2>1, <2>2
<1>. QED
  BY <1>1, <1>4 DEF Known

(* A tick takes one from the time for which a server is listed.            *)
LEMMA TickAgesListed ==
  ASSUME RegistryAssumption, RegistryTypes, NEW s \in Servers, NEW time \in Nat \ {0},
         ListedFor(s, time, services),
         services' = [n \in Names |-> [t \in Known(n) |-> Aged(services[n][t])]]
  PROVE  ListedFor(s, time - 1, services')
<1>. SUFFICES ASSUME NEW n \in Offers[s]
              PROVE  s \in DOMAIN services'[n] /\ services'[n][s] + (time - 1) <= Pruning
  BY DEF ListedFor
<1>1. n \in Names /\ s \in Known(n) /\ services[n][s] + time <= Pruning
  BY DEF ListedFor, Known, RegistryAssumption
<1>2. services[n][s] \in Nat /\ Pruning \in Nat
  BY <1>1 DEF RegistryTypes, RegistryAssumption
<1>3. s \in Known(n)' /\ services'[n][s] = Aged(services[n][s])
  BY <1>1 DEF Known
<1>. QED
  BY <1>1, <1>2, <1>3 DEF Aged

-----------------------------------------------------------------------------
(* The steps.                                                              *)

LEMMA ListingStep ==
  RegistryAssumption /\ RegistryInv /\ [Next]_vars => (AckIsFresh /\ WaitersListed)'
<1>. SUFFICES ASSUME RegistryAssumption, RegistryInv, [Next]_vars
              PROVE  (AckIsFresh /\ WaitersListed)'
  OBVIOUS
<1>. USE DEF RegistryInv
<1>1. RegistryTypes /\ RegistryTypes'
  BY TypesStep
<1>2. /\ Timeout \in Nat /\ Interval \in Nat /\ Pruning \in Nat
      /\ Timeout < Interval /\ Interval + 2 * Timeout < Pruning
  BY DEF RegistryAssumption
<1>3. ASSUME services' = services, active' \ struck' \subseteq active \ struck,
             acks' \subseteq acks,
             \A u \in Servers : \/ bg'[u] = bg[u] /\ due'[u] = due[u]
                                \/ bg'[u] \in {"send", "ended"}
                                \/ due'[u] = 0 /\ bg'[u] # "await"
                                \/ bg[u] = "check" /\ bg'[u] = "sleep" /\ due'[u] = due[u]
      PROVE  (AckIsFresh /\ WaitersListed)'
  <2>1. AckIsFresh'
    BY <1>3, <1>1 DEF AckIsFresh, RegistryTypes
  <2>2. WaitersListed'
    <3>. SUFFICES ASSUME NEW u \in active' \ struck', bg'[u] \in {"sleep", "check"}, due'[u] > 0
                  PROVE  ListedFor(u, due'[u], services')
      BY DEF WaitersListed
    <3>1. u \in active \ struck /\ u \in Servers
      BY <1>3, <1>1 DEF RegistryTypes
    <3>2. bg[u] \in {"sleep", "check"} /\ due'[u] = due[u]
      BY <1>3, <3>1
    <3>. QED
      BY <1>3, <3>1, <3>2 DEF WaitersListed
  <2>. QED
    BY <2>1, <2>2
<1>4. CASE UNCHANGED vars
  BY <1>4, <1>3 DEF vars, serverVars
<1>5. ASSUME NEW i \in 1..Len(line), TakeRegister(i) PROVE (AckIsFresh /\ WaitersListed)'
  <2>. DEFINE s == line[i].of
  <2>1. s \in Servers
    BY <1>1, RestType DEF RegistryTypes, Requests
  <2>2. \A time \in 0..Pruning : ListedFor(s, time, services')
    BY <1>5, <1>1, <2>1, RegisteredIsListed DEF TakeRegister
  <2>3. \A u \in Servers \ {s} : \A time \in Nat : ListedFor(u, time, services) => ListedFor(u, time, services')
    BY <1>5, <1>1, <2>1, OthersStayListed DEF TakeRegister
  <2>4. ASSUME NEW u \in Servers, bg'[u] = "await"
        PROVE  due'[u] <= Timeout /\ (u \in (acks' \cap active') \ struck' => ListedFor(u, Pruning, services'))
    BY <1>5, <1>1, <1>2, <2>1, <2>2, <2>3, <2>4 DEF TakeRegister, AckIsFresh, serverVars
  <2>5. ASSUME NEW u \in active' \ struck', bg'[u] \in {"sleep", "check"} /\ due'[u] > 0
        PROVE  ListedFor(u, due'[u], services')
    <3>1. u \in Servers /\ due'[u] = due[u] /\ due[u] \in 0..Pruning
      BY <1>5, <1>1, <1>2, <2>5 DEF TakeRegister, RegistryTypes, serverVars
    <3>2. ListedFor(u, due[u], services')
      BY <3>1, <1>5, <2>1, <2>2, <2>3, <2>5 DEF TakeRegister, WaitersListed, serverVars
    <3>. QED
      BY <3>1, <3>2
  <2>. QED
    BY <2>4, <2>5 DEF AckIsFresh, WaitersListed
<1>6. ASSUME NEW i \in 1..Len(line), TakeUnregister(i) PROVE (AckIsFresh /\ WaitersListed)'
  <2>. DEFINE s == line[i].of
  <2>1. s \in Servers
    BY <1>1, RestType DEF RegistryTypes, Requests
  <2>2. ASSUME NEW u \in Servers, u \in active' \ struck'
        PROVE  u # s /\ u \in active \ struck
    BY <1>6, <2>2 DEF TakeUnregister, serverVars
  <2>3. \A u \in Servers \ {s} : \A time \in Nat :
           ListedFor(u, time, services) => ListedFor(u, time, services')
    BY <1>6, <1>1, <2>1, OthersStayListed DEF TakeUnregister
  <2>4. \A u \in Servers : due[u] \in Nat
    BY <1>1 DEF RegistryTypes
  <2>5. AckIsFresh'
    BY <1>6, <1>2, <2>2, <2>3 DEF TakeUnregister, AckIsFresh, serverVars
  <2>6. active \subseteq Servers
    BY <1>1 DEF RegistryTypes
  <2>7. WaitersListed'
    BY <1>6, <2>2, <2>3, <2>4, <2>6 DEF TakeUnregister, WaitersListed, serverVars
  <2>. QED
    BY <2>5, <2>7
<1>7. ASSUME NEW n \in Names, Query(n) PROVE (AckIsFresh /\ WaitersListed)'
  <2>1. \A u \in Servers : \A time \in Nat :
           ListedFor(u, time, services) => ListedFor(u, time, services')
    BY <1>7, <1>1, QueryKeepsListed DEF Query
  <2>2. \A u \in Servers : due[u] \in Nat
    BY <1>1 DEF RegistryTypes
  <2>3. active \subseteq Servers
    BY <1>1 DEF RegistryTypes
  <2>. QED
    BY <1>7, <1>2, <2>1, <2>2, <2>3 DEF Query, AckIsFresh, WaitersListed, serverVars
<1>8. CASE RegistryRestarts
  BY <1>8 DEF RegistryRestarts, AckIsFresh, WaitersListed, serverVars
<1>9. ASSUME NEW i \in 1..Len(line), Lose(i) \/ Double(i) PROVE (AckIsFresh /\ WaitersListed)'
  BY <1>9, <1>3 DEF Lose, Double, serverVars
<1>10. ASSUME NEW s \in acks, LoseAck(s) PROVE (AckIsFresh /\ WaitersListed)'
  BY <1>10, <1>3 DEF LoseAck, serverVars
<1>11. ASSUME NEW s \in Servers, Check(s) PROVE (AckIsFresh /\ WaitersListed)'
  <2>1. \A u \in Servers : \/ bg'[u] = bg[u]
                           \/ bg'[u] \in {"send", "ended"}
                           \/ bg[u] = "check" /\ bg'[u] = "sleep"
    BY <1>11, <1>1 DEF Check, BgGoes, RegistryTypes
  <2>. QED
    BY <1>11, <1>3, <2>1 DEF Check
<1>12. ASSUME NEW s \in Servers, Register(s) PROVE (AckIsFresh /\ WaitersListed)'
  <2>1. /\ bg'[s] = "await" /\ due'[s] = Timeout /\ s \notin acks'
        /\ \A u \in Servers \ {s} : bg'[u] = bg[u] /\ due'[u] = due[u] /\ (u \in acks' => u \in acks)
        /\ services' = services /\ active' = active /\ struck' = struck
    BY <1>12, <1>1 DEF Register, BgGoes, RegistryTypes
  <2>2. AckIsFresh'
    BY <2>1, <1>2 DEF AckIsFresh
  <2>3. active \subseteq Servers
    BY <1>1 DEF RegistryTypes
  <2>4. WaitersListed'
    BY <2>1, <2>3 DEF WaitersListed
  <2>. QED
    BY <2>2, <2>4
<1>13. ASSUME NEW s \in Servers, Acknowledged(s) PROVE (AckIsFresh /\ WaitersListed)'
  <2>1. /\ bg[s] = "await" /\ s \in acks /\ services' = services /\ struck' = struck
        /\ active' = active /\ acks' = acks \ {s} /\ bg' = [bg EXCEPT ![s] = "sleep"]
        /\ due' = [due EXCEPT ![s] = Interval - (Timeout - due[s])]
    BY <1>13 DEF Acknowledged, Acked, BgGoes
  <2>2. /\ bg'[s] = "sleep" /\ due'[s] \in 0..Interval
        /\ \A u \in Servers \ {s} : bg'[u] = bg[u] /\ due'[u] = due[u]
    BY <2>1, <1>1 DEF RegistryTypes
  <2>3. AckIsFresh'
    BY <2>1, <2>2 DEF AckIsFresh
  <2>4. ASSUME s \in active \ struck PROVE ListedFor(s, due'[s], services)
    <3>1. ListedFor(s, Pruning, services)
      BY <2>1, <2>4 DEF AckIsFresh
    <3>2. \A n \in Offers[s] : services[n][s] \in Nat
      <4>1. \A n \in Offers[s] : n \in Names /\ s \in Known(n)
        BY <3>1 DEF ListedFor, Known, RegistryAssumption
      <4>. QED
        BY <4>1, <1>1 DEF RegistryTypes
    <3>. QED
      BY <3>1, <3>2, <2>2, <1>2 DEF ListedFor
  <2>5. active \subseteq Servers
    BY <1>1 DEF RegistryTypes
  <2>6. WaitersListed'
    BY <2>1, <2>2, <2>4, <2>5 DEF WaitersListed
  <2>. QED
    BY <2>3, <2>6
<1>14. ASSUME NEW s \in Servers, GiveUp(s) PROVE (AckIsFresh /\ WaitersListed)'
  <2>1. \A u \in Servers : \/ bg'[u] = bg[u] /\ due'[u] = due[u]
                           \/ due'[u] = 0 /\ bg'[u] # "await"
    BY <1>14, <1>1 DEF GiveUp, BgGoes, RegistryTypes
  <2>. QED
    BY <1>14, <1>3, <2>1 DEF GiveUp
<1>15. ASSUME NEW s \in Servers, Close(s) PROVE (AckIsFresh /\ WaitersListed)'
  BY <1>15, <1>3 DEF Close
<1>16. ASSUME NEW s \in Servers, Unregister(s) PROVE (AckIsFresh /\ WaitersListed)'
  BY <1>16, <1>3 DEF Unregister
<1>17. ASSUME NEW s \in Servers, Crash(s) PROVE (AckIsFresh /\ WaitersListed)'
  <2>1. \A u \in Servers : (bg'[u] = bg[u] /\ due'[u] = due[u]) \/ bg'[u] = "ended"
    BY <1>17, <1>1 DEF Crash, BgGoes, RegistryTypes
  <2>. QED
    BY <1>17, <1>3, <2>1 DEF Crash
<1>18. ASSUME NEW s \in Servers, Restart(s) PROVE (AckIsFresh /\ WaitersListed)'
  BY <1>18, <1>1, <1>2 DEF Restart, BgGoes, AckIsFresh, WaitersListed, RegistryTypes
<1>19. CASE Tick
  <2>1. /\ services' = [n \in Names |-> [t \in Known(n) |-> Aged(services[n][t])]]
        /\ acks' = acks /\ active' = active /\ struck' = struck
        /\ \A u \in Servers : Idle(u)
        /\ \A u \in Servers : /\ due'[u] = IF due[u] > 0 THEN due[u] - 1 ELSE 0
                              /\ bg'[u] = IF bg[u] = "sleep" THEN "check" ELSE bg[u]
    BY <1>19 DEF Tick
  <2>2. AckIsFresh'
    <3>. SUFFICES ASSUME NEW u \in Servers, bg'[u] = "await"
                  PROVE  due'[u] <= Timeout /\ u \notin acks'
      BY DEF AckIsFresh
    <3>1. bg[u] = "await" /\ due[u] <= Timeout /\ due[u] \in Nat
      <4>1. bg[u] = "await"
        BY <2>1
      <4>2. due[u] <= Timeout
        BY <4>1 DEF AckIsFresh
      <4>. QED
        BY <4>1, <4>2, <1>1 DEF RegistryTypes
    <3>. QED
      BY <3>1, <2>1, <1>2 DEF Idle
  <2>3. ASSUME NEW u \in active' \ struck', bg'[u] \in {"sleep", "check"}, due'[u] > 0
        PROVE  ListedFor(u, due'[u], services')
    <3>1. u \in Servers /\ u \in active \ struck /\ due[u] \in Nat
      BY <2>1, <1>1 DEF RegistryTypes
    <3>2. bg[u] = "sleep" /\ due[u] > 0 /\ due'[u] = due[u] - 1
      BY <2>1, <2>3, <3>1 DEF Idle
    <3>3. ListedFor(u, due[u], services)
      BY <3>1, <3>2 DEF WaitersListed
    <3>. QED
      BY <3>1, <3>2, <3>3, <2>1, <1>1, TickAgesListed
  <2>. QED
    BY <2>2, <2>3 DEF WaitersListed
<1>. QED
  BY <1>4, <1>5, <1>6, <1>7, <1>8, <1>9, <1>10, <1>11, <1>12, <1>13, <1>14, <1>15, <1>16, <1>17,
     <1>18, <1>19 DEF Next, Take, Registering

(* The invariant holds in every behaviour.                                 *)
LEMMA RegistryInvariant == Spec => []RegistryInv
<1>1. Init => RegistryInv
  BY RegistryInit, RegistryAssumption
<1>2. RegistryInv /\ [Next]_vars => RegistryInv'
  BY TypesStep, ListingStep, RegistryAssumption DEF RegistryInv
<1>. QED
  BY <1>1, <1>2, PTL DEF Spec

(* The types of the model.                                                 *)
THEOREM RegistryTypeCorrect == Spec => []TypeOK
<1>1. RegistryInv => TypeOK
  <2>1. RegistryTypes => due \in [Servers -> Nat]
    BY RegistryAssumption DEF RegistryTypes, RegistryAssumption
  <2>. QED
    BY <2>1 DEF RegistryInv, RegistryTypes, TypeOK
<1>. QED
  BY <1>1, RegistryInvariant, PTL

(* A server that runs and believes itself registered (the sleep of         *)
(* Server._bg_register, utils/server.py) is in the registry under each of  *)
(* its names, with an age that cmd_query (utils/registry.py) does not      *)
(* prune until it registers again.                                         *)
THEOREM ListedUntilReregistered == Spec => []AckedIsListed
<1>1. RegistryInv => AckedIsListed
  BY DEF RegistryInv, WaitersListed, AckedIsListed, ListedFor, Known
<1>. QED
  BY <1>1, RegistryInvariant, PTL

=============================================================================
