------------------------------ MODULE Registry ------------------------------
(***************************************************************************)
(* The registry of services (utils/registry.py), the servers that keep     *)
(* themselves registered with it (Server._bg_register and close,           *)
(* utils/server.py), and the clients that ask it for servers.              *)
(*                                                                         *)
(* A datagram may be lost, doubled or overtaken (UDPRegistryServer and     *)
(* UDPRegistryClient); over TCP the registry takes one after the other.    *)
(* Time is counted in ticks: what has no waiting to do does it within one. *)
(***************************************************************************)
EXTENDS Naturals, Sequences, FiniteSets

CONSTANTS
  Servers,   (* each an address, which a restarted server has again         *)
  Names,     (* of services                                                 *)
  Offers,    (* the names (aliases) each server registers                   *)
  Interval,  (* REREGISTER_INTERVAL                                         *)
  Pruning,   (* pruning_timeout                                             *)
  Timeout,   (* timeout of the registrar                                    *)
  MaxLine,   (* bound: requests on their way at once                        *)
  Setups     (* situations: the transport, and bounds on what goes wrong    *)

ASSUME RegistryAssumption ==
  /\ Offers \in [Servers -> SUBSET Names]
  /\ {Timeout, Interval, Pruning, MaxLine} \subseteq Nat
  /\ Timeout < Interval /\ Interval + 2 * Timeout < Pruning
  /\ Setups \subseteq [transport : {"udp", "tcp"},
                       servers   : SUBSET Servers,
                       closes    : BOOLEAN, (* may a server be closed       *)
                       starts    : Nat,     (* bound: restarts of servers   *)
                       losses    : Nat]     (* bound: lost, doubled, late,  *)
                                            (* or the registry restarted    *)

VARIABLES
  setup,    (* the situation, constant                                      *)
  services, (* the registry's: for each name, the age of each server there  *)
  line,     (* requests on their way to the registry                        *)
  acks,     (* servers to whose socket an "OK" is on its way                *)
  active,   (* servers that run                                             *)
  bg,       (* the thread of _bg_register of each server                    *)
  due,      (* ticks until it registers again, or gives up waiting          *)
  closer,   (* servers in close() that have still to unregister             *)
  starts,   (* restarts so far                                              *)
  losses,   (* losses so far                                               *)
  answer,   (* the last answer to a query for each name                     *)
  struck    (* history: servers whose entry went while they run             *)

serverVars == <<active, bg, due, closer, starts>>
vars == <<setup, services, line, acks, serverVars, losses, answer, struck>>

Init ==
  /\ setup \in Setups
  /\ services = [n \in Names |-> << >>]
  /\ line = << >> /\ acks = {}
  /\ active = setup.servers
  /\ bg = [s \in Servers |-> IF s \in setup.servers THEN "check" ELSE "ended"]
  /\ due = [s \in Servers |-> 0]
  /\ closer = {} /\ starts = 0 /\ losses = 0
  /\ answer = [n \in Names |-> {}] /\ struck = {}

-----------------------------------------------------------------------------
(* RegistryServer.                                                         *)

Known(n) == DOMAIN services[n]

With(entry, s)    == [t \in DOMAIN entry \cup {s} |-> IF t = s THEN 0 ELSE entry[t]]
Without(entry, S) == [t \in DOMAIN entry \ S |-> entry[t]]

(* Mutant of Registered: a name that is known already keeps its time.      *)
RegisteredOnce(s) ==
  [n \in Names |-> IF n \in Offers[s] /\ s \notin Known(n)
                   THEN With(services[n], s) ELSE services[n]]

(* cmd_register, _add_service                                              *)
Registered(s) ==
  [n \in Names |-> IF n \in Offers[s] THEN With(services[n], s) ELSE services[n]]

(* cmd_unregister, _remove_service: the address, of all services.          *)
Unregistered(s) == [n \in Names |-> Without(services[n], {s})]

(* The request at position i is taken; over UDP that may be any.           *)
MayTake(i) == setup.transport = "udp" \/ i = 1

Rest(i) == SubSeq(line, 1, i - 1) \o SubSeq(line, i + 1, Len(line))

TakeRegister(i) ==
  /\ MayTake(i) /\ line[i].cmd = "REGISTER" /\ line' = Rest(i)
  /\ LET s == line[i].of IN
     /\ services' = Registered(s)
     /\ acks' = IF bg[s] = "await" THEN acks \cup {s} ELSE acks
     /\ struck' = struck \ {s}
  /\ UNCHANGED <<setup, serverVars, losses, answer>>

TakeUnregister(i) ==
  /\ MayTake(i) /\ line[i].cmd = "UNREGISTER" /\ line' = Rest(i)
  /\ LET s == line[i].of IN
     /\ services' = Unregistered(s)
     /\ struck' = IF s \in active THEN struck \cup {s} ELSE struck
  /\ UNCHANGED <<setup, acks, serverVars, losses, answer>>

(* Mutant of Stale: what is too old is answered once more.                 *)
StaleNever(n) == {}

(* t < time.time() - self.pruning_timeout                                  *)
Stale(n) == {s \in Known(n) : services[n][s] > Pruning}

Learns(n, found) == answer' = [answer EXCEPT ![n] = found]

Replied(n) == Learns(n, Known(n) \ Stale(n)) /\ UNCHANGED losses

(* The query or the reply is lost: discover returns ().                   *)
Unreplied(n) ==
  /\ setup.transport = "udp" /\ losses < setup.losses /\ losses' = losses + 1
  /\ Learns(n, {})

(* cmd_query prunes this name.  cmd_list looks only.                       *)
Query(n) ==
  /\ services' = [services EXCEPT ![n] = Without(@, Stale(n))]
  /\ Replied(n) \/ Unreplied(n)
  /\ UNCHANGED <<setup, line, acks, serverVars, struck>>

(* The registry is started anew, without memory.                           *)
RegistryRestarts ==
  /\ losses < setup.losses /\ losses' = losses + 1
  /\ services' = [n \in Names |-> << >>]
  /\ struck' = struck \cup active
  /\ UNCHANGED <<setup, line, acks, serverVars, answer>>

-----------------------------------------------------------------------------
(* The network.                                                            *)

Ask(cmd, s) == Len(line) < MaxLine /\ line' = Append(line, [cmd |-> cmd, of |-> s])

Lose(i) ==
  /\ setup.transport = "udp" /\ losses < setup.losses /\ losses' = losses + 1
  /\ line' = Rest(i)
  /\ UNCHANGED <<setup, services, acks, serverVars, answer, struck>>

Double(i) ==
  /\ Len(line) < MaxLine
  /\ setup.transport = "udp" /\ losses < setup.losses /\ losses' = losses + 1
  /\ line' = Append(line, line[i])
  /\ UNCHANGED <<setup, services, acks, serverVars, answer, struck>>

LoseAck(s) ==
  /\ setup.transport = "udp" /\ losses < setup.losses /\ losses' = losses + 1
  /\ acks' = acks \ {s}
  /\ UNCHANGED <<setup, services, line, serverVars, answer, struck>>

-----------------------------------------------------------------------------
(* Server._bg_register, with the registrar's register.                     *)

BgGoes(s, place) == bg' = [bg EXCEPT ![s] = place]

(* while self.active; t >= tnext                                           *)
Check(s) ==
  /\ bg[s] = "check"
  /\ BgGoes(s, CASE s \notin active -> "ended"
                 [] s \in active /\ due[s] = 0 -> "send"
                 [] s \in active /\ due[s] > 0 -> "sleep")
  /\ UNCHANGED <<setup, services, line, acks, active, due, closer, starts, losses, answer,
                 struck>>

(* A socket of its own for each attempt: earlier answers are not read.     *)
Register(s) ==
  /\ bg[s] = "send" /\ Ask("REGISTER", s) /\ BgGoes(s, "await")
  /\ acks' = acks \ {s} /\ due' = [due EXCEPT ![s] = Timeout]
  /\ UNCHANGED <<setup, services, active, closer, starts, losses, answer, struck>>

(* Mutant of Acked: once registered, a server does not register again      *)
(* before the registry may have pruned it.                                 *)
AckedForGood(s) == due' = [due EXCEPT ![s] = Pruning + 2]

(* tnext counts from before register: Timeout - due[s] ticks have gone.    *)
Acked(s) == due' = [due EXCEPT ![s] = Interval - (Timeout - @)]

Acknowledged(s) ==
  /\ bg[s] = "await" /\ s \in acks
  /\ acks' = acks \ {s} /\ Acked(s) /\ BgGoes(s, "sleep")
  /\ UNCHANGED <<setup, services, line, active, closer, starts, losses, answer, struck>>

Waiting(s) == \E i \in 1..Len(line) : line[i] = [cmd |-> "REGISTER", of |-> s]

(* Registering did not work: it is tried again after the sleep.  A request *)
(* that is still under way then is one of the losses.                      *)
GiveUp(s) ==
  /\ bg[s] = "await" /\ due[s] = 0 /\ s \notin acks
  /\ IF Waiting(s) THEN losses < setup.losses /\ losses' = losses + 1 ELSE UNCHANGED losses
  /\ BgGoes(s, "sleep")
  /\ UNCHANGED <<setup, services, line, acks, active, due, closer, starts, answer, struck>>

-----------------------------------------------------------------------------
(* The life of a server.                                                   *)

Close(s) ==
  /\ setup.closes /\ s \in active
  /\ active' = active \ {s} /\ closer' = closer \cup {s} /\ struck' = struck \ {s}
  /\ UNCHANGED <<setup, services, line, acks, bg, due, starts, losses, answer>>

(* Nobody waits for the answer.                                            *)
Unregister(s) ==
  /\ s \in closer /\ Ask("UNREGISTER", s) /\ closer' = closer \ {s}
  /\ UNCHANGED <<setup, services, acks, active, bg, due, starts, losses, answer, struck>>

(* The process is killed.                                                  *)
Crash(s) ==
  /\ setup.closes /\ s \in active
  /\ active' = active \ {s} /\ struck' = struck \ {s}
  /\ BgGoes(s, "ended") /\ acks' = acks \ {s} /\ due' = [due EXCEPT ![s] = 0]
  /\ UNCHANGED <<setup, services, line, closer, starts, losses, answer>>

(* Started again at the same address.                                      *)
Restart(s) ==
  /\ s \in setup.servers \ (active \cup closer) /\ bg[s] = "ended"
  /\ starts < setup.starts /\ starts' = starts + 1
  /\ active' = active \cup {s} /\ BgGoes(s, "check")
  /\ due' = [due EXCEPT ![s] = 0]
  /\ UNCHANGED <<setup, services, line, acks, closer, losses, answer, struck>>

-----------------------------------------------------------------------------
(* Time: a tick is longer than whatever a thread does without waiting.     *)
Aged(age) == IF age > Pruning THEN age ELSE age + 1

Idle(s) == bg[s] \in {"sleep", "ended"} \/ (bg[s] = "await" /\ due[s] > 0 /\ s \notin acks)

Tick ==
  /\ \A s \in Servers : Idle(s) /\ s \notin closer
  /\ services' = [n \in Names |-> [s \in Known(n) |-> Aged(services[n][s])]]
  /\ due' = [s \in Servers |-> IF due[s] > 0 THEN due[s] - 1 ELSE 0]
  /\ bg' = [s \in Servers |-> IF bg[s] = "sleep" THEN "check" ELSE bg[s]]
  /\ UNCHANGED <<setup, line, acks, active, closer, starts, losses, answer, struck>>

-----------------------------------------------------------------------------
Registering(s) == Check(s) \/ Register(s) \/ Acknowledged(s) \/ GiveUp(s)

Take == \E i \in 1..Len(line) : TakeRegister(i) \/ TakeUnregister(i)

Next ==
  \/ \E s \in Servers : \/ Registering(s) \/ Close(s) \/ Unregister(s) \/ Crash(s)
                        \/ Restart(s)
  \/ Take \/ \E n \in Names : Query(n)
  \/ RegistryRestarts
  \/ \E i \in 1..Len(line) : Lose(i) \/ Double(i)
  \/ \E s \in acks : LoseAck(s)
  \/ Tick

Spec == Init /\ [][Next]_vars

(* The registry takes what reaches it, threads run, time passes, and there *)
(* are clients that ask.                                                   *)
FairSpec ==
  /\ Spec
  /\ WF_vars(Take) /\ WF_vars(Tick)
  /\ \A s \in Servers : WF_vars(Registering(s)) /\ WF_vars(Unregister(s))
  /\ \A n \in Names : WF_vars(Query(n))

-----------------------------------------------------------------------------
TypeOK ==
  /\ \A n \in Names : Known(n) \subseteq Servers
                      /\ \A s \in Known(n) : services[n][s] \in 0..(Pruning + 1)
  /\ acks \subseteq Servers /\ active \subseteq Servers
  /\ due \in [Servers -> Nat]
  /\ \A n \in Names : answer[n] \subseteq Servers

(* A server that runs and believes itself registered is: under each of its *)
(* names, with an age that query does not prune until it registers again - *)
(* however often datagrams are lost or doubled.  Two things can strike it: *)
(* a registry without memory, and an UNREGISTER of an earlier server at    *)
(* its address, which comes late.                                          *)
AckedIsListed ==
  \A s \in active \ struck : (bg[s] = "sleep" /\ due[s] > 0) =>
    \A n \in Offers[s] : s \in Known(n) /\ services[n][s] + due[s] <= Pruning

(* A server that runs on is found by every client in the end, whatever     *)
(* struck its entry.                                                       *)
FoundInTheEnd ==
  \A s \in Servers : \A n \in Offers[s] : <>[](s \in active) => <>[](s \in answer[n])

(* A server that is gone for good is not found for ever: also if its last  *)
(* UNREGISTER was lost, or overtaken by a REGISTER of its own.             *)
GoneInTheEnd ==
  \A s \in Servers : \A n \in Names : <>[](s \notin active) => <>[](s \notin answer[n])

=============================================================================
