---------------------------- MODULE ThreadServers ---------------------------
(***************************************************************************)
(* The servers that serve with threads (utils/server.py): Server with the  *)
(* accept methods of ThreadedServer (a thread per client), OneShotServer   *)
(* (one client, in the accepting thread) and ThreadPoolServer (workers     *)
(* that share the connections through a poll object and a queue).          *)
(*                                                                         *)
(* Everything of the pool is kept by file descriptor, and the system gives *)
(* the descriptor of a closed socket to the next one that is accepted.     *)
(*                                                                         *)
(* close() may be called by any thread; start() calls it when it ends.     *)
(***************************************************************************)
EXTENDS Naturals, Sequences, FiniteSets

CONSTANTS
  Clients, (* those who connect                                             *)
  Fds,     (* file descriptors of accepted sockets                          *)
  Workers, (* threads of the pool                                           *)
  Setups   (* the situations to start from: the kind of server, who comes,  *)
           (* who may leave or stop the server, and bounds                  *)

(* Assumed of the constants by Servers.                                    *)
ThreadServersAssumption ==
  /\ "nobody" \notin Clients /\ 0 \notin Fds /\ IsFiniteSet(Workers)
  /\ Setups \subseteq [kind : {"threaded", "oneshot", "pool"},
                       clients : SUBSET Clients, leavers : SUBSET Clients,
                       fds     : SUBSET Fds, stops : BOOLEAN,
                       batch   : Nat \ {0}, (* request_batch_size          *)
                       requests : Nat]     (* bound: requests of a client  *)

Closers == {"start", "stop"} (* the thread of start(), and one that stops it*)
Nobody == "nobody"

VARIABLES
  setup,       (* the situation, constant                                   *)
  peer,        (* what each client has done                                 *)
  data,        (* requests of each client that are not read yet             *)
  made,        (* number of requests each client has made                   *)
  fd,          (* descriptor of each client's socket here; 0: closed, none  *)
  active,      (* self.active                                               *)
  closed,      (* self._closed                                              *)
  listening,   (* the listener is open                                      *)
  clients,     (* self.clients                                              *)
  acceptor,    (* the thread of start()                                     *)
  closer,      (* those in close()                                          *)
  session,     (* the thread of each client (ThreadedServer, OneShotServer) *)
  fd_to_conn, polled, queue, (* the pool: map, poll object, active queue    *)
  poller, worker,            (* its threads                                 *)
  stolen       (* history: open connections hit by the drop of another      *)

clientVars == <<setup, peer, made>>
startVars  == <<active, closed, listening, clients, acceptor, closer>>
poolVars   == <<fd_to_conn, polled, queue, poller, worker, stolen>>
vars == <<clientVars, data, fd, startVars, session, poolVars>>

kind == setup.kind

Init ==
  /\ setup \in Setups
  /\ peer = [c \in Clients |-> "out"] /\ data = [c \in Clients |-> 0]
  /\ made = [c \in Clients |-> 0] /\ fd = [c \in Clients |-> 0]
  /\ active = TRUE /\ closed = FALSE /\ listening = TRUE /\ clients = {}
  /\ acceptor = [at |-> "accept", of |-> Nobody]
  /\ closer = [t \in Closers |-> "idle"]
  /\ session = [c \in Clients |-> "none"]
  /\ fd_to_conn = [f \in Fds |-> Nobody] /\ polled = {} /\ queue = << >>
  /\ poller = [at |-> IF kind = "pool" THEN "poll" ELSE "ended", found |-> {},
               fd |-> 0, conn |-> Nobody, hung |-> FALSE]
  /\ worker = [w \in Workers |->
       [at |-> IF kind = "pool" THEN "get" ELSE "ended", fd |-> 0,
        conn |-> Nobody, left |-> 0]]
  /\ stolen = {}

-----------------------------------------------------------------------------
(* The clients.                                                            *)

Connect(c) ==
  /\ c \in setup.clients /\ peer[c] = "out" /\ listening
  /\ peer' = [peer EXCEPT ![c] = "connected"]
  /\ UNCHANGED <<setup, made, data, fd, startVars, session, poolVars>>

Request(c) ==
  /\ peer[c] = "connected" /\ made[c] < setup.requests
  /\ made' = [made EXCEPT ![c] = @ + 1] /\ data' = [data EXCEPT ![c] = @ + 1]
  /\ UNCHANGED <<setup, peer, fd, startVars, session, poolVars>>

(* It closes its end, by HANDLE_CLOSE or without: both end in EOFError.    *)
Leave(c) ==
  /\ c \in setup.leavers /\ peer[c] = "connected"
  /\ peer' = [peer EXCEPT ![c] = "gone"]
  /\ UNCHANGED <<setup, made, data, fd, startVars, session, poolVars>>

Free == {f \in setup.fds : \A c \in Clients : fd[c] # f}
Open(c) == fd[c] # 0

CloseSockets(cs) == fd' = [c \in Clients |-> IF c \in cs THEN 0 ELSE fd[c]]

-----------------------------------------------------------------------------
(* Server.start and Server.accept.                                         *)

AcceptorGoes(place) == acceptor' = [acceptor EXCEPT !.at = place]

Accept(c, f) ==
  /\ acceptor.at = "accept" /\ active /\ listening
  /\ peer[c] # "out" /\ ~Open(c) /\ session[c] = "none" /\ f \in Free
  /\ fd' = [fd EXCEPT ![c] = f]
  /\ session' = [session EXCEPT ![c] = "accepted"]
  /\ acceptor' = [at |-> "accepted", of |-> c]
  /\ UNCHANGED <<clientVars, data, active, closed, listening, clients, closer, poolVars>>

(* if not self.active: return - the socket goes with its last reference.   *)
CheckActive ==
  /\ acceptor.at = "accepted"
  /\ IF active
     THEN AcceptorGoes("admit") /\ UNCHANGED <<fd, session>>
     ELSE /\ AcceptorGoes("accept") /\ CloseSockets({acceptor.of})
          /\ session' = [session EXCEPT ![acceptor.of] = "ended"]
  /\ UNCHANGED <<clientVars, data, active, closed, listening, clients, closer, poolVars>>

(* The accept method: a thread, this thread, or the pool's                 *)
(* _authenticate_and_build_connection.                                     *)
Admit ==
  /\ acceptor.at = "admit"
  /\ clients' = clients \cup {acceptor.of}
  /\ AcceptorGoes(CASE kind = "threaded" -> "accept"
                    [] kind = "oneshot"  -> "serve"
                    [] kind = "pool"     -> "build")
  /\ session' = [session EXCEPT ![acceptor.of] =
                   IF kind = "pool" THEN "pooled" ELSE "serving"]
  /\ UNCHANGED <<clientVars, data, fd, active, closed, listening, closer, poolVars>>

(* The authenticator or the service refuses; so does a socket that is      *)
(* closed by now.  The pool's accept method closes it, all is well.        *)
BuildFails ==
  /\ acceptor.at = "build"
  /\ CloseSockets({acceptor.of}) /\ AcceptorGoes("accept")
  /\ UNCHANGED <<clientVars, data, active, closed, listening, clients, closer, session,
                 poolVars>>

Build ==
  /\ acceptor.at = "build" /\ Open(acceptor.of)
  /\ fd_to_conn' = [fd_to_conn EXCEPT ![fd[acceptor.of]] = acceptor.of]
  /\ acceptor' = [at |-> "register", of |-> fd[acceptor.of]]
  /\ UNCHANGED <<clientVars, data, fd, active, closed, listening, clients, closer, session,
                 polled, queue, poller, worker, stolen>>

Register ==
  /\ acceptor.at = "register"
  /\ polled' = polled \cup {acceptor.of}
  /\ clients' = {}
  /\ acceptor' = [at |-> "accept", of |-> Nobody]
  /\ UNCHANGED <<clientVars, data, fd, active, closed, listening, closer, session,
                 fd_to_conn, queue, poller, worker, stolen>>

(* The loop of start() ends, or OneShotServer has served: close().         *)
StartEnds ==
  /\ \/ acceptor.at = "accept" /\ ~(active /\ listening)
     \/ acceptor.at = "serve" /\ session[acceptor.of] = "ended"
  /\ AcceptorGoes("ended")
  /\ closer' = [closer EXCEPT !["start"] = "begin"]
  /\ UNCHANGED <<clientVars, data, fd, active, closed, listening, clients, session, poolVars>>

-----------------------------------------------------------------------------
(* Server.close and ThreadPoolServer.close.                                *)

CloserGoes(t, place) == closer' = [closer EXCEPT ![t] = place]

Stop ==
  /\ setup.stops /\ closer["stop"] = "idle" /\ CloserGoes("stop", "begin")
  /\ UNCHANGED <<clientVars, data, fd, active, closed, listening, clients, acceptor, session,
                 poolVars>>

AfterClose == IF kind = "pool" THEN "join" ELSE "returned"

Close(t) ==
  /\ closer[t] = "begin"
  /\ IF closed THEN CloserGoes(t, AfterClose) /\ UNCHANGED active
               ELSE CloserGoes(t, "listener") /\ active' = FALSE
  /\ UNCHANGED <<clientVars, data, fd, closed, listening, clients, acceptor, session,
                 poolVars>>

CloseListener(t) ==
  /\ closer[t] = "listener" /\ listening' = FALSE /\ CloserGoes(t, "shut")
  /\ UNCHANGED <<clientVars, data, fd, active, closed, clients, acceptor, session,
                 poolVars>>

ShutClients(t) ==
  /\ closer[t] = "shut"
  /\ CloseSockets(clients)
  /\ clients' = {} /\ closed' = TRUE
  /\ CloserGoes(t, AfterClose)
  /\ UNCHANGED <<clientVars, data, active, listening, acceptor, session, poolVars>>

(* One None (written 0) for each worker, once the poller has ended.        *)
Nones == [i \in 1..Cardinality(Workers) |-> 0]

(* Mutant of ForWorkers: the workers are to see `active' for themselves.   *)
NoNones == << >>

ForWorkers == Nones

JoinPoller(t) ==
  /\ closer[t] = "join" /\ poller.at = "ended"
  /\ queue' = queue \o ForWorkers
  /\ CloserGoes(t, "workers")
  /\ UNCHANGED <<clientVars, data, fd, active, closed, listening, clients, acceptor, session,
                 fd_to_conn, polled, poller, worker, stolen>>

JoinWorkers(t) ==
  /\ closer[t] = "workers" /\ \A w \in Workers : worker[w].at = "ended"
  /\ CloserGoes(t, "returned")
  /\ UNCHANGED <<clientVars, data, fd, active, closed, listening, clients, acceptor, session,
                 poolVars>>

-----------------------------------------------------------------------------
(* _authenticate_and_serve_client: serve_all, then the socket is shut down *)
(* and given up.                                                           *)

SessionServes(c) ==
  /\ session[c] = "serving" /\ Open(c) /\ data[c] > 0
  /\ data' = [data EXCEPT ![c] = @ - 1]
  /\ UNCHANGED <<clientVars, fd, startVars, session, poolVars>>

Ends(c) ==
  /\ session[c] = "serving"
  /\ CloseSockets({c}) /\ clients' = clients \ {c}
  /\ session' = [session EXCEPT ![c] = "ended"]
  /\ UNCHANGED <<clientVars, data, active, closed, listening, acceptor, closer, poolVars>>

(* EOF from serve_all.                                                     *)
SessionEnds(c) == Ends(c) /\ (~Open(c) \/ (peer[c] = "gone" /\ data[c] = 0))

(* The authenticator refuses, before anything is served.                   *)
Refused(c) == Ends(c) /\ data[c] = made[c]

-----------------------------------------------------------------------------
(* _drop_connection looks up whatever connection has the descriptor by     *)
(* now ...                                                                 *)
Dropped(f) == fd_to_conn[f]

(* ... then deletes the entry, whosever it has become in the meantime, and *)
(* closes what it looked up: an open connection only if the poller saw the *)
(* hangup of just that connection.                                         *)
Delete(f, c, hung) ==
  /\ fd_to_conn' = [fd_to_conn EXCEPT ![f] = Nobody]
  /\ CloseSockets({c})
  /\ stolen' = stolen \cup {d \in {c, fd_to_conn[f]} \cap Clients :
                              Open(d) /\ ~(d = c /\ hung)}

(* A connection that is in no map and at no thread: if the service keeps   *)
(* no reference to it either, Connection.__del__ closes it.                *)
Unmapped(c) ==
  /\ session[c] = "pooled" /\ Open(c) /\ fd_to_conn[fd[c]] # c
  /\ ~(acceptor.at = "build" /\ acceptor.of = c)
  /\ ~(acceptor.at = "register" /\ acceptor.of = fd[c])
  /\ poller.conn # c /\ \A w \in Workers : worker[w].conn # c

Collect(c) ==
  /\ Unmapped(c) /\ CloseSockets({c})
  /\ UNCHANGED <<clientVars, data, startVars, session, poolVars>>

(* _poll_inactive_clients.  poll() returns the descriptors that are ready; *)
(* a peer that is gone shows as data ("r") or as an error ("h").           *)
Owner(f) == {c \in Clients : fd[c] = f}
Invalid(f) == Owner(f) = {}
Gone(f) == \E c \in Owner(f) : peer[c] = "gone"
Readable(f) == Gone(f) \/ \E c \in Owner(f) : data[c] > 0

PollerGoes(place, found) ==
  poller' = [at |-> place, found |-> found, fd |-> 0, conn |-> Nobody, hung |-> FALSE]
PollerGoesOn(found) == PollerGoes(IF found = {} THEN "poll" ELSE "handle", found)

Poll ==
  /\ poller.at = "poll" /\ active
  /\ \E bad \in SUBSET {f \in polled : Gone(f)} :
       LET found == {<<f, "h">> : f \in bad}
                    \cup {<<f, "n">> : f \in {f \in polled : Invalid(f)}}
                    \cup {<<f, "r">> : f \in {f \in polled \ bad : Readable(f)}}
       IN found # {} /\ PollerGoes("handle", found)
  /\ UNCHANGED <<clientVars, data, fd, startVars, session, fd_to_conn, polled, queue,
                 worker, stolen>>

PollEnds ==
  /\ poller.at = "poll" /\ ~active /\ PollerGoes("ended", {})
  /\ UNCHANGED <<clientVars, data, fd, startVars, session, fd_to_conn, polled, queue,
                 worker, stolen>>

(* Mutant of Unpolled: the descriptor stays in the poll object.            *)
UnpolledNot(f) == polled

Unpolled(f) == polled \ {f}

(* Each event takes its descriptor out of the poll object.                 *)
HandlePolled(f, evt) ==
  /\ poller.at = "handle" /\ <<f, evt>> \in poller.found
  /\ LET left == poller.found \ {<<f, evt>>}
     IN IF evt = "r" \/ Dropped(f) = Nobody THEN PollerGoesOn(left)
        ELSE poller' = [at |-> "delete", found |-> left, fd |-> f, conn |-> Dropped(f),
                        hung |-> evt = "h"]
  /\ polled' = Unpolled(f)
  /\ queue' = IF evt = "r" THEN Append(queue, f) ELSE queue
  /\ UNCHANGED <<clientVars, data, fd, startVars, session, fd_to_conn, worker, stolen>>

DropPolled ==
  /\ poller.at = "delete" /\ Delete(poller.fd, poller.conn, poller.hung)
  /\ PollerGoesOn(poller.found)
  /\ UNCHANGED <<clientVars, data, startVars, session, polled, queue, worker>>

-----------------------------------------------------------------------------
(* _serve_clients and _serve_requests.                                     *)

WorkerGoes(w, place) == worker' = [worker EXCEPT ![w].at = place]
WorkerIsFree(w) ==
  worker' = [worker EXCEPT ![w] = [at |-> "get", fd |-> 0, conn |-> Nobody, left |-> 0]]

(* A worker that waits in the blocking get looks at `active' only then.    *)
Get(w) ==
  /\ worker[w].at \in {"get", "waiting"}
  /\ IF worker[w].at = "get" /\ ~active
     THEN WorkerGoes(w, "ended") /\ UNCHANGED queue
     ELSE IF queue = << >>
     THEN worker[w].at = "get" /\ WorkerGoes(w, "waiting") /\ UNCHANGED queue
     ELSE /\ queue' = Tail(queue)
          /\ IF Head(queue) = 0 THEN WorkerIsFree(w)
             ELSE worker' = [worker EXCEPT ![w] = [at |-> "serve", fd |-> Head(queue),
                               conn |-> Nobody, left |-> setup.batch]]
  /\ UNCHANGED <<clientVars, data, fd, startVars, session, fd_to_conn, polled,
                 poller, stolen>>

PutBack(w) == queue' = Append(queue, worker[w].fd) /\ WorkerIsFree(w)

(* self.fd_to_conn[fd] has gone: KeyError, `put back in doubt'.            *)
ServeUnknown(w) ==
  /\ worker[w].at = "serve" /\ fd_to_conn[worker[w].fd] = Nobody
  /\ PutBack(w)
  /\ UNCHANGED <<clientVars, data, fd, startVars, session, fd_to_conn, polled,
                 poller, stolen>>

(* poll() of the connection: a request, nothing, or EOF, which closes the  *)
(* stream before _drop_connection looks for the descriptor.                *)
Serve(w) ==
  LET c == fd_to_conn[worker[w].fd] IN
  /\ worker[w].at = "serve" /\ c # Nobody
  /\ \/ /\ Open(c) /\ data[c] > 0
        /\ data' = [data EXCEPT ![c] = @ - 1]
        /\ worker' = [worker EXCEPT ![w].at = "handler", ![w].conn = c]
        /\ UNCHANGED fd
     \/ /\ Open(c) /\ data[c] = 0 /\ peer[c] # "gone"
        /\ WorkerGoes(w, "inactive") /\ UNCHANGED <<data, fd>>
     \/ /\ ~Open(c) \/ (data[c] = 0 /\ peer[c] = "gone")
        /\ CloseSockets({c})
        /\ WorkerGoes(w, "drop") /\ UNCHANGED data
  /\ UNCHANGED <<clientVars, startVars, session, fd_to_conn, polled, queue,
                 poller, stolen>>

(* Mutant of AfterBatch: the batch is served, the connection forgotten.    *)
AfterBatchForget(w) == WorkerIsFree(w) /\ UNCHANGED queue

AfterBatch(w) == PutBack(w)

(* The handler has ended; its reply may find the connection closed.        *)
HandlerEnds(w) ==
  /\ worker[w].at = "handler"
  /\ IF ~Open(worker[w].conn) THEN WorkerGoes(w, "drop") /\ UNCHANGED queue
     ELSE IF worker[w].left = 1 THEN AfterBatch(w)
     ELSE /\ worker' = [worker EXCEPT ![w].at = "serve", ![w].conn = Nobody, ![w].left = @ - 1]
          /\ UNCHANGED queue
  /\ UNCHANGED <<clientVars, data, fd, startVars, session, fd_to_conn, polled,
                 poller, stolen>>

PutInactive(w) ==
  /\ worker[w].at = "inactive"
  /\ polled' = polled \cup {worker[w].fd}
  /\ WorkerIsFree(w)
  /\ UNCHANGED <<clientVars, data, fd, startVars, session, fd_to_conn, queue,
                 poller, stolen>>

DropClosed(w) ==
  /\ worker[w].at = "drop"
  /\ IF Dropped(worker[w].fd) = Nobody THEN WorkerIsFree(w)
     ELSE worker' = [worker EXCEPT ![w].at = "delete", ![w].conn = Dropped(worker[w].fd)]
  /\ UNCHANGED <<clientVars, data, fd, startVars, session, fd_to_conn, polled, queue,
                 poller, stolen>>

DeleteClosed(w) ==
  /\ worker[w].at = "delete" /\ Delete(worker[w].fd, worker[w].conn, FALSE) /\ WorkerIsFree(w)
  /\ UNCHANGED <<clientVars, data, startVars, session, polled, queue, poller>>

-----------------------------------------------------------------------------
Work(w) ==
  Get(w) \/ ServeUnknown(w) \/ Serve(w) \/ HandlerEnds(w) \/ PutInactive(w)
  \/ DropClosed(w) \/ DeleteClosed(w)

Polling ==
  Poll \/ PollEnds \/ DropPolled \/ \E r \in poller.found : HandlePolled(r[1], r[2])

Accepting ==
  \/ \E c \in Clients, f \in Fds : Accept(c, f)
  \/ CheckActive \/ Admit \/ BuildFails \/ Build \/ Register \/ StartEnds

Closing(t) ==
  Close(t) \/ CloseListener(t) \/ ShutClients(t) \/ JoinPoller(t) \/ JoinWorkers(t)

Session(c) == SessionServes(c) \/ SessionEnds(c)

Next ==
  \/ \E c \in Clients : Connect(c) \/ Request(c) \/ Leave(c) \/ Session(c) \/ Refused(c) \/ Collect(c)
  \/ Accepting \/ Stop \/ \E t \in Closers : Closing(t)
  \/ Polling \/ \E w \in Workers : Work(w)

-----------------------------------------------------------------------------
TypeOK ==
  /\ fd \in [Clients -> Fds \cup {0}] /\ data \in [Clients -> 0..setup.requests]
  /\ clients \subseteq Clients /\ polled \subseteq Fds
  /\ fd_to_conn \in [Fds -> Clients \cup {Nobody}]
  /\ \A i \in 1..Len(queue) : queue[i] \in Fds \cup {0}
  /\ poller.found \subseteq Fds \X {"r", "h", "n"}
  /\ \A c, d \in Clients : fd[c] = fd[d] => c = d \/ fd[c] = 0

(* The pool has a connection in one place at a time: in the poll object,   *)
(* in the queue, at a worker, still at the accepting thread, or at the     *)
(* poller that drops it.  In none its requests would stay unread, in two   *)
(* two workers would serve it.  It holds until a drop hits a connection    *)
(* that reuses a descriptor.                                               *)
Places(f) ==
  (IF f \in polled THEN 1 ELSE 0)
  + Cardinality({i \in 1..Len(queue) : queue[i] = f})
  + Cardinality({w \in Workers : worker[w].fd = f /\ worker[w].at \notin {"drop", "delete"}})
  + (IF acceptor.at = "register" /\ acceptor.of = f THEN 1 ELSE 0)
  + (IF poller.at = "delete" /\ poller.fd = f THEN 1 ELSE 0)

OnePlace ==
  stolen = {} => \A c \in Clients :
    (Open(c) /\ fd_to_conn[fd[c]] = c) => Places(fd[c]) = 1

(* A request that was made and not read yet, and what may become of it.  A *)
(* connection whose entry another's drop has deleted is out of the game:   *)
(* it may stay open with nobody to read from it (see DropsOnlyClosed).     *)
Waits(c) == Open(c) /\ data[c] > 0
ReadOrClosed(c) == data[c] = 0 \/ ~Open(c) \/ ~active \/ c \in stolen

(* `Closes (terminates) the server and all of its clients.'  A client that *)
(* accept() is about to add to `clients' escapes, and so do those of the   *)
(* pool, which `clients' forgets.                                          *)
ClientsClosed ==
  closer["stop"] = "returned" =>
    \A c \in Clients : Open(c) => session[c] \notin {"serving", "pooled"}

(* `the connection has been closed by the remote end. Close it on our      *)
(* side': a connection is dropped only then.                               *)
DropsOnlyClosed == \A c \in stolen : peer[c] = "gone"

=============================================================================
