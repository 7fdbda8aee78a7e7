------------------------------ MODULE Servers -------------------------------
(***************************************************************************)
(* A server process and those who connect to it.  It serves with threads   *)
(* (utils/server.py) or from an event loop (utils/async_server.py): which  *)
(* class it is an instance of does not change.  Both listen and accept.    *)
(***************************************************************************)
EXTENDS Naturals, Sequences, FiniteSets

CONSTANTS
  Clients, Fds, Workers,
  ThreadSetups, LoopSetups  (* where to start from                          *)

VARIABLES
  asyncio,                                      (* is it an AsyncioServer?  *)
  setup, acceptor, listening,
  peer, data, made, fd, active, closed, clients, closer, session,
  fd_to_conn, polled, queue, poller, worker, stolen,       (* ThreadServers *)
  phase, copen, creader, root, backlog, task, sopen, sreader, sclosed,
  cancelled, closing, frozen                               (* AsyncServing  *)

threadsOnly == <<peer, data, made, fd, active, closed, clients, closer, session,
                 fd_to_conn, polled, queue, poller, worker, stolen>>
loopOnly == <<phase, copen, creader, root, backlog, task, sopen, sreader, sclosed,
              cancelled, closing, frozen>>
vars == <<asyncio, setup, acceptor, listening, threadsOnly, loopOnly>>

T == INSTANCE ThreadServers WITH Setups <- ThreadSetups
A == INSTANCE AsyncServing WITH Setups <- LoopSetups

ASSUME ServersAssumption == T!ThreadServersAssumption /\ A!AsyncServingAssumption

Init ==
  \/ /\ asyncio = FALSE /\ T!Init
     /\ phase = << >> /\ copen = {} /\ creader = {} /\ root = << >> /\ backlog = {}
     /\ task = << >> /\ sopen = {} /\ sreader = {} /\ sclosed = {} /\ cancelled = {}
     /\ closing = "no" /\ frozen = FALSE
  \/ /\ asyncio = TRUE /\ A!Init
     /\ peer = << >> /\ data = << >> /\ made = << >> /\ fd = << >> /\ active = TRUE
     /\ closed = FALSE /\ clients = {} /\ closer = << >> /\ session = << >>
     /\ fd_to_conn = << >> /\ polled = {} /\ queue = << >> /\ poller = << >>
     /\ worker = << >> /\ stolen = {}

Threaded == ~asyncio /\ UNCHANGED <<asyncio, loopOnly>>
Looped == asyncio /\ UNCHANGED <<asyncio, threadsOnly>>

Next == (Threaded /\ T!Next) \/ (Looped /\ A!Next)

Spec == Init /\ [][Next]_vars

(* Every thread runs; handlers, authenticators and on_connect end.  The    *)
(* loops run what is ready.  Nobody need leave, cancel or close.           *)
FairSpec ==
  /\ Spec
  /\ WF_vars(Threaded /\ T!Accepting) /\ WF_vars(Threaded /\ T!Polling)
  /\ \A t \in T!Closers : WF_vars(Threaded /\ T!Closing(t))
  /\ \A c \in Clients : WF_vars(Threaded /\ T!Session(c))
  /\ \A w \in Workers : WF_vars(Threaded /\ T!Work(w))
  /\ WF_vars(Looped /\ A!Accepting) /\ WF_vars(Looped /\ A!CancelTasks)
  /\ \A c \in Clients : /\ WF_vars(Looped /\ A!Connecting(c))
                         /\ WF_vars(Looped /\ A!ClientReads(c))
                         /\ WF_vars(Looped /\ A!Serving(c))

-----------------------------------------------------------------------------
(* A pool has each of its connections in one place (see ThreadServers).    *)
OnePlace == asyncio \/ T!OnePlace

(* With a loop, a reader has its socket (see AsyncServing).                *)
ReaderHasSocket == asyncio => A!ReaderHasSocket

(* A request that was made is read, or the connection is closed: nobody    *)
(* waits behind the others for ever, whatever descriptors are reused -     *)
(* unless the drop of another connection deleted the entry of this one.    *)
RequestsRead ==
  \A c \in Clients : (~asyncio /\ T!Waits(c)) ~> T!ReadOrClosed(c)

(* close() of a server with threads comes back, from whichever threads it  *)
(* is called: the poller and every worker end, those too that wait for the *)
(* queue.                                                                  *)
CloseReturns ==
  \A t \in T!Closers : (~asyncio /\ closer[t] = "begin") ~> (closer[t] = "returned")

(* The answer to the handshake comes, or the connection ends, unless the   *)
(* server's loop stands still.                                             *)
HandshakeAnswered ==
  \A c \in Clients : (asyncio /\ A!Awaits(c)) ~> (~A!Awaits(c) \/ A!Hungup(c) \/ frozen)

(* After close() every session ends and its socket is closed, though       *)
(* close() waits for none - unless asyncio.run cancels it once more.       *)
SessionsEnd == (asyncio /\ closing = "returned") ~> A!OnlyAbandoned

-----------------------------------------------------------------------------
(* What the documentation says, and the code does not always do.           *)

(* See ThreadServers and AsyncServing.                                     *)
ClientsClosed   == asyncio \/ T!ClientsClosed
DropsOnlyClosed == asyncio \/ T!DropsOnlyClosed
NothingLeft     == asyncio => A!NothingLeft
LoopRuns        == asyncio => A!LoopRuns

(* _drop_connection `removes a connection by closing it and removing it    *)
(* from internal structs': it may remove one and close another.            *)
DropsClose == \A c \in Clients : (~asyncio /\ c \in stolen) ~> ~(~asyncio /\ T!Open(c))

(* async_connect returns or raises: `ConnectionError: if connection fails'.*)
(* But nobody tells the AsyncResult of the handshake that the connection   *)
(* was closed: if the server refuses the client, it is awaited for ever.   *)
ConnectEnds == \A c \in Clients : (asyncio /\ A!Awaits(c)) ~> ~(asyncio /\ A!Awaits(c))

=============================================================================
