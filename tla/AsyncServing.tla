---------------------------- MODULE AsyncServing ----------------------------
(***************************************************************************)
(* AsyncioServer (utils/async_server.py) and the clients that come to it   *)
(* by async_connect (core/async_connect.py).                               *)
(*                                                                         *)
(* The server is an accepting task and a task for each client, on one      *)
(* event loop: what a task does between two awaits is one step.  A client  *)
(* dials, builds its Connection, has its loop read for it and awaits the   *)
(* reply to HANDLE_GETROOT; each client has a loop of its own.  Of the     *)
(* connections only the socket, the reader on the loop and _closed are     *)
(* here: how close and aclose get there is CloseLifecycle.                 *)
(***************************************************************************)
EXTENDS Naturals, FiniteSets

CONSTANTS
  Clients,
  Setups   (* the situations to start from                                  *)

(* Assumed of the constants by Servers.                                    *)
AsyncServingAssumption ==
  /\ "nobody" \notin Clients
  /\ Setups \subseteq [clients : SUBSET Clients,
                       sockets : Nat,      (* the process may have open     *)
                       stops   : BOOLEAN,  (* may the server be closed?     *)
                       impatient : SUBSET Clients] (* may be cancelled      *)

Nobody == "nobody"

VARIABLES
  setup,       (* the situation, constant                                   *)
  (* the clients                                                            *)
  phase,       (* where async_connect is, or what became of its connection  *)
  copen, creader,    (* its socket, and on_readable on its loop             *)
  root,        (* HANDLE_GETROOT: not sent, sent, answered, lost            *)
  (* the server                                                             *)
  backlog,     (* clients that are connected and not accepted               *)
  acceptor,    (* _accept_loop: waiting, with a socket, ended               *)
  task,        (* _handle_client of each client                             *)
  sopen, sreader, sclosed, (* its socket, reader, and Connection._closed    *)
  cancelled,   (* tasks with a cancellation on its way                      *)
  closing,     (* how far close() is                                        *)
  listening,   (* the listener is open                                      *)
  frozen       (* a step that never comes to an await: the loop stands      *)

clientVars == <<phase, copen, creader, root>>
taskVars   == <<task, sopen, sreader, sclosed, cancelled>>
serverVars == <<acceptor, closing, listening, frozen>>
vars == <<setup, clientVars, backlog, taskVars, serverVars>>

Init ==
  /\ setup \in Setups
  /\ phase = [c \in Clients |-> "idle"] /\ root = [c \in Clients |-> "none"]
  /\ copen = {} /\ creader = {}
  /\ backlog = {} /\ acceptor = [at |-> "waiting", of |-> Nobody]
  /\ task = [c \in Clients |-> "none"]
  /\ sopen = {} /\ sreader = {} /\ sclosed = {} /\ cancelled = {}
  /\ closing = "no" /\ listening = TRUE /\ frozen = FALSE

-----------------------------------------------------------------------------
(* async_connect.                                                          *)

PhaseIs(c, p) == phase' = [phase EXCEPT ![c] = p]

Dial(c) ==
  /\ c \in setup.clients /\ phase[c] = "idle" /\ PhaseIs(c, "dialling")
  /\ UNCHANGED <<setup, copen, creader, root, backlog, taskVars, serverVars>>

(* sock_connect is refused, or its timeout passes, or it is cancelled.     *)
DialFails(c) ==
  /\ phase[c] = "dialling" /\ (~listening \/ c \in setup.impatient)
  /\ PhaseIs(c, "failed")
  /\ UNCHANGED <<setup, copen, creader, root, backlog, taskVars, serverVars>>

(* Mutant of Armed: the handshake comes before enable_asyncio_serving.     *)
ArmedLater(c) == UNCHANGED creader

(* enable_asyncio_serving                                                  *)
Armed(c) == creader' = creader \cup {c}

(* From the connection to the await of the handshake.                      *)
Dialled(c) ==
  /\ phase[c] = "dialling" /\ listening
  /\ PhaseIs(c, "handshake")
  /\ copen' = copen \cup {c} /\ Armed(c)
  /\ root' = [root EXCEPT ![c] = "sent"]
  /\ backlog' = backlog \cup {c}
  /\ UNCHANGED <<setup, taskVars, serverVars>>

(* Mutant of RollBack: only the socket is closed, the reader stays.        *)
RollBackSocket(c) == copen' = copen \ {c} /\ creader' = creader \cup {c}

(* disable_asyncio_serving, then _cleanup.                                 *)
RollBack(c) == copen' = copen \ {c} /\ creader' = creader \ {c}

(* The server is gone again: sending HANDLE_GETROOT raises, and the        *)
(* connection that was built and enabled is rolled back.                   *)
HandshakeFails(c) ==
  /\ phase[c] = "dialling" /\ ~listening
  /\ PhaseIs(c, "failed") /\ RollBack(c)
  /\ root' = [root EXCEPT ![c] = "lost"]
  /\ UNCHANGED <<setup, backlog, taskVars, serverVars>>

Answered(c) ==
  /\ phase[c] = "handshake" /\ c \in creader /\ root[c] = "answered"
  /\ PhaseIs(c, "ready")
  /\ UNCHANGED <<setup, copen, creader, root, backlog, taskVars, serverVars>>

(* CancelledError is no Exception: neither handler of async_connect runs.  *)
Cancelled(c) ==
  /\ phase[c] = "handshake" /\ c \in setup.impatient
  /\ PhaseIs(c, "cancelled")
  /\ UNCHANGED <<setup, copen, creader, root, backlog, taskVars, serverVars>>

(* The server's end is closed, or has sent HANDLE_CLOSE: on_readable       *)
(* closes the connection.  Request callbacks are cleared, and not called.  *)
Hungup(c) == c \notin backlog \cup sopen \/ task[c] \in {"yielding", "abandoned"}

ClientEOF(c) ==
  /\ c \in creader \cap copen /\ Hungup(c)
  /\ copen' = copen \ {c} /\ creader' = creader \ {c}
  /\ IF phase[c] = "ready" THEN PhaseIs(c, "left") ELSE UNCHANGED phase
  /\ UNCHANGED <<setup, root, backlog, taskVars, serverVars>>

(* aclose, or the end of the client's process.                             *)
Leave(c) ==
  /\ phase[c] = "ready" /\ PhaseIs(c, "left")
  /\ copen' = copen \ {c} /\ creader' = creader \ {c}
  /\ UNCHANGED <<setup, root, backlog, taskVars, serverVars>>

-----------------------------------------------------------------------------
(* _accept_loop.                                                           *)

Accept(c) ==
  /\ ~frozen /\ acceptor.at = "waiting" /\ c \in backlog
  /\ Cardinality(sopen) < setup.sockets
  /\ acceptor' = [at |-> "accepted", of |-> c]
  /\ backlog' = backlog \ {c} /\ sopen' = sopen \cup {c}
  /\ UNCHANGED <<setup, clientVars, task, sreader, sclosed, cancelled, closing, listening,
                 frozen>>

(* sock_accept fails at once, without an await; the loop logs it, and      *)
(* tries again, for ever: no other task runs, and no socket is closed.     *)
AcceptFails ==
  /\ ~frozen /\ acceptor.at = "waiting" /\ closing = "no"
  /\ backlog # {} /\ Cardinality(sopen) >= setup.sockets
  /\ frozen' = TRUE
  /\ UNCHANGED <<setup, clientVars, backlog, taskVars, acceptor, closing, listening>>

(* The task goes on: with a task for the client, or, cancelled in between, *)
(* without: the socket goes with its last reference.                       *)
AcceptorGoesOn ==
  /\ ~frozen /\ acceptor.at = "accepted"
  /\ IF closing = "no"
     THEN /\ task' = [task EXCEPT ![acceptor.of] = "new"]
          /\ acceptor' = [at |-> "waiting", of |-> Nobody]
          /\ UNCHANGED sopen
     ELSE /\ sopen' = sopen \ {acceptor.of}
          /\ acceptor' = [at |-> "ended", of |-> Nobody]
          /\ UNCHANGED task
  /\ UNCHANGED <<setup, clientVars, backlog, sreader, sclosed, cancelled, closing, listening,
                 frozen>>

AcceptorCancelled ==
  /\ ~frozen /\ acceptor.at = "waiting" /\ closing = "cancelling"
  /\ acceptor' = [acceptor EXCEPT !.at = "ended"]
  /\ UNCHANGED <<setup, clientVars, backlog, taskVars, closing, listening, frozen>>

-----------------------------------------------------------------------------
(* _handle_client and _serve_connection.                                   *)

TaskIs(c, t) == task' = [task EXCEPT ![c] = t]

(* Cancelled before it has run, or refused by the authenticator or by      *)
(* on_connect: the socket is closed, or goes with its last reference.      *)
TaskStarts(c) ==
  /\ ~frozen /\ task[c] = "new"
  /\ \/ /\ TaskIs(c, "ended") /\ sopen' = sopen \ {c} /\ UNCHANGED sreader
     \/ /\ c \notin cancelled
        /\ TaskIs(c, "waiting") /\ sreader' = sreader \cup {c} /\ UNCHANGED sopen
  /\ UNCHANGED <<setup, clientVars, backlog, sclosed, cancelled, serverVars>>

AnswerRoot(c) ==
  /\ ~frozen /\ c \in sreader /\ root[c] = "sent" /\ c \in copen
  /\ root' = [root EXCEPT ![c] = "answered"]
  /\ UNCHANGED <<setup, phase, copen, creader, backlog, taskVars, serverVars>>

(* on_readable: the client has closed its end.                             *)
ServerEOF(c) ==
  /\ ~frozen /\ c \in sreader /\ c \notin copen
  /\ sopen' = sopen \ {c} /\ sreader' = sreader \ {c} /\ sclosed' = sclosed \cup {c}
  /\ UNCHANGED <<setup, clientVars, backlog, task, cancelled, serverVars>>

(* wait_closed ends: the connection is closed, or the task is cancelled.   *)
(* disable_asyncio_serving, then aclose, which sends HANDLE_CLOSE and      *)
(* yields once; if that send breaks the stream it raises, and is ignored.  *)
TaskWakes(c) ==
  /\ ~frozen /\ task[c] = "waiting" /\ c \in sclosed \cup cancelled
  /\ sreader' = sreader \ {c} /\ cancelled' = cancelled \ {c}
  /\ \/ c \in sclosed /\ TaskIs(c, "ended") /\ UNCHANGED sopen
     \/ c \notin sclosed /\ TaskIs(c, "yielding") /\ UNCHANGED sopen
     \/ /\ c \notin sclosed /\ c \notin copen
        /\ TaskIs(c, "ended") /\ sopen' = sopen \ {c}
  /\ UNCHANGED <<setup, clientVars, backlog, sclosed, serverVars>>

(* Cancelled once more in aclose, the task leaves the connection open, for *)
(* the collector to close.                                                 *)
TaskEnds(c) ==
  /\ ~frozen /\ task[c] = "yielding"
  /\ IF c \in cancelled
     THEN TaskIs(c, "abandoned") /\ UNCHANGED <<sopen, sclosed>>
     ELSE TaskIs(c, "ended") /\ sopen' = sopen \ {c} /\ sclosed' = sclosed \cup {c}
  /\ UNCHANGED <<setup, clientVars, backlog, sreader, cancelled, serverVars>>

Collected(c) ==
  /\ task[c] = "abandoned"
  /\ TaskIs(c, "ended") /\ sopen' = sopen \ {c} /\ sclosed' = sclosed \cup {c}
  /\ UNCHANGED <<setup, clientVars, backlog, sreader, cancelled, serverVars>>

-----------------------------------------------------------------------------
(* close() of the server.                                                  *)

Close ==
  /\ setup.stops /\ ~frozen /\ closing = "no" /\ closing' = "cancelling"
  /\ UNCHANGED <<setup, clientVars, backlog, taskVars, acceptor, listening, frozen>>

Live == {c \in Clients : task[c] \in {"new", "waiting", "yielding"}}

(* Mutant of ToCancel: those that serve already are left to their clients. *)
OnlyNew == {c \in Live : task[c] = "new"}

ToCancel == Live

(* The accepting task has ended: the others are cancelled, not awaited.    *)
CancelTasks ==
  /\ ~frozen /\ closing = "cancelling" /\ acceptor.at = "ended"
  /\ cancelled' = cancelled \cup ToCancel
  /\ listening' = FALSE /\ backlog' = {}
  /\ closing' = "returned"
  /\ UNCHANGED <<setup, clientVars, task, sopen, sreader, sclosed, acceptor, frozen>>

(* asyncio.run ends, and cancels what is left: once more for a task that   *)
(* has taken notice of its cancellation.                                   *)
RunEnds ==
  /\ ~frozen /\ closing = "returned" /\ closing' = "over"
  /\ cancelled' = cancelled \cup Live
  /\ UNCHANGED <<setup, clientVars, backlog, task, sopen, sreader, sclosed, acceptor,
                 listening, frozen>>

-----------------------------------------------------------------------------
Connecting(c) == DialFails(c) \/ Dialled(c) \/ HandshakeFails(c)
ClientReads(c) == Answered(c) \/ ClientEOF(c)

Serving(c) ==
  TaskStarts(c) \/ AnswerRoot(c) \/ ServerEOF(c) \/ TaskWakes(c) \/ TaskEnds(c)

Accepting == AcceptorGoesOn \/ AcceptorCancelled \/ AcceptFails \/ \E c \in Clients : Accept(c)

Next ==
  \/ \E c \in Clients : \/ Dial(c) \/ Connecting(c) \/ Cancelled(c) \/ ClientReads(c)
                        \/ Leave(c) \/ Serving(c) \/ Collected(c)
  \/ Accepting \/ Close \/ CancelTasks \/ RunEnds

-----------------------------------------------------------------------------
TypeOK ==
  /\ copen \in SUBSET Clients /\ creader \in SUBSET Clients
  /\ phase \in [Clients -> {"idle", "dialling", "handshake", "ready", "failed",
                            "cancelled", "left"}]
  /\ root \in [Clients -> {"none", "sent", "answered", "lost"}]
  /\ backlog \in SUBSET Clients /\ cancelled \in SUBSET Clients
  /\ sopen \in SUBSET Clients /\ sreader \in SUBSET Clients /\ sclosed \in SUBSET Clients
  /\ acceptor \in [at : {"waiting", "accepted", "ended"}, of : Clients \cup {Nobody}]
  /\ task \in [Clients -> {"none", "new", "waiting", "yielding", "abandoned", "ended"}]
  /\ closing \in {"no", "cancelling", "returned", "over"}
  /\ listening \in BOOLEAN /\ frozen \in BOOLEAN

(* A reader is on a loop only with its socket open, on both sides: the     *)
(* descriptor is not given to another while the loop still watches it.     *)
ReaderHasSocket == creader \subseteq copen /\ sreader \subseteq sopen

(* async_connect awaits the reply to the handshake; if the server is gone  *)
(* it never comes.                                                         *)
Awaits(c) == phase[c] = "handshake"

(* The sockets that are open after close(): of sessions that asyncio.run   *)
(* cancelled once more.                                                    *)
OnlyAbandoned == sopen \subseteq {c \in Clients : task[c] = "abandoned"}

(* `On ANY failure after enable_asyncio_serving()' the reader is taken off *)
(* and the socket closed.                                                  *)
NothingLeft == \A c \in Clients : phase[c] \in {"failed", "cancelled"} => c \notin copen

(* `no busy/semi-busy loops anywhere AsyncioServer touches'                *)
LoopRuns == ~frozen

=============================================================================
