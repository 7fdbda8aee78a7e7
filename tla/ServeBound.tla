----------------------------- MODULE ServeBound -----------------------------
(***************************************************************************)
(* serve() of a Connection with bind_threads: Connection._serve_bound,     *)
(* _serve_temporary and the thread headers of _send and _dispatch          *)
(* (core/protocol.py).                                                     *)
(*                                                                         *)
(* Every message names the thread it is for.  One thread at a time         *)
(* receives; it keeps its own messages, puts those of other threads in     *)
(* their queues, and has a request that is for nobody (UNBOUND_THREAD_ID)  *)
(* handled by a thread that is not occupied, if need be by a temporary     *)
(* one.  A thread that finds another receiving waits in the pool; whoever  *)
(* stops receiving wakes one of the pool to go on.                         *)
(*                                                                         *)
(* As in ServeLock a thread has a frame for each loop around serve(): the  *)
(* handler of a request may make a request of its own.                     *)
(***************************************************************************)
EXTENDS Naturals, Sequences, FiniteSets

CONSTANTS
  Callers, (* threads that make one synchronous request                     *)
  Servers, (* threads in serve_all                                          *)
  Workers, (* threads of _thread_pool_executor                              *)
  Setups   (* the situations to start from: which threads are there,        *)
           (* whether calls may time out, and two bounds                    *)

Threads == Callers \cup Servers \cup Workers

(* Assumed of the constants by Serving.                                    *)
BoundAssumption ==
  /\ Callers \cap Servers = {} /\ Workers \cap (Callers \cup Servers) = {}
  /\ {"nobody", "unbound"} \cap Threads = {}
  /\ Setups \subseteq [threads   : SUBSET Threads,
                       impatient : SUBSET Callers,
                       ends      : BOOLEAN, (* may the peer go away?        *)
                       seqs      : Nat,  (* bound: requests of this side    *)
                       frames    : 0..Cardinality(Workers)]
                                         (* bound: requests of the peer     *)

VARIABLES
  setup,     (* the situation, constant                                     *)
  stack,     (* the loops around serve() that each thread is in             *)
  done,      (* callers that returned or raised                             *)
  event,     (* threads whose _event is set                                 *)
  deque,     (* the messages routed to each thread                          *)
  occupied,  (* _occupation_count of each thread                            *)
  pool,      (* _thread_pool                                                *)
  receiving, (* _receiving                                                  *)
  seq,       (* requests sent so far                                        *)
  late,      (* requests whose time is over                                 *)
  asked,     (* requests that the peer has still to answer                  *)
  calling,   (* those during which it waits for an answer of ours           *)
  inbox,     (* frames in the socket                                        *)
  sent,      (* number of requests the peer has sent                        *)
  gone,      (* the peer has closed its end                                 *)
  closed     (* _closed                                                     *)

routeVars == <<event, deque, pool, receiving>>
peerVars  == <<asked, calling, inbox, sent, gone>>
vars == <<setup, stack, done, routeVars, occupied, seq, late, peerVars, closed>>

Unbound == "unbound"
Nothing == [kind |-> "none", of |-> 0, to |-> Unbound]

Waiting(r) == [at |-> "loop", req |-> r, msg |-> Nothing]

Init ==
  /\ setup \in Setups
  /\ stack = [t \in Threads |-> IF t \in setup.threads \cap Servers THEN <<Waiting(0)>>
                                                                 ELSE << >>]
  /\ done = Callers \ setup.threads
  /\ event = {} /\ deque = [t \in Threads |-> << >>]
  /\ occupied = [t \in Threads |-> 0]
  /\ pool = << >> /\ receiving = FALSE
  /\ seq = 0 /\ late = {}
  /\ asked = {} /\ calling = {} /\ inbox = << >> /\ sent = 0 /\ gone = FALSE
  /\ closed = FALSE

-----------------------------------------------------------------------------
Depth(t) == Len(stack[t])
Top(t) == stack[t][Depth(t)]
At(t) == IF stack[t] = << >> THEN "idle" ELSE Top(t).at

Goes(t, place) == stack' = [stack EXCEPT ![t][Depth(t)].at = place]
Takes(t, m) == stack' = [stack EXCEPT ![t][Depth(t)].at = "dispatch",
                                      ![t][Depth(t)].msg = m]

(* The loop of t ends; in a handler the handler goes on, and ends.         *)
Unwound(t) ==
  LET below == SubSeq(stack[t], 1, Depth(t) - 1)
  IN [stack EXCEPT ![t] = IF below = << >> THEN below
                          ELSE [below EXCEPT ![Len(below)].at = "reply"]]

(* The requests that were answered are no longer waited for: their frame   *)
(* has req = 0 in a caller.  A worker ends when it is not occupied.        *)
Loops(t) ==
  CASE t \in Workers /\ Depth(t) = 1 -> ~closed /\ (occupied[t] # 0 \/ deque[t] # << >>)
    [] t \in Servers /\ Depth(t) = 1 -> ~closed
    [] OTHER -> Top(t).req \notin {0} \cup late

TimesOut(t) == Top(t).req \in late

-----------------------------------------------------------------------------
(* Requests of this side.                                                  *)

SendRequest(t) ==
  /\ ~closed
  /\ seq' = seq + 1
  /\ asked' = asked \cup {[seq |-> seq + 1, by |-> t]}
  /\ occupied' = [occupied EXCEPT ![t] = @ + 1]
  /\ stack' = [stack EXCEPT ![t] = Append(@, Waiting(seq + 1))]
  /\ UNCHANGED <<setup, done, routeVars, late, calling, inbox, sent, gone, closed>>

Start(t) ==
  t \in Callers \ done /\ stack[t] = << >> /\ SendRequest(t)

(* The stream is closed.                                                   *)
StartFails(t) ==
  /\ t \in Callers \ done /\ stack[t] = << >> /\ closed
  /\ done' = done \cup {t}
  /\ UNCHANGED <<setup, stack, routeVars, occupied, seq, late, peerVars, closed>>

Expire(t) ==
  /\ t \in setup.impatient /\ Depth(t) = 1
  /\ stack[t][1].req \notin late \cup {0}
  /\ late' = late \cup {stack[t][1].req}
  /\ UNCHANGED <<setup, stack, done, routeVars, occupied, seq, peerVars, closed>>

-----------------------------------------------------------------------------
(* _serve_bound.                                                           *)

Return(t) ==
  /\ At(t) = "loop" /\ ~Loops(t)
  /\ stack' = Unwound(t)
  /\ done' = IF Depth(t) = 1 /\ t \in Callers THEN done \cup {t} ELSE done
  /\ UNCHANGED <<setup, routeVars, occupied, seq, late, peerVars, closed>>

(* popleft; the event goes with the last message.                          *)
PopMessage(t) ==
  /\ Takes(t, Head(deque[t]))
  /\ deque' = [deque EXCEPT ![t] = Tail(@)]
  /\ event' = IF Len(deque[t]) = 1 THEN event \ {t} ELSE event

(* A message that was routed here, the pool, or the socket.                *)
Enter(t) ==
  /\ At(t) = "loop" /\ Loops(t)
  /\ \/ /\ t \in event /\ deque[t] # << >>
        /\ PopMessage(t) /\ UNCHANGED <<pool, receiving>>
     \/ /\ ~(t \in event /\ deque[t] # << >>) /\ receiving
        /\ pool' = Append(pool, t) /\ Goes(t, "pooled")
        /\ UNCHANGED <<event, deque, receiving>>
     \/ /\ ~(t \in event /\ deque[t] # << >>) /\ ~receiving
        /\ receiving' = TRUE /\ Goes(t, "recv")
        /\ UNCHANGED <<event, deque, pool>>
  /\ UNCHANGED <<setup, done, occupied, seq, late, peerVars, closed>>

(* list.remove: the first one.                                             *)
Without(s, t) ==
  LET i == CHOOSE i \in 1..Len(s) : s[i] = t /\ \A j \in 1..(i - 1) : s[j] # t
  IN SubSeq(s, 1, i - 1) \o SubSeq(s, i + 1, Len(s))

WakeUp(t) ==
  /\ At(t) = "pooled" /\ t \in event
  /\ \/ /\ deque[t] # << >>
        /\ PopMessage(t) /\ pool' = Without(pool, t) /\ UNCHANGED receiving
     \/ /\ deque[t] = << >> /\ event' = event \ {t}
        /\ IF receiving
           THEN UNCHANGED <<stack, pool, receiving>>   \* another was faster
           ELSE receiving' = TRUE /\ Goes(t, "recv") /\ pool' = Without(pool, t)
        /\ UNCHANGED deque
  /\ UNCHANGED <<setup, done, occupied, seq, late, peerVars, closed>>

(* The thread goes, and stays in _thread_pool.                             *)
PoolTimesOut(t) ==
  /\ At(t) = "pooled" /\ t \notin event /\ TimesOut(t)
  /\ Goes(t, "loop")
  /\ UNCHANGED <<setup, done, routeVars, occupied, seq, late, peerVars, closed>>

(* The first of the pool that nobody has woken yet.                        *)
FirstIn(s, Test(_)) ==
  IF \E i \in 1..Len(s) : Test(s[i])
  THEN {s[CHOOSE i \in 1..Len(s) : Test(s[i]) /\ \A j \in 1..(i - 1) : ~Test(s[j])]}
  ELSE {}

Unwoken(t) == t \notin event

(* Mutant of Successor: the thread that stops receiving wakes nobody.      *)
NoSuccessor == {}

Successor == FirstIn(pool, Unwoken)

StopReceiving ==
  /\ receiving' = FALSE
  /\ event' = event \cup Successor

ReceiveNothing(t) ==
  /\ At(t) = "recv" /\ TimesOut(t) /\ inbox = << >> /\ ~gone
  /\ StopReceiving /\ Goes(t, "loop")
  /\ UNCHANGED <<setup, done, deque, pool, occupied, seq, late, peerVars, closed>>

IsFree(t) == occupied[t] = 0 /\ t \notin event

IdleWorkers == {w \in Workers : stack[w] = << >>}

(* _serve_temporary starts with the message in its own queue.              *)
StartWorker(w, m) ==
  /\ stack' = [stack EXCEPT ![w] = <<Waiting(0)>>]
  /\ deque' = [deque EXCEPT ![w] = Append(@, m)]
  /\ event' = event \cup {w}

Routed(t, m) ==
  /\ deque' = [deque EXCEPT ![t] = Append(@, m)]
  /\ event' = event \cup {t}

(* Mutant of Mine: the thread that receives a reply dispatches it.         *)
MineIfReply(t, m) == m.to \in {Unbound, t} \/ m.kind = "reply"

Mine(t, m) == m.to \in {Unbound, t}

(* A message for the receiver ends its turn; others are routed.            *)
Receive(t) ==
  /\ At(t) = "recv" /\ ~closed /\ inbox # << >>
  /\ inbox' = Tail(inbox)
  /\ LET m == Head(inbox)
         ForFree == m.to = Unbound /\ occupied[t] # 0 IN
     \/ /\ ForFree
        /\ IF FirstIn(pool, IsFree) # {}
           THEN (\E u \in FirstIn(pool, IsFree) : Routed(u, m)) /\ UNCHANGED stack
           ELSE \E w \in IdleWorkers : StartWorker(w, m)
        /\ UNCHANGED <<pool, receiving>>
     \/ /\ ~ForFree /\ Mine(t, m)
        /\ StopReceiving /\ Takes(t, m) /\ UNCHANGED <<deque, pool>>
     \/ /\ ~ForFree /\ ~Mine(t, m)
        /\ Routed(m.to, m) /\ UNCHANGED <<stack, pool, receiving>>
  /\ UNCHANGED <<setup, done, occupied, seq, late, asked, calling, sent, gone, closed>>

(* EOF: the receiver calls close(), whose _cleanup joins the threads of    *)
(* the executor - or raises RuntimeError, if the receiver is one of them,  *)
(* past the lines that stop receiving.  A second closer returns at once.   *)
ReceiveEOF(t) ==
  /\ At(t) = "recv" /\ (closed \/ (gone /\ inbox = << >>))
  /\ closed' = TRUE
  /\ Goes(t, IF ~closed /\ t \in Workers THEN "fail" ELSE "closing")
  /\ UNCHANGED <<setup, done, routeVars, occupied, seq, late, peerVars>>

Joined(t) == \A w \in Workers \ {t} : stack[w] = << >>

(* close() has returned; the first of the pool is woken, woken or not.     *)
CloseReturns(t) ==
  /\ At(t) = "closing" /\ Joined(t)
  /\ receiving' = FALSE
  /\ event' = event \cup FirstIn(pool, LAMBDA u : TRUE)
  /\ Goes(t, "fail")
  /\ UNCHANGED <<setup, done, deque, pool, occupied, seq, late, peerVars, closed>>

(* EOFError leaves every serve() of the thread: no handler can answer.     *)
Raise(t) ==
  /\ At(t) = "fail" \/ (At(t) \in {"handle", "reply"} /\ closed)
  /\ stack' = [stack EXCEPT ![t] = << >>]
  /\ done' = IF t \in Callers THEN done \cup {t} ELSE done
  /\ UNCHANGED <<setup, routeVars, occupied, seq, late, peerVars, closed>>

-----------------------------------------------------------------------------
(* _dispatch with the occupation counts, and the answer of a handler.      *)

(* Mutant of Freed: an answered request still counts in a handler.         *)
FreedAtRest(t) == IF Depth(t) = 1 THEN [occupied EXCEPT ![t] = @ - 1] ELSE occupied

Freed(t) == [occupied EXCEPT ![t] = @ - 1]

Dispatch(t) ==
  /\ At(t) = "dispatch"
  /\ IF Top(t).msg.kind = "request"
     THEN /\ occupied' = [occupied EXCEPT ![t] = @ + 1]
          /\ Goes(t, "handle")
     ELSE /\ occupied' = Freed(t)
          /\ stack' = [stack EXCEPT ![t][Depth(t)] =
               IF Top(t).msg.of = Top(t).req THEN Waiting(0) ELSE Waiting(Top(t).req)]
  /\ UNCHANGED <<setup, done, routeVars, seq, late, peerVars, closed>>

Spare == seq + Cardinality({c \in Callers \ done : stack[c] = << >>}) < setup.seqs

HandlerAsks(t) == At(t) = "handle" /\ Spare /\ SendRequest(t)

Reply(t) ==
  /\ At(t) \in {"handle", "reply"} /\ ~closed
  /\ occupied' = Freed(t)
  /\ calling' = calling \ {Top(t).msg.of}
  /\ stack' = [stack EXCEPT ![t][Depth(t)] = Waiting(Top(t).req)]
  /\ UNCHANGED <<setup, done, routeVars, seq, late, asked, inbox, sent, gone, closed>>

-----------------------------------------------------------------------------
(* The peer: it answers the thread that asked, calls that thread back, or  *)
(* has a request for any thread.                                           *)

PeerSends(m) ==
  /\ ~gone /\ ~closed
  /\ inbox' = Append(inbox, m)
  /\ UNCHANGED <<setup, stack, done, routeVars, occupied, seq, late, gone, closed>>

(* Answers come back in the reverse order of the requests of a thread.     *)
Innermost(a) == \A b \in asked : b.by = a.by => b.seq <= a.seq

PeerAnswers(a) ==
  /\ a \in asked /\ a.seq \notin calling /\ Innermost(a)
  /\ asked' = asked \ {a}
  /\ PeerSends([kind |-> "reply", of |-> a.seq, to |-> a.by])
  /\ UNCHANGED <<calling, sent>>

PeerCallsBack(a) ==
  /\ sent < setup.frames /\ sent' = sent + 1
  /\ a \in asked /\ a.seq \notin calling /\ Innermost(a)
  /\ calling' = calling \cup {a.seq}
  /\ PeerSends([kind |-> "request", of |-> a.seq, to |-> a.by])
  /\ UNCHANGED asked

PeerRequests ==
  /\ sent < setup.frames /\ sent' = sent + 1
  /\ PeerSends([kind |-> "request", of |-> 0, to |-> Unbound])
  /\ UNCHANGED <<asked, calling>>

PeerGone ==
  /\ setup.ends /\ ~gone /\ gone' = TRUE
  /\ UNCHANGED <<setup, stack, done, routeVars, occupied, seq, late, asked, calling,
                 inbox, sent, closed>>

-----------------------------------------------------------------------------
Serve(t) ==
  \/ Start(t) \/ StartFails(t) \/ Return(t) \/ Enter(t) \/ WakeUp(t)
  \/ PoolTimesOut(t) \/ Receive(t) \/ ReceiveNothing(t) \/ ReceiveEOF(t)
  \/ CloseReturns(t) \/ Raise(t) \/ Dispatch(t) \/ HandlerAsks(t) \/ Reply(t)

Peer ==
  \/ \E a \in asked : PeerAnswers(a) \/ PeerCallsBack(a)
  \/ PeerRequests
  \/ PeerGone

Next == (\E t \in Threads : Serve(t) \/ Expire(t)) \/ Peer

Spec == Init /\ [][Next]_vars

-----------------------------------------------------------------------------
Receivers == {t \in Threads : At(t) \in {"recv", "closing"}}

(* One thread at a time reads the socket, and while _receiving is up there *)
(* is one: nobody waits for a receiver that has gone.                      *)
OneReceiver ==
  /\ Cardinality(Receivers) <= 1 \/ closed
  /\ receiving => Receivers # {} \/ closed

(* A reply is dispatched by the thread that made the request, while it     *)
(* waits for just that request: bind_threads keeps calls and replies of    *)
(* a thread nested.  (A late reply may find the thread in another wait.)   *)
ReplyAtAsker ==
  \A t \in Threads : At(t) = "dispatch" /\ Top(t).msg.kind = "reply"
                        => Top(t).msg.of \in {Top(t).req} \cup late

(* _occupation_count is the number of requests the thread is involved in,  *)
(* of which the routing of UNBOUND_THREAD_ID decides.                      *)
Involved(t) ==
  Cardinality({a \in asked : a.by = t})
  + Cardinality({i \in 1..Len(inbox) : inbox[i].kind = "reply" /\ inbox[i].to = t})
  + Cardinality({i \in 1..Len(deque[t]) : deque[t][i].kind = "reply"})
  + Cardinality({i \in 1..Depth(t) : \/ stack[t][i].at \in {"handle", "reply"}
                                     \/ /\ stack[t][i].at = "dispatch"
                                        /\ stack[t][i].msg.kind = "reply"})

OccupationExact == ~closed => \A t \in Threads : occupied[t] = Involved(t)

(* As long as somebody waits in the pool, somebody receives or has been    *)
(* woken to: no message stays in the socket.  A thread that timed out is   *)
(* still in _thread_pool and may be the one that is woken.                 *)
PoolServed ==
  late = {} /\ ~closed /\ (\E t \in Threads : At(t) = "pooled")
    => receiving \/ \E t \in event : At(t) # "idle"

(* Every call returns or raises while the connection lasts.                *)
Over(t) == t \in done \/ gone

(* close() comes back: it `releases all held resources'.                   *)
Closing(t) == At(t) = "closing"

=============================================================================
