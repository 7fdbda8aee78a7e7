----------------------------- MODULE ServeLock ------------------------------
(***************************************************************************)
(* A Connection that no event loop serves: any thread that waits for a     *)
(* reply serves it (AsyncResult.wait, core/async_.py), and so may threads  *)
(* in serve_all or BgServingThread.  They take turns with _recvlock and    *)
(* sleep on _recv_event in between (Connection.serve, core/protocol.py).   *)
(*                                                                         *)
(* serve() is reentrant.  The handler of a request, and the unboxing of a  *)
(* reply that brings a class not seen yet (HANDLE_INSPECT), make requests  *)
(* of their own and serve for them.  So each thread has a stack of frames, *)
(* one for each loop around serve(): the request it waits for (0 in a      *)
(* thread that only serves), what it dispatches, and where it is.          *)
(*                                                                         *)
(* bind_threads is off: with it on, serve() is another algorithm.          *)
(***************************************************************************)
EXTENDS Naturals, Sequences, FiniteSets

CONSTANTS
  Callers,    (* threads that make one synchronous request                  *)
  Servers,    (* threads in serve_all                                       *)
  Background, (* threads of a BgServingThread: they serve without waiting   *)
  Setups      (* the situations to start from: which threads are there,     *)
              (* whether calls may time out, and two bounds                 *)

Threads == Callers \cup Servers \cup Background

(* Assumed of the constants by Serving.                                    *)
ServeAssumption ==
  /\ Callers \cap Servers = {} /\ Background \cap (Callers \cup Servers) = {}
  /\ "nobody" \notin Threads
  /\ Setups \subseteq [threads   : SUBSET Threads,
                       impatient : BOOLEAN,
                       errors    : BOOLEAN, (* may a call raise at the peer?*)
                       ends      : BOOLEAN, (* may the peer go away?        *)
                       seqs      : Nat,  (* bound: requests of this side    *)
                       frames    : Nat]  (* bound: requests of the peer     *)

VARIABLES
  setup,     (* the situation, constant                                     *)
  stack,     (* the loops around serve() that each thread is in             *)
  done,      (* threads that returned or raised                             *)
  owner,     (* the thread that has _recvlock                               *)
  count,     (* how many times (it is an RLock)                             *)
  seq,       (* _seqcounter: requests sent so far                           *)
  slots,     (* the keys of _request_callbacks                              *)
  ready,     (* requests whose AsyncResult has its result                   *)
  expired,   (* requests whose time is over                                 *)
  asked,     (* requests that the peer has still to answer                  *)
  inbox,     (* frames in the socket                                        *)
  sent,      (* number of requests the peer has sent                        *)
  gone,      (* the peer has closed its end                                 *)
  dead,      (* our stream is closed                                        *)
  closed,    (* _closed                                                     *)
  escaped    (* history: an exception came out of the unboxing of a reply   *)

lockVars == <<owner, count>>
reqVars  == <<seq, slots, ready, expired>>
peerVars == <<asked, inbox, sent, gone>>
endVars  == <<dead, closed>>
vars == <<setup, stack, done, lockVars, reqVars, peerVars, endVars, escaped>>

Nobody == "nobody"
Nothing == [kind |-> "none", of |-> 0, inspect |-> FALSE]

Waiting(r) == [at |-> "loop", req |-> r, msg |-> Nothing]

Init ==
  /\ setup \in Setups
  /\ stack = [t \in Threads |-> IF t \in setup.threads \ Callers THEN <<Waiting(0)>>
                                                               ELSE << >>]
  /\ done = Threads \ setup.threads
  /\ owner = Nobody /\ count = 0
  /\ seq = 0 /\ slots = {} /\ ready = {} /\ expired = {}
  /\ asked = {} /\ inbox = << >> /\ sent = 0 /\ gone = FALSE
  /\ dead = FALSE /\ closed = FALSE
  /\ escaped = FALSE

-----------------------------------------------------------------------------
(* The stack of a thread.                                                  *)

Depth(t) == Len(stack[t])
Top(t) == stack[t][Depth(t)]
At(t) == IF stack[t] = << >> THEN "idle" ELSE Top(t).at

Moved(s, t, place) == [s EXCEPT ![t][Len(s[t])].at = place]
Goes(t, place) == stack' = Moved(stack, t, place)

(* The loop of t ends; an exception that leaves the unboxing of a reply    *)
(* leaves serve() too, one that leaves a handler is sent to the peer.      *)
Unwound(t, raised) ==
  LET below == SubSeq(stack[t], 1, Depth(t) - 1)
      place == IF below # << >> /\ below[Len(below)].at = "handle" THEN "reply"
               ELSE IF raised THEN "fail" ELSE "resolve"
  IN [stack EXCEPT ![t] = IF below = << >> THEN below
                          ELSE [below EXCEPT ![Len(below)].at = place]]

Escapes(t, raised) ==
  raised /\ Depth(t) > 1 /\ stack[t][Depth(t) - 1].at = "unbox"

(* while self._waiting() of AsyncResult.wait, while not self.closed of     *)
(* serve_all.  The `waiting' of a serve() outside of wait is always true.  *)
Unanswered(r) == r \notin ready \cup expired
Loops(t) == IF Top(t).req = 0 THEN ~closed \/ t \in Background
            ELSE Unanswered(Top(t).req)
Wanted(t) == Top(t).req = 0 \/ Unanswered(Top(t).req)

(* Does the timeout of serve() pass?  None for ever, 0 at once.            *)
TimesOut(t) == (t \in Background /\ Top(t).req = 0) \/ Top(t).req \in expired

-----------------------------------------------------------------------------
(* The lock.                                                               *)

(* Mutant of CanAcquire: the answer of acquire(False) is not looked at.    *)
CanAcquireAlways(t) == TRUE

CanAcquire(t) == owner \in {Nobody, t}

Acquired(t) == owner' = t /\ count' = IF owner = t THEN count + 1 ELSE 1

Drop(n) == /\ count' = count - n
           /\ owner' = IF count = n THEN Nobody ELSE owner

Release == Drop(1)

NotifyAll(s) ==
  [u \in Threads |-> IF At(u) = "asleep" THEN Moved(s, u, "loop")[u] ELSE s[u]]

-----------------------------------------------------------------------------
(* Requests of this side.                                                  *)

(* async_request: a slot, the message, then the wait.  A stream that is    *)
(* closed, or breaks under the write, raises and gives the slot back.      *)
SendRequest(t, s) ==
  /\ ~dead
  /\ seq' = seq + 1
  /\ slots' = slots \cup {seq + 1}
  /\ asked' = asked \cup {seq + 1}
  /\ stack' = [s EXCEPT ![t] = Append(@, Waiting(seq + 1))]
  /\ UNCHANGED <<ready, expired, inbox, sent, gone, endVars, escaped>>

SendBreaks == (dead \/ gone) /\ dead' = TRUE /\ UNCHANGED closed

(* The bound on the requests that handlers and unboxing make.              *)
Spare == seq + Cardinality({c \in Callers \ done : stack[c] = << >>}) < setup.seqs

Start(t) ==
  /\ t \in Callers \ done /\ stack[t] = << >> /\ SendRequest(t, stack)
  /\ UNCHANGED <<setup, done, lockVars>>

StartFails(t) ==
  /\ t \in Callers \ done /\ stack[t] = << >> /\ SendBreaks
  /\ done' = done \cup {t}
  /\ UNCHANGED <<setup, stack, lockVars, reqVars, peerVars, escaped>>

Expire(t, i) ==
  /\ setup.impatient /\ t \in Callers
  /\ stack[t][i].req \notin expired
  /\ expired' = expired \cup {stack[t][i].req}
  /\ UNCHANGED <<setup, stack, done, lockVars, seq, slots, ready, peerVars,
                 endVars, escaped>>

-----------------------------------------------------------------------------
(* serve().                                                                *)

(* The wait is over: with a result, or with AsyncResultTimeout.            *)
Return(t) ==
  /\ At(t) = "loop" /\ ~Loops(t)
  /\ LET raised == Top(t).req \notin ready \cup {0}
     IN stack' = Unwound(t, raised) /\ escaped' = (escaped \/ Escapes(t, raised))
  /\ done' = IF Depth(t) = 1 THEN done \cup {t} ELSE done
  /\ UNCHANGED <<setup, lockVars, reqVars, peerVars, endVars>>

(* Mutant of Refused: waiting() is not called again under _recv_event.     *)
RefusedBlindly(t) == "asleep"

(* Where a thread goes that finds the lock taken.                          *)
Refused(t) == IF Wanted(t) THEN "asleep" ELSE "loop"

(* Under _recv_event: try the lock, or wait for a notification.            *)
Enter(t) ==
  /\ At(t) = "loop" /\ Loops(t)
  /\ Goes(t, "enter")
  /\ UNCHANGED <<setup, done, lockVars, reqVars, peerVars, endVars, escaped>>

TryLock(t) ==
  /\ At(t) = "enter"
  /\ IF CanAcquire(t)
     THEN Acquired(t) /\ Goes(t, "check")
     ELSE Goes(t, Refused(t)) /\ UNCHANGED lockVars
  /\ UNCHANGED <<setup, done, reqVars, peerVars, endVars, escaped>>

WaitTimesOut(t) ==
  /\ At(t) = "asleep" /\ TimesOut(t)
  /\ Goes(t, "loop")
  /\ UNCHANGED <<setup, done, lockVars, reqVars, peerVars, endVars, escaped>>

(* Mutant of GivenUp: the lock is released without a notification.         *)
GivenUpSilently == "loop"

GivenUp == "notify"

(* The result may have arrived just before the lock was taken.             *)
Check(t) ==
  /\ At(t) = "check"
  /\ IF Wanted(t) THEN Goes(t, "recv") /\ UNCHANGED lockVars
                  ELSE Goes(t, GivenUp) /\ Release
  /\ UNCHANGED <<setup, done, reqVars, peerVars, endVars, escaped>>

(* Does _dispatch release the lock before it looks at the message?         *)
Arrival(kind) == kind \in {"request", "close", "exception"}

Place(m) ==
  CASE m.kind = "reply"     -> IF m.inspect THEN "unbox" ELSE "resolve"
    [] m.kind = "exception" -> "settle"
    [] OTHER                -> "handle"

(* poll and recv; _dispatch releases at once, but for MSG_REPLY.           *)
Receive(t) ==
  /\ At(t) = "recv" /\ ~dead /\ inbox # << >>
  /\ inbox' = Tail(inbox)
  /\ stack' = [stack EXCEPT ![t][Depth(t)].at = Place(Head(inbox)),
                            ![t][Depth(t)].msg = Head(inbox)]
  /\ IF Arrival(Head(inbox).kind) THEN Release ELSE UNCHANGED lockVars
  /\ UNCHANGED <<setup, done, reqVars, asked, sent, gone, endVars, escaped>>

ReceiveNothing(t) ==
  /\ At(t) = "recv" /\ TimesOut(t) /\ ~dead /\ ~gone /\ inbox = << >>
  /\ Release /\ Goes(t, "notify")
  /\ UNCHANGED <<setup, done, reqVars, peerVars, endVars, escaped>>

(* close() once the stream is dead, and the handler of HANDLE_CLOSE (whose *)
(* reply then fails): the slots are cleared, and _recvlock is released     *)
(* once more, which has an effect only if this very thread (still) has     *)
(* it, `held' times.                                                       *)
Teardown(t, held) ==
  /\ dead' = TRUE /\ closed' = TRUE
  /\ slots' = IF closed THEN slots ELSE {}
  /\ LET left == IF held > 0 /\ ~closed THEN held - 1 ELSE held
     IN /\ count' = IF owner = t THEN left ELSE count
        /\ owner' = IF owner = t /\ left = 0 THEN Nobody ELSE owner
  /\ UNCHANGED <<seq, ready, expired>>

ReceiveEOF(t) ==
  /\ At(t) = "recv" /\ (dead \/ (gone /\ inbox = << >>))
  /\ Goes(t, "fail") /\ Teardown(t, count - 1)
  /\ UNCHANGED <<setup, done, peerVars, escaped>>

-----------------------------------------------------------------------------
(* _dispatch: replies and exceptions.                                      *)

(* The class is known by now.                                              *)
Unbox(t) ==
  /\ At(t) = "unbox"
  /\ Goes(t, "resolve")
  /\ UNCHANGED <<setup, done, lockVars, reqVars, peerVars, endVars, escaped>>

UnboxInspects(t) ==
  /\ At(t) = "unbox" /\ Spare /\ SendRequest(t, stack)
  /\ UNCHANGED <<setup, done, lockVars>>

UnboxFails(t) ==
  /\ At(t) = "unbox" /\ SendBreaks
  /\ Goes(t, "fail") /\ escaped' = TRUE
  /\ UNCHANGED <<setup, done, lockVars, reqVars, peerVars>>

(* _seq_request_callback: the slot is popped, a late result is dropped.    *)
Resolve(t) ==
  /\ At(t) \in {"resolve", "settle"}
  /\ LET r == Top(t).msg.of IN
     /\ slots' = slots \ {r}
     /\ ready' = IF r \in slots \ expired THEN ready \cup {r} ELSE ready
  /\ Goes(t, IF At(t) = "resolve" THEN "release" ELSE "notify")
  /\ UNCHANGED <<setup, done, lockVars, seq, expired, peerVars, endVars, escaped>>

(* Mutant of LetGo: MSG_REPLY leaves the release to somebody else.         *)
LetGoNever == UNCHANGED lockVars

LetGo == Release

AfterReply(t) ==
  /\ At(t) = "release" /\ LetGo /\ Goes(t, "notify")
  /\ UNCHANGED <<setup, done, reqVars, peerVars, endVars, escaped>>

-----------------------------------------------------------------------------
(* _dispatch: requests.                                                    *)

HandlerAsks(t) ==
  /\ At(t) = "handle" /\ Top(t).msg.kind = "request" /\ Spare /\ SendRequest(t, stack)
  /\ UNCHANGED <<setup, done, lockVars>>

HandleClose(t) ==
  /\ At(t) = "handle" /\ Top(t).msg.kind = "close"
  /\ Goes(t, "fail") /\ Teardown(t, IF owner = t THEN count ELSE 0)
  /\ UNCHANGED <<setup, done, peerVars, escaped>>

(* The handler has ended, with a result or with an exception.              *)
Replies(t) == At(t) = "reply" \/ (At(t) = "handle" /\ Top(t).msg.kind = "request")

Reply(t) ==
  /\ Replies(t) /\ ~dead /\ Goes(t, "notify")
  /\ UNCHANGED <<setup, done, lockVars, reqVars, peerVars, endVars, escaped>>

ReplyFails(t) ==
  /\ Replies(t) /\ SendBreaks /\ Goes(t, "fail")
  /\ UNCHANGED <<setup, done, lockVars, reqVars, peerVars, escaped>>

-----------------------------------------------------------------------------
(* finally: notify_all.                                                    *)

Notify(t) ==
  /\ At(t) = "notify"
  /\ stack' = NotifyAll([stack EXCEPT ![t][Depth(t)] = Waiting(@.req)])
  /\ UNCHANGED <<setup, done, lockVars, reqVars, peerVars, endVars, escaped>>

(* The exception goes on to whoever called serve().  A thread that only    *)
(* serves ends; serve_all closes the connection first.                     *)
Raise(t) ==
  /\ At(t) = "fail"
  /\ stack' = NotifyAll(Unwound(t, TRUE))
  /\ escaped' = (escaped \/ Escapes(t, TRUE))
  /\ done' = IF Depth(t) = 1 THEN done \cup {t} ELSE done
  /\ IF Depth(t) = 1 /\ t \in Servers
     THEN Teardown(t, IF owner = t THEN count ELSE 0)
     ELSE UNCHANGED <<lockVars, reqVars, endVars>>
  /\ UNCHANGED <<setup, peerVars>>

-----------------------------------------------------------------------------
(* The peer.                                                               *)

PeerSends(m) ==
  /\ ~gone /\ ~dead /\ inbox' = Append(inbox, m)
  /\ UNCHANGED <<setup, stack, done, lockVars, reqVars, gone, endVars, escaped>>

(* A reply may bring an object of a class that is not known here.          *)
PeerAnswers(r) ==
  /\ r \in asked /\ asked' = asked \ {r}
  /\ \/ \E i \in BOOLEAN : PeerSends([kind |-> "reply", of |-> r, inspect |-> i])
     \/ /\ setup.errors
        /\ PeerSends([kind |-> "exception", of |-> r, inspect |-> FALSE])
  /\ UNCHANGED sent

PeerRequests ==
  /\ sent < setup.frames /\ sent' = sent + 1
  /\ \E k \in IF setup.ends THEN {"request", "close"} ELSE {"request"} :
       PeerSends([kind |-> k, of |-> 0, inspect |-> FALSE])
  /\ UNCHANGED asked

PeerGone ==
  /\ setup.ends /\ ~gone /\ ~dead /\ gone' = TRUE
  /\ UNCHANGED <<setup, stack, done, lockVars, reqVars, asked, inbox, sent,
                 endVars, escaped>>

-----------------------------------------------------------------------------
Serve(t) ==
  \/ Start(t) \/ StartFails(t) \/ Return(t) \/ Enter(t) \/ TryLock(t)
  \/ WaitTimesOut(t) \/ Check(t) \/ Receive(t) \/ ReceiveNothing(t)
  \/ ReceiveEOF(t) \/ Unbox(t) \/ UnboxInspects(t) \/ UnboxFails(t)
  \/ Resolve(t) \/ AfterReply(t) \/ HandlerAsks(t)
  \/ HandleClose(t) \/ Reply(t) \/ ReplyFails(t) \/ Notify(t) \/ Raise(t)

Peer ==
  \/ \E r \in asked : PeerAnswers(r)
  \/ PeerRequests
  \/ PeerGone

Next ==
  \/ \E t \in Threads : Serve(t) \/ \E i \in 1..Depth(t) : Expire(t, i)
  \/ Peer

Spec == Init /\ [][Next]_vars

-----------------------------------------------------------------------------
Frame == [at : {"loop", "enter", "asleep", "check", "recv", "unbox", "resolve",
                "settle", "release", "handle", "reply", "notify", "fail"},
          req : Nat,
          msg : [kind : {"none", "reply", "exception", "request", "close"},
                 of : Nat, inspect : BOOLEAN]]

TypeOK ==
  /\ \A t \in Threads : \A i \in 1..Depth(t) : stack[t][i] \in Frame
  /\ owner \in Threads \cup {Nobody} /\ count \in Nat
  /\ (owner = Nobody) = (count = 0)
  /\ slots \cup asked \subseteq 1..seq

Holding == {"check", "recv", "unbox", "resolve", "release"}

HoldsLock(t) == \E i \in 1..Depth(t) : stack[t][i].at \in Holding

(* Only one thread reads the socket, and it has the lock: two would tear   *)
(* the frames apart.                                                       *)
OneReceiver ==
  \A t \in Threads : At(t) \in {"check", "recv"} => owner = t

(* The lock belongs to a thread that is about to release it - unless the   *)
(* unboxing of a reply raised: MSG_REPLY is released after it only.        *)
LockGivenBack == escaped \/ owner = Nobody \/ HoldsLock(owner)

(* Whoever sleeps on _recv_event will be notified: by the thread that has  *)
(* the lock, or by one that had it and is still in dispatch.  No sleeper   *)
(* is left with nobody who receives for it.                                *)
Owes(t) == \E i \in 1..Depth(t) :
             stack[t][i].at \notin {"loop", "enter", "asleep"}

SleepersOwed ==
  (~escaped /\ \E t \in Threads : At(t) = "asleep") => \E t \in Threads : Owes(t)

(* Every call returns or raises, whoever received the reply, and also when *)
(* the connection ends - unless an exception out of unboxing kept the lock *)
(* or lost a reply.  MSG_EXCEPTION releases the lock before its callback:  *)
(* the thread that waits for it may take the lock in between, see that it  *)
(* still waits, and receive for ever with its result there.                *)
Over(t) == t \in done \/ escaped

=============================================================================
