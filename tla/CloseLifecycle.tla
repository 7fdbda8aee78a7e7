--------------------------- MODULE CloseLifecycle ---------------------------
(***************************************************************************)
(* The end of a Connection (core/protocol.py: close, aclose, _handle_close,*)
(* _cleanup, _unregister_reader, the close hook of core/stream.py) and the *)
(* notifications about it (add_close_callback, wait_closed,                *)
(* _fire_close_notifications).                                             *)
(*                                                                         *)
(* Several closers may be at it together: threads that call close() or     *)
(* whose write finds the channel dead, and, on the event loop, coroutines  *)
(* in aclose(), a HANDLE_CLOSE of the peer, the EOF of the socket, and a   *)
(* reply whose write fails.  The closers of the loop exclude each other    *)
(* except where aclose awaits; a thread interleaves everywhere, also in    *)
(* the middle of _unregister_reader and of the close of the stream.        *)
(***************************************************************************)
EXTENDS Naturals, FiniteSets

CONSTANTS
  Closers,
  KindOf,         (* what each closer is: see Kinds                         *)
  Callbacks,      (* callbacks given to add_close_callback                  *)
  Waiters,        (* coroutines in wait_closed                              *)
  CloseCatchall   (* close_catchall of the configuration                    *)

(* A call of close on a thread, or of aclose; on_readable with a           *)
(* HANDLE_CLOSE, or with the end of the socket; and, of those that write,  *)
(* a request of a thread, and a reply of the loop.                         *)
Kinds == {"close", "aclose", "handle_close", "eof", "request", "reply"}

Nobody == "nobody"

ASSUME CloseAssumption ==
  /\ IsFiniteSet(Closers) /\ Nobody \notin Closers
  /\ KindOf \in [Closers -> Kinds]
  /\ Callbacks \cap Waiters = {}
  /\ CloseCatchall \in BOOLEAN

OnLoop == {p \in Closers : KindOf[p] \notin {"close", "request"}}
Listeners == Callbacks \cup Waiters

VARIABLES
  pc,         (* where each closer is                                       *)
  part,       (* how far it is in _unregister_reader or the stream's close  *)
  loop,       (* the closer whose callback or step the event loop is in     *)
  again,      (* closers whose _cleanup is inside the sync_request of close *)
  closed,     (* _closed                                                    *)
  root,       (* whether _local_root and the tables are still there         *)
  handlers,   (* whether _HANDLERS is still there                           *)
  rest,       (* whether the executor runs and the locks are kept           *)
  registered, (* whether _registered_fd is set                              *)
  reader,     (* whether on_readable is registered with the loop            *)
  hooked,     (* whether the stream's _on_close is _unregister_reader       *)
  open,       (* whether the stream has its socket                          *)
  up,         (* whether the peer is still there                            *)
  leavers,    (* closers that have called on_disconnect                     *)
  listed,     (* _close_callbacks and _close_waiters                        *)
  taken,      (* the lists each closer swapped out to notify them           *)
  gone,       (* waiters cancelled while they waited                        *)
  notified    (* how often each listener was told                           *)

procVars   == <<pc, part, loop, again>>
connVars   == <<closed, root, handlers, rest, leavers>>
streamVars == <<registered, reader, hooked, open>>
noteVars   == <<listed, taken, gone, notified>>
vars       == <<procVars, connVars, streamVars, up, noteVars>>

Init ==
  /\ pc = [p \in Closers |-> "idle"] /\ part = [p \in Closers |-> "none"]
  /\ loop = Nobody
  /\ again = [p \in Closers |-> FALSE]
  /\ closed = FALSE
  /\ root = TRUE /\ handlers = TRUE /\ rest = TRUE
  /\ registered = TRUE /\ reader = TRUE /\ hooked = TRUE /\ open = TRUE
  /\ up = TRUE
  /\ leavers = {}
  /\ listed = {}
  /\ taken = [p \in Closers |-> {}]
  /\ gone = {}
  /\ notified = [l \in Listeners |-> 0]

-----------------------------------------------------------------------------
(* How a closer moves.                                                     *)

(* Points at which the loop is free for others: before and after, and the  *)
(* two awaits of aclose.                                                   *)
OffLoop == {"idle", "drain", "sleep", "done", "raised"}

(* Points at which the stream is closed, and at which the reader is taken  *)
(* off the loop.                                                           *)
Closing   == {"recv", "dead_request", "send", "write", "channel"}
Unreading == {"guard", "unread", "disable"}

FirstPart(point) ==
  IF point \in Closing THEN "take" ELSE IF point \in Unreading THEN "forget" ELSE "none"

Runs(p) == p \in OnLoop => loop \in {Nobody, p}
At(p, point) == pc[p] = point /\ Runs(p)

Go(p, point) ==
  /\ pc' = [pc EXCEPT ![p] = point]
  /\ part' = [part EXCEPT ![p] = FirstPart(point)]
  /\ loop' = IF p \notin OnLoop THEN loop ELSE IF point \in OffLoop THEN Nobody ELSE p

Step(p, point) == Go(p, point) /\ UNCHANGED again

(* _cleanup returns or raises: to close, which runs it again if this was   *)
(* a HANDLE_CLOSE served inside its sync_request, or to the closer's end.  *)
Leave(p, point) ==
  IF again[p]
  THEN Go(p, "enter") /\ again' = [again EXCEPT ![p] = FALSE]
  ELSE Step(p, point)

-----------------------------------------------------------------------------
(* The reader and the stream, part by part: others may be between any two. *)

Within(p, step) == part[p] = step /\ Runs(p)

Continue(p, step) == part' = [part EXCEPT ![p] = step] /\ UNCHANGED <<pc, loop, again>>

(* Where a closer goes when the reader is off, or the stream closed.       *)
Behind(p) ==
  [guard |-> "idle", recv |-> "unread", unread |-> "check",
   disable |-> IF KindOf[p] = "aclose" THEN "enter" ELSE "request",
   dead_request |-> "enter", send |-> IF CloseCatchall THEN "sleep" ELSE "raised",
   write |-> IF KindOf[p] = "reply" THEN "mark_dead" ELSE "done",
   channel |-> "disconnect"][pc[p]]

(* Behind _unregister_reader: it was called by the close of the stream, by *)
(* disable_asyncio_serving, or by on_readable.                             *)
Unregistered(p) ==
  IF pc[p] \in Closing THEN Continue(p, "shut")
  ELSE IF pc[p] = "disable" THEN Continue(p, "unhook")
  ELSE Step(p, Behind(p))

(* Mutant of Taken: the hook is dropped, not called.                       *)
TakenOnly(p) == Continue(p, "shut")

Taken(p) == Continue(p, IF hooked THEN "forget" ELSE "shut")

(* SocketStream.close takes the hook, to call it once.  Two that both read *)
(* it before it is None both take the reader off, which is no different.   *)
TakeHook(p) ==
  /\ Within(p, "take") /\ Taken(p)
  /\ hooked' = FALSE
  /\ UNCHANGED <<connVars, registered, reader, open, up, noteVars>>

(* _unregister_reader clears _registered_fd first: who comes next finds    *)
(* nothing to do, even if the reader is still there.  (Two that both read  *)
(* it before that both remove the reader, which is no different either.)   *)
Forget(p) ==
  /\ Within(p, "forget")
  /\ registered' = FALSE
  /\ IF registered THEN Continue(p, "remove") ELSE Unregistered(p)
  /\ UNCHANGED <<connVars, reader, hooked, open, up, noteVars>>

(* loop.remove_reader                                                      *)
RemoveReader(p) ==
  /\ Within(p, "remove") /\ Unregistered(p)
  /\ reader' = FALSE
  /\ UNCHANGED <<connVars, registered, hooked, open, up, noteVars>>

(* disable_asyncio_serving: set_close_callback(None)                       *)
Unhook(p) ==
  /\ Within(p, "unhook") /\ Step(p, Behind(p))
  /\ hooked' = FALSE
  /\ UNCHANGED <<connVars, registered, reader, open, up, noteVars>>

(* The socket is closed.                                                   *)
Shut(p) ==
  /\ Within(p, "shut") /\ Step(p, Behind(p))
  /\ open' = FALSE
  /\ UNCHANGED <<connVars, registered, reader, hooked, up, noteVars>>

-----------------------------------------------------------------------------
(* The closers.                                                            *)

(* on_readable: a reader that the loop still has after the connection or   *)
(* the stream was closed is taken off, if that has not been begun already. *)
Stale == closed \/ ~open

(* A call of close or aclose, on_readable with a HANDLE_CLOSE, an EOF or   *)
(* an error, for which recv_available closes the stream; a write that may  *)
(* close it.  A reply is not tried once the connection is closed.          *)
Call(p) ==
  /\ At(p, "idle")
  /\ \/ KindOf[p] = "close" /\ Step(p, "check")
     \/ KindOf[p] = "aclose" /\ Step(p, IF closed THEN "done" ELSE "drain")
     \/ KindOf[p] = "handle_close" /\ reader /\ ~Stale /\ Step(p, "enter")
     \/ /\ KindOf[p] = "eof" /\ reader
        /\ IF Stale THEN Step(p, "guard") ELSE Step(p, "unread") \/ Step(p, "recv")
     \/ KindOf[p] = "request" /\ ~up /\ open /\ Step(p, "write")
     \/ /\ KindOf[p] = "reply" /\ ~closed /\ ~(up /\ open)
        /\ Step(p, IF open THEN "write" ELSE "mark_dead")
  /\ UNCHANGED <<connVars, streamVars, up, noteVars>>

(* _send_async_result_safe: the reply could not be sent.                   *)
MarkDead(p) ==
  /\ At(p, "mark_dead")
  /\ closed' = TRUE /\ Step(p, "done")
  /\ UNCHANGED <<root, handlers, rest, leavers, streamVars, up, noteVars>>

(* close: if self._closed: return                                          *)
Check(p) ==
  /\ At(p, "check")
  /\ Step(p, IF closed THEN "done" ELSE "mark")
  /\ UNCHANGED <<connVars, streamVars, up, noteVars>>

(* close, and aclose after its sleep(0): _closed is set; next is           *)
(* disable_asyncio_serving.                                                *)
Mark(p) ==
  /\ At(p, "mark") \/ At(p, "sleep")
  /\ closed' = TRUE
  /\ Step(p, "disable")
  /\ UNCHANGED <<root, handlers, rest, leavers, streamVars, up, noteVars>>

(* close: sync_request(HANDLE_CLOSE).  A send to a dead peer closes the    *)
(* stream; while it waits for the reply, the peer's own HANDLE_CLOSE may   *)
(* be served; whatever the outcome, the finally clause cleans up.          *)
Request(p) ==
  /\ At(p, "request")
  /\ \/ up /\ Step(p, "enter")
     \/ up /\ open /\ Go(p, "enter") /\ again' = [again EXCEPT ![p] = TRUE]
     \/ ~up /\ Step(p, IF open THEN "dead_request" ELSE "enter")
  /\ UNCHANGED <<connVars, streamVars, up, noteVars>>

(* aclose: the deletions are drained; HANDLE_CLOSE is sent, and if that    *)
(* fails the exception leaves aclose unless close_catchall is set.         *)
SendClose(p) ==
  /\ At(p, "drain")
  /\ Step(p, IF open THEN (IF up THEN "sleep" ELSE "send")
             ELSE IF CloseCatchall THEN "sleep" ELSE "raised")
  /\ UNCHANGED <<connVars, streamVars, up, noteVars>>

(* A CancelledError at one of the awaits of aclose: nothing is cleaned up. *)
Cancel(p) ==
  /\ At(p, "drain") \/ At(p, "sleep")
  /\ Step(p, "raised")
  /\ UNCHANGED <<connVars, streamVars, up, noteVars>>

-----------------------------------------------------------------------------
(* _cleanup.                                                               *)

(* Mutant of TornDown: _closed is taken for the end of a _cleanup.         *)
TornDownIfClosed == closed

(* if self._local_root is None                                             *)
TornDown == ~root

(* A second entrant only marks the connection closed and notifies.         *)
Enter(p) ==
  /\ At(p, "enter")
  /\ closed' = TRUE
  /\ Step(p, IF TornDown THEN "fire" ELSE "channel")
  /\ UNCHANGED <<root, handlers, rest, leavers, streamVars, up, noteVars>>

(* self._local_root.on_disconnect(self): an AttributeError if another      *)
(* thread has set _local_root to None.                                     *)
Disconnect(p) ==
  /\ At(p, "disconnect")
  /\ IF root
     THEN leavers' = leavers \cup {p} /\ Step(p, "clear")
     ELSE Leave(p, "raised") /\ UNCHANGED leavers
  /\ UNCHANGED <<closed, root, handlers, rest, streamVars, up, noteVars>>

(* Mutant of Cleared: the tables are emptied but the root is kept.         *)
ClearedButRoot == UNCHANGED root

Cleared == root' = FALSE

ClearTables(p) ==
  /\ At(p, "clear")
  /\ Cleared
  /\ Step(p, "handlers")
  /\ UNCHANGED <<closed, handlers, rest, leavers, streamVars, up, noteVars>>

(* del self._HANDLERS: an AttributeError if another thread came first.     *)
DropHandlers(p) ==
  /\ At(p, "handlers")
  /\ handlers' = FALSE
  /\ IF handlers THEN Step(p, "release") ELSE Leave(p, "raised")
  /\ UNCHANGED <<closed, root, rest, leavers, streamVars, up, noteVars>>

(* The executor of bind_threads is shut down, the locks are released.      *)
Release(p) ==
  /\ At(p, "release")
  /\ rest' = FALSE
  /\ Step(p, "fire")
  /\ UNCHANGED <<closed, root, handlers, leavers, streamVars, up, noteVars>>

-----------------------------------------------------------------------------
(* Notification.                                                           *)

(* Mutant of Emptied: the lists are read but not replaced.                 *)
EmptiedNever == UNCHANGED listed

Emptied == listed' = {}

(* _fire_close_notifications swaps the lists under _close_lock ...         *)
Fire(p) ==
  /\ At(p, "fire")
  /\ taken' = [taken EXCEPT ![p] = listed]
  /\ Emptied
  /\ Step(p, "notify")
  /\ UNCHANGED <<connVars, streamVars, up, gone, notified>>

(* ... then calls each; the future of a cancelled waiter is left alone.    *)
Notify(p) ==
  /\ At(p, "notify")
  /\ \/ \E l \in taken[p] :
          /\ taken' = [taken EXCEPT ![p] = @ \ {l}]
          /\ notified' = IF l \in gone THEN notified
                         ELSE [notified EXCEPT ![l] = @ + 1]
          /\ Step(p, "notify")
     \/ taken[p] = {} /\ Leave(p, "done") /\ UNCHANGED <<taken, notified>>
  /\ UNCHANGED <<connVars, streamVars, up, listed, gone>>

Known(l) == notified[l] > 0 \/ l \in gone \/ l \in listed
             \/ \E p \in Closers : l \in taken[p]

(* Mutant of StillOpen: the check is done without the lock, too early.     *)
StillOpenAssumed == TRUE

StillOpen == ~closed

(* add_close_callback and wait_closed: under the lock, listed if not       *)
(* closed; else the callback is called and the coroutine returns at once.  *)
Register(l) ==
  /\ ~Known(l)
  /\ l \in Waiters => loop = Nobody
  /\ IF StillOpen
     THEN listed' = listed \cup {l} /\ UNCHANGED notified
     ELSE notified' = [notified EXCEPT ![l] = 1] /\ UNCHANGED listed
  /\ UNCHANGED <<procVars, connVars, streamVars, up, taken, gone>>

(* The waiter is cancelled: its finally clause takes it off the list.      *)
GiveUp(l) ==
  /\ Known(l) /\ notified[l] = 0 /\ l \notin gone /\ loop = Nobody
  /\ gone' = gone \cup {l}
  /\ listed' = listed \ {l}
  /\ UNCHANGED <<procVars, connVars, streamVars, up, taken, notified>>

-----------------------------------------------------------------------------
(* The rest of the program.                                                *)

PeerGone == up /\ up' = FALSE /\ UNCHANGED <<procVars, connVars, streamVars, noteVars>>

Streaming(p) == TakeHook(p) \/ Forget(p) \/ RemoveReader(p) \/ Unhook(p) \/ Shut(p)

Cleanup(p) == Enter(p) \/ Disconnect(p) \/ ClearTables(p) \/ DropHandlers(p) \/ Release(p)
               \/ Fire(p) \/ Notify(p)

(* What a closer does once it has been called.                             *)
Advance(p) == MarkDead(p) \/ Check(p) \/ Mark(p) \/ Request(p) \/ SendClose(p)
               \/ Streaming(p) \/ Cleanup(p)

Next ==
  \/ \E p \in Closers : Call(p) \/ Cancel(p) \/ Advance(p)
  \/ \E l \in Listeners : Register(l)
  \/ \E l \in Waiters : GiveUp(l)
  \/ PeerGone

Spec == Init /\ [][Next]_vars

(* A closer that was called goes on: threads run, the loop runs its ready  *)
(* callbacks, and the sync_request of close ends with a reply, an error or *)
(* its timeout; so does the shutdown of the executor (see Serving for when *)
(* it does not).  Nobody is obliged to close, to cancel, or to listen.     *)
FairSpec == Spec /\ \A p \in Closers : WF_vars(Advance(p))

-----------------------------------------------------------------------------
(* Properties.                                                             *)

Points == {"check", "mark", "request", "mark_dead", "enter", "disconnect", "clear",
           "handlers", "release", "fire", "notify"} \cup Closing \cup Unreading \cup OffLoop

Parts == {"none", "take", "forget", "remove", "unhook", "shut"}

TypeOK ==
  /\ pc \in [Closers -> Points] /\ part \in [Closers -> Parts]
  /\ loop \in OnLoop \cup {Nobody}
  /\ again \in [Closers -> BOOLEAN]
  /\ closed \in BOOLEAN /\ root \in BOOLEAN /\ handlers \in BOOLEAN /\ rest \in BOOLEAN
  /\ registered \in BOOLEAN /\ reader \in BOOLEAN /\ hooked \in BOOLEAN
  /\ open \in BOOLEAN /\ up \in BOOLEAN
  /\ leavers \subseteq Closers
  /\ listed \subseteq Listeners /\ gone \subseteq Waiters
  /\ taken \in [Closers -> SUBSET Listeners]
  /\ notified \in [Listeners -> 0..1]

(* A callback or a waiter is told at most once, whatever closers race, and *)
(* is never in two places from which it could be told.                     *)
ToldOnce ==
  \A l \in Listeners :
    /\ notified[l] <= 1
    /\ notified[l] = 1 => l \notin listed /\ \A p \in Closers : l \notin taken[p]
    /\ \A p, q \in Closers : l \in taken[p] \cap taken[q] => p = q

(* Those on the lists are told when the connection is closed and without   *)
(* its socket, its root and its tables.  The rest of the teardown need not *)
(* be over (see ToldAfterTeardown), but what is left of it is not given up *)
(* either, though closers raise in it: one is just about to do it.         *)
ToldInTeardown ==
  \A p \in Closers : pc[p] = "notify" =>
    /\ closed /\ ~open /\ ~root
    /\ handlers => \E q \in Closers : pc[q] = "handlers"
    /\ rest => \E q \in Closers : pc[q] \in {"handlers", "release"}

(* A closed socket is still registered with the loop only while somebody   *)
(* is in the middle of taking it off; and if it is a closer of the loop,   *)
(* the loop is in it, so that nothing else on the loop sees it.            *)
ReaderOwed ==
  ~open /\ reader =>
    \E p \in Closers : part[p] \in {"forget", "remove"} /\ (p \in OnLoop => loop = p)

(* Whoever closes, the loop is rid of the reader in the end: it does not   *)
(* go on calling on_readable for a socket that is readable for ever.       *)
ReaderGoes == (closed \/ ~open) ~> ~reader

(* The points of a closer that has decided to end the connection.          *)
Committed == {"mark", "disable", "request", "dead_request", "enter", "channel",
              "disconnect", "clear", "handlers", "release", "fire"}

(* Whoever listens when a closer has decided to close is told, whichever   *)
(* of the closers gets to tell it and whichever raise in _cleanup.  (An    *)
(* aclose has decided behind its awaits: if it is cancelled there, or      *)
(* cannot send, the listeners wait for another closer.)                    *)
CloserTells ==
  \A l \in Listeners :
    (l \in listed /\ \E p \in Closers : pc[p] \in Committed)
      ~> (notified[l] = 1 \/ l \in gone)

-----------------------------------------------------------------------------
(* What the documentation says, and the code does not always do.           *)

(* _cleanup: "Fire close notifications AFTER all internal state is torn    *)
(* down so callbacks observe a fully-closed connection".                   *)
ToldAfterTeardown ==
  \A p \in Closers : pc[p] = "notify" => closed /\ ~open /\ ~root /\ ~handlers /\ ~rest

(* enable_asyncio_serving: the hook "makes `socket closed' => `reader      *)
(* removed' an invariant, no matter how the socket is closed".             *)
ReaderRemoved == ~open => ~reader

(* What the documentation of add_close_callback says: once the connection  *)
(* is closed, however it came about, whoever listened is told.             *)
EveryoneTold ==
  \A l \in Listeners :
    (closed /\ l \in listed) ~> (notified[l] = 1 \/ l \in gone)

(* What the comments of aclose say: if the send fails because the peer is  *)
(* gone, it proceeds to the cleanup.                                       *)
AcloseCloses == [][\A p \in Closers : pc[p] = "send" => pc'[p] \in {"send", "sleep"}]_vars

=============================================================================
