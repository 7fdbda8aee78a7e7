--------------------------- MODULE InboundDispatch ---------------------------
(***************************************************************************)
(* Requests that arrive on connections with asyncio serving, from the      *)
(* frame to the reply (core/protocol.py: on_readable, _dispatch,           *)
(* _dispatch_request_async, the late coroutines of _dispatch_request,      *)
(* backpressure and quarantine, _drain_inbound_dispatch, _cleanup), and    *)
(* the requests their handlers send back (core/async_.py, __await__).      *)
(*                                                                         *)
(* All connections share one event loop: one thread that runs the          *)
(* callbacks of its ready queue in order, one at a time.  A callback that  *)
(* needs a coroutine to run only schedules it: _schedule creates the task, *)
(* a step runs the task to its next await, a future that is resolved or    *)
(* cancelled puts the step of its awaiter in the queue, and _on_done runs  *)
(* after the task ended.                                                   *)
(***************************************************************************)
EXTENDS Naturals, Sequences, FiniteSets, SequencesExt

CONSTANTS
  Conns,        (* connections served by the loop                           *)
  Requests,     (* requests the peers may send                              *)
  ConnOf,       (* the connection of each request                           *)
  KindOf,       (* "async": its handler is one of the async handlers;       *)
                (* "late": a plain handler returns a coroutine              *)
  MaxInflight,  (* max_inbound_inflight                                     *)
  Ending,       (* bound: connections that may be reset or closed           *)
  MaxFrames     (* bound: frames in one chunk from the socket               *)

Nobody == "nobody"

ASSUME DispatchAssumption ==
  /\ IsFiniteSet(Conns) /\ IsFiniteSet(Requests) /\ Nobody \notin Conns
  /\ ConnOf \in [Requests -> Conns]
  /\ KindOf \in [Requests -> {"async", "late"}]
  /\ MaxInflight \in Nat \ {0}
  /\ Ending \subseteq Conns
  /\ MaxFrames \in Nat \ {0}

VARIABLES
  ready,        (* callbacks the loop is going to run                       *)
  reading,      (* the connection whose on_readable is running              *)
  frames,       (* frames of its chunk dispatched so far                    *)
  state,        (* how far each request has got                             *)
  cancelled,    (* requests whose task was cancelled                        *)
  started,      (* requests whose handler has begun to run                  *)
  replies,      (* replies and exceptions sent for each request             *)
  callbacks,    (* requests whose handler waits in _request_callbacks       *)
  inflight,     (* _inbound_inflight of each connection                     *)
  quarantined,  (* connections with _inbound_quarantined                    *)
  closed,       (* connections with _closed                                 *)
  cleaned,      (* connections whose _cleanup has run                       *)
  up            (* connections whose channel still carries a send           *)

requestVars == <<state, cancelled, started, replies, callbacks>>
connVars    == <<inflight, quarantined, closed, cleaned, up>>
vars        == <<ready, reading, frames, requestVars, connVars>>

Callback(name, id) == [name |-> name, id |-> id]

(* A task exists from _schedule until its coroutine has returned; it is in *)
(* _DISPATCH_INFLIGHT until _on_done has run.                              *)
Alive(r)  == state[r] \in {"created", "parked", "waking"}
Pinned(r) == Alive(r) \/ state[r] = "finished"

Of(c) == {r \in Requests : ConnOf[r] = c}

Init ==
  /\ ready = <<>>
  /\ reading = Nobody
  /\ frames = 0
  /\ state = [r \in Requests |-> "unsent"]
  /\ cancelled = {}
  /\ started = {}
  /\ replies = [r \in Requests |-> 0]
  /\ callbacks = {}
  /\ inflight = [c \in Conns |-> 0]
  /\ quarantined = {}
  /\ closed = {}
  /\ cleaned = {}
  /\ up = Conns

-----------------------------------------------------------------------------
(* Cancelling and answering.                                               *)

(* Mutant of DrainedTasks: a task whose coroutine has not started is       *)
(* passed over.                                                            *)
DrainedTasksStarted(c) ==
  {r \in Of(c) : KindOf[r] = "async" /\ Alive(r) /\ state[r] # "created"}

(* The tasks _drain_inbound_dispatch cancels: those whose coroutine has a  *)
(* local named self that is the connection.  _await_and_reply, which runs  *)
(* the late coroutines, calls it _self.                                    *)
DrainedTasks(c) == {r \in Of(c) : KindOf[r] = "async" /\ Alive(r)}

Woken(c) == {r \in DrainedTasks(c) : state[r] = "parked"}

(* Task.cancel: a parked task's future is cancelled, which wakes it; any   *)
(* other sees the CancelledError in the step that is already in the queue. *)
Drain(c) ==
  /\ cancelled' = cancelled \cup DrainedTasks(c)
  /\ \E steps \in SetToSeqs({Callback("step", r) : r \in Woken(c)}) :
       ready' = ready \o steps

AfterDrain(c) == [r \in Requests |-> IF r \in Woken(c) THEN "waking" ELSE state[r]]

(* Mutant of Answer: a CancelledError is not boxed into an exception.      *)
AnswerUnlessCancelled(r) ==
  LET c == ConnOf[r]
  IN  IF c \in closed \/ r \in cancelled THEN UNCHANGED <<replies, closed>>
      ELSE IF c \in up
      THEN replies' = [replies EXCEPT ![r] = @ + 1] /\ UNCHANGED closed
      ELSE closed' = closed \cup {c} /\ UNCHANGED replies

(* _send_async_result_safe: nothing once closed; a dead channel only marks *)
(* the connection closed.                                                  *)
Answer(r) ==
  LET c == ConnOf[r]
  IN  IF c \in closed THEN UNCHANGED <<replies, closed>>
      ELSE IF c \in up
      THEN replies' = [replies EXCEPT ![r] = @ + 1] /\ UNCHANGED closed
      ELSE closed' = closed \cup {c} /\ UNCHANGED replies

(* The callback at the head of the queue, run outside on_readable.         *)
Runs(name, id) ==
  /\ reading = Nobody /\ ready # <<>>
  /\ Head(ready) = Callback(name, id)

-----------------------------------------------------------------------------
(* Reading.                                                                *)

(* The peer has sent something and the selector reports the socket: its    *)
(* reader joins the queue.  (On a closed connection it would only take     *)
(* itself off the loop.)                                                   *)
Readable(c) ==
  /\ reading = Nobody /\ c \notin closed
  /\ \E r \in Of(c) : state[r] = "unsent" \/ r \in callbacks
  /\ \A i \in DOMAIN ready : ready[i] # Callback("readable", c)
  /\ ready' = Append(ready, Callback("readable", c))
  /\ UNCHANGED <<reading, frames, requestVars, connVars>>

(* on_readable: a closed connection only takes its reader off the loop.    *)
OnReadable(c) ==
  /\ Runs("readable", c)
  /\ ready' = Tail(ready)
  /\ reading' = IF c \in closed THEN Nobody ELSE c
  /\ UNCHANGED <<frames, requestVars, connVars>>

(* The chunk has no further whole frame.                                   *)
ChunkDone ==
  /\ reading # Nobody
  /\ reading' = Nobody /\ frames' = 0
  /\ UNCHANGED <<ready, requestVars, connVars>>

NextFrame(c) ==
  /\ reading = c /\ frames < MaxFrames
  /\ frames' = frames + 1

(* Mutants of Overloaded: one request too late; the cap is never checked.  *)
OverloadedLate(c)  == inflight[c] > MaxInflight
OverloadedNever(c) == FALSE

(* The backpressure gate of _dispatch and of _dispatch_request.            *)
Overloaded(c) == inflight[c] >= MaxInflight

(* A request below the cap: its coroutine is built and _schedule queued.   *)
Accept(r) ==
  /\ NextFrame(ConnOf[r]) /\ state[r] = "unsent"
  /\ ConnOf[r] \notin quarantined /\ ~Overloaded(ConnOf[r])
  /\ state' = [state EXCEPT ![r] = "scheduled"]
  /\ ready' = Append(ready, Callback("schedule", r))
  /\ UNCHANGED <<reading, cancelled, started, replies, callbacks, connVars>>

(* A request of a quarantined connection is dropped without an answer.     *)
Drop(r) ==
  /\ NextFrame(ConnOf[r]) /\ state[r] = "unsent"
  /\ ConnOf[r] \in quarantined
  /\ state' = [state EXCEPT ![r] = "dropped"]
  /\ UNCHANGED <<ready, reading, cancelled, started, replies, callbacks, connVars>>

(* The request that meets the cap: _enter_inbound_quarantine, and dropped. *)
Quarantine(r) ==
  LET c == ConnOf[r]
  IN  /\ NextFrame(c) /\ state[r] = "unsent"
      /\ c \notin quarantined /\ Overloaded(c)
      /\ quarantined' = quarantined \cup {c}
      /\ Drain(c)
      /\ state' = [AfterDrain(c) EXCEPT ![r] = "dropped"]
      /\ callbacks' = callbacks \ Of(c)
      /\ UNCHANGED <<reading, started, replies, inflight, closed, cleaned, up>>

(* The answer to a handler's own request: _seq_request_callback pops the   *)
(* slot and on_result asks the loop to resolve the future, unless it is    *)
(* done.                                                                   *)
Response(r) ==
  /\ NextFrame(ConnOf[r]) /\ r \in callbacks
  /\ callbacks' = callbacks \ {r}
  /\ ready' = IF state[r] = "parked" THEN Append(ready, Callback("resolve", r)) ELSE ready
  /\ UNCHANGED <<reading, state, cancelled, started, replies, connVars>>

-----------------------------------------------------------------------------
(* Running.                                                                *)

(* _schedule: create the task, whose first step joins the queue.           *)
Schedule(r) ==
  /\ Runs("schedule", r)
  /\ ready' = Append(Tail(ready), Callback("step", r))
  /\ state' = [state EXCEPT ![r] = "created"]
  /\ inflight' = [inflight EXCEPT ![ConnOf[r]] = @ + 1]
  /\ UNCHANGED <<reading, frames, cancelled, started, replies, callbacks, quarantined,
                 closed, cleaned, up>>

(* future.set_result; a future that was cancelled meanwhile refuses it     *)
(* (InvalidStateError, which the loop logs).                               *)
Resolve(r) ==
  /\ Runs("resolve", r)
  /\ IF state[r] = "parked"
     THEN /\ ready' = Append(Tail(ready), Callback("step", r))
          /\ state' = [state EXCEPT ![r] = "waking"]
     ELSE ready' = Tail(ready) /\ UNCHANGED state
  /\ UNCHANGED <<reading, frames, cancelled, started, replies, callbacks, connVars>>

(* The coroutine returns: _on_done joins the queue.                        *)
Return(r) ==
  /\ state' = [state EXCEPT ![r] = "finished"]
  /\ ready' = Append(Tail(ready), Callback("done", r))

(* A task cancelled before its first step ends without having run.         *)
NeverRuns(r) ==
  /\ Runs("step", r) /\ state[r] = "created" /\ r \in cancelled
  /\ Return(r)
  /\ UNCHANGED <<reading, frames, cancelled, started, replies, callbacks, connVars>>

(* _cleanup deleted _HANDLERS: the task of an async handler calls none.    *)
RunsTooLate(r) ==
  /\ Runs("step", r) /\ state[r] = "created" /\ r \notin cancelled
  /\ KindOf[r] = "async" /\ ConnOf[r] \in cleaned
  /\ Return(r)
  /\ Answer(r)
  /\ UNCHANGED <<reading, frames, cancelled, started, callbacks, inflight, quarantined,
                 cleaned, up>>

HandlerMayStart(r) ==
  /\ state[r] = "created" /\ r \notin cancelled
  /\ KindOf[r] = "late" \/ ConnOf[r] \notin cleaned

(* The handler runs to its end, or its request to the peer fails at once,  *)
(* and the reply is sent.                                                  *)
Handle(r) ==
  /\ Runs("step", r) /\ HandlerMayStart(r)
  /\ started' = started \cup {r}
  /\ Return(r)
  /\ Answer(r)
  /\ UNCHANGED <<reading, frames, cancelled, callbacks, inflight, quarantined, cleaned, up>>

(* The handler sends a request to the peer and awaits the AsyncResult.     *)
Park(r) ==
  /\ Runs("step", r) /\ HandlerMayStart(r)
  /\ ConnOf[r] \in up
  /\ started' = started \cup {r}
  /\ callbacks' = callbacks \cup {r}
  /\ state' = [state EXCEPT ![r] = "parked"]
  /\ ready' = Tail(ready)
  /\ UNCHANGED <<reading, frames, cancelled, replies, connVars>>

(* The handler's wait_for runs out: it cancels the future.                 *)
GiveUp(r) ==
  /\ reading = Nobody /\ state[r] = "parked"
  /\ state' = [state EXCEPT ![r] = "waking"]
  /\ ready' = Append(ready, Callback("step", r))
  /\ UNCHANGED <<reading, frames, cancelled, started, replies, callbacks, connVars>>

(* Mutant of Released: the slot is left to the answer.                     *)
ReleasedNever(r) == callbacks

(* What _on_future_done of __await__ leaves of _request_callbacks.         *)
Released(r) == callbacks \ {r}

(* The handler wakes with the answer or a CancelledError, and ends with a  *)
(* reply or an exception.                                                  *)
WakeUp(r) ==
  /\ Runs("step", r) /\ state[r] = "waking"
  /\ callbacks' = Released(r)
  /\ Return(r)
  /\ Answer(r)
  /\ UNCHANGED <<reading, frames, cancelled, started, inflight, quarantined, cleaned, up>>

(* Mutants of Leave: a cancelled task is never subtracted; the callback is *)
(* registered by both places that know the task.                           *)
LeaveUnlessCancelled(r) ==
  inflight' = [inflight EXCEPT ![ConnOf[r]] = IF r \in cancelled THEN @ ELSE @ - 1]

LeaveTwice(r) == inflight' = [inflight EXCEPT ![ConnOf[r]] = @ - 2]

Leave(r) == inflight' = [inflight EXCEPT ![ConnOf[r]] = @ - 1]

(* _on_done: unpinned and no longer counted.                               *)
Done(r) ==
  /\ Runs("done", r)
  /\ ready' = Tail(ready)
  /\ state' = [state EXCEPT ![r] = "removed"]
  /\ Leave(r)
  /\ UNCHANGED <<reading, frames, cancelled, started, replies, callbacks, quarantined,
                 closed, cleaned, up>>

-----------------------------------------------------------------------------
(* The peer resets the connection: sends fail from now on.                 *)
Reset(c) ==
  /\ c \in up
  /\ up' = up \ {c}
  /\ UNCHANGED <<ready, reading, frames, requestVars, inflight, quarantined, closed,
                 cleaned>>

(* _cleanup: from on_readable, which stops reading (EOF, or HANDLE_CLOSE,  *)
(* whose reply fails), or from a coroutine that closes the connection.     *)
(* close and aclose return at once if it is marked closed.                 *)
Cleanup(c) ==
  /\ reading \in {Nobody, c} /\ c \notin closed
  /\ closed' = closed \cup {c}
  /\ cleaned' = cleaned \cup {c}
  /\ up' = up \ {c}
  /\ callbacks' = callbacks \ Of(c)
  /\ Drain(c)
  /\ state' = AfterDrain(c)
  /\ reading' = Nobody /\ frames' = 0
  /\ UNCHANGED <<started, replies, inflight, quarantined>>

-----------------------------------------------------------------------------
Frame(r) == Accept(r) \/ Drop(r) \/ Quarantine(r) \/ Response(r)

Step(r) == NeverRuns(r) \/ RunsTooLate(r) \/ Handle(r) \/ Park(r) \/ WakeUp(r)

LoopStep ==
  \/ \E c \in Conns : OnReadable(c)
  \/ \E r \in Requests : Schedule(r) \/ Resolve(r) \/ Step(r) \/ Done(r)
  \/ ChunkDone

Next ==
  \/ LoopStep
  \/ \E r \in Requests : Frame(r)
  \/ \E r \in Requests : GiveUp(r)
  \/ \E c \in Conns : Readable(c)
  \/ \E c \in Ending : Reset(c) \/ Cleanup(c)

Spec == Init /\ [][Next]_vars

(* The loop goes on running its callbacks and a chunk ends; no peer has to *)
(* send or to answer, and no handler is obliged to do without the peer.    *)
FairSpec == Spec /\ WF_vars(LoopStep)

-----------------------------------------------------------------------------
(* Properties.                                                             *)

States == {"unsent", "dropped", "scheduled", "created", "parked", "waking", "finished",
           "removed"}

CallbackNames == {"schedule", "step", "resolve", "done"}

TypeOK ==
  /\ ready \in Seq([name : {"readable"}, id : Conns]
                    \cup [name : CallbackNames, id : Requests])
  /\ reading \in Conns \cup {Nobody}
  /\ frames \in 0..MaxFrames
  /\ state \in [Requests -> States]
  /\ replies \in [Requests -> 0..1]
  /\ inflight \in [Conns -> Nat]
  /\ {cancelled, started, callbacks} \subseteq SUBSET Requests
  /\ {quarantined, closed, cleaned, up} \subseteq SUBSET Conns
  /\ cleaned \subseteq closed

(* _inbound_inflight is the number of the connection's tasks in            *)
(* _DISPATCH_INFLIGHT, through completion, cancellation, quarantine and    *)
(* cleanup, for both places that schedule.                                 *)
CounterExact ==
  \A c \in Conns : inflight[c] = Cardinality({r \in Of(c) : Pinned(r)})

Scheduled(c) == Cardinality({r \in Of(c) : state[r] = "scheduled"})

(* The cap is overshot by what one chunk holds, because the counter moves  *)
(* only when the loop runs _schedule; never by more.                       *)
InflightBounded ==
  \A c \in Conns : inflight[c] + Scheduled(c) <= MaxInflight - 1 + MaxFrames

(* A task is cancelled only because its own connection was quarantined or  *)
(* cleaned up: the connections that share _DISPATCH_INFLIGHT do not        *)
(* disturb each other.                                                     *)
OthersUnaffected ==
  \A r \in cancelled : ConnOf[r] \in quarantined \cup cleaned

(* Each request whose handler ran gets one answer, be it a result or the   *)
(* CancelledError of a quarantine, unless the connection is closed; one    *)
(* whose handler never ran gets none.                                      *)
AnsweredOnce ==
  \A r \in Requests :
    /\ ~Alive(r) /\ r \in started /\ ConnOf[r] \notin closed => replies[r] = 1
    /\ r \notin started => replies[r] = 0

(* No slot of _request_callbacks outlives the handler that waits in it.    *)
SlotsReleased == \A r \in callbacks : Alive(r)

Draining(r) ==
  KindOf[r] = "async" /\ Alive(r) /\ ConnOf[r] \in quarantined \cup cleaned

(* Once its connection is quarantined or cleaned up, a task of an async    *)
(* handler ends, whatever it was waiting for, and those created after the  *)
(* drain from callbacks that were already in the queue end as well.        *)
DrainEnds == []<>(\A r \in Requests : ~Draining(r))

(* What the docstring of _drain_inbound_dispatch promises: every task of   *)
(* the connection is cancelled, so that none outlives _cleanup for long.   *)
EveryTaskEnds ==
  \A r \in Requests : (Alive(r) /\ ConnOf[r] \in cleaned) ~> ~Alive(r)

=============================================================================
