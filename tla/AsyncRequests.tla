--------------------------- MODULE AsyncRequests ----------------------------
(***************************************************************************)
(* Outbound requests of a Connection that is served by an event loop:      *)
(* _async_request and _seq_request_callback (core/protocol.py), and the    *)
(* AsyncResult that awaiters of the loop wait for (core/async_.py).        *)
(*                                                                         *)
(* A request takes a slot in _request_callbacks, is sent, and is answered  *)
(* by a reply that pops the slot and calls the callbacks of its            *)
(* AsyncResult.  Each awaiter has a future; its callback has the loop set  *)
(* the future, and the future's done callback gives up the slot.           *)
(*                                                                         *)
(* Replies are dispatched by the loop or, while a thread is in a           *)
(* sync_request on the same connection, by that thread inside serve().     *)
(* What the loop does is a run of steps that exclude each other; a thread  *)
(* interleaves everywhere.                                                 *)
(***************************************************************************)
EXTENDS Naturals, FiniteSets

CONSTANTS
  Reqs,       (* requests, each with its sequence number and AsyncResult    *)
  Awaiters,   (* tasks of the loop that await an AsyncResult                *)
  Of,         (* the request each awaiter waits for                         *)
  Expiring,   (* requests with an expiry (set_expiry, timed)                *)
  Dispatchers (* who dispatches replies: the loop, a thread, or both        *)

ASSUME RequestsAssumption ==
  /\ Of \in [Awaiters -> Reqs]
  /\ Expiring \subseteq Reqs
  /\ Dispatchers \subseteq {"loop", "thread"}
  /\ Reqs \cap Awaiters = {}
  /\ "free" \notin Reqs \cup Awaiters

VARIABLES
  stage,       (* how far _async_request is with each request               *)
  slots,       (* the keys of _request_callbacks                            *)
  reply,       (* how far the reply to each request is                      *)
  by,          (* who dispatches it                                         *)
  ready,       (* the AsyncResults with _is_ready                           *)
  late,        (* the AsyncResults whose time is over                       *)
  hooks,       (* _callbacks of each AsyncResult                            *)
  due,         (* of the list that __call__ iterates, what is still to come *)
  rebound,     (* AsyncResults whose _callbacks is another list by now      *)
  loop,        (* what the loop is in the middle of                         *)
  fut,         (* the future of each awaiter                                *)
  posted,      (* awaiters whose set_result is scheduled                    *)
  raised,      (* awaiters that were told that serving is disabled          *)
  woken,       (* awaiters whose wait has ended                             *)
  closed,      (* _closed, with asyncio serving disabled                    *)
  quarantined, (* _inbound_quarantined                                      *)
  dropped      (* history: requests whose slot was cleared with the table   *)

requestVars == <<stage, reply, by, late>>
listVars    == <<hooks, due, rebound>>
futureVars  == <<fut, posted, raised, woken>>
endVars     == <<closed, quarantined, dropped>>
vars        == <<requestVars, slots, ready, listVars, loop, futureVars, endVars>>

Free == "free"

Init ==
  /\ stage = [r \in Reqs |-> "new"]
  /\ reply = [r \in Reqs |-> "none"]
  /\ by = [r \in Reqs |-> "nobody"]
  /\ slots = {} /\ ready = {} /\ late = {}
  /\ hooks = [r \in Reqs |-> {}] /\ due = [r \in Reqs |-> {}] /\ rebound = {}
  /\ loop = Free
  /\ fut = [a \in Awaiters |-> "none"]
  /\ posted = {} /\ raised = {} /\ woken = {}
  /\ closed = FALSE /\ quarantined = FALSE /\ dropped = {}

-----------------------------------------------------------------------------
(* _async_request, from any thread.                                        *)

Register(r) ==
  /\ stage[r] = "new"
  /\ stage' = [stage EXCEPT ![r] = "sending"]
  /\ slots' = slots \cup {r}
  /\ UNCHANGED <<reply, by, late, ready, listVars, loop, futureVars, endVars>>

Sent(r) ==
  /\ stage[r] = "sending"
  /\ stage' = [stage EXCEPT ![r] = "sent"]
  /\ UNCHANGED <<reply, by, late, slots, ready, listVars, loop, futureVars, endVars>>

(* _send raises, though the peer may have got the request: pop and raise.  *)
SendFails(r) ==
  /\ stage[r] = "sending"
  /\ stage' = [stage EXCEPT ![r] = "failed"]
  /\ slots' = slots \ {r}
  /\ UNCHANGED <<reply, by, late, ready, listVars, loop, futureVars, endVars>>

(* The expiry of an AsyncResult passes.                                    *)
Expire(r) ==
  /\ r \in Expiring /\ stage[r] = "sent" /\ r \notin late
  /\ late' = late \cup {r}
  /\ UNCHANGED <<stage, reply, by, slots, ready, listVars, loop, futureVars, endVars>>

(* The peer answers, at most once.                                         *)
Answer(r) ==
  /\ stage[r] # "new" /\ reply[r] = "none"
  /\ reply' = [reply EXCEPT ![r] = "wire"]
  /\ UNCHANGED <<stage, by, late, slots, ready, listVars, loop, futureVars, endVars>>

-----------------------------------------------------------------------------
(* A reply is dispatched.                                                  *)

(* Mutant of Leaves: the callback of the loop does not return.             *)
LeavesNever(r) == UNCHANGED loop

Leaves(r) == loop' = IF by[r] = "loop" THEN Free ELSE loop

(* Mutant of Popped: a reply that nobody waits for yet is discarded.       *)
PoppedIfAwaited(r) == r \in slots /\ hooks[r] # {}

Popped(r) == r \in slots

(* _seq_request_callback: the slot is popped; without one nothing happens. *)
Receive(r, d) ==
  /\ reply[r] = "wire" /\ ~closed
  /\ d = "loop" => loop = Free
  /\ by' = [by EXCEPT ![r] = d]
  /\ slots' = slots \ {r}
  /\ IF Popped(r)
     THEN /\ reply' = [reply EXCEPT ![r] = "call"]
          /\ loop' = IF d = "loop" THEN r ELSE loop
     ELSE /\ reply' = [reply EXCEPT ![r] = "gone"]
          /\ UNCHANGED loop
  /\ UNCHANGED <<stage, late, ready, listVars, futureVars, endVars>>

(* AsyncResult.__call__: too late, or the result is there.                 *)
Accept(r) ==
  /\ reply[r] = "call"
  /\ IF r \in late
     THEN reply' = [reply EXCEPT ![r] = "gone"] /\ Leaves(r) /\ UNCHANGED ready
     ELSE /\ ready' = ready \cup {r}
          /\ reply' = [reply EXCEPT ![r] = "ready"]
          /\ UNCHANGED loop
  /\ UNCHANGED <<stage, by, late, slots, listVars, futureVars, endVars>>

(* for cb in self._callbacks: the list of this moment is iterated.         *)
StartHooks(r) ==
  /\ reply[r] = "ready"
  /\ due' = [due EXCEPT ![r] = hooks[r]]
  /\ reply' = [reply EXCEPT ![r] = "hooks"]
  /\ UNCHANGED <<stage, by, late, slots, ready, hooks, rebound, loop, futureVars, endVars>>

(* Mutant of Remaining: __call__ stops after its first callback.           *)
RemainingNone(r, a) == {}

Remaining(r, a) == due[r] \ {a}

Pending(a) == fut[a] \in {"made", "adding", "pending"}

(* on_result: nothing if the future is done, else the loop is to set it.   *)
CallHook(r) ==
  /\ reply[r] = "hooks"
  /\ \E a \in due[r] :
       /\ due' = [due EXCEPT ![r] = Remaining(r, a)]
       /\ posted' = IF Pending(a) THEN posted \cup {a} ELSE posted
  /\ UNCHANGED <<requestVars, slots, ready, hooks, rebound, loop, fut, raised, woken, endVars>>

(* The iteration has come to the end of its list ...                       *)
EndHooks(r) ==
  /\ reply[r] = "hooks" /\ due[r] = {}
  /\ reply' = [reply EXCEPT ![r] = "clear"]
  /\ UNCHANGED <<stage, by, late, slots, ready, listVars, loop, futureVars, endVars>>

(* ... and del self._callbacks[:] empties the current one.                 *)
DropHooks(r) ==
  /\ reply[r] = "clear"
  /\ hooks' = [hooks EXCEPT ![r] = {}]
  /\ reply' = [reply EXCEPT ![r] = "gone"]
  /\ Leaves(r)
  /\ UNCHANGED <<stage, by, late, slots, ready, due, rebound, futureVars, endVars>>

-----------------------------------------------------------------------------
(* __await__, a callback of the loop throughout.                           *)

(* The result is there, or a future is made.                               *)
Ask(a) ==
  /\ fut[a] = "none" /\ stage[Of[a]] = "sent" /\ loop = Free
  /\ IF Of[a] \in ready
     THEN fut' = [fut EXCEPT ![a] = "over"] /\ woken' = woken \cup {a} /\ UNCHANGED loop
     ELSE fut' = [fut EXCEPT ![a] = "made"] /\ loop' = a /\ UNCHANGED woken
  /\ UNCHANGED <<requestVars, slots, ready, listVars, posted, raised, endVars>>

(* The end of __await__: without asyncio serving it raises, although the   *)
(* callbacks are in place.                                                 *)
Waits(a) ==
  /\ fut' = [fut EXCEPT ![a] = "pending"]
  /\ raised' = IF closed THEN raised \cup {a} ELSE raised
  /\ woken' = IF closed THEN woken \cup {a} ELSE woken
  /\ loop' = Free

(* add_callback looks whether the result is there by now; if so on_result  *)
(* is called at once ...                                                   *)
Look(a) ==
  /\ fut[a] = "made"
  /\ IF Of[a] \in ready
     THEN posted' = posted \cup {a} /\ Waits(a)
     ELSE fut' = [fut EXCEPT ![a] = "adding"] /\ UNCHANGED <<posted, raised, woken, loop>>
  /\ UNCHANGED <<requestVars, slots, ready, listVars, endVars>>

(* ... else it joins the list, and an iteration of that list meets it.     *)
Add(a) ==
  /\ fut[a] = "adding"
  /\ hooks' = [hooks EXCEPT ![Of[a]] = @ \cup {a}]
  /\ due' = IF reply[Of[a]] = "hooks" /\ Of[a] \notin rebound
            THEN [due EXCEPT ![Of[a]] = @ \cup {a}] ELSE due
  /\ Waits(a)
  /\ UNCHANGED <<requestVars, slots, ready, rebound, posted, endVars>>

(* The scheduled set_result; InvalidStateError if the future is done.      *)
SetResult(a) ==
  /\ a \in posted /\ loop = Free
  /\ posted' = posted \ {a}
  /\ fut' = IF fut[a] = "pending" THEN [fut EXCEPT ![a] = "value"] ELSE fut
  /\ UNCHANGED <<requestVars, slots, ready, listVars, loop, raised, woken, endVars>>

(* wait_for times out, or the task is cancelled.                           *)
Cancel(a) ==
  /\ fut[a] = "pending" /\ a \notin raised /\ loop = Free
  /\ fut' = [fut EXCEPT ![a] = "cancelled"]
  /\ UNCHANGED <<requestVars, slots, ready, listVars, loop, posted, raised, woken, endVars>>

(* Mutant of GivenUp: the slot stays until the peer answers.               *)
GivenUpNever(r) == UNCHANGED slots

GivenUp(r) == slots' = slots \ {r}

(* _on_future_done: the slot is given up and the list replaced, whoever    *)
(* else is on it; then the task runs.                                      *)
FutureDone(a) ==
  /\ fut[a] \in {"value", "cancelled"} /\ loop = Free
  /\ fut' = [fut EXCEPT ![a] = "over"]
  /\ GivenUp(Of[a])
  /\ hooks' = [hooks EXCEPT ![Of[a]] = {}]
  /\ rebound' = IF reply[Of[a]] = "hooks" THEN rebound \cup {Of[a]} ELSE rebound
  /\ woken' = woken \cup {a}
  /\ UNCHANGED <<requestVars, ready, due, loop, posted, raised, endVars>>

-----------------------------------------------------------------------------
(* The table is cleared, and nobody is told.                               *)

ClearTable ==
  /\ slots' = {}
  /\ dropped' = dropped \cup slots

(* _enter_inbound_quarantine, on the loop.                                 *)
Quarantine ==
  /\ ~quarantined /\ ~closed /\ loop = Free
  /\ quarantined' = TRUE
  /\ ClearTable
  /\ UNCHANGED <<requestVars, ready, listVars, loop, futureVars, closed>>

(* close or aclose: serving is disabled, _closed set, _cleanup run.        *)
Cleanup ==
  /\ ~closed
  /\ closed' = TRUE
  /\ ClearTable
  /\ UNCHANGED <<requestVars, ready, listVars, loop, futureVars, quarantined>>

Dispatch(r) == Accept(r) \/ StartHooks(r) \/ CallHook(r) \/ EndHooks(r) \/ DropHooks(r)

Await(a) == Look(a) \/ Add(a) \/ SetResult(a) \/ FutureDone(a)

Next ==
  \/ \E r \in Reqs :
       \/ Register(r) \/ Sent(r) \/ SendFails(r) \/ Expire(r) \/ Answer(r)
       \/ \E d \in Dispatchers : Receive(r, d)
       \/ Dispatch(r)
  \/ \E a \in Awaiters : Ask(a) \/ Await(a) \/ Cancel(a)
  \/ Quarantine \/ Cleanup

Spec == Init /\ [][Next]_vars

(* Threads and the loop go on with what they are in, and the loop runs     *)
(* what is scheduled.  Peers need not answer, nor users await or cancel.   *)
FairSpec == Spec /\ (\A r \in Reqs : WF_vars(Dispatch(r)))
                 /\ (\A a \in Awaiters : WF_vars(Look(a) \/ Add(a))
                                          /\ WF_vars(SetResult(a))
                                          /\ WF_vars(FutureDone(a)))

-----------------------------------------------------------------------------
(* Properties.                                                             *)

Dispatching == {"call", "ready", "hooks", "clear"}

(* Types; the loop is in the middle of something that has not ended.       *)
TypeOK ==
  /\ stage \in [Reqs -> {"new", "sending", "sent", "failed"}]
  /\ reply \in [Reqs -> {"none", "wire", "gone"} \cup Dispatching]
  /\ by \in [Reqs -> {"nobody", "loop", "thread"}]
  /\ slots \subseteq Reqs /\ ready \subseteq Reqs /\ late \subseteq Reqs
  /\ hooks \in [Reqs -> SUBSET Awaiters] /\ due \in [Reqs -> SUBSET Awaiters]
  /\ rebound \subseteq Reqs
  /\ loop \in {r \in Reqs : by[r] = "loop" /\ reply[r] \in Dispatching}
              \cup {a \in Awaiters : fut[a] \in {"made", "adding"}} \cup {Free}
  /\ fut \in [Awaiters -> {"none", "made", "adding", "pending", "value", "cancelled", "over"}]
  /\ posted \subseteq Awaiters /\ raised \subseteq Awaiters /\ woken \subseteq Awaiters
  /\ closed \in BOOLEAN /\ quarantined \in BOOLEAN /\ dropped \subseteq Reqs

(* The rule of the tests of cancelled awaiters: an awaiter that has ended  *)
(* its wait, by a reply, a timeout or a cancellation, leaves no slot in    *)
(* the table and no callback, through which it would be kept alive.        *)
NothingLeft ==
  \A a \in Awaiters :
    fut[a] = "over" => Of[a] \notin slots /\ a \notin hooks[Of[a]]

(* Once the result is there, an awaiter of it has its future set, will be  *)
(* called, or is about to look: none sleeps through it.                    *)
Heard(a) ==
  fut[a] = "pending" /\ Of[a] \in ready
    => \/ a \in posted \/ a \in due[Of[a]]
       \/ a \in hooks[Of[a]] /\ reply[Of[a]] = "ready"

(* That holds for what the loop dispatches ...                             *)
NoLostWakeup == \A a \in Awaiters : by[Of[a]] = "loop" => Heard(a)

(* ... and the documentation of AsyncResult.__await__ says thread-safe.    *)
ThreadSafeAwait == \A a \in Awaiters : Heard(a)

(* An awaiter waits for a request that can still be answered to it, unless *)
(* the table was cleared, the request expired, or another awaiter of the   *)
(* same AsyncResult has ended its wait.                                    *)
StillExpected ==
  \A a \in Awaiters :
    LET r == Of[a] IN
    fut[a] = "pending" /\ r \notin ready /\ r \notin dropped \cup late
    /\ (\A b \in Awaiters \ {a} : Of[b] = r => fut[b] # "over")
    => a \in hooks[r] /\ (r \in slots \/ reply[r] = "call")

(* What the four invariants rest on.  A reply that the loop dispatches, or *)
(* an __await__, has the loop; nobody awaits what was not sent; a slot is  *)
(* free from the time its reply is dispatched; a result does not arrive    *)
(* while an awaiter is between its look and the list, except by a thread.  *)
LoopTaken ==
  /\ \A r \in Reqs : by[r] = "loop" /\ reply[r] \in Dispatching => loop = r
  /\ \A a \in Awaiters : fut[a] \in {"made", "adding"} => loop = a

Progress ==
  /\ \A a \in Awaiters : /\ fut[a] # "none" => stage[Of[a]] = "sent"
                         /\ a \in hooks[Of[a]] => fut[a] \notin {"none", "made", "adding"}
  /\ \A r \in Reqs :
       /\ stage[r] = "new" => reply[r] = "none"
       /\ reply[r] \in Dispatching \cup {"gone"} => r \notin slots
       /\ reply[r] # "hooks" => due[r] = {}
       /\ r \in ready => reply[r] \in {"ready", "hooks", "clear", "gone"}

Over(r) == \E a \in Awaiters : Of[a] = r /\ fut[a] = "over"

(* As long as its reply can come, an awaiter is on the list.               *)
Enlisted ==
  \A a \in Awaiters :
    LET r == Of[a] IN
    fut[a] = "pending"
    /\ (r \in slots \/ (reply[r] = "call" /\ (by[r] = "loop" \/ ~Over(r))))
    => a \in hooks[r]

LookedInTime ==
  \A a \in Awaiters : fut[a] = "adding" /\ by[Of[a]] = "loop" => Of[a] \notin ready

(* A request keeps its slot until it is answered, unless ...               *)
SlotKept ==
  \A r \in Reqs :
    stage[r] \in {"sending", "sent"} /\ r \notin ready \cup dropped \cup late /\ ~Over(r)
    => r \in slots \/ reply[r] = "call"

(* The inductive invariant of the proofs.                                  *)
RequestInv == TypeOK /\ LoopTaken /\ Progress /\ NothingLeft /\ Enlisted
              /\ LookedInTime /\ NoLostWakeup /\ SlotKept

(* An awaiter whose request the loop has answered wakes up.                *)
AnsweredWakes ==
  \A a \in Awaiters :
    (fut[a] = "pending" /\ Of[a] \in ready /\ by[Of[a]] = "loop") ~> a \in woken

=============================================================================
