------------------------ MODULE AsyncRequestsProofs -------------------------
(* Proofs about AsyncRequests, for any number of requests and awaiters and *)
(* with replies dispatched by the loop and by threads.                     *)
EXTENDS AsyncRequests, TLAPS

(* What the loop dispatches keeps the loop.                                *)
LEMMA LoopBusy ==
  ASSUME RequestInv, loop = Free, NEW r \in Reqs, by[r] = "loop"
  PROVE  reply[r] \notin Dispatching
BY RequestsAssumption DEF RequestInv, LoopTaken, Free

(* A new request has a slot and nobody waits for it.                       *)
LEMMA RegisterStep ==
  ASSUME RequestInv, NEW r \in Reqs, Register(r)
  PROVE  RequestInv'
<1>. USE RequestsAssumption DEF RequestInv, TypeOK, LoopTaken, Progress, Dispatching, Free, Register,
         requestVars, listVars, futureVars, endVars
<1>1. TypeOK'
  OBVIOUS
<1>2. LoopTaken'
  OBVIOUS
<1>3. Progress'
  OBVIOUS
<1>4. NothingLeft'
  BY DEF NothingLeft
<1>5. Enlisted'
  BY DEF Enlisted, NothingLeft, Over
<1>6. LookedInTime'
  BY DEF LookedInTime
<1>7. NoLostWakeup'
  BY DEF NoLostWakeup, Heard, Enlisted, LookedInTime
<1>8. SlotKept'
  BY DEF SlotKept, Over
<1>. QED
  BY <1>1, <1>2, <1>3, <1>4, <1>5, <1>6, <1>7, <1>8

(* Only now may it be awaited.                                             *)
LEMMA SentStep ==
  ASSUME RequestInv, NEW r \in Reqs, Sent(r)
  PROVE  RequestInv'
<1>. USE RequestsAssumption DEF RequestInv, TypeOK, LoopTaken, Progress, Dispatching, Free, Sent,
         requestVars, listVars, futureVars, endVars
<1>1. TypeOK'
  OBVIOUS
<1>2. LoopTaken'
  OBVIOUS
<1>3. Progress'
  OBVIOUS
<1>4. NothingLeft'
  BY DEF NothingLeft
<1>5. Enlisted'
  BY DEF Enlisted, NothingLeft, Over
<1>6. LookedInTime'
  BY DEF LookedInTime
<1>7. NoLostWakeup'
  BY DEF NoLostWakeup, Heard, Enlisted, LookedInTime
<1>8. SlotKept'
  BY DEF SlotKept, Over
<1>. QED
  BY <1>1, <1>2, <1>3, <1>4, <1>5, <1>6, <1>7, <1>8

(* Nobody awaits a request that was not sent, so its slot is not missed.   *)
LEMMA SendFailsStep ==
  ASSUME RequestInv, NEW r \in Reqs, SendFails(r)
  PROVE  RequestInv'
<1>. USE RequestsAssumption DEF RequestInv, TypeOK, LoopTaken, Progress, Dispatching, Free, SendFails,
         requestVars, listVars, futureVars, endVars
<1>1. TypeOK'
  OBVIOUS
<1>2. LoopTaken'
  OBVIOUS
<1>3. Progress'
  OBVIOUS
<1>4. NothingLeft'
  BY DEF NothingLeft
<1>5. Enlisted'
  BY DEF Enlisted, NothingLeft, Over
<1>6. LookedInTime'
  BY DEF LookedInTime
<1>7. NoLostWakeup'
  BY DEF NoLostWakeup, Heard, Enlisted, LookedInTime
<1>8. SlotKept'
  BY DEF SlotKept, Over
<1>. QED
  BY <1>1, <1>2, <1>3, <1>4, <1>5, <1>6, <1>7, <1>8

(* A request may only expire once it is sent.                              *)
LEMMA ExpireStep ==
  ASSUME RequestInv, NEW r \in Reqs, Expire(r)
  PROVE  RequestInv'
<1>. USE RequestsAssumption DEF RequestInv, TypeOK, LoopTaken, Progress, Dispatching, Free, Expire,
         requestVars, listVars, futureVars, endVars
<1>1. TypeOK'
  OBVIOUS
<1>2. LoopTaken'
  OBVIOUS
<1>3. Progress'
  OBVIOUS
<1>4. NothingLeft'
  BY DEF NothingLeft
<1>5. Enlisted'
  BY DEF Enlisted, NothingLeft, Over
<1>6. LookedInTime'
  BY DEF LookedInTime
<1>7. NoLostWakeup'
  BY DEF NoLostWakeup, Heard, Enlisted, LookedInTime
<1>8. SlotKept'
  BY DEF SlotKept, Over
<1>. QED
  BY <1>1, <1>2, <1>3, <1>4, <1>5, <1>6, <1>7, <1>8

(* Nothing is promised about a reply on the wire.                          *)
LEMMA AnswerStep ==
  ASSUME RequestInv, NEW r \in Reqs, Answer(r)
  PROVE  RequestInv'
<1>. USE RequestsAssumption DEF RequestInv, TypeOK, LoopTaken, Progress, Dispatching, Free, Answer,
         requestVars, listVars, futureVars, endVars
<1>1. TypeOK'
  OBVIOUS
<1>2. LoopTaken'
  OBVIOUS
<1>3. Progress'
  OBVIOUS
<1>4. NothingLeft'
  BY DEF NothingLeft
<1>5. Enlisted'
  BY DEF Enlisted, NothingLeft, Over
<1>6. LookedInTime'
  BY DEF LookedInTime
<1>7. NoLostWakeup'
  BY DEF NoLostWakeup, Heard, Enlisted, LookedInTime
<1>8. SlotKept'
  BY DEF SlotKept, Over
<1>. QED
  BY <1>1, <1>2, <1>3, <1>4, <1>5, <1>6, <1>7, <1>8

(* The slot makes room for the call.                                       *)
LEMMA ReceiveStep ==
  ASSUME RequestInv, NEW r \in Reqs, NEW d \in Dispatchers, Receive(r, d)
  PROVE  RequestInv'
<1>. USE RequestsAssumption DEF RequestInv, TypeOK, LoopTaken, Progress, Dispatching, Free, Receive, Popped,
         requestVars, listVars, futureVars, endVars
<1>1. TypeOK'
  OBVIOUS
<1>2. LoopTaken'
  OBVIOUS
<1>3. Progress'
  OBVIOUS
<1>4. NothingLeft'
  BY DEF NothingLeft
<1>5. Enlisted'
  BY DEF Enlisted, NothingLeft, Over
<1>6. LookedInTime'
  BY DEF LookedInTime
<1>7. NoLostWakeup'
  BY DEF NoLostWakeup, Heard, Enlisted, LookedInTime
<1>8. SlotKept'
  BY DEF SlotKept, Over
<1>. QED
  BY <1>1, <1>2, <1>3, <1>4, <1>5, <1>6, <1>7, <1>8

(* The callbacks are still all on the list.                                *)
LEMMA AcceptStep ==
  ASSUME RequestInv, NEW r \in Reqs, Accept(r)
  PROVE  RequestInv'
<1>. USE RequestsAssumption DEF RequestInv, TypeOK, LoopTaken, Progress, Dispatching, Free, Accept, Leaves,
         requestVars, listVars, futureVars, endVars
<1>1. TypeOK'
  OBVIOUS
<1>2. LoopTaken'
  OBVIOUS
<1>3. Progress'
  OBVIOUS
<1>4. NothingLeft'
  BY DEF NothingLeft
<1>5. Enlisted'
  BY DEF Enlisted, NothingLeft, Over
<1>6. LookedInTime'
  BY DEF LookedInTime
<1>7. NoLostWakeup'
  BY DEF NoLostWakeup, Heard, Enlisted, LookedInTime
<1>8. SlotKept'
  BY DEF SlotKept, Over
<1>. QED
  BY <1>1, <1>2, <1>3, <1>4, <1>5, <1>6, <1>7, <1>8

(* The list becomes what is still to be called.                            *)
LEMMA StartHooksStep ==
  ASSUME RequestInv, NEW r \in Reqs, StartHooks(r)
  PROVE  RequestInv'
<1>. USE RequestsAssumption DEF RequestInv, TypeOK, LoopTaken, Progress, Dispatching, Free, StartHooks,
         requestVars, listVars, futureVars, endVars
<1>1. TypeOK'
  OBVIOUS
<1>2. LoopTaken'
  OBVIOUS
<1>3. Progress'
  OBVIOUS
<1>4. NothingLeft'
  BY DEF NothingLeft
<1>5. Enlisted'
  BY DEF Enlisted, NothingLeft, Over
<1>6. LookedInTime'
  BY DEF LookedInTime
<1>7. NoLostWakeup'
  <2>1. ASSUME NEW a \in Awaiters, by'[Of[a]] = "loop", fut'[a] = "pending", Of[a] \in ready'
        PROVE  a \in posted' \/ a \in due'[Of[a]] \/ (a \in hooks'[Of[a]] /\ reply'[Of[a]] = "ready")
    <3>1. a \in posted \/ a \in due[Of[a]] \/ (a \in hooks[Of[a]] /\ reply[Of[a]] = "ready")
      BY <2>1 DEF NoLostWakeup, Heard
    <3>2. due[r] = {}
      OBVIOUS
    <3>3. CASE Of[a] = r
      BY <3>1, <3>2, <3>3
    <3>4. CASE Of[a] # r
      BY <3>1, <3>4
    <3>. QED
      BY <3>3, <3>4
  <2>. QED
    BY <2>1 DEF NoLostWakeup, Heard
<1>8. SlotKept'
  BY DEF SlotKept, Over
<1>. QED
  BY <1>1, <1>2, <1>3, <1>4, <1>5, <1>6, <1>7, <1>8

(* A waiting awaiter leaves the list with its future scheduled.            *)
LEMMA CallHookStep ==
  ASSUME RequestInv, NEW r \in Reqs, CallHook(r)
  PROVE  RequestInv'
<1>. USE RequestsAssumption DEF RequestInv, TypeOK, LoopTaken, Progress, Dispatching, Free, CallHook, Remaining, Pending,
         requestVars, listVars, futureVars, endVars
<1>1. TypeOK'
  OBVIOUS
<1>2. LoopTaken'
  OBVIOUS
<1>3. Progress'
  OBVIOUS
<1>4. NothingLeft'
  BY DEF NothingLeft
<1>5. Enlisted'
  BY DEF Enlisted, NothingLeft, Over
<1>6. LookedInTime'
  BY DEF LookedInTime
<1>7. NoLostWakeup'
  BY DEF NoLostWakeup, Heard, Enlisted, LookedInTime
<1>8. SlotKept'
  BY DEF SlotKept, Over
<1>. QED
  BY <1>1, <1>2, <1>3, <1>4, <1>5, <1>6, <1>7, <1>8

(* Nothing is left to be called.                                           *)
LEMMA EndHooksStep ==
  ASSUME RequestInv, NEW r \in Reqs, EndHooks(r)
  PROVE  RequestInv'
<1>. USE RequestsAssumption DEF RequestInv, TypeOK, LoopTaken, Progress, Dispatching, Free, EndHooks,
         requestVars, listVars, futureVars, endVars
<1>1. TypeOK'
  OBVIOUS
<1>2. LoopTaken'
  OBVIOUS
<1>3. Progress'
  OBVIOUS
<1>4. NothingLeft'
  BY DEF NothingLeft
<1>5. Enlisted'
  BY DEF Enlisted, NothingLeft, Over
<1>6. LookedInTime'
  BY DEF LookedInTime
<1>7. NoLostWakeup'
  BY DEF NoLostWakeup, Heard, Enlisted, LookedInTime
<1>8. SlotKept'
  BY DEF SlotKept, Over
<1>. QED
  BY <1>1, <1>2, <1>3, <1>4, <1>5, <1>6, <1>7, <1>8

(* What is dropped has been called.                                        *)
LEMMA DropHooksStep ==
  ASSUME RequestInv, NEW r \in Reqs, DropHooks(r)
  PROVE  RequestInv'
<1>. USE RequestsAssumption DEF RequestInv, TypeOK, LoopTaken, Progress, Dispatching, Free, DropHooks, Leaves,
         requestVars, listVars, futureVars, endVars
<1>1. TypeOK'
  OBVIOUS
<1>2. LoopTaken'
  OBVIOUS
<1>3. Progress'
  OBVIOUS
<1>4. NothingLeft'
  BY DEF NothingLeft
<1>5. Enlisted'
  BY DEF Enlisted, NothingLeft, Over
<1>6. LookedInTime'
  BY DEF LookedInTime
<1>7. NoLostWakeup'
  BY DEF NoLostWakeup, Heard, Enlisted, LookedInTime
<1>8. SlotKept'
  BY DEF SlotKept, Over
<1>. QED
  BY <1>1, <1>2, <1>3, <1>4, <1>5, <1>6, <1>7, <1>8

(* An awaiter takes the loop, or finds the result there.                   *)
LEMMA AskStep ==
  ASSUME RequestInv, NEW a \in Awaiters, Ask(a)
  PROVE  RequestInv'
<1>. USE RequestsAssumption DEF RequestInv, TypeOK, LoopTaken, Progress, Dispatching, Free, Ask,
         requestVars, listVars, futureVars, endVars
<1>1. TypeOK'
  OBVIOUS
<1>2. LoopTaken'
  OBVIOUS
<1>3. Progress'
  OBVIOUS
<1>4. NothingLeft'
  <2>1. ASSUME NEW b \in Awaiters, fut'[b] = "over"
        PROVE  Of[b] \notin slots /\ b \notin hooks[Of[b]]
    <3>1. CASE fut[b] = "over"
      BY <3>1 DEF NothingLeft
    <3>2. CASE fut[b] # "over"
      <4>1. b = a /\ fut[b] = "none" /\ Of[b] \in ready /\ Of[b] \in Reqs
        BY <2>1, <3>2
      <4>. QED
        BY <4>1
    <3>. QED
      BY <3>1, <3>2
  <2>. QED
    BY <2>1 DEF NothingLeft
<1>5. Enlisted'
  BY DEF Enlisted, NothingLeft, Over
<1>6. LookedInTime'
  BY DEF LookedInTime
<1>7. NoLostWakeup'
  BY DEF NoLostWakeup, Heard, Enlisted, LookedInTime
<1>8. SlotKept'
  BY DEF SlotKept, Over
<1>. QED
  BY <1>1, <1>2, <1>3, <1>4, <1>5, <1>6, <1>7, <1>8

(* With the loop taken, the result cannot come between look and list.      *)
LEMMA LookStep ==
  ASSUME RequestInv, NEW a \in Awaiters, Look(a)
  PROVE  RequestInv'
<1>. USE RequestsAssumption DEF RequestInv, TypeOK, LoopTaken, Progress, Dispatching, Free, Look, Waits,
         requestVars, listVars, futureVars, endVars
<1>1. TypeOK'
  OBVIOUS
<1>2. LoopTaken'
  OBVIOUS
<1>3. Progress'
  OBVIOUS
<1>4. NothingLeft'
  BY DEF NothingLeft
<1>5. Enlisted'
  BY DEF Enlisted, NothingLeft, Over
<1>6. LookedInTime'
  BY DEF LookedInTime
<1>7. NoLostWakeup'
  BY DEF NoLostWakeup, Heard, Enlisted, LookedInTime
<1>8. SlotKept'
  BY DEF SlotKept, Over
<1>. QED
  BY <1>1, <1>2, <1>3, <1>4, <1>5, <1>6, <1>7, <1>8

(* The awaiter is on the list when it begins to wait.                      *)
LEMMA AddStep ==
  ASSUME RequestInv, NEW a \in Awaiters, Add(a)
  PROVE  RequestInv'
<1>. USE RequestsAssumption DEF RequestInv, TypeOK, LoopTaken, Progress, Dispatching, Free, Add, Waits,
         requestVars, listVars, futureVars, endVars
<1>1. TypeOK'
  <2>1. hooks' \in [Reqs -> SUBSET Awaiters] /\ due' \in [Reqs -> SUBSET Awaiters]
    <3>1. hooks \in [Reqs -> SUBSET Awaiters] /\ due \in [Reqs -> SUBSET Awaiters] /\ Of[a] \in Reqs
      OBVIOUS
    <3>2. hooks[Of[a]] \cup {a} \in SUBSET Awaiters /\ due[Of[a]] \cup {a} \in SUBSET Awaiters
      BY <3>1
    <3>3. /\ hooks' = [hooks EXCEPT ![Of[a]] = hooks[Of[a]] \cup {a}]
          /\ due' = due \/ due' = [due EXCEPT ![Of[a]] = due[Of[a]] \cup {a}]
      OBVIOUS
    <3>. HIDE DEF Add, TypeOK, RequestInv
    <3>. QED
      BY <3>1, <3>2, <3>3
  <2>2. fut' \in [Awaiters -> {"none", "made", "adding", "pending", "value", "cancelled", "over"}]
    OBVIOUS
  <2>3. loop' = Free /\ raised' \subseteq Awaiters /\ woken' \subseteq Awaiters
    OBVIOUS
  <2>4. UNCHANGED <<stage, reply, by, late, slots, ready, rebound, posted, endVars>>
    OBVIOUS
  <2>. QED
    BY <2>1, <2>2, <2>3, <2>4
<1>2. LoopTaken'
  OBVIOUS
<1>3. Progress'
  OBVIOUS
<1>4. NothingLeft'
  BY DEF NothingLeft
<1>5. Enlisted'
  <2>1. ASSUME NEW b \in Awaiters, fut'[b] = "pending", b # a,
               Of[b] \in slots \/ (reply[Of[b]] = "call" /\ (by[Of[b]] = "loop" \/ ~Over(Of[b])'))
        PROVE  b \in hooks[Of[b]]
    <3>1. Over(Of[b]) => Over(Of[b])'
      BY DEF Over
    <3>. QED
      BY <2>1, <3>1 DEF Enlisted
  <2>2. \A b \in Awaiters : b \in hooks[Of[b]] => b \in hooks'[Of[b]]
    OBVIOUS
  <2>3. a \in hooks'[Of[a]]
    <3>1. hooks \in [Reqs -> SUBSET Awaiters] /\ Of[a] \in Reqs
      OBVIOUS
    <3>2. hooks' = [hooks EXCEPT ![Of[a]] = hooks[Of[a]] \cup {a}]
      OBVIOUS
    <3>. HIDE DEF Add, TypeOK, LoopTaken, Progress, RequestInv
    <3>. QED
      BY <3>1, <3>2
  <2>4. UNCHANGED <<reply, by, slots>>
    OBVIOUS
  <2>. HIDE DEF Add, TypeOK, LoopTaken, Progress, RequestInv
  <2>. QED
    BY <2>1, <2>2, <2>3, <2>4 DEF Enlisted
<1>6. LookedInTime'
  BY DEF LookedInTime
<1>7. NoLostWakeup'
  BY DEF NoLostWakeup, Heard, Enlisted, LookedInTime
<1>8. SlotKept'
  BY DEF SlotKept, Over
<1>. QED
  BY <1>1, <1>2, <1>3, <1>4, <1>5, <1>6, <1>7, <1>8

(* The future leaves the pending state, so no promise is left to it.       *)
LEMMA SetResultStep ==
  ASSUME RequestInv, NEW a \in Awaiters, SetResult(a)
  PROVE  RequestInv'
<1>. USE RequestsAssumption DEF RequestInv, TypeOK, LoopTaken, Progress, Dispatching, Free, SetResult,
         requestVars, listVars, futureVars, endVars
<1>1. TypeOK'
  OBVIOUS
<1>2. LoopTaken'
  OBVIOUS
<1>3. Progress'
  OBVIOUS
<1>4. NothingLeft'
  BY DEF NothingLeft
<1>5. Enlisted'
  BY DEF Enlisted, NothingLeft, Over
<1>6. LookedInTime'
  BY DEF LookedInTime
<1>7. NoLostWakeup'
  BY DEF NoLostWakeup, Heard, Enlisted, LookedInTime
<1>8. SlotKept'
  BY DEF SlotKept, Over
<1>. QED
  BY <1>1, <1>2, <1>3, <1>4, <1>5, <1>6, <1>7, <1>8

(* Nor is one to a future that was cancelled.                              *)
LEMMA CancelStep ==
  ASSUME RequestInv, NEW a \in Awaiters, Cancel(a)
  PROVE  RequestInv'
<1>. USE RequestsAssumption DEF RequestInv, TypeOK, LoopTaken, Progress, Dispatching, Free, Cancel,
         requestVars, listVars, futureVars, endVars
<1>1. TypeOK'
  OBVIOUS
<1>2. LoopTaken'
  OBVIOUS
<1>3. Progress'
  OBVIOUS
<1>4. NothingLeft'
  BY DEF NothingLeft
<1>5. Enlisted'
  BY DEF Enlisted, NothingLeft, Over
<1>6. LookedInTime'
  BY DEF LookedInTime
<1>7. NoLostWakeup'
  BY DEF NoLostWakeup, Heard, Enlisted, LookedInTime
<1>8. SlotKept'
  BY DEF SlotKept, Over
<1>. QED
  BY <1>1, <1>2, <1>3, <1>4, <1>5, <1>6, <1>7, <1>8

(* The slot and the list go together: other awaiters of the AsyncResult    *)
(* lose both, and nothing the loop dispatches is half done.                *)
LEMMA FutureDoneStep ==
  ASSUME RequestInv, NEW a \in Awaiters, FutureDone(a)
  PROVE  RequestInv'
<1>0. slots' = slots \ {Of[a]} /\ loop = Free
  BY DEF FutureDone, GivenUp
<1>. USE RequestsAssumption DEF RequestInv, TypeOK, LoopTaken, Progress, Dispatching, Free, FutureDone, GivenUp,
         requestVars, listVars, futureVars, endVars
<1>1. TypeOK'
  <2>1. hooks' \in [Reqs -> SUBSET Awaiters]
    <3>1. hooks \in [Reqs -> SUBSET Awaiters] /\ hooks' = [hooks EXCEPT ![Of[a]] = {}]
      OBVIOUS
    <3>. HIDE DEF FutureDone, TypeOK, RequestInv
    <3>. QED
      BY <3>1
  <2>5. slots' \subseteq Reqs /\ rebound' \subseteq Reqs
    <3>1. slots \subseteq Reqs /\ rebound \subseteq Reqs /\ Of[a] \in Reqs
      OBVIOUS
    <3>2. slots' = slots \ {Of[a]} /\ rebound' \in {rebound, rebound \cup {Of[a]}}
      OBVIOUS
    <3>. HIDE DEF FutureDone, TypeOK, RequestInv
    <3>. QED
      BY <3>1, <3>2
  <2>2. fut' \in [Awaiters -> {"none", "made", "adding", "pending", "value", "cancelled", "over"}]
    OBVIOUS
  <2>3. loop' = Free /\ woken' \subseteq Awaiters
    OBVIOUS
  <2>4. UNCHANGED <<stage, reply, by, late, ready, due, posted, raised, endVars>>
    OBVIOUS
  <2>. QED
    BY <2>1, <2>2, <2>3, <2>4, <2>5
<1>2. LoopTaken'
  OBVIOUS
<1>3. Progress'
  OBVIOUS
<1>4. NothingLeft'
  <2>1. ASSUME NEW b \in Awaiters, fut'[b] = "over", b # a
        PROVE  Of[b] \notin slots' /\ b \notin hooks'[Of[b]]
    <3>1. Of[b] \notin slots /\ b \notin hooks[Of[b]]
      BY <2>1 DEF NothingLeft
    <3>. QED
      BY <3>1
  <2>2. Of[a] \notin slots' /\ a \notin hooks'[Of[a]]
    <3>1. hooks \in [Reqs -> SUBSET Awaiters] /\ Of[a] \in Reqs
      OBVIOUS
    <3>2. slots' = slots \ {Of[a]} /\ hooks' = [hooks EXCEPT ![Of[a]] = {}]
      OBVIOUS
    <3>. HIDE DEF FutureDone, TypeOK, LoopTaken, Progress, RequestInv
    <3>. QED
      BY <3>1, <3>2
  <2>. HIDE DEF FutureDone, TypeOK, LoopTaken, Progress, RequestInv
  <2>. QED
    BY <2>1, <2>2 DEF NothingLeft
<1>5. Enlisted'
  <2>1. ASSUME NEW b \in Awaiters, fut'[b] = "pending",
               Of[b] \in slots' \/ (reply'[Of[b]] = "call" /\ (by'[Of[b]] = "loop" \/ ~Over(Of[b])'))
        PROVE  b \in hooks'[Of[b]]
    <3>1. Of[a] # Of[b]
      <4>1. CASE Of[b] \in slots'
        <5>. HIDE DEF FutureDone, TypeOK, LoopTaken, Progress, RequestInv
        <5>. QED
          BY <4>1, <1>0
      <4>2. CASE reply[Of[b]] = "call" /\ by[Of[b]] = "loop"
        <5>. HIDE DEF FutureDone, TypeOK, LoopTaken, Progress, RequestInv
        <5>. QED
          BY <4>2, <1>0, LoopBusy
      <4>3. CASE ~Over(Of[b])'
        <5>1. fut'[a] = "over"
          OBVIOUS
        <5>. HIDE DEF FutureDone, TypeOK, LoopTaken, Progress, RequestInv
        <5>. QED
          BY <4>3, <5>1 DEF Over
      <4>. QED
        BY <2>1, <4>1, <4>2, <4>3
    <3>2. Over(Of[b]) => Over(Of[b])'
      BY <3>1 DEF Over
    <3>3. b \in hooks[Of[b]]
      BY <2>1, <3>1, <3>2 DEF Enlisted
    <3>. QED
      BY <3>1, <3>3
  <2>. QED
    BY <2>1 DEF Enlisted
<1>6. LookedInTime'
  BY DEF LookedInTime
<1>7. NoLostWakeup'
  <2>1. ASSUME NEW b \in Awaiters, by'[Of[b]] = "loop", fut'[b] = "pending", Of[b] \in ready'
        PROVE  b \in posted' \/ b \in due'[Of[b]]
    <3>1. b # a /\ fut[b] = "pending"
      BY <2>1
    <3>2. b \in posted \/ b \in due[Of[b]] \/ (b \in hooks[Of[b]] /\ reply[Of[b]] = "ready")
      BY <2>1, <3>1 DEF NoLostWakeup, Heard
    <3>3. reply[Of[b]] # "ready"
      BY <2>1, LoopBusy
    <3>. QED
      BY <3>2, <3>3
  <2>. QED
    BY <2>1 DEF NoLostWakeup, Heard
<1>8. SlotKept'
  BY DEF SlotKept, Over
<1>. QED
  BY <1>1, <1>2, <1>3, <1>4, <1>5, <1>6, <1>7, <1>8

(* Without its slot, a request owes its awaiters nothing.                  *)
LEMMA ClearsStep ==
  ASSUME RequestInv, Quarantine \/ Cleanup
  PROVE  RequestInv'
<1>. USE RequestsAssumption DEF RequestInv, TypeOK, LoopTaken, Progress, Dispatching, Free, Quarantine, Cleanup, ClearTable,
         requestVars, listVars, futureVars, endVars
<1>1. TypeOK'
  <2>1. UNCHANGED <<requestVars, ready, listVars, loop, futureVars>>
    OBVIOUS
  <2>2. slots' \subseteq Reqs /\ dropped' \subseteq Reqs /\ closed' \in BOOLEAN /\ quarantined' \in BOOLEAN
    OBVIOUS
  <2>. QED
    BY <2>1, <2>2
<1>2. LoopTaken'
  OBVIOUS
<1>3. Progress'
  OBVIOUS
<1>4. NothingLeft'
  BY DEF NothingLeft
<1>5. Enlisted'
  BY DEF Enlisted, NothingLeft, Over
<1>6. LookedInTime'
  BY DEF LookedInTime
<1>7. NoLostWakeup'
  BY DEF NoLostWakeup, Heard, Enlisted, LookedInTime
<1>8. SlotKept'
  BY DEF SlotKept, Over
<1>. QED
  BY <1>1, <1>2, <1>3, <1>4, <1>5, <1>6, <1>7, <1>8

(* Nothing has been asked yet.                                             *)
LEMMA InitInv ==
  ASSUME Init
  PROVE  RequestInv
<1>. USE RequestsAssumption DEF Init, Dispatching, Free
<1>1. TypeOK
  BY DEF TypeOK
<1>2. LoopTaken /\ Progress
  BY DEF LoopTaken, Progress
<1>3. NothingLeft /\ Enlisted /\ LookedInTime /\ NoLostWakeup
  BY DEF NothingLeft, Enlisted, LookedInTime, NoLostWakeup, Heard
<1>4. SlotKept
  BY DEF SlotKept
<1>. QED
  BY <1>1, <1>2, <1>3, <1>4 DEF RequestInv

(* Nothing changes.                                                        *)
LEMMA StutterInv ==
  ASSUME RequestInv, UNCHANGED vars
  PROVE  RequestInv'
<1>. USE DEF vars, requestVars, listVars, futureVars, endVars
<1>1. TypeOK' /\ LoopTaken' /\ Progress'
  BY DEF RequestInv, TypeOK, LoopTaken, Progress, Dispatching
<1>2. NothingLeft' /\ LookedInTime'
  BY DEF RequestInv, NothingLeft, LookedInTime
<1>3. Enlisted' /\ SlotKept'
  BY DEF RequestInv, Enlisted, SlotKept, Over
<1>4. NoLostWakeup'
  BY DEF RequestInv, NoLostWakeup, Heard
<1>. QED
  BY <1>1, <1>2, <1>3, <1>4 DEF RequestInv

LEMMA StepInv ==
  ASSUME RequestInv, [Next]_vars
  PROVE  RequestInv'
<1>1. ASSUME NEW r \in Reqs, Register(r) \/ Sent(r) \/ SendFails(r) \/ Expire(r) \/ Answer(r)
      PROVE  RequestInv'
  BY <1>1, RegisterStep, SentStep, SendFailsStep, ExpireStep, AnswerStep
<1>2. ASSUME NEW r \in Reqs, NEW d \in Dispatchers, Receive(r, d)
      PROVE  RequestInv'
  BY <1>2, ReceiveStep
<1>3. ASSUME NEW r \in Reqs, Dispatch(r)
      PROVE  RequestInv'
  BY <1>3, AcceptStep, StartHooksStep, CallHookStep, EndHooksStep, DropHooksStep DEF Dispatch
<1>4. ASSUME NEW a \in Awaiters, Ask(a) \/ Cancel(a)
      PROVE  RequestInv'
  BY <1>4, AskStep, CancelStep
<1>5. ASSUME NEW a \in Awaiters, Await(a)
      PROVE  RequestInv'
  BY <1>5, LookStep, AddStep, SetResultStep, FutureDoneStep DEF Await
<1>6. CASE Quarantine \/ Cleanup
  BY <1>6, ClearsStep
<1>7. CASE UNCHANGED vars
  BY <1>7, StutterInv
<1>. QED
  BY <1>1, <1>2, <1>3, <1>4, <1>5, <1>6, <1>7 DEF Next

-----------------------------------------------------------------------------
(* What the slots, lists and futures of all requests satisfy, however the  *)
(* loop and threads interleave.                                            *)
THEOREM RequestInvariant == Spec => []RequestInv
<1>1. Init => RequestInv
  BY InitInv
<1>2. RequestInv /\ [Next]_vars => RequestInv'
  BY StepInv
<1>. QED
  BY <1>1, <1>2, PTL DEF Spec

(* The variables stay in their ranges, and what has the loop has not ended. *)
THEOREM TypeCorrect == Spec => []TypeOK
<1>1. RequestInv => TypeOK
  BY DEF RequestInv
<1>. QED
  BY <1>1, RequestInvariant, PTL

(* An awaiter that has ended its wait leaves neither its slot in           *)
(* _request_callbacks nor its callback, however it ended.                  *)
THEOREM NothingLeftHolds == Spec => []NothingLeft
<1>1. RequestInv => NothingLeft
  BY DEF RequestInv
<1>. QED
  BY <1>1, RequestInvariant, PTL

(* An awaiter whose request was answered on the loop is not forgotten      *)
(* between add_callback, __call__ and _on_future_done.                     *)
THEOREM NoLostWakeupHolds == Spec => []NoLostWakeup
<1>1. RequestInv => NoLostWakeup
  BY DEF RequestInv
<1>. QED
  BY <1>1, RequestInvariant, PTL

(* A waiting awaiter can still be answered, except in the cases listed     *)
(* with the property.                                                      *)
THEOREM StillExpectedHolds == Spec => []StillExpected
<1>1. RequestInv => StillExpected
  <2>. SUFFICES ASSUME RequestInv, NEW a \in Awaiters,
                       fut[a] = "pending", Of[a] \notin ready, Of[a] \notin dropped \cup late,
                       \A b \in Awaiters \ {a} : Of[b] = Of[a] => fut[b] # "over"
                PROVE  a \in hooks[Of[a]] /\ (Of[a] \in slots \/ reply[Of[a]] = "call")
    BY DEF StillExpected
  <2>1. ~Over(Of[a])
    BY DEF Over
  <2>2. Of[a] \in Reqs /\ stage[Of[a]] = "sent"
    BY RequestsAssumption DEF RequestInv, Progress
  <2>3. Of[a] \in slots \/ reply[Of[a]] = "call"
    BY <2>1, <2>2 DEF RequestInv, SlotKept
  <2>4. a \in hooks[Of[a]]
    BY <2>1, <2>3 DEF RequestInv, Enlisted
  <2>. QED
    BY <2>3, <2>4
<1>. QED
  BY <1>1, RequestInvariant, PTL

=============================================================================
