------------------------ MODULE InboundDispatchProofs ------------------------
(***************************************************************************)
(* Proofs about InboundDispatch, for any connections, requests and cap.    *)
(* What the properties rest on is the queue of the loop: a request has at  *)
(* most one of _schedule, its step and _on_done in it, and which one says  *)
(* how far the request has got.                                            *)
(***************************************************************************)
EXTENDS InboundDispatch, FiniteSetTheorems, FunctionTheorems, SequenceTheorems, TLAPS

Callbacks == [name : {"readable"}, id : Conns] \cup [name : CallbackNames, id : Requests]

(* The callbacks that carry a request on.                                  *)
Carriers == {"schedule", "step", "done"}

(* What the state of a request has to be for a callback to be queued.      *)
Fits(cb, st) ==
  /\ cb.name = "schedule" => st[cb.id] = "scheduled"
  /\ cb.name = "step" => st[cb.id] \in {"created", "waking"}
  /\ cb.name = "done" => st[cb.id] = "finished"

Free(q, r) == \A i \in 1..Len(q) : q[i].name \in Carriers => q[i].id # r

(* Every callback fits, and no request has two carriers.                   *)
Queue(q, st) ==
  /\ q \in Seq(Callbacks)
  /\ \A i \in 1..Len(q) : Fits(q[i], st)
  /\ \A i, j \in 1..Len(q) :
       i # j /\ q[i].name \in Carriers /\ q[j].name \in Carriers => q[i].id # q[j].id

(* Only what has ended has an answer, and what was answered had begun.     *)
Answers ==
  \A r \in Requests :
    /\ state[r] \in {"unsent", "dropped", "scheduled", "created"} => r \notin started
    /\ state[r] \in {"parked", "waking"} => r \in started
    /\ state[r] \notin {"finished", "removed"} \/ r \notin started => replies[r] = 0
    /\ state[r] \in {"finished", "removed"} /\ r \in started /\ ConnOf[r] \notin closed =>
         replies[r] = 1

(* A slot of _request_callbacks belongs to a handler that has not returned.*)
Slots == \A r \in callbacks : state[r] \in {"parked", "waking"}

DispatchInv ==
  /\ TypeOK
  /\ Queue(ready, state)
  /\ Answers
  /\ Slots
  /\ CounterExact
  /\ OthersUnaffected

-----------------------------------------------------------------------------
(* The queue.                                                              *)

LEMMA CallbackParts == \A n, r : Callback(n, r).name = n /\ Callback(n, r).id = r
BY DEF Callback

LEMMA CallbackType ==
  ASSUME NEW n \in CallbackNames, NEW r \in Requests
  PROVE  Callback(n, r) \in Callbacks /\ Callback(n, r).name = n /\ Callback(n, r).id = r
BY DEF Callback, Callbacks

(* A request in a state that no carrier fits has none in the queue.        *)
LEMMA NoCarrier ==
  ASSUME NEW q, NEW st, Queue(q, st), NEW r,
         st[r] \notin {"scheduled", "created", "waking", "finished"}
  PROVE  Free(q, r)
BY DEF Queue, Free, Fits, Carriers

(* The state of a request without a carrier may change.                    *)
LEMMA Moves ==
  ASSUME NEW st \in [Requests -> States], NEW q, Queue(q, st), NEW r \in Requests,
         Free(q, r), NEW s
  PROVE  Queue(q, [st EXCEPT ![r] = s])
<1>1. ASSUME NEW i \in 1..Len(q) PROVE Fits(q[i], [st EXCEPT ![r] = s])
  <2>1. q[i] \in Callbacks /\ Fits(q[i], st)
    BY <1>1 DEF Queue
  <2>2. q[i].name \in Carriers => q[i].id # r /\ q[i].id \in Requests
    BY <1>1, <2>1 DEF Free, Callbacks, Carriers
  <2>. QED
    BY <2>1, <2>2 DEF Fits, Carriers
<1>. QED
  BY <1>1 DEF Queue

(* A carrier that fits may join when the request has none.                 *)
LEMMA Joins ==
  ASSUME NEW q, NEW st, Queue(q, st), NEW cb \in Callbacks, Fits(cb, st),
         cb.name \in Carriers => Free(q, cb.id)
  PROVE  Queue(Append(q, cb), st)
<1>1. q \in Seq(Callbacks)
  BY DEF Queue
<1>2. /\ Append(q, cb) \in Seq(Callbacks) /\ Len(Append(q, cb)) = Len(q) + 1
      /\ Append(q, cb)[Len(q) + 1] = cb
      /\ \A i \in 1..Len(q) : Append(q, cb)[i] = q[i]
  BY <1>1
<1>3. ASSUME NEW i \in 1..Len(q) + 1 PROVE i = Len(q) + 1 \/ i \in 1..Len(q)
  BY <1>1, <1>3
<1>. QED
  BY <1>2, <1>3 DEF Queue, Free

(* What the loop takes from the head leaves a queue; a carrier leaves its  *)
(* request without one.                                                    *)
LEMMA Pops ==
  ASSUME NEW q, NEW st, Queue(q, st), q # <<>>
  PROVE  /\ Queue(Tail(q), st)
         /\ Head(q).name \in Carriers => Free(Tail(q), Head(q).id)
         /\ Head(q) \in Callbacks /\ Fits(Head(q), st)
<1>1. q \in Seq(Callbacks) /\ Len(q) \in Nat /\ Len(q) >= 1 /\ Head(q) = q[1]
  BY DEF Queue
<1>2. /\ Tail(q) \in Seq(Callbacks) /\ Len(Tail(q)) = Len(q) - 1
      /\ \A i \in 1..Len(Tail(q)) : i + 1 \in 1..Len(q) /\ Tail(q)[i] = q[i + 1] /\ i + 1 # 1
  BY <1>1
<1>3. \A i, j \in 1..Len(Tail(q)) : i # j => i + 1 # j + 1
  BY <1>2
<1>4. 1 \in 1..Len(q)
  BY <1>1
<1>5. Queue(Tail(q), st)
  BY <1>2, <1>3 DEF Queue
<1>6. Head(q).name \in Carriers => Free(Tail(q), Head(q).id)
  BY <1>1, <1>2, <1>4 DEF Queue, Free
<1>. QED
  BY <1>1, <1>4, <1>5, <1>6 DEF Queue

(* A carrier is replaced by another: the request goes on.                  *)
LEMMA GoesOn ==
  ASSUME NEW st \in [Requests -> States], NEW q, Queue(q, st), q # <<>>,
         NEW r \in Requests, NEW n \in CallbackNames, NEW m \in CallbackNames, NEW s,
         Head(q) = Callback(n, r), n \in Carriers \/ Free(q, r),
         m = "schedule" => s = "scheduled",
         m = "step" => s \in {"created", "waking"},
         m = "done" => s = "finished"
  PROVE  Queue(Append(Tail(q), Callback(m, r)), [st EXCEPT ![r] = s])
<1>1. Queue(Tail(q), st)
  BY Pops
<1>2. Free(Tail(q), r)
  <2>1. CASE n \in Carriers
    <3>1. Head(q).name = n /\ Head(q).id = r
      BY CallbackParts
    <3>. QED
      BY <2>1, <3>1, Pops
  <2>2. CASE Free(q, r)
    <3>1. q \in Seq(Callbacks)
      BY DEF Queue
    <3>2. \A i \in 1..Len(Tail(q)) : i + 1 \in 1..Len(q) /\ Tail(q)[i] = q[i + 1]
      BY <3>1
    <3>. QED
      BY <2>2, <3>2 DEF Free
  <2>. QED
    BY <2>1, <2>2
<1>3. Queue(Tail(q), [st EXCEPT ![r] = s])
  BY <1>1, <1>2, Moves
<1>4. Fits(Callback(m, r), [st EXCEPT ![r] = s])
  BY CallbackType DEF Fits
<1>. QED
  BY <1>2, <1>3, <1>4, CallbackType, Joins

-----------------------------------------------------------------------------
(* Draining.                                                               *)

(* The tasks that are cancelled join the queue, each with one step.        *)
LEMMA Drains ==
  ASSUME DispatchInv, NEW c \in Conns, Drain(c)
  PROVE  /\ Queue(ready', AfterDrain(c))
         /\ \A i \in 1..Len(ready) : i \in 1..Len(ready') /\ ready'[i] = ready[i]
         /\ \A i \in 1..Len(ready') : i \in 1..Len(ready) \/ ready'[i].name = "step"
<1>. DEFINE W == Woken(c)
            S == {Callback("step", r) : r \in W}
<1>1. /\ W \subseteq Requests /\ \A r \in W : state[r] = "parked"
      /\ IsFiniteSet(W)
  BY DispatchAssumption, FS_Subset DEF Woken, DrainedTasks, Of
<1>2. \A cb \in S : /\ cb \in Callbacks /\ cb.name = "step" /\ cb.id \in W
                    /\ cb = Callback("step", cb.id)
  BY <1>1, CallbackType DEF CallbackNames
<1>3. Cardinality(S) \in Nat
  <2>. DEFINE f == [cb \in S |-> cb.id]
  <2>1. f \in [S -> W] /\ \A a, b \in S : f[a] = f[b] => a = b
    BY <1>2
  <2>2. f \in Injection(S, W)
    BY <2>1, Fun_IsInj
  <2>. QED
    BY <1>1, <2>2, FS_Injection, FS_CardinalityType
<1>4. PICK steps \in SetToSeqs(S) : ready' = ready \o steps
  BY DEF Drain
<1>5. /\ steps \in [1..Cardinality(S) -> S]
      /\ \A i, j \in 1..Cardinality(S) : i # j => steps[i] # steps[j]
  BY <1>4 DEF SetToSeqs
<1>. HIDE DEF S
<1>6. S \subseteq Callbacks
  BY <1>2
<1>7. steps \in Seq(Callbacks) /\ Len(steps) = Cardinality(S)
  <2>1. steps \in [1..Cardinality(S) -> Callbacks]
    BY <1>5, <1>6
  <2>. QED
    BY <1>3, <2>1
<1>8. ready \in Seq(Callbacks)
  BY DEF DispatchInv, Queue
<1>9. ready' \in Seq(Callbacks) /\ Len(ready') = Len(ready) + Len(steps)
  BY <1>4, <1>7, <1>8, ConcatProperties
<1>10. \A i \in 1..Len(ready') :
         \/ i \in 1..Len(ready) /\ ready'[i] = ready[i]
         \/ /\ i \notin 1..Len(ready)
            /\ i - Len(ready) \in 1..Len(steps) /\ ready'[i] = steps[i - Len(ready)]
  BY <1>4, <1>7, <1>8, <1>9, ConcatProperties
<1>11. \A r \in W : Free(ready, r)
  BY <1>1, NoCarrier DEF DispatchInv
<1>12. \A i \in 1..Len(ready') : Fits(ready'[i], AfterDrain(c))
  <2>. TAKE i \in 1..Len(ready')
  <2>1. CASE i \in 1..Len(ready) /\ ready'[i] = ready[i]
    <3>1. Fits(ready[i], state) /\ ready[i] \in Callbacks
      BY <2>1 DEF DispatchInv, Queue
    <3>2. ready[i].name \in Carriers => ready[i].id \notin W /\ ready[i].id \in Requests
      BY <2>1, <3>1, <1>11 DEF Free, Callbacks, Carriers
    <3>. QED
      BY <2>1, <3>1, <3>2 DEF Fits, AfterDrain, Carriers
  <2>2. CASE i - Len(ready) \in 1..Len(steps) /\ ready'[i] = steps[i - Len(ready)]
    <3>1. ready'[i] \in S
      BY <2>2, <1>5, <1>7
    <3>. QED
      BY <3>1, <1>1, <1>2 DEF Fits, AfterDrain
  <2>. QED
    BY <1>10, <2>1, <2>2
<1>13. ASSUME NEW i \in 1..Len(ready'), NEW j \in 1..Len(ready'), i # j,
              ready'[i].name \in Carriers, ready'[j].name \in Carriers
       PROVE  ready'[i].id # ready'[j].id
  <2>1. CASE i \in 1..Len(ready) /\ j \in 1..Len(ready)
    BY <2>1, <1>10, <1>13 DEF DispatchInv, Queue
  <2>2. CASE i \in 1..Len(ready) /\ j \notin 1..Len(ready)
    <3>1. ready'[j] \in S /\ ready'[i] = ready[i]
      BY <2>2, <1>10, <1>5, <1>7
    <3>. QED
      BY <2>2, <3>1, <1>2, <1>11, <1>13 DEF Free
  <2>3. CASE i \notin 1..Len(ready) /\ j \in 1..Len(ready)
    <3>1. ready'[i] \in S /\ ready'[j] = ready[j]
      BY <2>3, <1>10, <1>5, <1>7
    <3>. QED
      BY <2>3, <3>1, <1>2, <1>11, <1>13 DEF Free
  <2>4. CASE i \notin 1..Len(ready) /\ j \notin 1..Len(ready)
    <3>1. /\ ready'[i] = steps[i - Len(ready)] /\ i - Len(ready) \in 1..Len(steps)
          /\ ready'[j] = steps[j - Len(ready)] /\ j - Len(ready) \in 1..Len(steps)
      BY <2>4, <1>10
    <3>2. i - Len(ready) # j - Len(ready)
      BY <1>13, <1>8, <1>9, <1>7, <1>3
    <3>3. ready'[i] \in S /\ ready'[j] \in S /\ ready'[i] # ready'[j]
      BY <3>1, <3>2, <1>5, <1>7
    <3>. QED
      BY <3>3, <1>2
  <2>. QED
    BY <2>1, <2>2, <2>3, <2>4
<1>14. ASSUME NEW i \in 1..Len(ready'), i \notin 1..Len(ready)
       PROVE  ready'[i].name = "step"
  <2>1. ready'[i] \in S
    BY <1>5, <1>7, <1>10, <1>14
  <2>. QED
    BY <2>1, <1>2
<1>15. ASSUME NEW i \in 1..Len(ready)
       PROVE  i \in 1..Len(ready') /\ ready'[i] = ready[i]
  <2>1. i \in 1..Len(ready')
    BY <1>3, <1>7, <1>8, <1>9
  <2>. QED
    BY <2>1, <1>10
<1>. QED
  BY <1>9, <1>12, <1>13, <1>14, <1>15 DEF Queue

-----------------------------------------------------------------------------
(* The steps.                                                              *)

LEMMA InitInv == Init => DispatchInv
<1>. SUFFICES ASSUME Init PROVE DispatchInv
  OBVIOUS
<1>1. ready \in Seq(Callbacks)
  BY DEF Init
<1>2. TypeOK
  BY <1>1, DispatchAssumption DEF Init, TypeOK, States, Callbacks
<1>3. Queue(ready, state)
  BY <1>1 DEF Init, Queue
<1>4. Answers /\ Slots /\ OthersUnaffected
  BY DEF Init, Answers, Slots, OthersUnaffected
<1>5. CounterExact
  <2>1. \A c \in Conns : {r \in Of(c) : Pinned(r)} = {}
    BY DEF Init, Of, Pinned, Alive
  <2>. QED
    BY <2>1, FS_EmptySet DEF Init, CounterExact
<1>. QED
  BY <1>2, <1>3, <1>4, <1>5 DEF DispatchInv

(* What runs is the head of the queue.                                     *)
LEMMA Running ==
  ASSUME DispatchInv, NEW n \in CallbackNames, NEW r \in Requests, Runs(n, r)
  PROVE  /\ Queue(Tail(ready), state)
         /\ n \in Carriers => Free(Tail(ready), r)
         /\ ready # <<>> /\ Head(ready) = Callback(n, r)
         /\ Fits(Callback(n, r), state)
<1>1. Queue(ready, state) /\ ready # <<>> /\ Head(ready) = Callback(n, r)
  BY DEF DispatchInv, Runs
<1>2. /\ Queue(Tail(ready), state) /\ Fits(Head(ready), state)
      /\ Head(ready).name \in Carriers => Free(Tail(ready), Head(ready).id)
  BY <1>1, Pops
<1>3. Head(ready).name = n /\ Head(ready).id = r
  BY <1>1, CallbackParts
<1>. QED
  BY <1>1, <1>2, <1>3

(* The queue of the loop, through every step.                              *)
LEMMA QueueKept ==
  ASSUME DispatchInv, Next
  PROVE  Queue(ready', state')
<1>0. Queue(ready, state) /\ state \in [Requests -> States]
  BY DEF DispatchInv, TypeOK
<1>1. ASSUME NEW c \in Conns, Readable(c) PROVE Queue(ready', state')
  <2>1. Callback("readable", c) \in Callbacks /\ Callback("readable", c).name = "readable"
    BY CallbackParts DEF Callback, Callbacks
  <2>. QED
    BY <1>0, <1>1, <2>1, Joins DEF Readable, requestVars, Fits, Carriers
<1>2. ASSUME NEW c \in Conns, OnReadable(c) PROVE Queue(ready', state')
  BY <1>0, <1>2, Pops DEF OnReadable, Runs, requestVars
<1>3. CASE ChunkDone
  BY <1>0, <1>3 DEF ChunkDone, requestVars
<1>4. ASSUME NEW r \in Requests, Frame(r) PROVE Queue(ready', state')
  <2>1. CASE Accept(r)
    <3>1. Free(ready, r)
      BY <1>0, <2>1, NoCarrier DEF Accept
    <3>2. Queue(ready, state')
      BY <1>0, <2>1, <3>1, Moves DEF Accept
    <3>3. Fits(Callback("schedule", r), state')
      BY <1>0, <2>1, CallbackParts DEF Accept, Fits
    <3>. QED
      BY <2>1, <3>1, <3>2, <3>3, Joins, CallbackType, CallbackParts DEF Accept, CallbackNames
  <2>2. CASE Drop(r)
    BY <1>0, <2>2, NoCarrier, Moves DEF Drop
  <2>3. CASE Quarantine(r)
    <3>. DEFINE c == ConnOf[r]
    <3>1. c \in Conns /\ Drain(c) /\ state[r] = "unsent"
          /\ state' = [AfterDrain(c) EXCEPT ![r] = "dropped"]
      BY <2>3, DispatchAssumption DEF Quarantine
    <3>2. Queue(ready', AfterDrain(c))
      BY <3>1, Drains
    <3>3. AfterDrain(c)[r] = "unsent" /\ AfterDrain(c) \in [Requests -> States]
      BY <1>0, <3>1 DEF AfterDrain, Woken, States
    <3>4. Free(ready', r)
      BY <3>2, <3>3, NoCarrier
    <3>. QED
      BY <3>1, <3>2, <3>3, <3>4, Moves
  <2>4. CASE Response(r)
    <3>1. Fits(Callback("resolve", r), state)
      BY CallbackParts DEF Fits
    <3>2. Queue(Append(ready, Callback("resolve", r)), state)
      BY <1>0, <3>1, Joins, CallbackType, CallbackParts DEF CallbackNames, Carriers
    <3>. QED
      BY <1>0, <2>4, <3>2 DEF Response
  <2>. QED
    BY <1>4, <2>1, <2>2, <2>3, <2>4 DEF Frame
<1>5. ASSUME NEW r \in Requests, Schedule(r) PROVE Queue(ready', state')
  BY <1>0, <1>5, Running, GoesOn DEF Schedule, CallbackNames, Carriers
<1>6. ASSUME NEW r \in Requests, Resolve(r) PROVE Queue(ready', state')
  <2>1. CASE state[r] = "parked"
    <3>1. Free(ready, r)
      BY <1>0, <2>1, NoCarrier
    <3>2. ready # <<>> /\ Head(ready) = Callback("resolve", r)
      BY <1>6 DEF Resolve, Runs
    <3>3. Queue(Append(Tail(ready), Callback("step", r)), [state EXCEPT ![r] = "waking"])
      BY <1>0, <3>1, <3>2, GoesOn DEF CallbackNames
    <3>. QED
      BY <1>6, <2>1, <3>3 DEF Resolve
  <2>2. CASE state[r] # "parked"
    BY <1>6, <2>2, Running DEF Resolve, CallbackNames
  <2>. QED
    BY <2>1, <2>2
<1>7. ASSUME NEW r \in Requests, Runs("step", r), Return(r) PROVE Queue(ready', state')
  BY <1>0, <1>7, Running, GoesOn DEF Return, CallbackNames, Carriers
<1>8. ASSUME NEW r \in Requests, Step(r) PROVE Queue(ready', state')
  <2>1. CASE Park(r)
    BY <1>0, <2>1, Running, Moves DEF Park, CallbackNames, Carriers
  <2>2. CASE NeverRuns(r) \/ RunsTooLate(r) \/ Handle(r) \/ WakeUp(r)
    BY <1>7, <2>2 DEF NeverRuns, RunsTooLate, Handle, WakeUp
  <2>. QED
    BY <1>8, <2>1, <2>2 DEF Step
<1>9. ASSUME NEW r \in Requests, Done(r) PROVE Queue(ready', state')
  BY <1>0, <1>9, Running, Moves DEF Done, CallbackNames, Carriers
<1>10. ASSUME NEW r \in Requests, GiveUp(r) PROVE Queue(ready', state')
  <2>1. Free(ready, r)
    BY <1>0, <1>10, NoCarrier DEF GiveUp
  <2>2. Queue(ready, state')
    BY <1>0, <1>10, <2>1, Moves DEF GiveUp
  <2>3. Fits(Callback("step", r), state')
    BY <1>0, <1>10, CallbackParts DEF GiveUp, Fits
  <2>. QED
    BY <1>10, <2>1, <2>2, <2>3, Joins, CallbackType, CallbackParts DEF GiveUp, CallbackNames
<1>11. ASSUME NEW c \in Conns, Reset(c) PROVE Queue(ready', state')
  BY <1>0, <1>11 DEF Reset, requestVars
<1>12. ASSUME NEW c \in Conns, Cleanup(c) PROVE Queue(ready', state')
  BY <1>12, Drains DEF Cleanup
<1>. QED
  BY <1>1, <1>2, <1>3, <1>4, <1>5, <1>6, <1>8, <1>9, <1>10, <1>11, <1>12,
     DispatchAssumption DEF Next, LoopStep

(* Answers, slots and cancellations.                                       *)
LEMMA AnswersKept ==
  ASSUME DispatchInv, Next
  PROVE  Answers' /\ Slots' /\ OthersUnaffected'
<1>. USE DEF DispatchInv, TypeOK, Answers, Slots, OthersUnaffected
<1>1. ASSUME NEW c \in Conns, Readable(c) \/ OnReadable(c) \/ Reset(c)
      PROVE  Answers' /\ Slots' /\ OthersUnaffected'
  BY <1>1 DEF Readable, OnReadable, Reset, requestVars, connVars
<1>2. CASE ChunkDone
  BY <1>2 DEF ChunkDone, requestVars, connVars
<1>3. ASSUME NEW r \in Requests, Accept(r) \/ Drop(r) \/ Response(r)
      PROVE  Answers' /\ Slots' /\ OthersUnaffected'
  BY <1>3 DEF Accept, Drop, Response, connVars
<1>4. ASSUME NEW c \in Conns, Drain(c)
      PROVE  \A r \in cancelled' : r \in cancelled \/ ConnOf[r] = c
  BY <1>4 DEF Drain, DrainedTasks, Of
<1>5. ASSUME NEW c \in Conns
      PROVE  /\ AfterDrain(c) \in [Requests -> States]
             /\ \A r \in Requests : \/ AfterDrain(c)[r] = state[r]
                                    \/ state[r] = "parked" /\ AfterDrain(c)[r] = "waking"
  BY DEF AfterDrain, Woken, States
<1>6. ASSUME NEW r \in Requests, Quarantine(r)
      PROVE  Answers' /\ Slots' /\ OthersUnaffected'
  <2>1. ConnOf[r] \in Conns /\ Drain(ConnOf[r])
    BY <1>6, DispatchAssumption DEF Quarantine
  <2>2. Answers'
    BY <1>5, <1>6, <2>1 DEF Quarantine
  <2>3. Slots'
    BY <1>5, <1>6, <2>1 DEF Quarantine
  <2>4. OthersUnaffected'
    BY <1>4, <1>6, <2>1 DEF Quarantine
  <2>. QED
    BY <2>2, <2>3, <2>4
<1>7. ASSUME NEW c \in Conns, Cleanup(c)
      PROVE  Answers' /\ Slots' /\ OthersUnaffected'
  <2>1. Drain(c)
    BY <1>7 DEF Cleanup
  <2>2. Answers'
    BY <1>5, <1>7 DEF Cleanup
  <2>3. Slots'
    BY <1>5, <1>7 DEF Cleanup
  <2>4. OthersUnaffected'
    BY <1>4, <1>7, <2>1 DEF Cleanup
  <2>. QED
    BY <2>2, <2>3, <2>4
<1>8. ASSUME NEW r \in Requests, Schedule(r) \/ Resolve(r) \/ Done(r) \/ GiveUp(r)
      PROVE  Answers' /\ Slots' /\ OthersUnaffected'
  <2>1. CASE Schedule(r)
    <3>1. state[r] = "scheduled"
      BY <2>1, Running, CallbackParts DEF Schedule, Fits, CallbackNames
    <3>. QED
      BY <2>1, <3>1 DEF Schedule
  <2>2. CASE Done(r)
    <3>1. state[r] = "finished"
      BY <2>2, Running, CallbackParts DEF Done, Fits, CallbackNames
    <3>. QED
      BY <2>2, <3>1 DEF Done
  <2>3. CASE Resolve(r)
    BY <2>3 DEF Resolve, connVars
  <2>4. CASE GiveUp(r)
    BY <2>4 DEF GiveUp, connVars
  <2>. QED
    BY <1>8, <2>1, <2>2, <2>3, <2>4
<1>9. ASSUME NEW r \in Requests, Step(r)
      PROVE  Answers' /\ Slots' /\ OthersUnaffected'
  <2>1. CASE NeverRuns(r)
    BY <2>1 DEF NeverRuns, Return, connVars
  <2>2. CASE RunsTooLate(r)
    BY <2>2 DEF RunsTooLate, Return, Answer
  <2>3. CASE Handle(r)
    <3>1. replies[r] = 0 /\ state[r] = "created"
      BY <2>3 DEF Handle, HandlerMayStart
    <3>2. Answers'
      BY <2>3, <3>1 DEF Handle, Return, Answer
    <3>3. Slots' /\ OthersUnaffected'
      BY <2>3, <3>1 DEF Handle, Return
    <3>. QED
      BY <3>2, <3>3
  <2>4. CASE Park(r)
    BY <2>4 DEF Park, HandlerMayStart, connVars
  <2>5. CASE WakeUp(r)
    <3>1. replies[r] = 0 /\ state[r] = "waking"
      BY <2>5 DEF WakeUp
    <3>2. Answers'
      BY <2>5, <3>1 DEF WakeUp, Return, Answer
    <3>3. Slots' /\ OthersUnaffected'
      BY <2>5, <3>1 DEF WakeUp, Return, Released
    <3>. QED
      BY <3>2, <3>3
  <2>. QED
    BY <1>9, <2>1, <2>2, <2>3, <2>4, <2>5 DEF Step
<1>. QED
  BY <1>1, <1>2, <1>3, <1>6, <1>7, <1>8, <1>9, DispatchAssumption
  DEF Next, LoopStep, Frame

(* The counter of a connection.                                            *)
LEMMA OfFinite ==
  ASSUME NEW c
  PROVE  IsFiniteSet(Of(c)) /\ IsFiniteSet({r \in Of(c) : Pinned(r)})
BY DispatchAssumption, FS_Subset DEF Of

LEMMA CountsSame ==
  ASSUME CounterExact, UNCHANGED inflight, \A r \in Requests : Pinned(r)' <=> Pinned(r)
  PROVE  CounterExact'
<1>. SUFFICES ASSUME NEW c \in Conns
              PROVE  {r \in Of(c) : Pinned(r)'} = {r \in Of(c) : Pinned(r)}
  BY DEF CounterExact
<1>. QED
  BY DEF Of

LEMMA CountsKept ==
  ASSUME DispatchInv, Next
  PROVE  CounterExact'
<1>0. CounterExact /\ state \in [Requests -> States] /\ inflight \in [Conns -> Nat]
  BY DEF DispatchInv, TypeOK
<1>. USE DEF Pinned, Alive
<1>1. ASSUME NEW c \in Conns, Readable(c) \/ OnReadable(c) \/ Reset(c) PROVE CounterExact'
  BY <1>0, <1>1, CountsSame DEF Readable, OnReadable, Reset, requestVars, connVars
<1>2. CASE ChunkDone
  BY <1>0, <1>2, CountsSame DEF ChunkDone, requestVars, connVars
<1>3. ASSUME NEW r \in Requests, Accept(r) \/ Drop(r) \/ Response(r) \/ GiveUp(r)
      PROVE  CounterExact'
  BY <1>0, <1>3, CountsSame DEF Accept, Drop, Response, GiveUp, connVars
<1>4. ASSUME NEW c
      PROVE  /\ AfterDrain(c) \in [Requests -> States]
             /\ \A r \in Requests : \/ AfterDrain(c)[r] = state[r]
                                    \/ state[r] = "parked" /\ AfterDrain(c)[r] = "waking"
  BY <1>0 DEF AfterDrain, Woken, States
<1>5. ASSUME NEW r \in Requests, Quarantine(r) PROVE CounterExact'
  <2>1. state' = [AfterDrain(ConnOf[r]) EXCEPT ![r] = "dropped"] /\ state[r] = "unsent"
        /\ UNCHANGED inflight
    BY <1>5 DEF Quarantine
  <2>2. \A x \in Requests : Pinned(x)' <=> Pinned(x)
    BY <1>4, <2>1
  <2>. QED
    BY <1>0, <2>1, <2>2, CountsSame
<1>6. ASSUME NEW c \in Conns, Cleanup(c) PROVE CounterExact'
  <2>1. \A x \in Requests : Pinned(x)' <=> Pinned(x)
    BY <1>4, <1>6 DEF Cleanup
  <2>. QED
    BY <1>0, <1>6, <2>1, CountsSame DEF Cleanup
<1>7. ASSUME NEW r \in Requests, Resolve(r) \/ Step(r) PROVE CounterExact'
  BY <1>0, <1>7, CountsSame DEF Resolve, Step, NeverRuns, RunsTooLate, Handle, HandlerMayStart,
     Park, WakeUp, Return, connVars
<1>8. ASSUME NEW r \in Requests, Schedule(r) PROVE CounterExact'
  <2>1. state[r] = "scheduled"
    BY <1>8, Running, CallbackParts DEF Schedule, Fits, CallbackNames
  <2>2. ASSUME NEW c \in Conns
        PROVE  inflight'[c] = Cardinality({x \in Of(c) : Pinned(x)'})
    <3>. DEFINE Before == {x \in Of(c) : Pinned(x)}
    <3>1. CASE ConnOf[r] = c
      <4>1. {x \in Of(c) : Pinned(x)'} = Before \cup {r} /\ r \notin Before
        BY <1>0, <1>8, <2>1, <3>1 DEF Schedule, Of
      <4>2. Cardinality(Before \cup {r}) = Cardinality(Before) + 1
        BY <4>1, OfFinite, FS_AddElement
      <4>. QED
        BY <1>0, <1>8, <3>1, <4>1, <4>2 DEF Schedule, CounterExact
    <3>2. CASE ConnOf[r] # c
      <4>1. {x \in Of(c) : Pinned(x)'} = Before
        BY <1>0, <1>8, <2>1, <3>2 DEF Schedule, Of
      <4>. QED
        BY <1>0, <1>8, <3>2, <4>1, DispatchAssumption DEF Schedule, CounterExact
    <3>. QED
      BY <3>1, <3>2
  <2>. QED
    BY <2>2 DEF CounterExact
<1>9. ASSUME NEW r \in Requests, Done(r) PROVE CounterExact'
  <2>1. state[r] = "finished"
    BY <1>9, Running, CallbackParts DEF Done, Fits, CallbackNames
  <2>2. ASSUME NEW c \in Conns
        PROVE  inflight'[c] = Cardinality({x \in Of(c) : Pinned(x)'})
    <3>. DEFINE Before == {x \in Of(c) : Pinned(x)}
    <3>1. CASE ConnOf[r] = c
      <4>1. {x \in Of(c) : Pinned(x)'} = Before \ {r} /\ r \in Before
        BY <1>0, <1>9, <2>1, <3>1 DEF Done, Of
      <4>2. Cardinality(Before \ {r}) = Cardinality(Before) - 1
        BY <4>1, OfFinite, FS_RemoveElement
      <4>. QED
        BY <1>0, <1>9, <3>1, <4>1, <4>2 DEF Done, Leave, CounterExact
    <3>2. CASE ConnOf[r] # c
      <4>1. {x \in Of(c) : Pinned(x)'} = Before
        BY <1>0, <1>9, <2>1, <3>2 DEF Done, Of
      <4>. QED
        BY <1>0, <1>9, <3>2, <4>1, DispatchAssumption DEF Done, Leave, CounterExact
    <3>. QED
      BY <3>1, <3>2
  <2>. QED
    BY <2>2 DEF CounterExact
<1>. QED
  BY <1>1, <1>2, <1>3, <1>5, <1>6, <1>7, <1>8, <1>9, DispatchAssumption
  DEF Next, LoopStep, Frame

(* The types; those of the queue and of the counter from the lemmas above. *)
LEMMA TypeKept ==
  ASSUME DispatchInv, Next
  PROVE  TypeOK'
<1>1. ready' \in Seq(Callbacks)
  BY QueueKept DEF Queue
<1>2. ASSUME inflight' \in [Conns -> Int] PROVE inflight' \in [Conns -> Nat]
  <2>1. ASSUME NEW c \in Conns PROVE inflight'[c] \in Nat
    <3>1. IsFiniteSet({r \in Of(c) : Pinned(r)'})
      BY OfFinite, FS_Subset
    <3>. QED
      BY <3>1, CountsKept, FS_CardinalityType DEF CounterExact
  <2>. QED
    BY <1>2, <2>1
<1>. DEFINE Rest == /\ reading' \in Conns \cup {Nobody}
                    /\ frames' \in 0..MaxFrames
                    /\ state' \in [Requests -> States]
                    /\ replies' \in [Requests -> 0..1]
                    /\ inflight' \in [Conns -> Int]
                    /\ {cancelled', started', callbacks'} \subseteq SUBSET Requests
                    /\ {quarantined', closed', cleaned', up'} \subseteq SUBSET Conns
                    /\ cleaned' \subseteq closed'
<1>. USE DEF DispatchInv, TypeOK, States
<1>3. ASSUME NEW c \in Conns, Readable(c) \/ OnReadable(c) \/ Reset(c) PROVE Rest
  BY <1>3 DEF Readable, OnReadable, Reset, requestVars, connVars
<1>4. CASE ChunkDone
  BY <1>4, DispatchAssumption DEF ChunkDone, requestVars, connVars
<1>5. ASSUME NEW c \in Conns, Drain(c)
      PROVE  cancelled' \subseteq Requests /\ AfterDrain(c) \in [Requests -> States]
  BY <1>5 DEF Drain, DrainedTasks, AfterDrain, Of
<1>6. ASSUME NEW r \in Requests, Frame(r) PROVE Rest
  <2>1. frames' \in 0..MaxFrames
    BY <1>6, DispatchAssumption DEF Frame, Accept, Drop, Response, Quarantine, NextFrame
  <2>2. CASE Accept(r) \/ Drop(r)
    BY <2>1, <2>2 DEF Accept, Drop, connVars
  <2>3. CASE Response(r)
    BY <2>1, <2>3 DEF Response, connVars
  <2>4. CASE Quarantine(r)
    <3>1. ConnOf[r] \in Conns
      BY DispatchAssumption
    <3>2. cancelled' \subseteq Requests /\ state' \in [Requests -> States]
      BY <2>4, <3>1, <1>5 DEF Quarantine
    <3>. QED
      BY <2>1, <2>4, <3>1, <3>2 DEF Quarantine
  <2>. QED
    BY <1>6, <2>2, <2>3, <2>4 DEF Frame
<1>7. ASSUME NEW c \in Conns, Cleanup(c) PROVE Rest
  <2>1. cancelled' \subseteq Requests /\ state' \in [Requests -> States]
    BY <1>7, <1>5 DEF Cleanup
  <2>2. frames' \in 0..MaxFrames
    BY <1>7, DispatchAssumption DEF Cleanup
  <2>. QED
    BY <1>7, <2>1, <2>2 DEF Cleanup
<1>8. ASSUME NEW r \in Requests, Schedule(r) \/ Resolve(r) \/ Done(r) \/ GiveUp(r)
      PROVE  Rest
  <2>1. CASE Schedule(r) \/ Done(r)
    <3>1. inflight' \in [Conns -> Int]
      BY <2>1, DispatchAssumption DEF Schedule, Done, Leave
    <3>. QED
      BY <2>1, <3>1 DEF Schedule, Done
  <2>2. CASE Resolve(r) \/ GiveUp(r)
    BY <2>2 DEF Resolve, GiveUp, connVars
  <2>. QED
    BY <1>8, <2>1, <2>2
<1>9. ASSUME NEW r \in Requests, Step(r) PROVE Rest
  <2>1. CASE NeverRuns(r) \/ Park(r)
    BY <2>1 DEF NeverRuns, Park, Return, connVars
  <2>2. CASE RunsTooLate(r) \/ Handle(r) \/ WakeUp(r)
    <3>1. replies[r] = 0 \/ ConnOf[r] \in closed
      BY <2>2 DEF RunsTooLate, Handle, HandlerMayStart, WakeUp, Answers
    <3>2. replies' \in [Requests -> 0..1]
      BY <2>2, <3>1 DEF RunsTooLate, Handle, WakeUp, Answer
    <3>3. closed' \in SUBSET Conns /\ closed \subseteq closed'
      BY <2>2, DispatchAssumption DEF RunsTooLate, Handle, WakeUp, Answer
    <3>. QED
      BY <2>2, <3>2, <3>3 DEF RunsTooLate, Handle, WakeUp, Return, Released
  <2>. QED
    BY <1>9, <2>1, <2>2 DEF Step
<1>10. Rest
  BY <1>3, <1>4, <1>6, <1>7, <1>8, <1>9, DispatchAssumption DEF Next, LoopStep
<1>. QED
  BY <1>1, <1>2, <1>10 DEF Callbacks

-----------------------------------------------------------------------------
(* The invariant is inductive.                                             *)
THEOREM DispatchInvariant == Spec => []DispatchInv
<1>1. DispatchInv /\ [Next]_vars => DispatchInv'
  <2>. SUFFICES ASSUME DispatchInv, [Next]_vars PROVE DispatchInv'
    OBVIOUS
  <2>1. CASE UNCHANGED vars
    BY <2>1 DEF vars, requestVars, connVars, DispatchInv, TypeOK, Queue, Answers, Slots,
                CounterExact, OthersUnaffected, Pinned, Alive
  <2>2. CASE Next
    BY <2>2, TypeKept, QueueKept, AnswersKept, CountsKept DEF DispatchInv
  <2>. QED
    BY <2>1, <2>2
<1>. QED
  BY <1>1, InitInv, PTL DEF Spec

(* The variables stay in their ranges; no request is answered twice.       *)
THEOREM TypeCorrect == Spec => []TypeOK
<1>1. DispatchInv => TypeOK
  BY DEF DispatchInv
<1>. QED
  BY <1>1, DispatchInvariant, PTL

(* _inbound_inflight counts the tasks of the connection, by whatever way   *)
(* each of them ends.                                                      *)
THEOREM CounterExactHolds == Spec => []CounterExact
<1>1. DispatchInv => CounterExact
  BY DEF DispatchInv
<1>. QED
  BY <1>1, DispatchInvariant, PTL

(* _drain_inbound_dispatch never cancels a task of a connection other than *)
(* the one that is quarantined or cleaned up.                              *)
THEOREM OthersUnaffectedHolds == Spec => []OthersUnaffected
<1>1. DispatchInv => OthersUnaffected
  BY DEF DispatchInv
<1>. QED
  BY <1>1, DispatchInvariant, PTL

(* A handler that ran has sent one answer when its task is over, cancelled *)
(* or not, unless its connection is closed; no other sends any.            *)
THEOREM AnsweredOnceHolds == Spec => []AnsweredOnce
<1>1. DispatchInv => AnsweredOnce
  BY DEF DispatchInv, TypeOK, States, Answers, AnsweredOnce, Alive
<1>. QED
  BY <1>1, DispatchInvariant, PTL

(* Nothing is left in _request_callbacks by a handler that has returned.   *)
THEOREM SlotsReleasedHolds == Spec => []SlotsReleased
<1>1. DispatchInv => SlotsReleased
  BY DEF DispatchInv, Slots, SlotsReleased, Alive
<1>. QED
  BY <1>1, DispatchInvariant, PTL

-----------------------------------------------------------------------------
(* The bound on the tasks of a connection.  It rests on the order of the   *)
(* queue: before a connection is read again, what its last chunk has       *)
(* scheduled was counted.                                                  *)

(* A connection is in the queue once, behind the requests read from it.    *)
Ordered(q) ==
  \A i, j \in 1..Len(q) :
    q[i].name = "readable" =>
      /\ q[j].name = "schedule" /\ ConnOf[q[j].id] = q[i].id => j < i
      /\ q[j].name = "readable" /\ q[j].id = q[i].id => j = i

Unread(q, c) == \A i \in 1..Len(q) : q[i].name = "readable" => q[i].id # c

Awaits(q, st) ==
  \A r \in Requests : st[r] = "scheduled" =>
    \E i \in 1..Len(q) : q[i] = Callback("schedule", r)

Lined == Ordered(ready) /\ Awaits(ready, state) /\ (reading \in Conns => Unread(ready, reading))

(* While a chunk is read, nothing is counted, and only below the cap is    *)
(* anything scheduled.                                                     *)
Chunk ==
  reading \in Conns =>
    /\ Scheduled(reading) <= frames
    /\ Scheduled(reading) > 0 => inflight[reading] < MaxInflight

BoundInv == DispatchInv /\ Lined /\ Chunk /\ InflightBounded

LEMMA OrderedPops ==
  ASSUME NEW q \in Seq(Callbacks), q # <<>>, Ordered(q)
  PROVE  /\ Ordered(Tail(q))
         /\ Head(q).name = "readable" =>
              /\ Unread(Tail(q), Head(q).id)
              /\ \A i \in 1..Len(Tail(q)) :
                   Tail(q)[i].name = "schedule" => ConnOf[Tail(q)[i].id] # Head(q).id
         /\ \A c : Unread(q, c) => Unread(Tail(q), c)
<1>1. Len(q) \in Nat /\ 1 \in 1..Len(q) /\ Head(q) = q[1]
  OBVIOUS
<1>2. /\ Tail(q) \in Seq(Callbacks) /\ Len(Tail(q)) = Len(q) - 1
      /\ \A i \in 1..Len(Tail(q)) : i + 1 \in 1..Len(q) /\ Tail(q)[i] = q[i + 1]
                                   /\ ~(i + 1 < 1) /\ i + 1 # 1
  BY <1>1
<1>3. \A i, j \in 1..Len(Tail(q)) : (i + 1 < j + 1 <=> i < j) /\ (i + 1 = j + 1 <=> i = j)
  BY <1>2
<1>4. Ordered(Tail(q))
  BY <1>2, <1>3 DEF Ordered
<1>5. \A c : Unread(q, c) => Unread(Tail(q), c)
  BY <1>2 DEF Unread
<1>6. ASSUME Head(q).name = "readable", NEW i \in 1..Len(Tail(q))
      PROVE  /\ Tail(q)[i].name = "readable" => Tail(q)[i].id # Head(q).id
             /\ Tail(q)[i].name = "schedule" => ConnOf[Tail(q)[i].id] # Head(q).id
  BY <1>1, <1>2, <1>6 DEF Ordered
<1>. QED
  BY <1>4, <1>5, <1>6 DEF Unread

LEMMA OrderedJoins ==
  ASSUME NEW q \in Seq(Callbacks), Ordered(q), NEW cb \in Callbacks,
         cb.name = "readable" => Unread(q, cb.id),
         cb.name = "schedule" => Unread(q, ConnOf[cb.id])
  PROVE  /\ Ordered(Append(q, cb))
         /\ \A c : Unread(q, c) /\ cb.name # "readable" => Unread(Append(q, cb), c)
<1>1. /\ Len(Append(q, cb)) = Len(q) + 1 /\ Append(q, cb)[Len(q) + 1] = cb
      /\ \A i \in 1..Len(q) : Append(q, cb)[i] = q[i]
  OBVIOUS
<1>2. /\ Len(q) \in Nat
      /\ \A i \in 1..Len(q) + 1 : i = Len(q) + 1 \/ i \in 1..Len(q)
      /\ \A i \in 1..Len(q) : i < Len(q) + 1
  OBVIOUS
<1>. QED
  BY <1>1, <1>2 DEF Ordered, Unread

(* Nothing that is scheduled is forgotten: only the head leaves the queue. *)
LEMMA AwaitsPops ==
  ASSUME NEW q \in Seq(Callbacks), q # <<>>, NEW st, Awaits(q, st), NEW st2,
         \A r \in Requests :
           st2[r] = "scheduled" => st[r] = "scheduled" /\ Head(q) # Callback("schedule", r)
  PROVE  Awaits(Tail(q), st2)
<1>. SUFFICES ASSUME NEW r \in Requests, st2[r] = "scheduled"
              PROVE  \E i \in 1..Len(Tail(q)) : Tail(q)[i] = Callback("schedule", r)
  BY DEF Awaits
<1>1. PICK i \in 1..Len(q) : q[i] = Callback("schedule", r)
  BY DEF Awaits
<1>2. Head(q) = q[1] /\ Head(q) # Callback("schedule", r)
  OBVIOUS
<1>3. i # 1
  BY <1>1, <1>2
<1>4. i - 1 \in 1..Len(Tail(q)) /\ Tail(q)[i - 1] = q[i]
  BY <1>3
<1>. QED
  BY <1>1, <1>4

LEMMA AwaitsJoins ==
  ASSUME NEW q \in Seq(Callbacks), NEW st, Awaits(q, st), NEW st2, NEW cb \in Callbacks,
         \A r \in Requests :
           st2[r] = "scheduled" => st[r] = "scheduled" \/ cb = Callback("schedule", r)
  PROVE  Awaits(Append(q, cb), st2)
<1>1. /\ Len(Append(q, cb)) = Len(q) + 1 /\ Append(q, cb)[Len(q) + 1] = cb
      /\ Len(q) + 1 \in 1..Len(q) + 1
      /\ \A i \in 1..Len(q) : Append(q, cb)[i] = q[i] /\ i \in 1..Len(q) + 1
  OBVIOUS
<1>. QED
  BY <1>1 DEF Awaits

LEMMA LinedKept ==
  ASSUME BoundInv, Next
  PROVE  Lined'
<1>0. /\ ready \in Seq(Callbacks) /\ Ordered(ready) /\ Awaits(ready, state)
      /\ state \in [Requests -> States] /\ Nobody \notin Conns
      /\ reading \in Conns => Unread(ready, reading)
      /\ DispatchInv
  BY DispatchAssumption DEF BoundInv, DispatchInv, TypeOK, Queue, Lined
<1>1. ASSUME NEW c \in Conns, Readable(c) PROVE Lined'
  <2>1. Callback("readable", c) \in Callbacks
    BY DEF Callback, Callbacks
  <2>2. Unread(ready, c)
    <3>1. SUFFICES ASSUME NEW i \in 1..Len(ready), ready[i].name = "readable", ready[i].id = c
                   PROVE  FALSE
      BY DEF Unread
    <3>2. ready[i] \in [name : {"readable"}, id : Conns]
      BY <1>0, <3>1 DEF Callbacks, CallbackNames
    <3>3. ready[i] = Callback("readable", c)
      BY <3>1, <3>2 DEF Callback
    <3>. QED
      BY <1>0, <1>1, <3>3 DEF Readable
  <2>3. Ordered(ready')
    BY <1>0, <1>1, <2>1, <2>2, OrderedJoins, CallbackParts DEF Readable
  <2>4. Awaits(ready', state')
    BY <1>0, <1>1, <2>1, AwaitsJoins DEF Readable, requestVars
  <2>. QED
    BY <1>0, <1>1, <2>3, <2>4 DEF Readable, Lined
<1>2. ASSUME NEW c \in Conns, OnReadable(c) PROVE Lined'
  <2>1. ready # <<>> /\ Head(ready).name = "readable" /\ Head(ready).id = c
    BY <1>2, CallbackParts DEF OnReadable, Runs
  <2>2. Ordered(Tail(ready)) /\ Unread(Tail(ready), c)
    BY <1>0, <2>1, OrderedPops
  <2>3. Awaits(Tail(ready), state)
    BY <1>0, <2>1, AwaitsPops, CallbackParts
  <2>. QED
    BY <1>0, <1>2, <2>2, <2>3 DEF OnReadable, requestVars, Lined
<1>3. CASE ChunkDone
  BY <1>0, <1>3 DEF ChunkDone, requestVars, Lined
<1>4. ASSUME NEW c \in Conns, Drain(c),
             \A r \in Requests : state'[r] = "scheduled" => state[r] = "scheduled",
             reading' \in {reading, Nobody}
      PROVE  Lined'
  <2>1. /\ \A i \in 1..Len(ready) : i \in 1..Len(ready') /\ ready'[i] = ready[i]
        /\ \A i \in 1..Len(ready') : i \in 1..Len(ready) \/ ready'[i].name = "step"
    BY <1>0, <1>4, Drains
  <2>2. Ordered(ready')
    BY <1>0, <2>1 DEF Ordered
  <2>3. \A x : Unread(ready, x) => Unread(ready', x)
    BY <2>1 DEF Unread
  <2>4. Awaits(ready', state')
    BY <1>0, <1>4, <2>1 DEF Awaits
  <2>. QED
    BY <1>0, <1>4, <2>2, <2>3, <2>4 DEF Lined
<1>5. ASSUME NEW r \in Requests, Accept(r) PROVE Lined'
  <2>1. Callback("schedule", r) \in Callbacks
    BY CallbackType DEF CallbackNames
  <2>2. reading = ConnOf[r] /\ ConnOf[r] \in Conns
    BY <1>5, DispatchAssumption DEF Accept, NextFrame
  <2>3. Ordered(ready') /\ Unread(ready', ConnOf[r])
    BY <1>0, <1>5, <2>1, <2>2, OrderedJoins, CallbackParts DEF Accept
  <2>4. Awaits(ready', state')
    <3>1. \A x \in Requests : state'[x] = "scheduled" =>
                             state[x] = "scheduled" \/ Callback("schedule", r) = Callback("schedule", x)
      BY <1>0, <1>5 DEF Accept
    <3>2. Awaits(Append(ready, Callback("schedule", r)), state')
      BY <1>0, <2>1, <3>1, AwaitsJoins
    <3>. QED
      BY <1>5, <3>2 DEF Accept
  <2>. QED
    BY <1>5, <2>2, <2>3, <2>4 DEF Accept, Lined
<1>6. ASSUME NEW r \in Requests, NEW m \in {"step", "resolve"},
             ready' = Append(ready, Callback(m, r)), UNCHANGED reading,
             \A x \in Requests : state'[x] = "scheduled" => state[x] = "scheduled"
      PROVE  Lined'
  <2>1. Callback(m, r) \in Callbacks /\ Callback(m, r).name = m
    BY CallbackType DEF CallbackNames
  <2>2. Ordered(ready') /\ \A c : Unread(ready, c) => Unread(ready', c)
    BY <1>0, <1>6, <2>1, OrderedJoins
  <2>3. Awaits(ready', state')
    BY <1>0, <1>6, <2>1, AwaitsJoins
  <2>. QED
    BY <1>0, <1>6, <2>2, <2>3 DEF Lined
<1>7. ASSUME UNCHANGED <<ready, reading>>,
             \A x \in Requests : state'[x] = "scheduled" => state[x] = "scheduled"
      PROVE  Lined'
  BY <1>0, <1>7 DEF Lined, Awaits
<1>8. ASSUME NEW r \in Requests, NEW n \in CallbackNames, Runs(n, r),
             \/ ready' = Tail(ready)
             \/ \E m \in {"step", "done"} : ready' = Append(Tail(ready), Callback(m, r)),
             UNCHANGED reading,
             \A x \in Requests : state'[x] = "scheduled" =>
                                  state[x] = "scheduled" /\ Callback(n, r) # Callback("schedule", x)
      PROVE  Lined'
  <2>1. ready # <<>> /\ Head(ready) = Callback(n, r) /\ reading = Nobody
    BY <1>8 DEF Runs
  <2>2. Tail(ready) \in Seq(Callbacks) /\ Ordered(Tail(ready)) /\ Awaits(Tail(ready), state')
    BY <1>0, <1>8, <2>1, OrderedPops, AwaitsPops
  <2>3. ASSUME NEW m \in {"step", "done"}, ready' = Append(Tail(ready), Callback(m, r))
        PROVE  Ordered(ready') /\ Awaits(ready', state')
    <3>1. Callback(m, r) \in Callbacks /\ Callback(m, r).name = m
      BY CallbackType DEF CallbackNames
    <3>. QED
      BY <2>2, <2>3, <3>1, OrderedJoins, AwaitsJoins
  <2>. QED
    BY <1>0, <1>8, <2>1, <2>2, <2>3 DEF Lined
<1>9. ASSUME NEW r \in Requests, Schedule(r) PROVE Lined'
  <2>1. \A x \in Requests : state'[x] = "scheduled" =>
                             state[x] = "scheduled" /\ Callback("schedule", r) # Callback("schedule", x)
    BY <1>0, <1>9, CallbackParts DEF Schedule
  <2>. QED
    BY <1>8, <1>9, <2>1 DEF Schedule, CallbackNames
<1>10. ASSUME NEW r \in Requests, Resolve(r) \/ Done(r) \/ Step(r) PROVE Lined'
  <2>1. PICK n \in {"resolve", "done", "step"} : Runs(n, r)
    BY <1>10 DEF Resolve, Done, Step, NeverRuns, RunsTooLate, Handle, Park, WakeUp
  <2>2. \A x \in Requests : state'[x] = "scheduled" =>
                             state[x] = "scheduled" /\ Callback(n, r) # Callback("schedule", x)
    BY <1>0, <1>10, <2>1, CallbackParts
    DEF Resolve, Done, Step, NeverRuns, RunsTooLate, Handle, Park, WakeUp, Return
  <2>3. /\ UNCHANGED reading
        /\ \/ ready' = Tail(ready)
           \/ \E m \in {"step", "done"} : ready' = Append(Tail(ready), Callback(m, r))
    BY <1>10 DEF Resolve, Done, Step, NeverRuns, RunsTooLate, Handle, Park, WakeUp, Return
  <2>. QED
    BY <1>8, <2>1, <2>2, <2>3 DEF CallbackNames
<1>11. ASSUME NEW r \in Requests, Drop(r) \/ Response(r) \/ GiveUp(r) PROVE Lined'
  BY <1>0, <1>6, <1>7, <1>11 DEF Drop, Response, GiveUp
<1>12. ASSUME NEW r \in Requests, Quarantine(r) PROVE Lined'
  <2>1. ConnOf[r] \in Conns /\ Drain(ConnOf[r])
    BY <1>12, DispatchAssumption DEF Quarantine
  <2>2. \A x \in Requests : state'[x] = "scheduled" => state[x] = "scheduled"
    BY <1>0, <1>12 DEF Quarantine, AfterDrain
  <2>. QED
    BY <1>4, <1>12, <2>1, <2>2 DEF Quarantine
<1>13. ASSUME NEW c \in Conns, Cleanup(c) PROVE Lined'
  <2>1. \A x \in Requests : state'[x] = "scheduled" => state[x] = "scheduled"
    BY <1>0, <1>13 DEF Cleanup, AfterDrain
  <2>. QED
    BY <1>4, <1>13, <2>1 DEF Cleanup
<1>14. ASSUME NEW c \in Conns, Reset(c) PROVE Lined'
  BY <1>7, <1>14 DEF Reset, requestVars
<1>. QED
  BY <1>1, <1>2, <1>3, <1>5, <1>9, <1>10, <1>11, <1>12, <1>13, <1>14, DispatchAssumption
  DEF Next, LoopStep, Frame

(* A connection that is about to be read has nothing left to be counted.   *)
LEMMA NothingScheduled ==
  ASSUME BoundInv, NEW c \in Conns, Runs("readable", c)
  PROVE  Scheduled(c) = 0
<1>1. /\ ready \in Seq(Callbacks) /\ Ordered(ready) /\ Awaits(ready, state)
      /\ ready # <<>> /\ Head(ready).name = "readable" /\ Head(ready).id = c
      /\ \A r : Head(ready) # Callback("schedule", r)
  BY CallbackParts DEF BoundInv, DispatchInv, Queue, Lined, Runs
<1>2. /\ \A i \in 1..Len(Tail(ready)) :
           Tail(ready)[i].name = "schedule" => ConnOf[Tail(ready)[i].id] # c
      /\ Awaits(Tail(ready), state)
  BY <1>1, OrderedPops, AwaitsPops
<1>3. {r \in Of(c) : state[r] = "scheduled"} = {}
  <2>1. SUFFICES ASSUME NEW r \in Requests, ConnOf[r] = c, state[r] = "scheduled"
                 PROVE  FALSE
    BY DEF Of
  <2>2. PICK i \in 1..Len(Tail(ready)) : Tail(ready)[i] = Callback("schedule", r)
    BY <1>2, <2>1 DEF Awaits
  <2>. QED
    BY <1>2, <2>1, <2>2, CallbackParts
<1>. QED
  BY <1>3, FS_EmptySet DEF Scheduled

LEMMA ScheduledType == \A c : Scheduled(c) \in Nat
<1>1. \A c : IsFiniteSet({r \in Of(c) : state[r] = "scheduled"})
  BY OfFinite, FS_Subset
<1>. QED
  BY <1>1, FS_CardinalityType DEF Scheduled

LEMMA ScheduledSame ==
  ASSUME \A r \in Requests : state'[r] = "scheduled" <=> state[r] = "scheduled"
  PROVE  \A c : Scheduled(c)' = Scheduled(c)
<1>1. \A c : {r \in Of(c) : state'[r] = "scheduled"} = {r \in Of(c) : state[r] = "scheduled"}
  BY DEF Of
<1>. QED
  BY <1>1 DEF Scheduled, Of

(* One request joins, or leaves, those of its connection.                  *)
LEMMA ScheduledMoves ==
  ASSUME NEW r \in Requests, state \in [Requests -> States], NEW s,
         state' = [state EXCEPT ![r] = s], (s = "scheduled") # (state[r] = "scheduled")
  PROVE  /\ \A c : c # ConnOf[r] => Scheduled(c)' = Scheduled(c)
         /\ Scheduled(ConnOf[r])' = Scheduled(ConnOf[r]) + (IF s = "scheduled" THEN 1 ELSE -1)
<1>. DEFINE Now(c) == {x \in Of(c) : state[x] = "scheduled"}
            Then(c) == {x \in Of(c) : state'[x] = "scheduled"}
<1>1. \A c : c # ConnOf[r] => Then(c) = Now(c)
  BY DEF Of
<1>2. IsFiniteSet(Now(ConnOf[r]))
  BY OfFinite, FS_Subset
<1>3. CASE s = "scheduled"
  <2>1. Then(ConnOf[r]) = Now(ConnOf[r]) \cup {r} /\ r \notin Now(ConnOf[r])
    BY <1>3 DEF Of
  <2>. HIDE DEF Now, Then
  <2>2. Cardinality(Now(ConnOf[r]) \cup {r}) = Cardinality(Now(ConnOf[r])) + 1
    BY <1>2, <2>1, FS_AddElement
  <2>. USE DEF Now, Then
  <2>. QED
    BY <1>1, <1>3, <2>1, <2>2 DEF Scheduled
<1>4. CASE s # "scheduled"
  <2>1. Then(ConnOf[r]) = Now(ConnOf[r]) \ {r} /\ r \in Now(ConnOf[r])
    BY <1>4 DEF Of
  <2>. HIDE DEF Now, Then
  <2>2. Cardinality(Now(ConnOf[r]) \ {r}) = Cardinality(Now(ConnOf[r])) - 1
    BY <1>2, <2>1, FS_RemoveElement
  <2>. USE DEF Now, Then
  <2>. QED
    BY <1>1, <1>4, <2>1, <2>2 DEF Scheduled
<1>. QED
  BY <1>3, <1>4

LEMMA BoundKept ==
  ASSUME BoundInv, Next
  PROVE  Chunk' /\ InflightBounded'
<1>0. /\ state \in [Requests -> States] /\ inflight \in [Conns -> Nat]
      /\ frames \in 0..MaxFrames /\ MaxFrames \in Nat \ {0} /\ MaxInflight \in Nat \ {0}
      /\ Nobody \notin Conns /\ ConnOf \in [Requests -> Conns] /\ reading \in Conns \cup {Nobody}
      /\ Chunk /\ InflightBounded /\ DispatchInv
      /\ \A c : Scheduled(c) \in Nat
  BY DispatchAssumption, ScheduledType DEF BoundInv, DispatchInv, TypeOK
(* Steps that neither schedule nor count.                                  *)
<1>1. ASSUME UNCHANGED inflight, \A c : Scheduled(c)' = Scheduled(c),
             \/ UNCHANGED <<reading, frames>>
             \/ reading' = Nobody
             \/ reading \in Conns /\ reading' = reading /\ frames' = frames + 1
             \/ reading' \in Conns /\ Scheduled(reading') = 0 /\ frames' = frames
      PROVE  Chunk' /\ InflightBounded'
  <2>1. InflightBounded'
    BY <1>0, <1>1 DEF InflightBounded
  <2>2. Chunk'
    BY <1>0, <1>1 DEF Chunk
  <2>. QED
    BY <2>1, <2>2
<1>2. ASSUME NEW c \in Conns, Readable(c) \/ Reset(c) PROVE Chunk' /\ InflightBounded'
  BY <1>1, <1>2, ScheduledSame DEF Readable, Reset, requestVars, connVars
<1>3. ASSUME NEW c \in Conns, OnReadable(c) PROVE Chunk' /\ InflightBounded'
  <2>1. Scheduled(c) = 0
    BY <1>3, NothingScheduled DEF OnReadable
  <2>. QED
    BY <1>1, <1>3, <2>1, ScheduledSame DEF OnReadable, requestVars, connVars
<1>4. CASE ChunkDone
  BY <1>1, <1>4, ScheduledSame DEF ChunkDone, requestVars, connVars
<1>5. ASSUME NEW r \in Requests, Drop(r) \/ Response(r) \/ Quarantine(r) \/ GiveUp(r)
      PROVE  Chunk' /\ InflightBounded'
  <2>1. \A x \in Requests : state'[x] = "scheduled" <=> state[x] = "scheduled"
    BY <1>0, <1>5 DEF Drop, Response, Quarantine, GiveUp, AfterDrain, Woken, DrainedTasks
  <2>2. \/ UNCHANGED <<reading, frames>>
        \/ reading \in Conns /\ reading' = reading /\ frames' = frames + 1
    BY <1>0, <1>5 DEF Drop, Response, Quarantine, GiveUp, NextFrame
  <2>3. UNCHANGED inflight
    BY <1>5 DEF Drop, Response, Quarantine, GiveUp, connVars
  <2>. QED
    BY <1>1, <2>1, <2>2, <2>3, ScheduledSame
<1>6. ASSUME NEW c \in Conns, Cleanup(c) PROVE Chunk' /\ InflightBounded'
  <2>1. \A x \in Requests : state'[x] = "scheduled" <=> state[x] = "scheduled"
    BY <1>0, <1>6 DEF Cleanup, AfterDrain, Woken, DrainedTasks
  <2>. QED
    BY <1>1, <1>6, <2>1, ScheduledSame DEF Cleanup
<1>7. ASSUME NEW r \in Requests, Resolve(r) \/ Step(r) PROVE Chunk' /\ InflightBounded'
  <2>1. \A x \in Requests : state'[x] = "scheduled" <=> state[x] = "scheduled"
    BY <1>0, <1>7
    DEF Resolve, Step, NeverRuns, RunsTooLate, Handle, HandlerMayStart, Park, WakeUp, Return
  <2>2. UNCHANGED <<reading, frames, inflight>>
    BY <1>7 DEF Resolve, Step, NeverRuns, RunsTooLate, Handle, Park, WakeUp, connVars
  <2>. QED
    BY <1>1, <2>1, <2>2, ScheduledSame
<1>8. ASSUME NEW r \in Requests, Accept(r) PROVE Chunk' /\ InflightBounded'
  <2>. DEFINE c == ConnOf[r]
  <2>1. /\ reading = c /\ reading' = c /\ frames' = frames + 1 /\ frames < MaxFrames
        /\ c \in Conns /\ UNCHANGED inflight /\ inflight[c] < MaxInflight
    BY <1>0, <1>8 DEF Accept, NextFrame, Overloaded, connVars
  <2>2. /\ \A x : x # c => Scheduled(x)' = Scheduled(x)
        /\ Scheduled(c)' = Scheduled(c) + 1
    BY <1>0, <1>8, ScheduledMoves DEF Accept
  <2>3. Scheduled(c) <= frames
    BY <1>0, <2>1 DEF Chunk
  <2>4. Chunk'
    BY <1>0, <2>1, <2>2, <2>3 DEF Chunk
  <2>5. InflightBounded'
    BY <1>0, <2>1, <2>2, <2>3 DEF InflightBounded
  <2>. QED
    BY <2>4, <2>5
<1>9. ASSUME NEW r \in Requests, Schedule(r) PROVE Chunk' /\ InflightBounded'
  <2>. DEFINE c == ConnOf[r]
  <2>. reading = Nobody /\ reading' = Nobody
    BY <1>9 DEF Schedule, Runs
  <2>1. state[r] = "scheduled"
    BY <1>9, Running, CallbackParts DEF BoundInv, Schedule, Fits, CallbackNames
  <2>2. /\ \A x : x # c => Scheduled(x)' = Scheduled(x)
        /\ Scheduled(c)' = Scheduled(c) - 1
    BY <1>0, <1>9, <2>1, ScheduledMoves DEF Schedule
  <2>3. \A x \in Conns : inflight'[x] + Scheduled(x)' = inflight[x] + Scheduled(x)
    BY <1>0, <1>9, <2>2 DEF Schedule
  <2>. QED
    BY <1>0, <2>1, <2>3 DEF Chunk, InflightBounded
<1>10. ASSUME NEW r \in Requests, Done(r) PROVE Chunk' /\ InflightBounded'
  <2>. reading = Nobody /\ reading' = Nobody
    BY <1>10 DEF Done, Runs
  <2>1. state[r] = "finished"
    BY <1>10, Running, CallbackParts DEF BoundInv, Done, Fits, CallbackNames
  <2>2. \A x : Scheduled(x)' = Scheduled(x)
    BY <1>0, <1>10, <2>1, ScheduledSame DEF Done
  <2>3. \A x \in Conns : inflight'[x] <= inflight[x] /\ inflight'[x] \in Int
    BY <1>0, <1>10 DEF Done, Leave
  <2>. QED
    BY <1>0, <2>1, <2>2, <2>3 DEF Chunk, InflightBounded
<1>. QED
  BY <1>2, <1>3, <1>4, <1>5, <1>6, <1>7, <1>8, <1>9, <1>10, DispatchAssumption
  DEF Next, LoopStep, Frame

(* The invariant of the bound is inductive.                                *)
THEOREM BoundInvariant == Spec => []BoundInv
<1>1. Init => Lined /\ Chunk /\ InflightBounded
  <2>. SUFFICES ASSUME Init PROVE Lined /\ Chunk /\ InflightBounded
    OBVIOUS
  <2>1. ready = <<>> /\ reading = Nobody /\ Nobody \notin Conns
        /\ \A r \in Requests : state[r] = "unsent"
    BY DispatchAssumption DEF Init
  <2>2. \A c : Scheduled(c) = 0
    <3>1. \A c : {r \in Of(c) : state[r] = "scheduled"} = {}
      BY <2>1 DEF Of
    <3>. QED
      BY <3>1, FS_EmptySet DEF Scheduled
  <2>3. InflightBounded
    BY <2>2, DispatchAssumption DEF Init, InflightBounded
  <2>4. Lined /\ Chunk
    BY <2>1 DEF Lined, Ordered, Awaits, Chunk
  <2>. QED
    BY <2>3, <2>4
<1>2. BoundInv /\ [Next]_vars => BoundInv'
  <2>. SUFFICES ASSUME BoundInv, [Next]_vars PROVE BoundInv'
    OBVIOUS
  <2>1. CASE UNCHANGED vars
    BY <2>1 DEF vars, requestVars, connVars, BoundInv, DispatchInv, TypeOK, Queue, Answers,
                Slots, CounterExact, OthersUnaffected, Pinned, Alive, Lined, Chunk,
                InflightBounded, Scheduled
  <2>2. CASE Next
    BY <2>2, TypeKept, QueueKept, AnswersKept, CountsKept, LinedKept, BoundKept
    DEF BoundInv, DispatchInv
  <2>. QED
    BY <2>1, <2>2
<1>. QED
  BY <1>1, <1>2, InitInv, PTL DEF Spec, BoundInv

(* A connection never has more than max_inbound_inflight - 1 tasks and the *)
(* requests of one chunk, counted or about to be, though the counter lags. *)
THEOREM InflightBoundedHolds == Spec => []InflightBounded
<1>1. BoundInv => InflightBounded
  BY DEF BoundInv
<1>. QED
  BY <1>1, BoundInvariant, PTL

=============================================================================
