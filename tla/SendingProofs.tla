--------------------------- MODULE SendingProofs ---------------------------
(* Proofs about sending: about SendQueue for any number of threads and     *)
(* messages, and about Framing for all payloads, all sizes of chunks and   *)
(* buffers, and all ways the bytes are cut.                                *)
EXTENDS SendQueue, Transfer, Integers, SequenceTheorems, WellFoundedInduction, TLAPS

CONSTANTS Encoded, MaxChunk, Threshold, Room, Setups

VARIABLES setup, todo, writes, blocking, broken, flight, inbuf, want, have

F == INSTANCE Framing

-----------------------------------------------------------------------------
(* The queue of _send.                                                     *)

(* The messages, and the two marks that are none.                          *)
LEMMA Marks ==
  /\ None \notin Messages /\ Garbled \notin Messages /\ None # Garbled
  /\ \A t \in Threads, k \in 1..MaxSends : <<t, k>> \in Messages
BY DEF None, Garbled, Messages

(* All of it holds at first.                                               *)
LEMMA DrainInit == Init => DrainInv /\ LockFreeAtRest
<1>. SUFFICES ASSUME Init PROVE DrainInv /\ LockFreeAtRest
  OBVIOUS
<1>1. TypeOK
  <2>1. <<>> \in Seq(Messages) /\ Len(<<>>) = 0
    BY EmptySeq
  <2>2. sent \in [Threads -> 0..MaxSends]
    BY SendersAssumption DEF Init
  <2>3. /\ pc \in [Threads -> {"idle", "test", "acquire"} \cup Draining]
        /\ \A t \in Threads : pc[t] = "idle"
        /\ hand \in [Threads -> Messages \cup {None}]
    BY DEF Init
  <2>4. /\ locked \in BOOLEAN /\ open \in BOOLEAN /\ closer \in {"no", "closed", "done"}
        /\ frame \in Messages \cup {None, Garbled}
    BY DEF Init
  <2>5. queue \in Seq(Messages) /\ order \in Seq(Messages) /\ delivered \in Seq(Messages)
    BY <2>1 DEF Init
  <2>6. delivered = order /\ Len(order) \in Nat
    BY <2>5, LenProperties DEF Init
  <2>. QED
    BY <2>2, <2>3, <2>4, <2>5, <2>6 DEF Init, TypeOK
<1>2. LockInv /\ NoStranded /\ LockFreeAtRest
  BY DEF Init, LockInv, NoStranded, LockFreeAtRest, Draining
<1>3. FrameInv
  BY Marks DEF Init, FrameInv
<1>4. OrderInv
  <2>1. <<>> \o <<>> = <<>>
    OBVIOUS
  <2>. QED
    BY <2>1 DEF Init, OrderInv
<1>. QED
  BY <1>1, <1>2, <1>3, <1>4 DEF DrainInv

(* Each step of _send keeps the types.                                     *)
LEMMA TypeStep ==
  ASSUME DrainInv, [Next]_vars
  PROVE  TypeOK'
<1>. USE DEF DrainInv, Goto, Draining
<1>1. ASSUME NEW t \in Threads, Enqueue(t) PROVE TypeOK'
  <2>1. <<t, sent[t] + 1>> \in Messages /\ sent' \in [Threads -> 0..MaxSends]
    BY <1>1, SendersAssumption DEF Enqueue, TypeOK, Messages
  <2>2. /\ queue' \in Seq(Messages) /\ order' \in Seq(Messages)
        /\ Len(order') = Len(order) + 1 /\ Len(order) \in Nat /\ Len(delivered) \in Nat
    BY <1>1, <2>1, AppendProperties, LenProperties DEF Enqueue, TypeOK
  <2>3. Len(delivered') <= Len(order')
    BY <1>1, <2>2 DEF Enqueue, TypeOK
  <2>. QED
    BY <1>1, <2>1, <2>2, <2>3 DEF Enqueue, TypeOK
<1>2. ASSUME NEW t \in Threads, Test(t) \/ Acquire(t) \/ Check(t) PROVE TypeOK'
  BY <1>2 DEF Test, Acquire, Check, TypeOK
<1>3. ASSUME NEW t \in Threads, Pop(t) PROVE TypeOK'
  <2>1. CASE queue = <<>>
    BY <1>3, <2>1 DEF Pop, TypeOK
  <2>2. CASE queue # <<>>
    <3>1. Head(queue) \in Messages /\ Tail(queue) \in Seq(Messages)
      BY <2>2, HeadTailProperties DEF TypeOK
    <3>2. hand' = [hand EXCEPT ![t] = Head(queue)] /\ queue' = Tail(queue)
      BY <1>3, <2>2 DEF Pop, Taken
    <3>3. hand' \in [Threads -> Messages \cup {None}] /\ hand'[t] \in Messages
      BY <3>1, <3>2 DEF TypeOK
    <3>. QED
      BY <1>3, <2>2, <3>1, <3>2, <3>3 DEF Pop, TypeOK
  <2>. QED
    BY <2>1, <2>2
<1>4. ASSUME NEW t \in Threads, WriteFirst(t) PROVE TypeOK'
  BY <1>4 DEF WriteFirst, TypeOK
<1>5. ASSUME NEW t \in Threads, WriteRest(t) PROVE TypeOK'
  <2>1. hand[t] \in Messages
    BY <1>5 DEF WriteRest, TypeOK
  <2>2. CASE open /\ frame = hand[t]
    <3>1. delivered' = Append(delivered, hand[t])
      BY <1>5, <2>2 DEF WriteRest
    <3>2. delivered' \in Seq(Messages) /\ Len(delivered') = Len(delivered) + 1
      BY <2>1, <3>1, AppendProperties DEF TypeOK
    <3>3. order = (delivered \o <<hand[t]>>) \o queue
      BY <1>5, <2>2 DEF WriteRest, OrderInv
    <3>4. Len(order) = (Len(delivered) + 1) + Len(queue) /\ Len(queue) \in Nat
      BY <2>1, <3>3, ConcatProperties, LenProperties DEF TypeOK
    <3>5. Len(delivered') <= Len(order')
      BY <1>5, <3>2, <3>4, LenProperties DEF WriteRest, TypeOK
    <3>. QED
      BY <1>5, <2>2, <3>2, <3>5 DEF WriteRest, TypeOK
  <2>3. CASE ~ (open /\ frame = hand[t])
    BY <1>5, <2>3 DEF WriteRest, TypeOK
  <2>. QED
    BY <2>2, <2>3
<1>6. ASSUME NEW t \in Threads, Release(t) PROVE TypeOK'
  BY <1>6 DEF Release, Unlock, AfterRelease, TypeOK
<1>7. CASE StreamBreaks \/ CleanupClose \/ CleanupUnlock
  BY <1>7 DEF StreamBreaks, CleanupClose, CleanupUnlock, CleanupEffect, TypeOK
<1>8. CASE UNCHANGED vars
  BY <1>8 DEF vars, TypeOK
<1>. QED
  BY <1>1, <1>2, <1>3, <1>4, <1>5, <1>6, <1>7, <1>8 DEF Next, Send, Cleanup

(* Mutual exclusion: whoever drains has taken the lock, and while the      *)
(* channel is open nobody else can have taken or released it since.        *)
LEMMA LockStep ==
  ASSUME DrainInv, [Next]_vars
  PROVE  LockInv'
<1>. USE DEF LockInv, Goto, Draining
<1>1. pc \in [Threads -> {"idle", "test", "acquire", "check", "pop", "write", "rest",
                         "release", "raise"}]
  BY DEF DrainInv, TypeOK
<1>2. LockInv
  BY DEF DrainInv
<1>3. ASSUME NEW t \in Threads, Enqueue(t) \/ Test(t) PROVE LockInv'
  <2>1. /\ UNCHANGED <<locked, open, closer>> /\ pc[t] \notin Draining
        /\ \E place \in {"idle", "test", "acquire"} : pc' = [pc EXCEPT ![t] = place]
    BY <1>3 DEF Enqueue, Test
  <2>. QED
    BY <1>1, <1>2, <2>1
<1>4. ASSUME NEW t \in Threads, Acquire(t) PROVE LockInv'
  <2>1. CASE locked
    <3>1. locked' = TRUE /\ pc' = [pc EXCEPT ![t] = "idle"] /\ pc[t] = "acquire"
          /\ UNCHANGED <<open, closer>>
      BY <1>4, <2>1 DEF Acquire
    <3>. QED
      BY <1>1, <1>2, <2>1, <3>1
  <2>2. CASE ~ locked
    <3>1. locked' = TRUE /\ pc' = [pc EXCEPT ![t] = "check"] /\ UNCHANGED <<open, closer>>
      BY <1>4, <2>2 DEF Acquire
    <3>2. pc'[t] = "check" /\ \A u \in Threads : u # t => pc'[u] = pc[u]
      BY <1>1, <3>1
    <3>. QED
      BY <1>2, <2>2, <3>1, <3>2
  <2>. QED
    BY <2>1, <2>2
<1>5. ASSUME NEW t \in Threads, Check(t) \/ Pop(t) \/ WriteFirst(t) \/ WriteRest(t)
      PROVE  LockInv'
  <2>1. /\ UNCHANGED <<locked, open, closer>> /\ pc[t] \in Draining
    BY <1>5 DEF Check, Pop, WriteFirst, WriteRest
  <2>2. PICK place \in Draining : pc' = [pc EXCEPT ![t] = place] /\ (open => place # "raise")
    BY <1>5 DEF Check, Pop, WriteFirst, WriteRest, DrainInv, OrderInv
  <2>. HIDE DEF Draining
  <2>3. pc'[t] = place
    BY <1>1, <2>2
  <2>4. \A u \in Threads : u # t => pc'[u] = pc[u]
    BY <1>1, <2>2
  <2>5. \A u \in Threads : pc'[u] \in Draining <=> pc[u] \in Draining
    BY <2>1, <2>2, <2>3, <2>4
  <2>6. open => \A u \in Threads : pc'[u] # "raise"
    BY <1>2, <2>2, <2>3, <2>4
  <2>. QED
    BY <1>2, <2>1, <2>5, <2>6
<1>6. ASSUME NEW t \in Threads, Release(t) PROVE LockInv'
  <2>1. /\ UNCHANGED <<open, closer>> /\ locked' = FALSE /\ pc[t] \in Draining
        /\ \E place \in {"idle", "test"} : pc' = [pc EXCEPT ![t] = place]
    BY <1>6 DEF Release, Unlock, AfterRelease
  <2>2. pc'[t] \notin Draining /\ \A u \in Threads : u # t => pc'[u] = pc[u]
    BY <1>1, <2>1
  <2>. QED
    BY <1>2, <2>1, <2>2
<1>7. CASE StreamBreaks \/ CleanupClose
  BY <1>2, <1>7 DEF StreamBreaks, CleanupClose, CleanupEffect
<1>8. CASE CleanupUnlock
  BY <1>2, <1>8 DEF CleanupUnlock, CleanupEffect
<1>9. CASE UNCHANGED vars
  BY <1>2, <1>9 DEF vars
<1>. QED
  BY <1>3, <1>4, <1>5, <1>6, <1>7, <1>8, <1>9 DEF Next, Send, Cleanup

(* The pieces of a frame stay together.                                    *)
LEMMA FrameStep ==
  ASSUME DrainInv, [Next]_vars
  PROVE  FrameInv'
<1>. USE DEF FrameInv, Goto
<1>1. /\ pc \in [Threads -> {"idle", "test", "acquire", "check", "pop", "write", "rest",
                            "release", "raise"}]
      /\ hand \in [Threads -> Messages \cup {None}]
      /\ \A t \in Threads : pc[t] \in {"write", "rest"} => hand[t] \in Messages
  BY DEF DrainInv, TypeOK, Draining
<1>2. FrameInv /\ LockInv
  BY DEF DrainInv
<1>3. \A t, u \in Threads : open /\ pc[t] \in {"pop", "write", "rest"}
                           /\ pc[u] \in {"pop", "write", "rest"} => t = u
  BY <1>2 DEF LockInv, Draining
<1>4. ASSUME NEW t \in Threads,
             Enqueue(t) \/ Test(t) \/ Acquire(t) \/ Check(t) \/ Release(t)
      PROVE  FrameInv'
  <2>1. /\ UNCHANGED <<open, frame, hand>> /\ pc[t] # "rest"
        /\ \E place \in {"idle", "test", "acquire", "check", "release", "pop"} :
             pc' = [pc EXCEPT ![t] = place]
    BY <1>4 DEF Enqueue, Test, Acquire, Check, Release, AfterRelease
  <2>2. \A u \in Threads : pc'[u] = "rest" <=> pc[u] = "rest"
    BY <1>1, <2>1
  <2>. QED
    BY <1>2, <2>1, <2>2
<1>5. ASSUME NEW t \in Threads, Pop(t) PROVE FrameInv'
  <2>1. /\ UNCHANGED <<open, frame>> /\ pc[t] = "pop"
        /\ \E place \in {"raise", "write"} : pc' = [pc EXCEPT ![t] = place]
        /\ \A u \in Threads : u # t => hand'[u] = hand[u]
    BY <1>1, <1>5 DEF Pop
  <2>2. \A u \in Threads : pc'[u] = "rest" <=> (pc[u] = "rest" /\ u # t)
    BY <1>1, <2>1
  <2>. QED
    BY <1>2, <2>1, <2>2
<1>6. ASSUME NEW t \in Threads, WriteFirst(t) PROVE FrameInv'
  <2>1. CASE open
    <3>1. frame = None
      BY <1>2, <1>3, <1>6, <2>1 DEF WriteFirst
    <3>2. /\ frame' = hand[t] /\ pc' = [pc EXCEPT ![t] = "rest"] /\ hand' = hand
          /\ open' = open
      BY <1>6, <2>1, <3>1 DEF WriteFirst
    <3>3. hand[t] \in Messages
      BY <1>1, <1>6 DEF WriteFirst
    <3>4. \A u \in Threads : pc'[u] = "rest" <=> u = t
      BY <1>1, <1>3, <1>6, <2>1, <3>2 DEF WriteFirst
    <3>. QED
      BY <3>2, <3>3, <3>4, Marks
  <2>2. CASE ~ open
    BY <1>2, <1>6, <2>2 DEF WriteFirst
  <2>. QED
    BY <2>1, <2>2
<1>7. ASSUME NEW t \in Threads, WriteRest(t) PROVE FrameInv'
  <2>1. CASE open
    <3>1. frame = hand[t]
      BY <1>2, <1>7, <2>1 DEF WriteRest
    <3>2. /\ frame' = None /\ pc' = [pc EXCEPT ![t] = "release"] /\ hand' = hand
          /\ open' = open
      BY <1>7, <2>1, <3>1 DEF WriteRest
    <3>3. \A u \in Threads : pc'[u] # "rest"
      BY <1>1, <1>3, <1>7, <2>1, <3>2 DEF WriteRest
    <3>. QED
      BY <3>2, <3>3, Marks
  <2>2. CASE ~ open
    BY <1>2, <1>7, <2>2 DEF WriteRest
  <2>. QED
    BY <2>1, <2>2
<1>8. CASE StreamBreaks \/ CleanupClose \/ CleanupUnlock
  BY <1>2, <1>8 DEF StreamBreaks, CleanupClose, CleanupUnlock, CleanupEffect
<1>9. CASE UNCHANGED vars
  BY <1>2, <1>9 DEF vars
<1>. QED
  BY <1>4, <1>5, <1>6, <1>7, <1>8, <1>9 DEF Next, Send, Cleanup

LEMMA Regroup ==
  ASSUME NEW a \in Seq(Messages), NEW b \in Seq(Messages), NEW c \in Seq(Messages)
  PROVE  (a \o b) \o c = a \o (b \o c)
BY ConcatAssociative

(* The order of the appends is the order on the wire.                      *)
LEMMA OrderStep ==
  ASSUME DrainInv, [Next]_vars
  PROVE  OrderInv'
<1>. USE DEF OrderInv, Goto
<1>1. /\ pc \in [Threads -> {"idle", "test", "acquire", "check", "pop", "write", "rest",
                            "release", "raise"}]
      /\ hand \in [Threads -> Messages \cup {None}]
      /\ \A t \in Threads : pc[t] \in {"write", "rest"} => hand[t] \in Messages
      /\ queue \in Seq(Messages) /\ delivered \in Seq(Messages) /\ order \in Seq(Messages)
      /\ open \in BOOLEAN
  BY DEF DrainInv, TypeOK, Draining
<1>2. OrderInv
  BY DEF DrainInv
<1>3. \A t, u \in Threads : open /\ pc[t] \in {"check", "pop", "write", "rest"}
                           /\ pc[u] \in {"check", "pop", "write", "rest"} => t = u
  BY DEF DrainInv, LockInv, Draining
<1>4. ASSUME NEW t \in Threads, Enqueue(t) PROVE OrderInv'
  <2>. DEFINE m == <<t, sent[t] + 1>>
  <2>1. /\ m \in Messages /\ open' = open
        /\ queue' = Append(queue, m) /\ order' = Append(order, m)
        /\ pc' = [pc EXCEPT ![t] = "test"] /\ pc[t] = "idle"
        /\ UNCHANGED <<hand, delivered>>
    BY <1>4, SendersAssumption DEF Enqueue, Messages, DrainInv, TypeOK
  <2>. HIDE DEF m
  <2>2. queue' # <<>>
    BY <1>1, <2>1, AppendProperties
  <2>3. \A u \in Threads, place \in {"pop", "write", "rest"} : pc'[u] = place <=> pc[u] = place
    BY <1>1, <2>1
  <2>4. ASSUME NEW d \in Seq(Messages), order = d \o queue PROVE order' = d \o queue'
    <3>1. order' = (d \o queue) \o <<m>> /\ queue' = queue \o <<m>>
      BY <1>1, <2>1, <2>4, AppendIsConcat
    <3>2. (d \o queue) \o <<m>> = d \o (queue \o <<m>>)
      <4>. DEFINE w == <<m>>
      <4>1. w \in Seq(Messages)
        BY <2>1
      <4>. HIDE DEF w
      <4>2. (d \o queue) \o w = d \o (queue \o w)
        BY <1>1, <2>4, <4>1, Regroup
      <4>. QED
        BY <4>2 DEF w
    <3>. QED
      BY <3>1, <3>2
  <2>5. ASSUME NEW u \in Threads, hand[u] \in Messages PROVE delivered \o <<hand[u]>> \in Seq(Messages)
    <3>. DEFINE w == <<hand[u]>>
    <3>1. w \in Seq(Messages)
      BY <2>5
    <3>. HIDE DEF w
    <3>2. delivered \o w \in Seq(Messages)
      BY <1>1, <3>1, ConcatProperties
    <3>. QED
      BY <3>2 DEF w
  <2>6. ASSUME open, NEW u \in Threads, pc'[u] \in {"write", "rest"}
        PROVE  order' = (delivered' \o <<hand'[u]>>) \o queue'
    BY <1>1, <1>2, <2>1, <2>3, <2>4, <2>5, <2>6
  <2>7. ASSUME open, \A u \in Threads : pc'[u] \notin {"write", "rest"}
        PROVE  order' = delivered' \o queue'
    BY <1>1, <1>2, <2>1, <2>3, <2>4, <2>7
  <2>. QED
    BY <2>1, <2>2, <2>6, <2>7
<1>5. ASSUME NEW t \in Threads, Test(t) \/ Acquire(t) \/ Release(t) PROVE OrderInv'
  <2>1. /\ UNCHANGED <<open, queue, hand, order, delivered>>
        /\ pc[t] \notin {"pop", "write", "rest"}
        /\ \E place \in {"idle", "test", "acquire", "check"} : pc' = [pc EXCEPT ![t] = place]
    BY <1>5 DEF Test, Acquire, Release, AfterRelease
  <2>2. \A u \in Threads, place \in {"pop", "write", "rest"} : pc'[u] = place <=> pc[u] = place
    BY <1>1, <2>1
  <2>. QED
    BY <1>2, <2>1, <2>2
<1>6. ASSUME NEW t \in Threads, Check(t) PROVE OrderInv'
  <2>1. /\ UNCHANGED <<open, queue, hand, order, delivered>> /\ pc[t] = "check"
        /\ pc' = [pc EXCEPT ![t] = IF queue = <<>> THEN "release" ELSE "pop"]
    BY <1>6 DEF Check
  <2>2. \A u \in Threads, place \in {"write", "rest"} : pc'[u] = place <=> pc[u] = place
    BY <1>1, <2>1
  <2>3. \A u \in Threads : pc'[u] = "pop" => pc[u] = "pop" \/ queue # <<>>
    BY <1>1, <2>1
  <2>. QED
    BY <1>2, <2>1, <2>2, <2>3
<1>7. ASSUME NEW t \in Threads, Pop(t) PROVE OrderInv'
  <2>1. CASE open
    <3>1. queue # <<>>
      BY <1>2, <1>7, <2>1 DEF Pop
    <3>2. /\ hand' = [hand EXCEPT ![t] = Head(queue)] /\ queue' = Tail(queue)
          /\ pc' = [pc EXCEPT ![t] = "write"] /\ pc[t] = "pop"
          /\ UNCHANGED <<open, order, delivered>>
      BY <1>7, <3>1 DEF Pop, Taken
    <3>3. order = delivered \o queue
      BY <1>2, <1>3, <2>1, <3>2
    <3>4. Head(queue) \in Messages /\ Tail(queue) \in Seq(Messages)
      BY <1>1, <3>1, HeadTailProperties
    <3>5. queue = <<Head(queue)>> \o Tail(queue)
      BY <1>1, <3>1
    <3>6. delivered \o (<<Head(queue)>> \o Tail(queue)) = (delivered \o <<Head(queue)>>) \o Tail(queue)
      <4>. DEFINE w == <<Head(queue)>>
                  v == Tail(queue)
      <4>1. w \in Seq(Messages) /\ v \in Seq(Messages)
        BY <3>4
      <4>. HIDE DEF w, v
      <4>2. delivered \in Seq(Messages)
        BY <1>1
      <4>3. delivered \o (w \o v) = (delivered \o w) \o v
        BY <4>1, <4>2, Regroup
      <4>. QED
        BY <4>3 DEF w, v
    <3>7. order' = (delivered' \o <<hand'[t]>>) \o queue'
      BY <1>1, <3>2, <3>3, <3>5, <3>6
    <3>8. \A u \in Threads : pc'[u] \in {"pop", "write", "rest"} => u = t
      BY <1>1, <1>3, <2>1, <3>2
    <3>9. pc'[t] = "write"
      BY <1>1, <3>2
    <3>. QED
      BY <3>7, <3>8, <3>9
  <2>2. CASE ~ open
    BY <1>7, <2>2 DEF Pop
  <2>. QED
    BY <2>1, <2>2
<1>8. ASSUME NEW t \in Threads, WriteFirst(t) PROVE OrderInv'
  <2>1. CASE open
    <3>1. /\ pc[t] = "write" /\ pc' = [pc EXCEPT ![t] = "rest"]
          /\ UNCHANGED <<open, queue, hand, order, delivered>>
      BY <1>8, <2>1 DEF WriteFirst
    <3>2. \A u \in Threads : /\ pc'[u] \in {"write", "rest"} <=> pc[u] \in {"write", "rest"}
                            /\ pc'[u] = "pop" <=> pc[u] = "pop"
      BY <1>1, <3>1
    <3>. QED
      BY <1>2, <3>1, <3>2
  <2>2. CASE ~ open
    BY <1>8, <2>2 DEF WriteFirst
  <2>. QED
    BY <2>1, <2>2
<1>9. ASSUME NEW t \in Threads, WriteRest(t) PROVE OrderInv'
  <2>1. CASE open
    <3>1. frame = hand[t]
      BY <1>9, <2>1 DEF WriteRest, DrainInv, FrameInv
    <3>2. /\ pc[t] = "rest" /\ pc' = [pc EXCEPT ![t] = "release"]
          /\ delivered' = Append(delivered, hand[t])
          /\ UNCHANGED <<open, queue, hand, order>>
      BY <1>9, <2>1, <3>1 DEF WriteRest
    <3>3. order = (delivered \o <<hand[t]>>) \o queue
      BY <1>2, <2>1, <3>2
    <3>4. delivered' = delivered \o <<hand[t]>>
      BY <1>1, <3>2, AppendIsConcat
    <3>5. \A u \in Threads : pc'[u] \notin {"pop", "write", "rest"}
      BY <1>1, <1>3, <2>1, <3>2
    <3>. QED
      BY <3>2, <3>3, <3>4, <3>5
  <2>2. CASE ~ open
    BY <1>9, <2>2 DEF WriteRest
  <2>. QED
    BY <2>1, <2>2
<1>10. CASE StreamBreaks \/ CleanupClose \/ CleanupUnlock
  BY <1>2, <1>10 DEF StreamBreaks, CleanupClose, CleanupUnlock, CleanupEffect
<1>11. CASE UNCHANGED vars
  BY <1>2, <1>11 DEF vars
<1>. QED
  BY <1>4, <1>5, <1>6, <1>7, <1>8, <1>9, <1>10, <1>11 DEF Next, Send, Cleanup

(* A message in the queue always has a thread that will look again.        *)
LEMMA StrandedStep ==
  ASSUME DrainInv, [Next]_vars
  PROVE  NoStranded'
<1>. USE DEF NoStranded, Goto
<1>1. pc \in [Threads -> {"idle", "test", "acquire", "check", "pop", "write", "rest",
                         "release", "raise"}]
  BY DEF DrainInv, TypeOK, Draining
<1>2. NoStranded /\ LockInv /\ OrderInv
  BY DEF DrainInv
<1>3. ASSUME NEW t \in Threads, pc'[t] # "idle" PROVE NoStranded'
  BY <1>3
<1>4. ASSUME NEW t \in Threads, Enqueue(t) PROVE NoStranded'
  BY <1>1, <1>3, <1>4 DEF Enqueue
<1>5. ASSUME NEW t \in Threads, Test(t) PROVE NoStranded'
  BY <1>1, <1>3, <1>5 DEF Test
<1>6. ASSUME NEW t \in Threads, Acquire(t) PROVE NoStranded'
  <2>1. CASE locked
    <3>1. PICK u \in Threads : pc[u] \in Draining
      BY <1>2, <2>1 DEF LockInv
    <3>2. pc'[u] # "idle"
      BY <1>1, <1>6, <3>1 DEF Acquire, Draining
    <3>. QED
      BY <1>3, <3>2
  <2>2. CASE ~ locked
    BY <1>1, <1>3, <1>6, <2>2 DEF Acquire
  <2>. QED
    BY <2>1, <2>2
<1>7. ASSUME NEW t \in Threads, Check(t) \/ Pop(t) \/ WriteFirst(t) \/ WriteRest(t)
      PROVE  NoStranded'
  <2>1. pc'[t] # "idle"
    BY <1>1, <1>7 DEF Check, Pop, WriteFirst, WriteRest
  <2>. QED
    BY <1>3, <2>1
<1>8. ASSUME NEW t \in Threads, Release(t) PROVE NoStranded'
  <2>1. CASE open
    <3>1. locked /\ pc[t] = "release"
      BY <1>2, <1>8, <2>1 DEF Release, LockInv, Draining
    <3>2. pc'[t] = "test"
      BY <1>1, <1>8, <3>1 DEF Release, AfterRelease
    <3>. QED
      BY <1>3, <3>2
  <2>2. CASE ~ open
    BY <1>8, <2>2 DEF Release
  <2>. QED
    BY <2>1, <2>2
<1>9. CASE StreamBreaks \/ CleanupClose \/ CleanupUnlock
  BY <1>2, <1>9 DEF StreamBreaks, CleanupClose, CleanupUnlock, CleanupEffect
<1>10. CASE UNCHANGED vars
  BY <1>2, <1>10 DEF vars
<1>. QED
  BY <1>4, <1>5, <1>6, <1>7, <1>8, <1>9, <1>10 DEF Next, Send, Cleanup

(* For any number of threads and messages the drain invariant holds.       *)
THEOREM DrainInvariant == Spec => []DrainInv
<1>1. DrainInv /\ [Next]_vars => DrainInv'
  BY TypeStep, LockStep, FrameStep, OrderStep, StrandedStep DEF DrainInv
<1>. QED
  BY <1>1, DrainInit, PTL DEF Spec

(* Every variable stays in its range and no message is sent twice.         *)
THEOREM TypeCorrect == Spec => []TypeOK
<1>1. DrainInv => TypeOK
  BY DEF DrainInv
<1>. QED
  BY <1>1, DrainInvariant, PTL

(* The pieces of two frames never mix on the stream.                       *)
THEOREM FramesWholeHolds == Spec => []FramesWhole
<1>1. DrainInv => FramesWhole
  BY DEF DrainInv, FrameInv, FramesWhole
<1>. QED
  BY <1>1, DrainInvariant, PTL

(* While the channel is open, the queue is empty when nobody is in _send.  *)
THEOREM NoStrandedHolds == Spec => []NoStranded
<1>1. DrainInv => NoStranded
  BY DEF DrainInv
<1>. QED
  BY <1>1, DrainInvariant, PTL

(* The lock is free when nobody is in _send, also after a failed write and *)
(* after _cleanup released it under its holder.                            *)
THEOREM LockFreeAtRestHolds == Spec => []LockFreeAtRest
<1>1. DrainInv => LockFreeAtRest
  BY DEF DrainInv, LockInv, LockFreeAtRest, Draining
<1>. QED
  BY <1>1, DrainInvariant, PTL

-----------------------------------------------------------------------------
(* Refinement.                                                             *)

(* A step of the drain is a step of FifoDelivery or changes none of its    *)
(* variables.                                                              *)
LEMMA FifoStep ==
  ASSUME DrainInv, [Next]_vars
  PROVE  [Fifo!Next]_(Fifo!fifoVars)
<1>. USE DEF Fifo!fifoVars
<1>1. /\ hand \in [Threads -> Messages \cup {None}]
      /\ queue \in Seq(Messages) /\ delivered \in Seq(Messages) /\ order \in Seq(Messages)
  BY DEF DrainInv, TypeOK
<1>2. ASSUME NEW t \in Threads, Enqueue(t) PROVE Fifo!Accept
  <2>1. <<t, sent[t] + 1>> \in Messages
    BY <1>2, SendersAssumption DEF Enqueue, Messages, DrainInv, TypeOK
  <2>. QED
    BY <1>2, <2>1 DEF Enqueue, Fifo!Accept
<1>3. ASSUME NEW t \in Threads, WriteRest(t), open PROVE Fifo!Deliver
  <2>1. /\ hand[t] \in Messages
        /\ frame = hand[t]
        /\ order = (delivered \o <<hand[t]>>) \o queue
    BY <1>3 DEF WriteRest, DrainInv, TypeOK, FrameInv, OrderInv
  <2>2. /\ delivered' = Append(delivered, hand[t]) /\ UNCHANGED <<order, open>>
    BY <1>3, <2>1 DEF WriteRest
  <2>. DEFINE d == delivered \o <<hand[t]>>
  <2>3. /\ d \in Seq(Messages) /\ Len(d) = Len(delivered) + 1
        /\ d[Len(delivered) + 1] = hand[t] /\ Len(delivered) \in Nat
    BY <1>1, <2>1, LenProperties
  <2>4. Len(order) = Len(d) + Len(queue) /\ Len(queue) \in Nat
    BY <1>1, <2>1, <2>3, ConcatProperties, LenProperties
  <2>5. order[Len(delivered) + 1] = hand[t]
    <3>. HIDE DEF d
    <3>1. \A i \in 1..(Len(d) + Len(queue)) :
            (d \o queue)[i] = IF i <= Len(d) THEN d[i] ELSE queue[i - Len(d)]
      BY <1>1, <2>3, ConcatProperties
    <3>2. order = d \o queue
      BY <2>1 DEF d
    <3>. QED
      BY <2>3, <2>4, <3>1, <3>2
  <2>. QED
    BY <1>3, <2>2, <2>3, <2>4, <2>5 DEF Fifo!Deliver
<1>4. CASE StreamBreaks
  BY <1>4 DEF StreamBreaks, Fifo!Next, Fifo!Break
<1>5. CASE CleanupClose
  <2>1. open' = FALSE /\ UNCHANGED <<order, delivered>>
    BY <1>5 DEF CleanupClose, CleanupEffect
  <2>. QED
    BY <2>1 DEF Fifo!Next, Fifo!Break, DrainInv, TypeOK
<1>6. ASSUME CleanupUnlock PROVE UNCHANGED Fifo!fifoVars
  BY <1>6 DEF CleanupUnlock, CleanupEffect
<1>7. ASSUME NEW t \in Threads, WriteRest(t), ~ open PROVE UNCHANGED Fifo!fifoVars
  BY <1>7 DEF WriteRest
<1>8. ASSUME NEW t \in Threads,
             \/ Test(t) \/ Acquire(t) \/ Check(t) \/ Pop(t) \/ WriteFirst(t) \/ Release(t)
      PROVE  UNCHANGED Fifo!fifoVars
  BY <1>8 DEF Test, Acquire, Check, Pop, WriteFirst, Release
<1>9. ASSUME UNCHANGED vars PROVE UNCHANGED Fifo!fifoVars
  BY <1>9 DEF vars
<1>. QED
  BY <1>2, <1>3, <1>4, <1>5, <1>6, <1>7, <1>8, <1>9 DEF Next, Send, Cleanup, Fifo!Next

(* _send delivers in order, each message once and whole.                   *)
THEOREM DeliversInOrderHolds == Spec => DeliversInOrder
<1>1. Init => Fifo!Init
  BY DEF Init, Fifo!Init
<1>2. DrainInv /\ [Next]_vars => [Fifo!Next]_(Fifo!fifoVars)
  BY FifoStep
<1>. QED
  BY <1>1, <1>2, DrainInvariant, PTL DEF Spec, DeliversInOrder, Fifo!SafeSpec

-----------------------------------------------------------------------------
(* Sets of numbers have a least one, which is all the induction there is.  *)

Before == {p \in Nat \X Nat : p[1] < p[2]}

(* Nobody counts down for ever.                                            *)
LEMMA BeforeWellFounded == IsWellFoundedOn(Before, Nat)
<1>1. OpToRel(<, Nat) = Before
  BY Zenon DEF OpToRel, Before
<1>2. IsWellFoundedOn(OpToRel(<, Nat), Nat)
  BY NatLessThanWellFounded
<1>. QED
  BY <1>1, <1>2

(* The least counterexample is what the proofs below look at.              *)
LEMMA LeastNumber ==
  ASSUME NEW S \in SUBSET Nat, S # {}
  PROVE  \E n \in S : \A m \in S : n <= m
<1>1. S \subseteq Nat
  OBVIOUS
<1>2. PICK n \in S : \A m \in S : <<m, n>> \notin Before
  BY <1>1, BeforeWellFounded, WFMin, Zenon
<1>3. ASSUME NEW m \in S PROVE n <= m
  <2>1. <<m, n>> \in Nat \X Nat
    BY <1>1
  <2>. QED
    BY <1>2, <2>1 DEF Before
<1>. QED
  BY <1>3

-----------------------------------------------------------------------------
(* Sequences of bytes.                                                     *)

(* Whoever agrees with the bytes of a number reads that number.            *)
LEMMA Unpacks ==
  ASSUME NEW n \in Nat, F!Packs4(n), NEW b, \A i \in 1..4 : b[i] = F!Pack4(n)[i]
  PROVE  F!Unpack4(b) = n
<1>1. /\ b[1] = n \div 16777216 /\ b[2] = (n \div 65536) % 256
      /\ b[3] = (n \div 256) % 256 /\ b[4] = n % 256
  BY DEF F!Pack4, F!ByteBase
<1>2. n \div 16777216 < 256
  BY DEF F!Packs4, F!ByteBase
<1>3. F!Unpack4(b) = b[1] * 16777216 + b[2] * 65536 + b[3] * 256 + b[4]
  BY SMT DEF F!Unpack4, F!ByteBase
<1>. QED
  BY <1>1, <1>2, <1>3, SMT

(* What is packed are four bytes.                                          *)
LEMMA PackedBytes ==
  ASSUME NEW n \in Nat, F!Packs4(n)
  PROVE  F!Pack4(n) \in Seq(F!Bytes) /\ Len(F!Pack4(n)) = 4
<1>1. n \div 16777216 \in Nat /\ n \div 16777216 < 256
  BY DEF F!Packs4, F!ByteBase
<1>. QED
  BY <1>1 DEF F!Pack4, F!ByteBase, F!Bytes

(* What is unpacked is a length.                                           *)
LEMMA UnpackNat ==
  ASSUME NEW b \in Seq(F!Bytes), Len(b) >= 4
  PROVE  F!Unpack4(b) \in Nat
<1>1. \A i \in 1..Len(b) : b[i] \in F!Bytes
  BY ElementOfSeq
<1>2. Len(b) \in Nat
  BY LenProperties
<1>3. ASSUME NEW i \in 1..4 PROVE b[i] \in Nat
  <2>1. i \in 1..Len(b)
    BY <1>2
  <2>2. b[i] \in F!Bytes
    BY <1>1, <2>1
  <2>3. ASSUME NEW x \in F!Bytes PROVE x \in Nat
    BY DEF F!Bytes
  <2>. QED
    BY <2>2, <2>3
<1>4. PICK w \in Nat, x \in Nat, y \in Nat, z \in Nat :
        w = b[1] /\ x = b[2] /\ y = b[3] /\ z = b[4]
  BY <1>3
<1>5. F!Unpack4(b) = w * 16777216 + x * 65536 + y * 256 + z
  BY <1>4, SMT DEF F!Unpack4, F!ByteBase
<1>6. w * 16777216 + x * 65536 + y * 256 + z \in Nat
  BY SMT
<1>. QED
  BY <1>5, <1>6, SMT

(* What is left behind a place.                                            *)
LEMMA Dropped ==
  ASSUME NEW S, NEW s \in Seq(S), NEW n \in 0..Len(s)
  PROVE  /\ F!Drop(s, n) \in Seq(S) /\ Len(F!Drop(s, n)) = Len(s) - n
         /\ \A i \in 1..Len(s) - n : F!Drop(s, n)[i] = s[n + i]
<1>1. Len(s) \in Nat
  BY LenProperties
<1>2. \A i \in n + 1..Len(s) : s[i] \in S
  BY <1>1, ElementOfSeq
<1>. QED
  BY <1>1, <1>2, SubSeqProperties DEF F!Drop

-----------------------------------------------------------------------------
(* A frame: header, body and FLUSHER.                                      *)

FrameOf(data) == F!Header(data) \o F!Body(data) \o F!Flusher

(* A payload that a frame can be made of.                                  *)
Fits(data) == data \in Seq(F!Bytes) /\ F!Packs4(Len(F!Body(data)))

(* A body is made of bytes, and gives its payload back.                    *)
LEMMA BodyBytes ==
  ASSUME NEW data \in Seq(F!Bytes)
  PROVE  /\ F!Body(data) \in Seq(F!Bytes) /\ Len(F!Body(data)) \in Nat
         /\ F!Payload(F!Body(data), IF F!Compressed(data) THEN 1 ELSE 0) = data
<1>1. <<120>> \in Seq(F!Bytes) /\ Len(<<120>>) = 1
  BY DEF F!Bytes
<1>2. F!Compress(data) \in Seq(F!Bytes)
  BY <1>1, ConcatProperties DEF F!Compress
<1>3. F!Body(data) \in Seq(F!Bytes)
  BY <1>2 DEF F!Body
<1>4. F!Compress(data) # <<>> /\ Tail(F!Compress(data)) = data
  <2>1. /\ Len(F!Compress(data)) = Len(data) + 1 /\ Len(data) \in Nat
        /\ \A i \in 1..1 + Len(data) :
             F!Compress(data)[i] = IF i <= 1 THEN <<120>>[i] ELSE data[i - 1]
    BY <1>1, ConcatProperties, LenProperties DEF F!Compress
  <2>2. F!Compress(data) # <<>>
    BY <2>1
  <2>3. /\ Tail(F!Compress(data)) \in Seq(F!Bytes) /\ Len(Tail(F!Compress(data))) = Len(data)
        /\ \A i \in 1..Len(data) : Tail(F!Compress(data))[i] = data[i]
    <3>1. /\ Tail(F!Compress(data)) \in Seq(F!Bytes)
          /\ Len(Tail(F!Compress(data))) = Len(F!Compress(data)) - 1
          /\ \A i \in 1..Len(Tail(F!Compress(data))) :
               Tail(F!Compress(data))[i] = F!Compress(data)[i + 1]
      BY <1>2, <2>2, HeadTailProperties
    <3>. QED
      BY <2>1, <3>1
  <2>. QED
    BY <2>2, <2>3, SeqEqual
<1>5. Len(F!Body(data)) \in Nat
  BY <1>3, LenProperties
<1>. QED
  BY <1>3, <1>4, <1>5 DEF F!Body, F!Payload, F!Decompress

(* A frame is made of bytes: four of the length, one flag, the body, 10.   *)
LEMMA FrameBytes ==
  ASSUME NEW data, Fits(data)
  PROVE  /\ FrameOf(data) \in Seq(F!Bytes)
         /\ F!Header(data) \in Seq(F!Bytes) /\ Len(F!Header(data)) = 5
         /\ Len(FrameOf(data)) = Len(F!Body(data)) + 6
         /\ \A i \in 1..4 : FrameOf(data)[i] = F!Pack4(Len(F!Body(data)))[i]
         /\ FrameOf(data)[5] = IF F!Compressed(data) THEN 1 ELSE 0
         /\ \A i \in 1..Len(F!Body(data)) : FrameOf(data)[5 + i] = F!Body(data)[i]
<1>. DEFINE n == Len(F!Body(data))
            flag == <<IF F!Compressed(data) THEN 1 ELSE 0>>
            front == F!Header(data) \o F!Body(data)
<1>1. n \in Nat /\ F!Packs4(n) /\ F!Body(data) \in Seq(F!Bytes)
  BY BodyBytes DEF Fits
<1>2. flag \in Seq(F!Bytes) /\ Len(flag) = 1 /\ flag[1] = IF F!Compressed(data) THEN 1 ELSE 0
  BY DEF F!Bytes
<1>3. F!Pack4(n) \in Seq(F!Bytes) /\ Len(F!Pack4(n)) = 4
  BY <1>1, PackedBytes
<1>4. F!Flusher \in Seq(F!Bytes) /\ Len(F!Flusher) = 1
  BY DEF F!Flusher, F!Bytes
<1>5. /\ F!Header(data) \in Seq(F!Bytes) /\ Len(F!Header(data)) = 5
      /\ \A i \in 1..5 : F!Header(data)[i] = IF i <= 4 THEN F!Pack4(n)[i] ELSE flag[1]
  <2>. HIDE DEF flag
  <2>1. F!Header(data) = F!Pack4(n) \o flag
    BY DEF F!Header, flag
  <2>. HIDE DEF n
  <2>2. /\ F!Pack4(n) \o flag \in Seq(F!Bytes)
        /\ Len(F!Pack4(n) \o flag) = Len(F!Pack4(n)) + Len(flag)
        /\ \A i \in 1..Len(F!Pack4(n)) + Len(flag) :
             (F!Pack4(n) \o flag)[i] = IF i <= Len(F!Pack4(n)) THEN F!Pack4(n)[i]
                                      ELSE flag[i - Len(F!Pack4(n))]
    BY <1>2, <1>3, ConcatProperties
  <2>. QED
    BY <1>2, <1>3, <2>1, <2>2
<1>6. /\ front \in Seq(F!Bytes) /\ Len(front) = 5 + n
      /\ \A i \in 1..5 + n : front[i] = IF i <= 5 THEN F!Header(data)[i] ELSE F!Body(data)[i - 5]
  <2>1. /\ front \in Seq(F!Bytes) /\ Len(front) = Len(F!Header(data)) + Len(F!Body(data))
        /\ \A i \in 1..Len(F!Header(data)) + Len(F!Body(data)) :
             front[i] = IF i <= Len(F!Header(data)) THEN F!Header(data)[i]
                                                  ELSE F!Body(data)[i - Len(F!Header(data))]
    BY <1>1, <1>5, ConcatProperties
  <2>. HIDE DEF front
  <2>. QED
    BY <1>1, <1>5, <2>1
<1>. HIDE DEF front
<1>7. /\ front \o F!Flusher \in Seq(F!Bytes) /\ Len(front \o F!Flusher) = Len(front) + Len(F!Flusher)
      /\ \A i \in 1..Len(front) + Len(F!Flusher) :
           (front \o F!Flusher)[i] = IF i <= Len(front) THEN front[i] ELSE F!Flusher[i - Len(front)]
  BY <1>4, <1>6, ConcatProperties
<1>8. FrameOf(data) = front \o F!Flusher
  BY DEF FrameOf, front
<1>. HIDE DEF n, flag
<1>9. /\ FrameOf(data) \in Seq(F!Bytes) /\ Len(FrameOf(data)) = n + 6
      /\ \A i \in 1..5 + n : FrameOf(data)[i] = front[i]
  BY <1>1, <1>4, <1>6, <1>7, <1>8
<1>10. /\ \A i \in 1..4 : FrameOf(data)[i] = F!Pack4(n)[i]
       /\ FrameOf(data)[5] = flag[1]
       /\ \A i \in 1..n : FrameOf(data)[5 + i] = F!Body(data)[i]
  BY <1>1, <1>5, <1>6, <1>9
<1>. QED
  BY <1>2, <1>5, <1>9, <1>10 DEF n

(* Who has the header of a frame knows how long the frame is, and who has  *)
(* all of it, what it was made of.                                         *)
LEMMA FrameKnown ==
  ASSUME NEW data, Fits(data), NEW b \in Seq(F!Bytes), Len(b) >= 5,
         \A i \in 1..5 : b[i] = FrameOf(data)[i]
  PROVE  /\ F!Total(b) = Len(FrameOf(data))
         /\ F!Unpack4(b) = Len(F!Body(data))
<1>1. F!Unpack4(b) = Len(F!Body(data))
  BY FrameBytes, BodyBytes, Unpacks DEF Fits
<1>. QED
  BY <1>1, FrameBytes, BodyBytes DEF F!Total, F!HeaderSize, F!Flusher, Fits

(* The body of a whole frame is read as the payload it was made of.        *)
LEMMA FrameRead ==
  ASSUME NEW data, Fits(data), NEW b \in Seq(F!Bytes), Len(b) >= Len(FrameOf(data)),
         \A i \in 1..Len(FrameOf(data)) : b[i] = FrameOf(data)[i]
  PROVE  F!Payload(SubSeq(b, 6, Len(FrameOf(data)) - 1), b[5]) = data
<1>. DEFINE n == Len(F!Body(data))
            part == SubSeq(b, 6, n + 5)
<1>1. n \in Nat /\ F!Body(data) \in Seq(F!Bytes) /\ Len(FrameOf(data)) = n + 6 /\ Len(b) \in Nat
  BY FrameBytes, BodyBytes, LenProperties DEF Fits
<1>. HIDE DEF n
<1>2. part \in Seq(F!Bytes) /\ Len(part) = n /\ \A i \in 1..n : part[i] = b[5 + i]
  <2>1. \A i \in 6..n + 5 : b[i] \in F!Bytes
    BY <1>1, ElementOfSeq
  <2>. QED
    BY <1>1, <2>1, SubSeqProperties
<1>. HIDE DEF part
<1>3. \A i \in 1..n : part[i] = F!Body(data)[i]
  <2>1. \A i \in 1..n : FrameOf(data)[5 + i] = F!Body(data)[i]
    BY FrameBytes DEF n
  <2>. QED
    BY <1>1, <1>2, <2>1
<1>4. part = F!Body(data)
  <2>1. Len(F!Body(data)) = n
    BY DEF n
  <2>. QED
    BY <1>1, <1>2, <1>3, <2>1, SeqEqual
<1>5. b[5] = IF F!Compressed(data) THEN 1 ELSE 0
  BY <1>1, FrameBytes
<1>6. Len(FrameOf(data)) - 1 = n + 5
  BY <1>1
<1>. QED
  BY <1>4, <1>5, <1>6, BodyBytes DEF part, Fits

-----------------------------------------------------------------------------
(* Frames one behind the other: the bytes u are those of the frames of the *)
(* payloads fs behind the k-th, each ending where `ends' says; of the last *)
(* frames there may be less.                                               *)

Payloads(fs) == fs \in Seq(Seq(F!Bytes)) /\ \A i \in 1..Len(fs) : Fits(fs[i])

Laid(u, fs, k, ends) ==
  /\ ends \in [k..Len(fs) -> Nat] /\ ends[k] = 0 /\ Len(u) <= ends[Len(fs)]
  /\ \A i, j \in k..Len(fs) : i <= j => ends[i] <= ends[j]
  /\ \A i \in k + 1..Len(fs) :
       /\ ends[i] = ends[i - 1] + Len(FrameOf(fs[i]))
       /\ \A x \in 1..Len(FrameOf(fs[i])) :
            ends[i - 1] + x <= Len(u) => u[ends[i - 1] + x] = FrameOf(fs[i])[x]

(* Of what is laid a beginning is.                                         *)
LEMMA LaidPrefix ==
  ASSUME NEW u \in Seq(F!Bytes), NEW v \in Seq(F!Bytes), NEW fs, Payloads(fs), NEW k \in 0..Len(fs),
         NEW ends, Laid(u, fs, k, ends), Len(v) <= Len(u), \A x \in 1..Len(v) : v[x] = u[x]
  PROVE  Laid(v, fs, k, ends)
<1>1. Len(u) \in Nat /\ Len(v) \in Nat /\ Len(fs) \in Nat
  BY LenProperties DEF Payloads
<1>2. Len(v) <= ends[Len(fs)]
  BY <1>1 DEF Laid
<1>3. ASSUME NEW i \in k + 1..Len(fs), NEW x \in 1..Len(FrameOf(fs[i])), ends[i - 1] + x <= Len(v)
      PROVE  v[ends[i - 1] + x] = FrameOf(fs[i])[x]
  <2>1. i - 1 \in k..Len(fs) /\ Len(FrameOf(fs[i])) \in Nat
    <3>1. Fits(fs[i])
      BY <1>1 DEF Payloads
    <3>. QED
      BY <1>1, <3>1, FrameBytes, LenProperties
  <2>2. ends[i - 1] \in Nat
    BY <2>1 DEF Laid
  <2>3. ends[i - 1] + x \in 1..Len(v)
    BY <1>1, <1>3, <2>1, <2>2
  <2>4. u[ends[i - 1] + x] = FrameOf(fs[i])[x]
    BY <1>1, <2>3, <1>3 DEF Laid
  <2>. QED
    BY <2>3, <2>4
<1>. QED
  BY <1>2, <1>3 DEF Laid

(* Another frame behind the last, when all are there.                      *)
LEMMA LaidAppend ==
  ASSUME NEW u \in Seq(F!Bytes), NEW fs, Payloads(fs), NEW k \in 0..Len(fs),
         NEW ends, Laid(u, fs, k, ends), Len(u) = ends[Len(fs)], NEW data, Fits(data)
  PROVE  /\ Payloads(Append(fs, data))
         /\ \E e : /\ Laid(u \o FrameOf(data), Append(fs, data), k, e)
                   /\ e[Len(Append(fs, data))] = Len(u \o FrameOf(data))
<1>. DEFINE m == Len(fs)
            new == Append(fs, data)
            all == u \o FrameOf(data)
            e == [i \in k..m + 1 |-> IF i = m + 1 THEN Len(all) ELSE ends[i]]
<1>1. m \in Nat /\ k \in Nat /\ k <= m /\ Len(u) \in Nat /\ data \in Seq(F!Bytes)
  BY LenProperties DEF Payloads, Fits
<1>2. /\ new \in Seq(Seq(F!Bytes)) /\ Len(new) = m + 1
      /\ \A i \in 1..m : new[i] = fs[i]
      /\ new[m + 1] = data
  BY <1>1, AppendProperties DEF Payloads
<1>3. FrameOf(data) \in Seq(F!Bytes) /\ Len(FrameOf(data)) \in Nat
  BY FrameBytes, LenProperties
<1>4. /\ all \in Seq(F!Bytes) /\ Len(all) = Len(u) + Len(FrameOf(data))
      /\ \A x \in 1..Len(u) : all[x] = u[x]
      /\ \A x \in 1..Len(FrameOf(data)) : all[Len(u) + x] = FrameOf(data)[x]
  <2>1. /\ all \in Seq(F!Bytes) /\ Len(all) = Len(u) + Len(FrameOf(data))
        /\ \A x \in 1..Len(u) + Len(FrameOf(data)) :
             all[x] = IF x <= Len(u) THEN u[x] ELSE FrameOf(data)[x - Len(u)]
    BY <1>3, ConcatProperties
  <2>. HIDE DEF all
  <2>2. ASSUME NEW x \in 1..Len(u) PROVE all[x] = u[x]
    <3>1. x \in 1..Len(u) + Len(FrameOf(data)) /\ x <= Len(u)
      BY <1>1, <1>3
    <3>. QED
      BY <2>1, <3>1
  <2>3. ASSUME NEW x \in 1..Len(FrameOf(data)) PROVE all[Len(u) + x] = FrameOf(data)[x]
    <3>1. /\ Len(u) + x \in 1..Len(u) + Len(FrameOf(data)) /\ ~(Len(u) + x <= Len(u))
          /\ Len(u) + x - Len(u) = x
      BY <1>1, <1>3
    <3>. QED
      BY <2>1, <3>1
  <2>. QED
    BY <2>1, <2>2, <2>3
<1>. HIDE DEF m, new, all
<1>5. Payloads(new)
  <2>1. ASSUME NEW i \in 1..m + 1 PROVE Fits(new[i])
    <3>1. CASE i = m + 1
      BY <1>2, <3>1
    <3>2. CASE i \in 1..m
      BY <1>2, <3>2 DEF Payloads, m
    <3>. QED
      BY <1>1, <3>1, <3>2
  <2>. QED
    BY <1>2, <2>1 DEF Payloads
<1>6. /\ e \in [k..m + 1 -> Nat] /\ e[m + 1] = Len(all) /\ e[m] = Len(u)
      /\ \A i \in k..m : e[i] = ends[i]
  <2>1. ends \in [k..m -> Nat] /\ ends[m] = Len(u)
    BY DEF Laid, m
  <2>2. Len(all) \in Nat
    BY <1>1, <1>3, <1>4
  <2>. QED
    BY <1>1, <2>1, <2>2
<1>. HIDE DEF e
<1>7. ASSUME NEW i \in k..m + 1, NEW j \in k..m + 1, i <= j PROVE e[i] <= e[j]
  <2>1. \A a, b \in k..m : a <= b => e[a] <= e[b]
    BY <1>6 DEF Laid, m
  <2>2. \A a \in k..m : e[a] <= Len(u)
    BY <1>1, <1>6, <2>1
  <2>3. CASE j = m + 1 /\ i \in k..m
    BY <1>1, <1>3, <1>4, <1>6, <2>2, <2>3
  <2>4. CASE i = m + 1
    <3>1. j = m + 1
      BY <1>1, <1>7, <2>4
    <3>. QED
      BY <1>1, <1>3, <1>4, <1>6, <2>4, <3>1
  <2>5. CASE i \in k..m /\ j \in k..m
    BY <1>7, <2>1, <2>5
  <2>. QED
    BY <1>1, <2>3, <2>4, <2>5
<1>8. ASSUME NEW i \in k + 1..m + 1
      PROVE  /\ e[i] = e[i - 1] + Len(FrameOf(new[i]))
             /\ \A x \in 1..Len(FrameOf(new[i])) :
                  e[i - 1] + x <= Len(all) => all[e[i - 1] + x] = FrameOf(new[i])[x]
  <2>1. CASE i = m + 1
    <3>1. e[i - 1] = Len(u) /\ new[i] = data
      BY <1>1, <1>2, <1>6, <2>1
    <3>. QED
      BY <1>4, <1>6, <2>1, <3>1
  <2>2. CASE i \in k + 1..m
    <3>1. new[i] = fs[i] /\ i \in 1..m /\ i - 1 \in k..m
      BY <1>1, <1>2, <2>2
    <3>2. e[i] = ends[i] /\ e[i - 1] = ends[i - 1] /\ ends[i - 1] \in Nat /\ ends[i] <= Len(u)
      <4>1. i \in k..m /\ m \in k..m /\ i <= m
        BY <1>1, <2>2
      <4>2. ends \in [k..m -> Nat] /\ ends[i] <= ends[m]
        BY <4>1 DEF Laid, m
      <4>. QED
        BY <1>6, <3>1, <4>1, <4>2 DEF m
    <3>3. /\ ends[i] = ends[i - 1] + Len(FrameOf(fs[i]))
          /\ \A x \in 1..Len(FrameOf(fs[i])) :
               ends[i - 1] + x <= Len(u) => u[ends[i - 1] + x] = FrameOf(fs[i])[x]
      BY <2>2 DEF Laid, m
    <3>4. Len(FrameOf(fs[i])) \in Nat
      BY <3>1, FrameBytes, LenProperties DEF Payloads, m
    <3>5. ASSUME NEW x \in 1..Len(FrameOf(fs[i])) PROVE all[ends[i - 1] + x] = FrameOf(fs[i])[x]
      <4>1. ends[i - 1] + x \in 1..Len(u)
        BY <1>1, <3>2, <3>3, <3>4
      <4>2. u[ends[i - 1] + x] = FrameOf(fs[i])[x]
        BY <1>1, <3>3, <4>1
      <4>. QED
        BY <1>4, <4>1, <4>2
    <3>. QED
      BY <3>1, <3>2, <3>3, <3>5
  <2>. QED
    BY <1>1, <2>1, <2>2
<1>9. e[k] = 0
  BY <1>1, <1>6 DEF Laid
<1>10. Laid(all, new, k, e)
  <2>1. Len(all) <= e[m + 1]
    BY <1>1, <1>3, <1>4, <1>6
  <2>. QED
    BY <1>2, <1>6, <1>7, <1>8, <1>9, <2>1 DEF Laid
<1>. QED
  BY <1>2, <1>5, <1>6, <1>10 DEF new, all

(* Without the first frames the others are left.                           *)
LEMMA LaidDrop ==
  ASSUME NEW u \in Seq(F!Bytes), NEW fs, Payloads(fs), NEW k \in 0..Len(fs),
         NEW ends, Laid(u, fs, k, ends), NEW j \in k..Len(fs), ends[j] <= Len(u)
  PROVE  \E e : /\ Laid(F!Drop(u, ends[j]), fs, j, e)
                /\ e[Len(fs)] = ends[Len(fs)] - ends[j]
<1>. DEFINE m == Len(fs)
            rest == F!Drop(u, ends[j])
            e == [i \in j..m |-> ends[i] - ends[j]]
<1>1. m \in Nat /\ k \in 0..m /\ j \in k..m /\ Len(u) \in Nat
  BY LenProperties DEF Payloads
<1>2. /\ ends \in [k..m -> Nat] /\ Len(u) <= ends[m]
      /\ \A i, i2 \in k..m : i <= i2 => ends[i] <= ends[i2]
  BY DEF Laid
<1>3. /\ rest \in Seq(F!Bytes) /\ Len(rest) = Len(u) - ends[j]
      /\ \A x \in 1..Len(u) - ends[j] : rest[x] = u[ends[j] + x]
  <2>1. ends[j] \in 0..Len(u)
    BY <1>1, <1>2
  <2>. QED
    BY <2>1, Dropped
<1>4. j..m \subseteq k..m
  BY <1>1
<1>. HIDE DEF m, rest
<1>5. \A i \in j..m : ends[i] \in Nat /\ ends[j] <= ends[i] /\ ends[j] \in Nat
  BY <1>1, <1>2, <1>4
<1>6. e \in [j..m -> Nat] /\ e[j] = 0 /\ e[m] = ends[m] - ends[j]
  <2>1. \A i \in j..m : ends[i] - ends[j] \in Nat
    BY <1>5
  <2>. QED
    BY <1>1, <1>5, <2>1
<1>7. \A i \in j..m : e[i] = ends[i] - ends[j]
  OBVIOUS
<1>. HIDE DEF e
<1>8. Len(rest) <= e[m]
  BY <1>1, <1>2, <1>3, <1>5, <1>6
<1>9. ASSUME NEW i \in j..m, NEW i2 \in j..m, i <= i2 PROVE e[i] <= e[i2]
  <2>1. ends[i] <= ends[i2]
    BY <1>2, <1>4, <1>9
  <2>. QED
    BY <1>5, <1>7, <2>1
<1>10. ASSUME NEW i \in j + 1..m
       PROVE  /\ e[i] = e[i - 1] + Len(FrameOf(fs[i]))
              /\ \A x \in 1..Len(FrameOf(fs[i])) :
                   e[i - 1] + x <= Len(rest) => rest[e[i - 1] + x] = FrameOf(fs[i])[x]
  <2>1. i \in j..m /\ i - 1 \in j..m /\ i \in k + 1..m
    BY <1>1
  <2>2. /\ ends[i] = ends[i - 1] + Len(FrameOf(fs[i]))
        /\ \A x \in 1..Len(FrameOf(fs[i])) :
             ends[i - 1] + x <= Len(u) => u[ends[i - 1] + x] = FrameOf(fs[i])[x]
    BY <2>1 DEF Laid, m
  <2>3. Len(FrameOf(fs[i])) \in Nat
    <3>1. Fits(fs[i])
      BY <1>1, <2>1 DEF Payloads, m
    <3>. QED
      BY <3>1, FrameBytes, LenProperties
  <2>4. /\ ends[i] \in Nat /\ ends[i - 1] \in Nat /\ ends[j] \in Nat /\ ends[j] <= ends[i - 1]
        /\ e[i] = ends[i] - ends[j] /\ e[i - 1] = ends[i - 1] - ends[j]
    BY <1>5, <1>7, <2>1
  <2>5. ASSUME NEW x \in 1..Len(FrameOf(fs[i])), e[i - 1] + x <= Len(rest)
        PROVE  rest[e[i - 1] + x] = FrameOf(fs[i])[x]
    <3>1. PICK a \in Nat, b \in Nat, c \in Nat :
            a = ends[i - 1] /\ b = ends[j] /\ a = b + c /\ e[i - 1] = c
      BY <2>4
    <3>2. x \in Nat /\ x >= 1 /\ b + (c + x) = a + x
      BY <2>3, <3>1
    <3>3. c + x \in 1..Len(u) - b /\ a + x <= Len(u)
      <4>1. c + x <= Len(u) - b
        BY <1>3, <2>5, <3>1
      <4>2. c + x \in Nat /\ c + x >= 1
        BY <3>1, <3>2
      <4>3. PICK n \in Nat : n = Len(u)
        BY <1>1
      <4>4. c + x \in 1..n - b
        BY <3>2, <4>1, <4>2, <4>3
      <4>5. PICK y \in Nat : y = c + x /\ y <= n - b /\ b + y = a + x
        BY <3>2, <4>1, <4>2, <4>3
      <4>6. a + x <= n
        BY <4>5
      <4>. QED
        BY <4>3, <4>4, <4>6
    <3>4. rest[c + x] = u[a + x]
      BY <1>3, <3>1, <3>2, <3>3
    <3>. QED
      BY <2>2, <3>1, <3>3, <3>4
  <2>. QED
    BY <2>2, <2>3, <2>4, <2>5
<1>11. Laid(rest, fs, j, e)
  BY <1>6, <1>8, <1>9, <1>10 DEF Laid, m
<1>. QED
  BY <1>6, <1>11 DEF m, rest

(* Where a frame begins, its header is read, and, if it is whole, itself.  *)
LEMMA LaidFrame ==
  ASSUME NEW u \in Seq(F!Bytes), NEW fs, Payloads(fs), NEW k \in 0..Len(fs),
         NEW ends, Laid(u, fs, k, ends), Len(u) >= 5
  PROVE  /\ k < Len(fs) /\ F!Total(u) = ends[k + 1] /\ F!Total(u) \in Nat /\ F!Total(u) >= 6
         /\ F!Unpack4(u) + 1 = ends[k + 1] - 5
         /\ Len(u) >= F!Total(u) => F!First(u) = fs[k + 1]
<1>. DEFINE m == Len(fs)
            whole == FrameOf(fs[k + 1])
<1>1. m \in Nat /\ k \in 0..m /\ Len(u) \in Nat
  BY LenProperties DEF Payloads
<1>2. k < m
  <2>1. ends[k] = 0 /\ Len(u) <= ends[m]
    BY DEF Laid
  <2>. QED
    BY <1>1, <2>1
<1>3. Fits(fs[k + 1]) /\ k + 1 \in k + 1..m
  BY <1>1, <1>2 DEF Payloads
<1>4. F!Body(fs[k + 1]) \in Seq(F!Bytes) /\ Len(F!Body(fs[k + 1])) \in Nat
  BY <1>3, BodyBytes DEF Fits
<1>5. whole \in Seq(F!Bytes) /\ Len(whole) = Len(F!Body(fs[k + 1])) + 6
  BY <1>3, FrameBytes
<1>6. /\ ends[k + 1] = Len(whole)
      /\ \A x \in 1..Len(whole) : x <= Len(u) => u[x] = whole[x]
  <2>1. /\ ends[k + 1] = ends[k] + Len(whole) /\ ends[k] = 0
        /\ \A x \in 1..Len(whole) : ends[k] + x <= Len(u) => u[ends[k] + x] = whole[x]
    <3>1. PICK i \in k + 1..m : i = k + 1 /\ i - 1 = k
      BY <1>1, <1>3
    <3>2. /\ ends[i] = ends[i - 1] + Len(FrameOf(fs[i]))
          /\ \A x \in 1..Len(FrameOf(fs[i])) :
               ends[i - 1] + x <= Len(u) => u[ends[i - 1] + x] = FrameOf(fs[i])[x]
      BY DEF Laid
    <3>3. ends[k] = 0
      BY DEF Laid
    <3>. QED
      BY <3>1, <3>2, <3>3
  <2>. QED
    BY <1>4, <1>5, <2>1
<1>. HIDE DEF whole
<1>7. \A i \in 1..5 : u[i] = whole[i]
  BY <1>1, <1>4, <1>5, <1>6
<1>8. F!Total(u) = Len(whole) /\ F!Unpack4(u) = Len(F!Body(fs[k + 1]))
  BY <1>3, <1>7, FrameKnown DEF whole
<1>9. ASSUME Len(u) >= F!Total(u) PROVE F!First(u) = fs[k + 1]
  <2>1. \A i \in 1..Len(whole) : u[i] = whole[i]
    BY <1>1, <1>4, <1>5, <1>6, <1>8, <1>9
  <2>2. F!Payload(SubSeq(u, 6, Len(whole) - 1), u[5]) = fs[k + 1]
    BY <1>3, <1>8, <1>9, <2>1, FrameRead DEF whole
  <2>3. F!HeaderSize = 5 /\ Len(F!Flusher) = 1
    BY DEF F!HeaderSize, F!Flusher
  <2>. QED
    BY <1>8, <2>2, <2>3 DEF F!First
<1>. QED
  BY <1>1, <1>2, <1>4, <1>5, <1>6, <1>8, <1>9 DEF m

-----------------------------------------------------------------------------
(* _extract_frames.                                                        *)

(* A whole frame ends behind where it begins, within the buffer.           *)
LEMMA WholeEnds ==
  ASSUME NEW b \in Seq(F!Bytes), NEW at \in 0..Len(b), F!Whole(F!Drop(b, at))
  PROVE  at + F!Total(F!Drop(b, at)) \in at + 1..Len(b)
<1>. DEFINE rest == F!Drop(b, at)
<1>1. rest \in Seq(F!Bytes) /\ Len(rest) = Len(b) - at /\ Len(b) \in Nat
  BY Dropped, LenProperties
<1>. HIDE DEF rest
<1>2. Len(rest) >= 5 /\ Len(rest) >= F!Total(rest)
  BY DEF rest, F!Whole, F!HeaderSize
<1>3. F!Unpack4(rest) \in Nat
  BY <1>1, <1>2, UnpackNat
<1>4. F!Total(rest) = F!Unpack4(rest) + 6
  BY <1>3 DEF F!Total, F!HeaderSize, F!Flusher
<1>5. at + F!Total(rest) \in at + 1..Len(b)
  BY <1>1, <1>2, <1>3, <1>4
<1>. QED
  BY <1>5 DEF rest

(* The frames from a place on depend on those behind it alone.             *)
LEMMA CarveSame ==
  ASSUME NEW b \in Seq(F!Bytes), NEW at \in 0..Len(b), NEW f, NEW g,
         \A i \in at + 1..Len(b) : f[i] = g[i]
  PROVE  F!Carve(b, at, f) = F!Carve(b, at, g)
<1>1. CASE F!Whole(F!Drop(b, at))
  <2>1. f[at + F!Total(F!Drop(b, at))] = g[at + F!Total(F!Drop(b, at))]
    BY <1>1, WholeEnds
  <2>. QED
    BY <1>1, <2>1 DEF F!Carve
<1>2. CASE ~F!Whole(F!Drop(b, at))
  BY <1>2 DEF F!Carve
<1>. QED
  BY <1>1, <1>2

(* So there are such frames for every place, from the last one back.       *)
LEMMA CarveExists ==
  ASSUME NEW b \in Seq(F!Bytes)
  PROVE  \E f : f = [at \in 0..Len(b) |-> F!Carve(b, at, f)]
<1>. DEFINE n == Len(b)
            From(d) == n + 1 - d..n
            Good(d) == \E f : f = [at \in From(d) |-> F!Carve(b, at, f)]
            Bad == {d \in 0..n + 1 : ~Good(d)}
<1>1. n \in Nat
  BY LenProperties
<1>2. Good(0)
  <2>1. From(0) = {}
    BY <1>1
  <2>. DEFINE f == [at \in {} |-> b]
  <2>2. f = [at \in From(0) |-> F!Carve(b, at, f)]
    BY <2>1
  <2>. HIDE DEF f
  <2>. QED
    BY <2>2
<1>3. ASSUME NEW d \in 0..n, Good(d) PROVE Good(d + 1)
  <2>1. PICK f : f = [at \in From(d) |-> F!Carve(b, at, f)]
    BY <1>3
  <2>. DEFINE at0 == n - d
              g == [at \in From(d + 1) |-> F!Carve(b, at, f)]
  <2>2. at0 \in 0..n /\ From(d + 1) = {at0} \cup From(d) /\ From(d) = at0 + 1..n
    BY <1>1
  <2>3. \A at \in From(d) : g[at] = f[at]
    <3>1. ASSUME NEW at \in From(d) PROVE g[at] = f[at]
      <4>1. at \in From(d + 1)
        BY <2>2
      <4>2. f[at] = F!Carve(b, at, f)
        BY <2>1
      <4>. QED
        BY <4>1, <4>2
    <3>. QED
      BY <3>1
  <2>4. ASSUME NEW at \in From(d + 1) PROVE F!Carve(b, at, f) = F!Carve(b, at, g)
    <3>1. at \in 0..Len(b) /\ at + 1..Len(b) \subseteq From(d)
      BY <1>1
    <3>2. \A i \in at + 1..Len(b) : f[i] = g[i]
      BY <2>3, <3>1
    <3>. HIDE DEF g
    <3>. QED
      BY <3>1, <3>2, CarveSame
  <2>5. g = [at \in From(d + 1) |-> F!Carve(b, at, g)]
    <3>1. \A at \in From(d + 1) : F!Carve(b, at, f) = F!Carve(b, at, g)
      BY <2>4
    <3>. DEFINE h == [at \in From(d + 1) |-> F!Carve(b, at, g)]
    <3>2. g = h
      BY <3>1, Zenon
    <3>. QED
      BY <3>2
  <2>. HIDE DEF g
  <2>. QED
    BY <2>5
<1>. HIDE DEF Good
<1>4. Bad = {}
  <2>. SUFFICES ASSUME Bad # {} PROVE FALSE
    OBVIOUS
  <2>1. Bad \in SUBSET Nat
    BY <1>1
  <2>2. PICK d \in Bad : \A e \in Bad : d <= e
    BY <2>1, LeastNumber
  <2>3. d # 0 /\ d - 1 \in 0..n
    BY <1>1, <1>2, <2>1
  <2>4. d - 1 \notin Bad
    BY <2>1, <2>2, <2>3
  <2>5. Good(d - 1)
    BY <1>1, <2>3, <2>4
  <2>6. Good(d - 1 + 1) /\ d - 1 + 1 = d
    BY <1>3, <2>1, <2>3, <2>5
  <2>. QED
    BY <2>6
<1>5. Good(n + 1)
  BY <1>1, <1>4
<1>6. From(n + 1) = 0..Len(b)
  BY <1>1
<1>. QED
  BY <1>5, <1>6 DEF Good

(* What the code carves out of a buffer.                                   *)
LEMMA ExtractCarves ==
  ASSUME NEW b \in Seq(F!Bytes)
  PROVE  \E f : /\ F!Extract(b) = f[0]
                /\ \A at \in 0..Len(b) : f[at] = F!Carve(b, at, f)
<1>. DEFINE f == CHOOSE f : f = [at \in 0..Len(b) |-> F!Carve(b, at, f)]
<1>1. f = [at \in 0..Len(b) |-> F!Carve(b, at, f)]
  BY CarveExists
<1>2. F!Extract(b) = f[0]
  BY DEF F!Extract
<1>. HIDE DEF f
<1>3. \A at \in 0..Len(b) : f[at] = F!Carve(b, at, f)
  BY <1>1
<1>. QED
  BY <1>2, <1>3

(* Out of a buffer that frames are laid in, those that are whole are       *)
(* carved, and what is left begins where the last of them ends.            *)
LEMMA ExtractLaid ==
  ASSUME NEW v \in Seq(F!Bytes), NEW fs, Payloads(fs), NEW k \in 0..Len(fs),
         NEW ends, Laid(v, fs, k, ends)
  PROVE  \E j \in k..Len(fs) :
           /\ ends[j] <= Len(v)
           /\ F!Extract(v).frames = SubSeq(fs, k + 1, j) /\ F!Extract(v).rest = F!Drop(v, ends[j])
<1>. DEFINE m == Len(fs)
            n == Len(v)
<1>1. m \in Nat /\ k \in 0..m /\ n \in Nat
  BY LenProperties DEF Payloads
<1>2. PICK f : F!Extract(v) = f[0] /\ \A at \in 0..n : f[at] = F!Carve(v, at, f)
  BY ExtractCarves
<1>. DEFINE
       Fine(i) == ends[i] <= n =>
         \E j \in i..m : /\ ends[j] <= n
                         /\ f[ends[i]] = [frames |-> SubSeq(fs, i + 1, j), rest |-> F!Drop(v, ends[j])]
       Bad == {d \in 0..m - k : ~Fine(m - d)}
<1>3. /\ ends \in [k..m -> Nat] /\ ends[k] = 0
      /\ \A i, j \in k..m : i <= j => ends[i] <= ends[j]
  BY DEF Laid
<1>4. fs \in Seq(Seq(F!Bytes))
  BY DEF Payloads
<1>. HIDE DEF m, n
<1>5. ASSUME NEW i \in k..m, i < m => Fine(i + 1) PROVE Fine(i)
  <2>. SUFFICES ASSUME ends[i] <= n
                PROVE  \E j \in i..m :
                         /\ ends[j] <= n
                         /\ f[ends[i]] = [frames |-> SubSeq(fs, i + 1, j), rest |-> F!Drop(v, ends[j])]
    BY DEF Fine
  <2>. DEFINE at == ends[i]
              rest == F!Drop(v, at)
  <2>1. at \in 0..n /\ rest \in Seq(F!Bytes) /\ Len(rest) = n - at
    <3>1. at \in 0..n
      BY <1>1, <1>3
    <3>. QED
      BY <3>1, Dropped DEF n
  <2>2. f[at] = F!Carve(v, at, f)
    BY <1>2, <2>1
  <2>3. PICK e : Laid(rest, fs, i, e)
    BY LaidDrop DEF m, n
  <2>. HIDE DEF rest
  <2>4. CASE ~F!Whole(rest)
    <3>1. f[at] = [frames |-> <<>>, rest |-> rest]
      BY <2>2, <2>4 DEF F!Carve, rest
    <3>2. SubSeq(fs, i + 1, i) = <<>>
      BY <1>1, SubSeqEmpty
    <3>3. i \in i..m
      BY <1>1
    <3>. QED
      BY <3>1, <3>2, <3>3 DEF rest
  <2>5. CASE F!Whole(rest)
    <3>1. Len(rest) >= 5 /\ Len(rest) >= F!Total(rest)
      BY <2>5 DEF F!Whole, F!HeaderSize
    <3>2. i \in 0..Len(fs)
      BY <1>1 DEF m
    <3>3. /\ i < m /\ F!Total(rest) = e[i + 1] /\ F!Total(rest) \in Nat
          /\ F!First(rest) = fs[i + 1]
      BY <2>1, <2>3, <3>1, <3>2, LaidFrame DEF m
    <3>4. at + F!Total(rest) = ends[i + 1]
      <4>1. PICK x \in k + 1..m : x = i + 1 /\ x - 1 = i /\ x \in i + 1..m
        BY <1>1, <3>3
      <4>2. ends[x] = ends[x - 1] + Len(FrameOf(fs[x]))
        BY DEF Laid, m
      <4>3. e[x] = e[x - 1] + Len(FrameOf(fs[x])) /\ e[i] = 0
        BY <2>3, <4>1 DEF Laid, m
      <4>4. Len(FrameOf(fs[x])) \in Nat
        <5>1. Fits(fs[x])
          BY <1>1, <4>1 DEF Payloads, m
        <5>. QED
          BY <5>1, FrameBytes, LenProperties
      <4>5. ends[i] \in Nat
        BY <1>3
      <4>6. e[x] = Len(FrameOf(fs[x]))
        BY <4>1, <4>3, <4>4
      <4>. QED
        BY <3>3, <4>1, <4>2, <4>4, <4>5, <4>6
    <3>5. i + 1 \in k..m /\ ends[i + 1] <= n
      BY <1>1, <2>1, <3>1, <3>3, <3>4
    <3>6. PICK j \in i + 1..m :
            /\ ends[j] <= n
            /\ f[ends[i + 1]] = [frames |-> SubSeq(fs, i + 1 + 1, j), rest |-> F!Drop(v, ends[j])]
      BY <1>5, <3>3, <3>5 DEF Fine
    <3>7. f[at] = [frames |-> <<F!First(rest)>> \o f[at + F!Total(rest)].frames,
                   rest   |-> f[at + F!Total(rest)].rest]
      BY <2>2, <2>5 DEF F!Carve, rest
    <3>8. SubSeq(fs, i + 1, j) = <<fs[i + 1]>> \o SubSeq(fs, i + 1 + 1, j)
      <4>1. i + 1 \in 1..Len(fs) + 1 /\ j \in i + 1..Len(fs)
        BY <1>1, <3>3 DEF m
      <4>2. \A y \in i + 1..j : fs[y] \in Seq(F!Bytes)
        <5>1. \A y \in 1..Len(fs) : fs[y] \in Seq(F!Bytes)
          BY <1>4, ElementOfSeq
        <5>. QED
          BY <1>1, <4>1, <5>1
      <4>. QED
        BY <1>1, <1>4, <4>1, <4>2, SubSeqRecursiveFirst
    <3>9. j \in i..m
      BY <1>1
    <3>10. /\ f[at + F!Total(rest)].frames = SubSeq(fs, i + 1 + 1, j)
           /\ f[at + F!Total(rest)].rest = F!Drop(v, ends[j])
      BY <3>4, <3>6
    <3>11. f[at] = [frames |-> SubSeq(fs, i + 1, j), rest |-> F!Drop(v, ends[j])]
      BY <3>3, <3>7, <3>8, <3>10
    <3>. QED
      BY <3>6, <3>9, <3>11
  <2>. QED
    BY <2>4, <2>5
<1>. HIDE DEF Fine
<1>6. Bad = {}
  <2>. SUFFICES ASSUME Bad # {} PROVE FALSE
    OBVIOUS
  <2>1. Bad \in SUBSET Nat
    BY <1>1
  <2>2. PICK d \in Bad : \A e \in Bad : d <= e
    BY <2>1, LeastNumber
  <2>3. PICK i \in k..m : i = m - d /\ ~Fine(i)
    BY <1>1
  <2>4. i < m /\ ~Fine(i + 1)
    BY <1>5, <2>3
  <2>5. PICK e \in 0..m - k : e = d - 1 /\ m - e = i + 1
    BY <1>1, <2>1, <2>3, <2>4
  <2>6. e \in Bad
    BY <2>4, <2>5
  <2>. QED
    BY <2>1, <2>2, <2>5, <2>6
<1>7. Fine(k)
  <2>1. PICK d \in 0..m - k : d = m - k /\ m - d = k
    BY <1>1
  <2>. QED
    BY <1>6, <2>1
<1>8. PICK j \in k..m :
        ends[j] <= n /\ f[0] = [frames |-> SubSeq(fs, k + 1, j), rest |-> F!Drop(v, ends[j])]
  <2>1. ends[k] <= n
    BY <1>1, <1>3
  <2>2. PICK j \in k..m :
          ends[j] <= n /\ f[ends[k]] = [frames |-> SubSeq(fs, k + 1, j), rest |-> F!Drop(v, ends[j])]
    BY <1>7, <2>1 DEF Fine
  <2>3. f[0] = [frames |-> SubSeq(fs, k + 1, j), rest |-> F!Drop(v, ends[j])]
    BY <1>3, <2>2
  <2>. QED
    BY <2>2, <2>3
<1>. QED
  BY <1>2, <1>8 DEF m, n

-----------------------------------------------------------------------------
(* What is written and what is still to write.                             *)

(* Concatenation of what is known by other names.                          *)
LEMMA Together ==
  ASSUME NEW S, NEW a \in Seq(S), NEW b \in Seq(S), NEW c \in Seq(S),
         NEW ab, ab = a \o b, NEW bc, bc = b \o c
  PROVE  ab \o c = a \o bc
BY ConcatAssociative

(* What is taken off the front and what is left make the whole.            *)
LEMMA TakeAndDrop ==
  ASSUME NEW S, NEW s \in Seq(S), NEW n \in 0..Len(s)
  PROVE  /\ SubSeq(s, 1, n) \in Seq(S) /\ Len(SubSeq(s, 1, n)) = n
         /\ \A i \in 1..n : SubSeq(s, 1, n)[i] = s[i]
         /\ SubSeq(s, 1, n) \o F!Drop(s, n) = s
<1>1. Len(s) \in Nat /\ \A i \in 1..Len(s) : s[i] \in S
  BY LenProperties, ElementOfSeq
<1>2. \A i \in 1..n : s[i] \in S
  BY <1>1
<1>3. SubSeq(s, 1, n) \o SubSeq(s, n + 1, Len(s)) = SubSeq(s, 1, Len(s))
  <2>1. 1 \in 1..Len(s) + 1 /\ n \in 1 - 1..Len(s) /\ Len(s) \in n..Len(s)
    BY <1>1
  <2>. QED
    BY <2>1, ConcatAdjacentSubSeq
<1>4. SubSeq(s, 1, Len(s)) = s
  BY SubSeqFull
<1>5. /\ SubSeq(s, 1, n) \in Seq(S) /\ Len(SubSeq(s, 1, n)) = n
      /\ \A i \in 1..n : SubSeq(s, 1, n)[i] = s[i]
  BY <1>1, <1>2, SubSeqProperties
<1>. QED
  BY <1>3, <1>4, <1>5 DEF F!Drop

(* Who drops from the first of two leaves the second alone.                *)
LEMMA DropConcat ==
  ASSUME NEW S, NEW a \in Seq(S), NEW b \in Seq(S), NEW n \in 0..Len(a)
  PROVE  /\ F!Drop(a \o b, n) = F!Drop(a, n) \o b
         /\ F!Drop(a, n) \in Seq(S)
<1>. DEFINE front == SubSeq(a, 1, n)
            back  == F!Drop(a, n)
<1>1. front \in Seq(S) /\ Len(front) = n /\ front \o back = a
  BY TakeAndDrop
<1>2. back \in Seq(S)
  BY Dropped
<1>. HIDE DEF front, back
<1>3. a \o b = front \o (back \o b)
  <2>0. front \in Seq(S) /\ back \in Seq(S) /\ b \in Seq(S)
    BY <1>1, <1>2
  <2>1. (front \o back) \o b = front \o (back \o b)
    BY <2>0, ConcatAssociative
  <2>. QED
    BY <1>1, <2>1, Zenon
<1>4. back \o b \in Seq(S) /\ Len(back \o b) \in Nat
  BY <1>2, ConcatProperties, LenProperties
<1>5. F!Drop(front \o (back \o b), n) = back \o b
  <2>. DEFINE t == back \o b
              u == front \o t
  <2>0. t \in Seq(S) /\ Len(t) \in Nat
    BY <1>4
  <2>. HIDE DEF t
  <2>1. /\ u \in Seq(S) /\ Len(u) = n + Len(t)
        /\ \A i \in 1..n + Len(t) : u[i] = IF i <= n THEN front[i] ELSE t[i - n]
    BY <1>1, <2>0, ConcatProperties
  <2>. HIDE DEF u
  <2>2. n \in 0..Len(u)
    BY <2>0, <2>1
  <2>3. /\ F!Drop(u, n) \in Seq(S) /\ Len(F!Drop(u, n)) = Len(t)
        /\ \A i \in 1..Len(t) : F!Drop(u, n)[i] = u[n + i]
    <3>1. Len(u) - n = Len(t)
      BY <2>0, <2>1
    <3>2. /\ F!Drop(u, n) \in Seq(S) /\ Len(F!Drop(u, n)) = Len(u) - n
          /\ \A i \in 1..Len(u) - n : F!Drop(u, n)[i] = u[n + i]
      BY <2>1, <2>2, Dropped
    <3>. QED
      BY <3>1, <3>2
  <2>4. ASSUME NEW i \in 1..Len(t) PROVE u[n + i] = t[i]
    <3>1. n + i \in 1..n + Len(t) /\ ~(n + i <= n) /\ n + i - n = i
      BY <2>0
    <3>. QED
      BY <2>1, <3>1
  <2>5. F!Drop(u, n) = t
    BY <2>0, <2>3, <2>4, SeqEqual
  <2>. QED
    BY <2>5 DEF t, u
<1>6. F!Drop(a \o b, n) = back \o b
  BY <1>3, <1>5
<1>. QED
  BY <1>2, <1>6 DEF back

(* The bytes of at most three pieces.                                      *)
Piece(w, i) == IF i <= Len(w) THEN w[i] ELSE <<>>
Flat(w)     == Piece(w, 1) \o (Piece(w, 2) \o Piece(w, 3))

AtMost3(w) == w \in Seq(Seq(F!Bytes)) /\ Len(w) <= 3

(* Pieces are bytes, and there is no fourth one.                           *)
LEMMA PieceBytes ==
  ASSUME NEW w, AtMost3(w), NEW i \in Nat \ {0}
  PROVE  Piece(w, i) \in Seq(F!Bytes) /\ (i > 3 => Piece(w, i) = <<>>)
<1>1. Len(w) \in Nat /\ \A j \in 1..Len(w) : w[j] \in Seq(F!Bytes)
  BY LenProperties, ElementOfSeq DEF AtMost3
<1>2. CASE i <= Len(w)
  BY <1>1, <1>2 DEF Piece, AtMost3
<1>3. CASE ~(i <= Len(w))
  BY <1>3, EmptySeq DEF Piece
<1>. QED
  BY <1>2, <1>3

(* So are all of them together.                                            *)
LEMMA FlatBytes ==
  ASSUME NEW w, AtMost3(w)
  PROVE  Flat(w) \in Seq(F!Bytes) /\ (w = <<>> => Flat(w) = <<>>)
<1>1. Piece(w, 1) \in Seq(F!Bytes) /\ Piece(w, 2) \in Seq(F!Bytes) /\ Piece(w, 3) \in Seq(F!Bytes)
  BY PieceBytes
<1>2. Piece(w, 2) \o Piece(w, 3) \in Seq(F!Bytes)
  BY <1>1, ConcatProperties
<1>3. Flat(w) \in Seq(F!Bytes)
  BY <1>1, <1>2, ConcatProperties DEF Flat
<1>4. ASSUME w = <<>> PROVE Flat(w) = <<>>
  <2>1. Len(w) = 0
    BY <1>4
  <2>2. Piece(w, 1) = <<>> /\ Piece(w, 2) = <<>> /\ Piece(w, 3) = <<>>
    BY <2>1 DEF Piece
  <2>3. <<>> \o <<>> = <<>>
    BY EmptySeq, ConcatEmptySeq
  <2>. QED
    BY <2>2, <2>3 DEF Flat
<1>. QED
  BY <1>3, <1>4

(* The first piece comes first.                                            *)
LEMMA FlatFirst ==
  ASSUME NEW w, AtMost3(w), w # <<>>
  PROVE  /\ AtMost3(Tail(w)) /\ w[1] \in Seq(F!Bytes)
         /\ Flat(w) = w[1] \o Flat(Tail(w))
<1>1. Len(w) \in Nat /\ Len(w) > 0 /\ \A j \in 1..Len(w) : w[j] \in Seq(F!Bytes)
  BY LenProperties, ElementOfSeq, EmptySeq DEF AtMost3
<1>2. /\ Tail(w) \in Seq(Seq(F!Bytes)) /\ Len(Tail(w)) = Len(w) - 1
      /\ \A i \in 1..Len(w) - 1 : Tail(w)[i] = w[i + 1]
  BY HeadTailProperties DEF AtMost3
<1>3. AtMost3(Tail(w))
  BY <1>1, <1>2 DEF AtMost3
<1>4. ASSUME NEW i \in Nat \ {0} PROVE Piece(Tail(w), i) = Piece(w, i + 1)
  BY <1>1, <1>2 DEF Piece
<1>5. /\ Piece(Tail(w), 1) = Piece(w, 2) /\ Piece(Tail(w), 2) = Piece(w, 3)
      /\ Piece(Tail(w), 3) = <<>>
  <2>1. Piece(w, 4) = <<>>
    BY PieceBytes
  <2>2. /\ Piece(Tail(w), 1) = Piece(w, 1 + 1) /\ Piece(Tail(w), 2) = Piece(w, 2 + 1)
        /\ Piece(Tail(w), 3) = Piece(w, 3 + 1)
    BY <1>4
  <2>. QED
    BY <2>1, <2>2
<1>6. Piece(w, 3) \o <<>> = Piece(w, 3)
  BY PieceBytes, ConcatEmptySeq
<1>7. Flat(Tail(w)) = Piece(w, 2) \o Piece(w, 3)
  BY <1>5, <1>6 DEF Flat
<1>8. Piece(w, 1) = w[1] /\ w[1] \in Seq(F!Bytes)
  BY <1>1 DEF Piece
<1>. QED
  BY <1>3, <1>7, <1>8 DEF Flat

(* What sock.send took and what Channel.send still has make what it had.   *)
LEMMA SentKeeps ==
  ASSUME NEW w, AtMost3(w), w # <<>>, NEW n \in 0..Len(w[1])
  PROVE  LET left == IF n = Len(w[1]) THEN Tail(w) ELSE <<F!Drop(w[1], n)>> \o Tail(w)
         IN  AtMost3(left) /\ Flat(w) = SubSeq(w[1], 1, n) \o Flat(left)
<1>. DEFINE left == IF n = Len(w[1]) THEN Tail(w) ELSE <<F!Drop(w[1], n)>> \o Tail(w)
            rest == F!Drop(w[1], n)
            more == <<rest>> \o Tail(w)
<1>1. AtMost3(Tail(w)) /\ w[1] \in Seq(F!Bytes) /\ Flat(w) = w[1] \o Flat(Tail(w))
  BY FlatFirst
<1>2. Flat(Tail(w)) \in Seq(F!Bytes)
  BY <1>1, FlatBytes
<1>3. CASE n = Len(w[1])
  <2>1. SubSeq(w[1], 1, n) = w[1]
    BY <1>1, <1>3, SubSeqFull
  <2>. QED
    BY <1>1, <1>3, <2>1
<1>4. CASE n # Len(w[1])
  <2>1. /\ rest \in Seq(F!Bytes) /\ SubSeq(w[1], 1, n) \in Seq(F!Bytes)
        /\ SubSeq(w[1], 1, n) \o rest = w[1]
    BY <1>1, TakeAndDrop, Dropped
  <2>. HIDE DEF rest
  <2>2. <<rest>> \in Seq(Seq(F!Bytes)) /\ Len(<<rest>>) = 1 /\ <<rest>>[1] = rest
    BY <2>1
  <2>3. Len(Tail(w)) \in Nat /\ Len(Tail(w)) <= 2 /\ Tail(w) \in Seq(Seq(F!Bytes))
    <3>1. Len(Tail(w)) = Len(w) - 1 /\ Len(w) <= 3
      BY HeadTailProperties DEF AtMost3
    <3>. QED
      BY <1>1, <3>1, LenProperties DEF AtMost3
  <2>4. /\ more \in Seq(Seq(F!Bytes)) /\ Len(more) = 1 + Len(Tail(w))
        /\ \A i \in 1..1 + Len(Tail(w)) : more[i] = IF i <= 1 THEN rest ELSE Tail(w)[i - 1]
    <3>. DEFINE one == <<rest>>
                tl  == Tail(w)
    <3>1. /\ one \in Seq(Seq(F!Bytes)) /\ Len(one) = 1 /\ one[1] = rest
          /\ tl \in Seq(Seq(F!Bytes)) /\ Len(tl) \in Nat
      BY <2>2, <2>3
    <3>. HIDE DEF one, tl
    <3>2. /\ one \o tl \in Seq(Seq(F!Bytes)) /\ Len(one \o tl) = Len(one) + Len(tl)
          /\ \A i \in 1..Len(one) + Len(tl) :
               (one \o tl)[i] = IF i <= Len(one) THEN one[i] ELSE tl[i - Len(one)]
      BY <3>1, ConcatProperties
    <3>3. /\ one \o tl \in Seq(Seq(F!Bytes)) /\ Len(one \o tl) = 1 + Len(tl)
          /\ \A i \in 1..1 + Len(tl) : (one \o tl)[i] = IF i <= 1 THEN rest ELSE tl[i - 1]
      BY <3>1, <3>2
    <3>. QED
      BY <3>3 DEF one, tl
  <2>. HIDE DEF more
  <2>5. AtMost3(more) /\ more # <<>> /\ more[1] = rest
    BY <2>3, <2>4, EmptySeq DEF AtMost3
  <2>6. Tail(more) = Tail(w)
    <3>1. /\ Tail(more) \in Seq(Seq(F!Bytes)) /\ Len(Tail(more)) = Len(more) - 1
          /\ \A i \in 1..Len(more) - 1 : Tail(more)[i] = more[i + 1]
      BY <2>4, <2>5, HeadTailProperties
    <3>2. ASSUME NEW i \in 1..Len(Tail(w)) PROVE more[i + 1] = Tail(w)[i]
      BY <2>3, <2>4
    <3>3. Len(more) - 1 = Len(Tail(w))
      BY <2>3, <2>4
    <3>. HIDE DEF more
    <3>. QED
      BY <2>3, <3>1, <3>2, <3>3, SeqEqual
  <2>7. Flat(more) = rest \o Flat(Tail(w))
    BY <2>5, <2>6, FlatFirst
  <2>8. SubSeq(w[1], 1, n) \o Flat(more) = w[1] \o Flat(Tail(w))
    <3>. DEFINE taken == SubSeq(w[1], 1, n)
                later == Flat(Tail(w))
    <3>1. taken \in Seq(F!Bytes) /\ rest \in Seq(F!Bytes) /\ later \in Seq(F!Bytes)
      BY <1>2, <2>1
    <3>. HIDE DEF taken, later
    <3>2. (taken \o rest) \o later = taken \o (rest \o later)
      BY <3>1, ConcatAssociative
    <3>3. taken \o rest = w[1] /\ Flat(more) = rest \o later
      BY <2>1, <2>7 DEF taken, later
    <3>4. taken \o Flat(more) = w[1] \o later
      BY <3>2, <3>3
    <3>. QED
      BY <3>4 DEF taken, later
  <2>9. left = more
    BY <1>4 DEF more, rest
  <2>. QED
    BY <1>1, <2>5, <2>8, <2>9
<1>. QED
  BY <1>3, <1>4

(* The pieces of a frame make the frame.                                   *)
LEMMA FramedFlat ==
  ASSUME NEW data, Fits(data), MaxChunk \in Nat, MaxChunk > 5
  PROVE  AtMost3(F!Framed(data)) /\ Flat(F!Framed(data)) = FrameOf(data)
<1>. DEFINE h == F!Header(data)
            b == F!Body(data)
            cut == MaxChunk - 5
<1>1. h \in Seq(F!Bytes) /\ Len(h) = 5 /\ b \in Seq(F!Bytes) /\ Len(b) \in Nat
  BY FrameBytes, BodyBytes DEF Fits
<1>2. F!Flusher \in Seq(F!Bytes)
  BY DEF F!Flusher, F!Bytes
<1>3. FrameOf(data) = (h \o b) \o F!Flusher /\ FrameOf(data) \in Seq(F!Bytes)
  BY FrameBytes DEF FrameOf
<1>4. F!Framed(data) = IF Len(h) + Len(b) + 1 <= MaxChunk THEN <<h \o b \o F!Flusher>>
                     ELSE << h \o SubSeq(b, 1, cut), SubSeq(b, cut + 1, Len(b)), F!Flusher >>
  BY DEF F!Framed, F!Pieces, F!HeaderSize
<1>. HIDE DEF h, b
<1>5. CASE Len(h) + Len(b) + 1 <= MaxChunk
  <2>. DEFINE x == (h \o b) \o F!Flusher
              w == <<x>>
  <2>1. x \in Seq(F!Bytes)
    BY <1>3
  <2>2. F!Framed(data) = w
    BY <1>4, <1>5
  <2>. HIDE DEF x
  <2>3. AtMost3(w)
    BY <2>1 DEF AtMost3
  <2>4. Piece(w, 1) = x /\ Piece(w, 2) = <<>> /\ Piece(w, 3) = <<>>
    BY DEF Piece
  <2>5. <<>> \o <<>> = <<>> /\ x \o <<>> = x
    BY <2>1, EmptySeq, ConcatEmptySeq
  <2>6. Flat(w) = x
    BY <2>4, <2>5 DEF Flat
  <2>. QED
    BY <1>3, <2>2, <2>3, <2>6 DEF x
<1>6. CASE ~(Len(h) + Len(b) + 1 <= MaxChunk)
  <2>. DEFINE b1 == SubSeq(b, 1, cut)
              b2 == SubSeq(b, cut + 1, Len(b))
              x == h \o b1
              w == <<x, b2, F!Flusher>>
  <2>1. cut \in 0..Len(b)
    BY <1>1, <1>6
  <2>2. /\ b1 \in Seq(F!Bytes) /\ b2 \in Seq(F!Bytes) /\ b1 \o b2 = b
    BY <1>1, <2>1, TakeAndDrop, Dropped DEF F!Drop
  <2>3. F!Framed(data) = w
    BY <1>4, <1>6
  <2>. HIDE DEF b1, b2
  <2>4. x \in Seq(F!Bytes)
    BY <1>1, <2>2, ConcatProperties
  <2>5. x \o (b2 \o F!Flusher) = (h \o b) \o F!Flusher
    <3>1. x \o (b2 \o F!Flusher) = (x \o b2) \o F!Flusher
      BY <1>2, <2>2, <2>4, Together
    <3>2. h \in Seq(F!Bytes) /\ b1 \in Seq(F!Bytes) /\ b2 \in Seq(F!Bytes)
      BY <1>1, <2>2
    <3>3. x \o b2 = h \o (b1 \o b2)
      BY <3>2, ConcatAssociative
    <3>. QED
      BY <2>2, <3>1, <3>3
  <2>. HIDE DEF x
  <2>6. AtMost3(w)
    BY <1>2, <2>2, <2>4 DEF AtMost3
  <2>7. Piece(w, 1) = x /\ Piece(w, 2) = b2 /\ Piece(w, 3) = F!Flusher
    BY DEF Piece
  <2>8. Flat(w) = x \o (b2 \o F!Flusher)
    BY <2>7 DEF Flat
  <2>. QED
    BY <1>3, <2>3, <2>5, <2>6, <2>8
<1>. QED
  BY <1>5, <1>6

(* Whatever is in a buffer, what is carved and what is left are bytes.     *)
LEMMA ExtractBytes ==
  ASSUME NEW b \in Seq(F!Bytes)
  PROVE  F!Extract(b).frames \in Seq(Seq(F!Bytes)) /\ F!Extract(b).rest \in Seq(F!Bytes)
<1>. DEFINE n == Len(b)
            Fine(r) == r.frames \in Seq(Seq(F!Bytes)) /\ r.rest \in Seq(F!Bytes)
<1>1. n \in Nat
  BY LenProperties
<1>2. PICK f : F!Extract(b) = f[0] /\ \A at \in 0..n : f[at] = F!Carve(b, at, f)
  BY ExtractCarves
<1>. DEFINE Bad == {d \in 0..n : ~Fine(f[n - d])}
<1>3. ASSUME NEW at \in 0..n, \A i \in at + 1..n : Fine(f[i]) PROVE Fine(f[at])
  <2>. DEFINE rest == F!Drop(b, at)
  <2>1. rest \in Seq(F!Bytes) /\ Len(rest) = n - at
    BY Dropped
  <2>2. f[at] = F!Carve(b, at, f)
    BY <1>2
  <2>. HIDE DEF rest
  <2>3. CASE ~F!Whole(rest)
    <3>1. f[at] = [frames |-> <<>>, rest |-> rest]
      BY <2>2, <2>3 DEF F!Carve, rest
    <3>2. <<>> \in Seq(Seq(F!Bytes))
      BY EmptySeq
    <3>. QED
      BY <2>1, <3>1, <3>2
  <2>4. CASE F!Whole(rest)
    <3>1. at + F!Total(rest) \in at + 1..n
      BY <2>4, WholeEnds DEF rest
    <3>. DEFINE behind == f[at + F!Total(rest)]
    <3>2. f[at] = [frames |-> <<F!First(rest)>> \o behind.frames, rest |-> behind.rest]
      BY <2>2, <2>4 DEF F!Carve, rest
    <3>3. behind.frames \in Seq(Seq(F!Bytes)) /\ behind.rest \in Seq(F!Bytes)
      BY <1>3, <3>1
    <3>. HIDE DEF behind
    <3>4. F!First(rest) \in Seq(F!Bytes)
      <4>1. Len(rest) >= 5 /\ Len(rest) >= F!Total(rest)
        BY <2>4 DEF F!Whole, F!HeaderSize
      <4>2. F!Unpack4(rest) \in Nat
        BY <2>1, <4>1, UnpackNat
      <4>3. F!Total(rest) = F!Unpack4(rest) + 6
        BY <4>2 DEF F!Total, F!HeaderSize, F!Flusher
      <4>. DEFINE part == SubSeq(rest, 6, F!Total(rest) - 1)
      <4>4. part \in Seq(F!Bytes)
        <5>1. \A i \in 6..F!Total(rest) - 1 : rest[i] \in F!Bytes
          <6>1. Len(rest) \in Nat /\ \A i \in 1..Len(rest) : rest[i] \in F!Bytes
            BY <2>1, LenProperties, ElementOfSeq
          <6>. QED
            BY <4>1, <4>2, <4>3, <6>1
        <5>. QED
          BY <4>2, <4>3, <5>1, SubSeqProperties
      <4>. HIDE DEF part
      <4>5. part # <<>> => Tail(part) \in Seq(F!Bytes)
        BY <4>4, HeadTailProperties
      <4>6. F!Payload(part, rest[5]) \in Seq(F!Bytes)
        BY <4>4, <4>5 DEF F!Payload, F!Decompress
      <4>7. F!First(rest) = F!Payload(part, rest[5])
        BY DEF F!First, part, F!HeaderSize, F!Flusher
      <4>. QED
        BY <4>6, <4>7
    <3>5. <<F!First(rest)>> \in Seq(Seq(F!Bytes))
      BY <3>4
    <3>6. <<F!First(rest)>> \o behind.frames \in Seq(Seq(F!Bytes))
      BY <3>3, <3>5, ConcatProperties
    <3>. QED
      BY <3>2, <3>3, <3>6
  <2>. QED
    BY <2>3, <2>4
<1>. HIDE DEF Fine, n
<1>4. Bad = {}
  <2>. SUFFICES ASSUME Bad # {} PROVE FALSE
    OBVIOUS
  <2>1. Bad \in SUBSET Nat
    BY <1>1
  <2>2. PICK d \in Bad : \A e \in Bad : d <= e
    BY <2>1, LeastNumber
  <2>3. PICK at \in 0..n : at = n - d /\ ~Fine(f[at])
    BY <1>1
  <2>4. PICK i \in at + 1..n : ~Fine(f[i])
    BY <1>3, <2>3
  <2>5. PICK e \in 0..n : e = n - i /\ n - e = i /\ e < d
    BY <1>1, <2>1, <2>3
  <2>6. e \in Bad
    BY <2>4, <2>5
  <2>. QED
    BY <2>1, <2>2, <2>5, <2>6
<1>5. Fine(f[0])
  <2>1. n \in 0..n /\ n - n = 0
    BY <1>1
  <2>. QED
    BY <1>4, <2>1
<1>. QED
  BY <1>2, <1>5 DEF Fine

-----------------------------------------------------------------------------
(* Types.                                                                  *)

ByteTypes ==
  /\ setup \in Setups
  /\ flight \in Seq(F!Bytes) /\ inbuf \in Seq(F!Bytes) /\ have \in Seq(F!Bytes)
  /\ AtMost3(writes) /\ Payloads(framed) /\ got \in Seq(Seq(F!Bytes))
  /\ Len(flight) <= Room /\ want \in Nat
  /\ blocking \in BOOLEAN /\ broken \in BOOLEAN

(* The types below are those of Framing, and more.                         *)
LEMMA BytesTyped == ByteTypes => F!TypeOK
<1>. SUFFICES ASSUME ByteTypes PROVE F!TypeOK
  OBVIOUS
<1>1. ASSUME NEW s \in {flight, inbuf, have} PROVE \A i \in 1..Len(s) : s[i] \in F!Bytes
  BY ElementOfSeq DEF ByteTypes
<1>2. ASSUME NEW k \in 1..Len(writes) PROVE \A i \in 1..Len(writes[k]) : writes[k][i] \in F!Bytes
  <2>1. writes[k] \in Seq(F!Bytes)
    BY ElementOfSeq DEF ByteTypes, AtMost3
  <2>. QED
    BY <2>1, ElementOfSeq
<1>. QED
  BY <1>1, <1>2 DEF ByteTypes, F!TypeOK, AtMost3

(* How much a read takes.                                                  *)
LEMMA LeastOf ==
  ASSUME NEW m \in Nat, NEW n \in Nat
  PROVE  F!Least(m, n) \in Nat /\ F!Least(m, n) <= m /\ F!Least(m, n) <= n
         /\ (m > 0 /\ n > 0 => F!Least(m, n) > 0)
BY DEF F!Least

(* What is not empty has a length.                                         *)
LEMMA NotEmpty ==
  ASSUME NEW S, NEW s \in Seq(S), s # <<>>
  PROVE  Len(s) \in Nat /\ Len(s) > 0
BY EmptySeq, LenProperties

(* What is read of a frame: a payload of bytes.                            *)
LEMMA PartBytes ==
  ASSUME NEW b \in Seq(F!Bytes), Len(b) > 5
  PROVE  F!Payload(SubSeq(b, 6, Len(b) - 1), b[5]) \in Seq(F!Bytes)
<1>. DEFINE part == SubSeq(b, 6, Len(b) - 1)
<1>1. Len(b) \in Nat /\ \A i \in 1..Len(b) : b[i] \in F!Bytes
  BY LenProperties, ElementOfSeq
<1>2. part \in Seq(F!Bytes)
  <2>1. \A i \in 6..Len(b) - 1 : b[i] \in F!Bytes
    BY <1>1
  <2>. QED
    BY <1>1, <2>1, SubSeqProperties
<1>. HIDE DEF part
<1>3. part # <<>> => Tail(part) \in Seq(F!Bytes)
  BY <1>2, HeadTailProperties
<1>4. F!Payload(part, b[5]) \in Seq(F!Bytes)
  BY <1>2, <1>3 DEF F!Payload, F!Decompress
<1>. QED
  BY <1>4 DEF part

(* One read of Channel.recv: it takes from what is in flight and adds to   *)
(* what it has, at most what it wants.                                     *)
LEMMA ReadTakes ==
  ASSUME F!FramingAssumption, ByteTypes, F!Read
  PROVE  \E n \in Nat, all \in Seq(F!Bytes) :
           /\ n > 0 /\ n <= want /\ n <= Len(flight)
           /\ all = have \o SubSeq(flight, 1, n) /\ Len(all) = Len(have) + n
           /\ \A i \in 1..Len(have) : all[i] = have[i]
           /\ have' = all /\ flight' = F!Drop(flight, n) /\ flight' \in Seq(F!Bytes)
           /\ Len(flight') = Len(flight) - n
           /\ all \o flight' = have \o flight
           /\ want' = IF want = n /\ Len(all) = 5 THEN F!Unpack4(all) + 1 ELSE want - n
           /\ got' = IF want = n /\ Len(all) > 5
                     THEN Append(got, F!Payload(SubSeq(all, 6, Len(all) - 1), all[5])) ELSE got
<1>. DEFINE n == F!Least(F!Least(Len(flight), MaxChunk), want)
            taken == SubSeq(flight, 1, n)
            all == have \o taken
<1>1. /\ flight \in Seq(F!Bytes) /\ have \in Seq(F!Bytes) /\ want \in Nat /\ want > 0
      /\ flight # <<>> /\ MaxChunk \in Nat /\ MaxChunk > 0
  BY DEF ByteTypes, F!FramingAssumption, F!Read, F!HeaderSize
<1>2. Len(flight) \in Nat /\ Len(flight) > 0 /\ Len(have) \in Nat
  BY <1>1, NotEmpty, LenProperties
<1>3. n \in Nat /\ n > 0 /\ n <= want /\ n <= Len(flight)
  <2>1. PICK l \in Nat : l = F!Least(Len(flight), MaxChunk) /\ l > 0 /\ l <= Len(flight)
    BY <1>1, <1>2, LeastOf
  <2>2. /\ F!Least(l, want) \in Nat /\ F!Least(l, want) <= l /\ F!Least(l, want) <= want
        /\ F!Least(l, want) > 0
    BY <1>1, <2>1, LeastOf
  <2>3. n = F!Least(l, want)
    BY <2>1
  <2>. HIDE DEF n
  <2>. QED
    BY <1>2, <2>1, <2>2, <2>3
<1>4. /\ flight' = F!Drop(flight, n) /\ have' = all
      /\ want' = IF want = n /\ Len(all) = 5 THEN F!Unpack4(all) + 1 ELSE want - n
      /\ got' = IF want = n /\ Len(all) > 5
                THEN Append(got, F!Payload(SubSeq(all, 6, Len(all) - 1), all[5])) ELSE got
  <2>1. F!HeaderSize = 5 /\ Len(F!Flusher) = 1
    BY DEF F!HeaderSize, F!Flusher
  <2>2. /\ flight' = F!Drop(flight, n) /\ have' = all
        /\ want' = IF want = n /\ Len(all) = F!HeaderSize THEN F!Unpack4(all) + Len(F!Flusher)
                   ELSE want - n
        /\ got' = IF want = n /\ Len(all) > F!HeaderSize
                  THEN Append(got, F!Payload(SubSeq(all, F!HeaderSize + 1, Len(all) - 1),
                                           all[F!HeaderSize]))
                  ELSE got
    BY DEF F!Read
  <2>. HIDE DEF n, taken
  <2>3. F!HeaderSize + 1 = 6
    BY <2>1
  <2>. QED
    BY <2>1, <2>2, <2>3, Zenon
<1>. HIDE DEF n
<1>5. /\ taken \in Seq(F!Bytes) /\ Len(taken) = n /\ taken \o F!Drop(flight, n) = flight
      /\ F!Drop(flight, n) \in Seq(F!Bytes) /\ Len(F!Drop(flight, n)) = Len(flight) - n
  <2>1. n \in 0..Len(flight)
    BY <1>2, <1>3
  <2>. QED
    BY <1>1, <2>1, TakeAndDrop, Dropped
<1>. HIDE DEF taken
<1>6. /\ all \in Seq(F!Bytes) /\ Len(all) = Len(have) + n
      /\ \A i \in 1..Len(have) : all[i] = have[i]
  <2>1. /\ all \in Seq(F!Bytes) /\ Len(all) = Len(have) + Len(taken)
        /\ \A i \in 1..Len(have) + Len(taken) :
             all[i] = IF i <= Len(have) THEN have[i] ELSE taken[i - Len(have)]
    BY <1>1, <1>5, ConcatProperties
  <2>. HIDE DEF all
  <2>. QED
    BY <1>2, <1>3, <1>5, <2>1
<1>7. all \o F!Drop(flight, n) = have \o flight
  <2>1. have \in Seq(F!Bytes) /\ taken \in Seq(F!Bytes) /\ F!Drop(flight, n) \in Seq(F!Bytes)
    BY <1>1, <1>5
  <2>2. (have \o taken) \o F!Drop(flight, n) = have \o (taken \o F!Drop(flight, n))
    BY <2>1, ConcatAssociative
  <2>. QED
    BY <1>5, <2>2
<1>. HIDE DEF all
<1>. QED
  BY <1>3, <1>4, <1>5, <1>6, <1>7 DEF all, taken

(* Every step keeps the types, whoever reads.                              *)
LEMMA BytesPreserved ==
  ASSUME F!FramingAssumption, ByteTypes, [F!Next]_(F!vars)
  PROVE  ByteTypes'
<1>. USE DEF ByteTypes
<1>0. MaxChunk \in Nat /\ MaxChunk > 5 /\ Room \in Nat
  BY DEF F!FramingAssumption, F!HeaderSize
<1>1. CASE F!Send
  <2>. DEFINE data == Encoded[todo[1]]
  <2>1. Fits(data) /\ data \in Seq(F!Bytes)
    BY <1>1 DEF F!Send, F!Sends, Fits, F!FramingAssumption
  <2>2. writes' = F!Framed(data) /\ framed' = Append(framed, data)
    BY <1>1 DEF F!Send
  <2>. HIDE DEF data
  <2>3. AtMost3(writes')
    BY <1>0, <2>1, <2>2, FramedFlat
  <2>4. Payloads(framed')
    <3>1. /\ framed' \in Seq(Seq(F!Bytes)) /\ Len(framed') = Len(framed) + 1 /\ Len(framed) \in Nat
          /\ \A i \in 1..Len(framed) : framed'[i] = framed[i]
          /\ framed'[Len(framed) + 1] = data
      BY <2>1, <2>2, AppendProperties, LenProperties DEF Payloads
    <3>2. ASSUME NEW i \in 1..Len(framed') PROVE Fits(framed'[i])
      <4>1. CASE i = Len(framed) + 1
        BY <2>1, <3>1, <4>1
      <4>2. CASE i \in 1..Len(framed)
        BY <3>1, <4>2 DEF Payloads
      <4>. QED
        BY <3>1, <4>1, <4>2
    <3>. QED
      BY <3>1, <3>2 DEF Payloads
  <2>. QED
    BY <1>1, <2>3, <2>4 DEF F!Send, F!reader
<1>2. CASE F!SendRaises
  BY <1>2 DEF F!SendRaises, F!reader
<1>3. CASE F!Write
  <2>. DEFINE most == F!Least(F!Least(Len(writes[1]), MaxChunk), Room - Len(flight))
  <2>1. writes[1] \in Seq(F!Bytes) /\ Len(writes[1]) \in Nat /\ Len(flight) \in Nat
    BY <1>3, FlatFirst, LenProperties DEF F!Write
  <2>2. most \in Nat /\ most <= Len(writes[1]) /\ most <= Room - Len(flight)
    <3>0. PICK a \in Nat, c \in Nat : a = Room /\ c = Len(flight) /\ c <= a
      BY <1>0, <2>1
    <3>1. PICK room \in Nat : room = Room - Len(flight)
      <4>1. a - c \in Nat
        BY <3>0, SMT
      <4>2. Room - Len(flight) = a - c
        BY <3>0, Zenon
      <4>. QED
        BY <4>1, <4>2, Zenon
    <3>2. PICK l \in Nat : l = F!Least(Len(writes[1]), MaxChunk) /\ l <= Len(writes[1])
      BY <1>0, <2>1, LeastOf
    <3>3. F!Least(l, room) \in Nat /\ F!Least(l, room) <= l /\ F!Least(l, room) <= room
      BY <3>1, <3>2, LeastOf
    <3>4. most = F!Least(l, room)
      BY <3>1, <3>2
    <3>. HIDE DEF most
    <3>. QED
      BY <2>1, <3>1, <3>2, <3>3, <3>4
  <2>3. PICK n \in 1..most : flight' = flight \o SubSeq(writes[1], 1, n) /\ writes' = F!Sent(n)
    BY <1>3 DEF F!Write
  <2>. HIDE DEF most
  <2>4. n \in 0..Len(writes[1]) /\ n <= Room - Len(flight)
    <3>1. n \in Nat /\ n <= most
      BY <2>2
    <3>2. PICK room \in Int : room = Room - Len(flight)
      <4>1. PICK a \in Nat, c \in Nat : a = Room /\ c = Len(flight)
        BY <1>0, <2>1
      <4>2. a - c \in Int
        BY <4>1, SMT
      <4>3. Room - Len(flight) = a - c
        BY <4>1, Zenon
      <4>. QED
        BY <4>2, <4>3, Zenon
    <3>. QED
      BY <2>1, <2>2, <3>1, <3>2
  <2>5. AtMost3(writes')
    BY <1>3, <2>3, <2>4, SentKeeps DEF F!Write, F!Sent
  <2>6. SubSeq(writes[1], 1, n) \in Seq(F!Bytes) /\ Len(SubSeq(writes[1], 1, n)) = n
    BY <2>1, <2>4, TakeAndDrop
  <2>7. flight' \in Seq(F!Bytes) /\ Len(flight') = Len(flight) + n
    BY <2>3, <2>6, ConcatProperties
  <2>8. Len(flight') <= Room
    BY <1>0, <2>1, <2>4, <2>7
  <2>. QED
    BY <1>3, <2>5, <2>7, <2>8 DEF F!Write, F!reader
<1>4. CASE F!WriteEmpty
  BY <1>4, FlatFirst DEF F!WriteEmpty, F!reader
<1>5. CASE F!WouldBlock
  <2>1. AtMost3(<<>>)
    BY EmptySeq DEF AtMost3
  <2>. QED
    BY <1>5, <2>1 DEF F!WouldBlock, F!reader
<1>6. CASE F!OwnRead
  BY <1>6 DEF F!OwnRead, F!reader
<1>7. CASE F!OnReadable
  <2>. DEFINE n == F!Least(Len(flight), MaxChunk)
              b == inbuf \o SubSeq(flight, 1, n)
  <2>1. Len(flight) \in Nat /\ n \in 0..Len(flight)
    <3>1. Len(flight) \in Nat
      BY LenProperties
    <3>2. n \in Nat /\ n <= Len(flight)
      BY <1>0, <3>1, LeastOf
    <3>. QED
      BY <3>1, <3>2
  <2>. HIDE DEF n
  <2>2. /\ SubSeq(flight, 1, n) \in Seq(F!Bytes) /\ F!Drop(flight, n) \in Seq(F!Bytes)
        /\ Len(F!Drop(flight, n)) = Len(flight) - n
    BY <2>1, TakeAndDrop, Dropped
  <2>3. b \in Seq(F!Bytes)
    BY <2>2, ConcatProperties
  <2>4. /\ flight' = F!Drop(flight, n) /\ inbuf' = F!Extract(b).rest /\ got' = got \o F!Extract(b).frames
    BY <1>7 DEF F!OnReadable, n
  <2>. HIDE DEF b
  <2>5. inbuf' \in Seq(F!Bytes) /\ got' \in Seq(Seq(F!Bytes))
    BY <2>3, <2>4, ExtractBytes, ConcatProperties
  <2>6. Len(flight') <= Room
    BY <1>0, <2>1, <2>2, <2>4
  <2>. QED
    BY <1>7, <2>2, <2>4, <2>5, <2>6 DEF F!OnReadable, F!sender
<1>8. CASE F!Serve
  BY <1>8, EmptySeq DEF F!Serve, F!sender, F!HeaderSize
<1>9. CASE F!Read
  <2>1. PICK n \in Nat, all \in Seq(F!Bytes) :
           /\ n > 0 /\ n <= want /\ n <= Len(flight)
           /\ have' = all /\ flight' \in Seq(F!Bytes) /\ Len(flight') = Len(flight) - n
           /\ want' = IF want = n /\ Len(all) = 5 THEN F!Unpack4(all) + 1 ELSE want - n
           /\ got' = IF want = n /\ Len(all) > 5
                     THEN Append(got, F!Payload(SubSeq(all, 6, Len(all) - 1), all[5])) ELSE got
    BY <1>9, ReadTakes
  <2>2. want' \in Nat
    <3>1. ASSUME Len(all) = 5 PROVE F!Unpack4(all) \in Nat
      <4>1. Len(all) >= 4
        BY <3>1
      <4>. QED
        BY <4>1, UnpackNat
    <3>. QED
      BY <2>1, <3>1
  <2>3. got' \in Seq(Seq(F!Bytes))
    <3>1. Len(all) > 5 => F!Payload(SubSeq(all, 6, Len(all) - 1), all[5]) \in Seq(F!Bytes)
      BY PartBytes
    <3>. QED
      BY <2>1, <3>1, AppendProperties
  <2>4. Len(flight') <= Room
    BY <1>0, <2>1, LenProperties
  <2>. QED
    BY <1>9, <2>1, <2>2, <2>3, <2>4 DEF F!Read, F!sender
<1>10. CASE UNCHANGED F!vars
  BY <1>10 DEF F!vars, F!sender, F!reader
<1>. QED
  BY <1>1, <1>2, <1>3, <1>4, <1>5, <1>6, <1>7, <1>8, <1>9, <1>10 DEF F!Next, F!Sending, F!Reading

(* They hold at first.                                                     *)
LEMMA BytesAtFirst ==
  ASSUME F!FramingAssumption, F!Init
  PROVE  ByteTypes
<1>1. AtMost3(<<>>) /\ Payloads(<<>>) /\ Room \in Nat
  BY EmptySeq DEF AtMost3, Payloads, F!FramingAssumption
<1>2. <<>> \in Seq(F!Bytes) /\ <<>> \in Seq(Seq(F!Bytes)) /\ Len(<<>>) = 0
  BY EmptySeq
<1>3. /\ setup \in Setups /\ flight = <<>> /\ inbuf = <<>> /\ have = <<>>
      /\ writes = <<>> /\ framed = <<>> /\ got = <<>> /\ want = 0
      /\ blocking = TRUE /\ broken = FALSE
  BY DEF F!Init
<1>4. Len(flight) <= Room
  BY <1>1, <1>2, <1>3
<1>. QED
  BY <1>1, <1>2, <1>3, <1>4 DEF ByteTypes

-----------------------------------------------------------------------------
(* What is not yet read: what the reader holds, what is in flight and what *)
(* is still to write, are frames, those of the payloads not yet read.      *)

Held   == IF want > 0 THEN have ELSE inbuf
Unread == Held \o (flight \o Flat(writes))

OneReader == setup.readers # {"loop", "serve"}

Modes == (want > 0 => "serve" \in setup.readers) /\ (inbuf # <<>> => "loop" \in setup.readers)

(* Channel.recv waits for the rest of a header, or of a frame.             *)
Receives ==
  want > 0 => want = IF Len(have) < 5 THEN 5 - Len(have) ELSE F!Total(have) - Len(have)

Arriving ==
  \E ends : /\ Laid(Unread, framed, Len(got), ends)
            /\ ~broken => ends[Len(framed)] = Len(Unread)

StreamInv ==
  ByteTypes /\ (OneReader => Modes /\ Receives /\ ReadAsSent /\ Arriving)

(* The first of two is where both begin.                                   *)
LEMMA Beginning ==
  ASSUME NEW S, NEW a \in Seq(S), NEW b \in Seq(S)
  PROVE  /\ a \o b \in Seq(S) /\ Len(a) <= Len(a \o b)
         /\ \A i \in 1..Len(a) : (a \o b)[i] = a[i]
<1>1. /\ a \o b \in Seq(S) /\ Len(a \o b) = Len(a) + Len(b)
      /\ \A i \in 1..Len(a) + Len(b) : (a \o b)[i] = IF i <= Len(a) THEN a[i] ELSE b[i - Len(a)]
  BY ConcatProperties
<1>2. Len(a) \in Nat /\ Len(b) \in Nat
  BY LenProperties
<1>. DEFINE c == a \o b
<1>. HIDE DEF c
<1>3. /\ Len(c) = Len(a) + Len(b)
      /\ \A i \in 1..Len(a) + Len(b) : c[i] = IF i <= Len(a) THEN a[i] ELSE b[i - Len(a)]
  BY <1>1 DEF c
<1>4. Len(a) <= Len(c) /\ \A i \in 1..Len(a) : c[i] = a[i]
  BY <1>2, <1>3
<1>. QED
  BY <1>1, <1>4 DEF c

(* What is unread are bytes.                                               *)
LEMMA UnreadBytes ==
  ASSUME ByteTypes
  PROVE  /\ Held \in Seq(F!Bytes) /\ flight \in Seq(F!Bytes) /\ Flat(writes) \in Seq(F!Bytes)
         /\ flight \o Flat(writes) \in Seq(F!Bytes) /\ Unread \in Seq(F!Bytes)
<1>1. Held \in Seq(F!Bytes) /\ flight \in Seq(F!Bytes) /\ Flat(writes) \in Seq(F!Bytes)
  BY FlatBytes DEF ByteTypes, Held
<1>2. flight \o Flat(writes) \in Seq(F!Bytes)
  BY <1>1, ConcatProperties
<1>. QED
  BY <1>1, <1>2, ConcatProperties DEF Unread

(* Channel.send puts a frame behind all that is unread.                    *)
LEMMA SendArriving ==
  ASSUME F!FramingAssumption, ByteTypes, ReadAsSent, Arriving, F!Send
  PROVE  ReadAsSent' /\ Arriving'
<1>. DEFINE data == Encoded[todo[1]]
<1>1. MaxChunk \in Nat /\ MaxChunk > 5
  BY DEF F!FramingAssumption, F!HeaderSize
<1>2. Fits(data)
  BY DEF F!Send, F!Sends, Fits, F!FramingAssumption
<1>3. /\ writes = <<>> /\ ~broken /\ writes' = F!Framed(data) /\ framed' = Append(framed, data)
      /\ broken' = broken /\ flight' = flight /\ inbuf' = inbuf /\ want' = want
      /\ have' = have /\ got' = got
  BY DEF F!Send, F!reader
<1>. HIDE DEF data
<1>4. Flat(writes) = <<>> /\ Flat(writes') = FrameOf(data) /\ FrameOf(data) \in Seq(F!Bytes)
  <2>1. AtMost3(writes)
    BY DEF ByteTypes
  <2>. QED
    BY <1>1, <1>2, <1>3, <2>1, FlatBytes, FramedFlat, FrameBytes
<1>5. Unread' = Unread \o FrameOf(data)
  <2>1. Held \in Seq(F!Bytes) /\ flight \in Seq(F!Bytes) /\ FrameOf(data) \in Seq(F!Bytes)
    BY <1>4, UnreadBytes
  <2>2. Unread' = Held \o (flight \o FrameOf(data))
    BY <1>3, <1>4 DEF Unread, Held
  <2>3. Unread = Held \o flight
    <3>1. flight \o <<>> = flight
      BY <2>1, ConcatEmptySeq
    <3>. QED
      BY <1>4, <3>1 DEF Unread
  <2>4. (Held \o flight) \o FrameOf(data) = Held \o (flight \o FrameOf(data))
    BY <2>1, ConcatAssociative
  <2>. QED
    BY <2>2, <2>3, <2>4
<1>6. got \in Seq(Seq(F!Bytes)) /\ Payloads(framed) /\ Len(framed) \in Nat /\ Len(got) \in Nat
  BY LenProperties DEF ByteTypes, Payloads
<1>7. Len(got) <= Len(framed) /\ \A i \in 1..Len(got) : got[i] = framed[i]
  BY DEF ReadAsSent
<1>8. PICK ends : Laid(Unread, framed, Len(got), ends) /\ Len(Unread) = ends[Len(framed)]
  BY <1>3 DEF Arriving
<1>9. PICK e : /\ Laid(Unread \o FrameOf(data), Append(framed, data), Len(got), e)
               /\ e[Len(Append(framed, data))] = Len(Unread \o FrameOf(data))
  <2>1. Unread \in Seq(F!Bytes) /\ Len(got) \in 0..Len(framed)
    BY <1>6, <1>7, UnreadBytes
  <2>. QED
    BY <1>2, <1>6, <1>8, <2>1, LaidAppend
<1>10. Arriving'
  BY <1>3, <1>5, <1>9 DEF Arriving
<1>11. ReadAsSent'
  <2>1. /\ Len(framed') = Len(framed) + 1 /\ \A i \in 1..Len(framed) : framed'[i] = framed[i]
    BY <1>2, <1>3, <1>6, AppendProperties DEF Payloads, Fits
  <2>2. Len(got) <= Len(framed') /\ \A i \in 1..Len(got) : got[i] = framed'[i]
    BY <1>6, <1>7, <2>1
  <2>. QED
    BY <1>3, <2>2 DEF ReadAsSent
<1>. QED
  BY <1>10, <1>11

(* A write that fails cuts off the end.                                    *)
LEMMA BlockArriving ==
  ASSUME ByteTypes, ReadAsSent, Arriving, F!WouldBlock
  PROVE  ReadAsSent' /\ Arriving'
<1>1. /\ writes' = <<>> /\ broken' = TRUE /\ framed' = framed
      /\ flight' = flight /\ inbuf' = inbuf /\ want' = want /\ have' = have /\ got' = got
  BY DEF F!WouldBlock, F!reader
<1>2. Held \in Seq(F!Bytes) /\ flight \in Seq(F!Bytes) /\ Flat(writes) \in Seq(F!Bytes)
      /\ Unread \in Seq(F!Bytes)
  BY UnreadBytes
<1>3. Unread' = Held \o flight
  <2>1. AtMost3(<<>>)
    BY EmptySeq DEF AtMost3
  <2>2. Flat(writes') = <<>>
    BY <1>1, <2>1, FlatBytes
  <2>3. flight \o <<>> = flight
    BY <1>2, ConcatEmptySeq
  <2>. QED
    BY <1>1, <2>2, <2>3 DEF Unread, Held
<1>4. Unread = Unread' \o Flat(writes) /\ Unread' \in Seq(F!Bytes)
  <2>1. (Held \o flight) \o Flat(writes) = Held \o (flight \o Flat(writes))
    BY <1>2, ConcatAssociative
  <2>2. Held \o flight \in Seq(F!Bytes)
    BY <1>2, ConcatProperties
  <2>. QED
    BY <1>3, <2>1, <2>2 DEF Unread
<1>5. Len(Unread') <= Len(Unread) /\ \A x \in 1..Len(Unread') : Unread'[x] = Unread[x]
  BY <1>2, <1>4, Beginning
<1>6. Payloads(framed) /\ Len(got) \in 0..Len(framed)
  <2>1. Len(got) \in Nat /\ Len(framed) \in Nat
    BY LenProperties DEF ByteTypes, Payloads
  <2>. QED
    BY <2>1 DEF ReadAsSent, ByteTypes
<1>7. PICK ends : Laid(Unread, framed, Len(got), ends)
  BY DEF Arriving
<1>8. Laid(Unread', framed, Len(got), ends)
  BY <1>2, <1>4, <1>5, <1>6, <1>7, LaidPrefix
<1>. QED
  BY <1>1, <1>8 DEF Arriving, ReadAsSent

(* What leaves the pieces comes into the flight.                           *)
LEMMA WriteSame ==
  ASSUME F!FramingAssumption, ByteTypes, F!Write \/ F!WriteEmpty
  PROVE  flight' \o Flat(writes') = flight \o Flat(writes)
<1>. DEFINE w == writes[1]
<1>1. AtMost3(writes) /\ writes # <<>> /\ flight \in Seq(F!Bytes)
  BY DEF ByteTypes, F!Write, F!WriteEmpty
<1>2. w \in Seq(F!Bytes) /\ AtMost3(Tail(writes)) /\ Flat(writes) = w \o Flat(Tail(writes))
  BY <1>1, FlatFirst
<1>3. Flat(Tail(writes)) \in Seq(F!Bytes)
  BY <1>2, FlatBytes
<1>4. CASE F!Write
  <2>. DEFINE most == F!Least(F!Least(Len(w), MaxChunk), Room - Len(flight))
  <2>1. PICK n \in 1..most : flight' = flight \o SubSeq(w, 1, n) /\ writes' = F!Sent(n)
    BY <1>4 DEF F!Write
  <2>2. n \in 0..Len(w)
    <3>1. Len(w) \in Nat /\ Len(flight) \in Nat
      BY <1>1, <1>2, LenProperties
    <3>2. MaxChunk \in Nat /\ Room \in Nat
      BY DEF F!FramingAssumption
    <3>3. PICK a \in Nat, c \in Nat : a = Room /\ c = Len(flight) /\ c <= a
      BY <3>1, <3>2 DEF ByteTypes
    <3>4. PICK room \in Nat : room = Room - Len(flight)
      <4>1. a - c \in Nat
        BY <3>3, SMT
      <4>2. Room - Len(flight) = a - c
        BY <3>3, Zenon
      <4>. QED
        BY <4>1, <4>2, Zenon
    <3>5. PICK l \in Nat : l = F!Least(Len(w), MaxChunk) /\ l <= Len(w)
      BY <3>1, <3>2, LeastOf
    <3>6. F!Least(l, room) \in Nat /\ F!Least(l, room) <= l
      BY <3>4, <3>5, LeastOf
    <3>7. most = F!Least(l, room)
      BY <3>4, <3>5
    <3>. HIDE DEF most, w
    <3>. QED
      BY <3>1, <3>5, <3>6, <3>7
  <2>3. /\ SubSeq(w, 1, n) \in Seq(F!Bytes) /\ AtMost3(writes')
        /\ Flat(writes) = SubSeq(w, 1, n) \o Flat(writes')
    BY <1>1, <1>2, <2>1, <2>2, SentKeeps, TakeAndDrop DEF F!Sent
  <2>. DEFINE taken == SubSeq(w, 1, n)
              later == Flat(writes')
  <2>4. taken \in Seq(F!Bytes) /\ later \in Seq(F!Bytes) /\ flight \in Seq(F!Bytes)
    BY <1>1, <2>3, FlatBytes
  <2>5. flight' = flight \o taken /\ Flat(writes) = taken \o later
    BY <2>1, <2>3
  <2>. HIDE DEF taken, later
  <2>6. (flight \o taken) \o later = flight \o (taken \o later)
    BY <2>4, ConcatAssociative
  <2>. QED
    BY <2>5, <2>6 DEF later
<1>5. CASE F!WriteEmpty
  <2>1. w = <<>> /\ writes' = Tail(writes) /\ flight' = flight
    BY <1>5 DEF F!WriteEmpty
  <2>2. <<>> \o Flat(Tail(writes)) = Flat(Tail(writes))
    BY <1>3, ConcatEmptySeq
  <2>. QED
    BY <1>2, <2>1, <2>2
<1>. QED
  BY <1>4, <1>5

(* Only one of the two readers has anything.                               *)
LEMMA NeverBoth ==
  ASSUME F!FramingAssumption, ByteTypes, OneReader
  PROVE  ~("loop" \in setup.readers /\ "serve" \in setup.readers)
<1>1. setup.readers \in SUBSET {"loop", "serve"}
  BY DEF F!FramingAssumption, ByteTypes
<1>. QED
  BY <1>1 DEF OneReader

(* What agrees on the first four bytes agrees on the length.               *)
LEMMA SameTotal ==
  ASSUME NEW b, NEW c, \A i \in 1..4 : b[i] = c[i]
  PROVE  F!Unpack4(b) = F!Unpack4(c) /\ F!Total(b) = F!Total(c)
<1>1. b[1] = c[1] /\ b[2] = c[2] /\ b[3] = c[3] /\ b[4] = c[4]
  OBVIOUS
<1>2. F!Unpack4(b) = F!Unpack4(c)
  BY <1>1, Zenon DEF F!Unpack4
<1>. QED
  BY <1>2, Zenon DEF F!Total

(* Whole frames are taken off the beginning of what is unread, and their   *)
(* payloads are the next ones.                                             *)
LEMMA TakenOff ==
  ASSUME ByteTypes, ReadAsSent, NEW ends, Laid(Unread, framed, Len(got), ends),
         ~broken => ends[Len(framed)] = Len(Unread),
         NEW j \in Len(got)..Len(framed), ends[j] <= Len(Unread),
         framed' = framed, broken' = broken, got' = got \o SubSeq(framed, Len(got) + 1, j),
         Unread' = F!Drop(Unread, ends[j])
  PROVE  ReadAsSent' /\ Arriving'
<1>. DEFINE k == Len(got)
            m == Len(framed)
            more == SubSeq(framed, k + 1, j)
<1>1. k \in Nat /\ m \in Nat /\ k <= m /\ j \in k..m /\ got \in Seq(Seq(F!Bytes))
      /\ framed \in Seq(Seq(F!Bytes)) /\ Payloads(framed)
  BY LenProperties DEF ByteTypes, Payloads, ReadAsSent
<1>2. Unread \in Seq(F!Bytes) /\ Len(Unread) \in Nat
  BY UnreadBytes, LenProperties
<1>. HIDE DEF k, m
<1>3. /\ more \in Seq(Seq(F!Bytes)) /\ Len(more) = j - k
      /\ \A i \in 1..j - k : more[i] = framed[k + i]
  <2>1. \A i \in 1..m : framed[i] \in Seq(F!Bytes)
    BY <1>1, ElementOfSeq DEF m
  <2>2. \A i \in k + 1..j : framed[i] \in Seq(F!Bytes)
    BY <1>1, <2>1
  <2>3. /\ more \in Seq(Seq(F!Bytes))
        /\ Len(more) = IF k + 1 <= j THEN j - (k + 1) + 1 ELSE 0
        /\ \A i \in 1..j - (k + 1) + 1 : more[i] = framed[k + 1 + i - 1]
    BY <1>1, <2>2, SubSeqProperties
  <2>. HIDE DEF more
  <2>4. j - (k + 1) + 1 = j - k /\ Len(more) = j - k
    BY <1>1, <2>3
  <2>5. ASSUME NEW i \in 1..j - k PROVE more[i] = framed[k + i]
    <3>1. k + 1 + i - 1 = k + i
      BY <1>1
    <3>. QED
      BY <2>3, <2>4, <3>1
  <2>. QED
    BY <2>3, <2>4, <2>5
<1>4. got' = got \o more
  BY DEF k
<1>. HIDE DEF more
<1>5. /\ Len(got') = j /\ \A i \in 1..j : got'[i] = framed[i]
  <2>1. /\ Len(got \o more) = k + Len(more)
        /\ \A i \in 1..k + Len(more) : (got \o more)[i] = IF i <= k THEN got[i] ELSE more[i - k]
    <3>1. got \in Seq(Seq(F!Bytes)) /\ more \in Seq(Seq(F!Bytes))
      BY <1>1, <1>3
    <3>2. /\ Len(got \o more) = Len(got) + Len(more)
          /\ \A i \in 1..Len(got) + Len(more) :
               (got \o more)[i] = IF i <= Len(got) THEN got[i] ELSE more[i - Len(got)]
      BY <3>1, ConcatProperties
    <3>. QED
      BY <3>2 DEF k
  <2>2. \A i \in 1..k : got[i] = framed[i]
    BY DEF ReadAsSent, k
  <2>3. k + Len(more) = j
    BY <1>1, <1>3
  <2>4. ASSUME NEW i \in 1..j PROVE got'[i] = framed[i]
    <3>1. CASE i <= k
      <4>1. i \in 1..k /\ i \in 1..k + Len(more)
        BY <1>1, <2>3, <3>1
      <4>2. (got \o more)[i] = got[i]
        BY <2>1, <3>1, <4>1
      <4>. QED
        BY <1>4, <2>2, <4>1, <4>2
    <3>2. CASE ~(i <= k)
      <4>1. i - k \in 1..j - k /\ k + (i - k) = i
        BY <1>1, <3>2
      <4>2. more[i - k] = framed[i]
        BY <1>3, <4>1
      <4>. QED
        BY <1>4, <2>1, <2>3, <3>2, <4>2
    <3>. QED
      BY <3>1, <3>2
  <2>. QED
    BY <1>4, <2>1, <2>3, <2>4
<1>6. ReadAsSent'
  <2>1. framed' = framed /\ j <= Len(framed)
    BY <1>1 DEF m
  <2>. QED
    BY <1>5, <2>1 DEF ReadAsSent
<1>7. PICK e : Laid(F!Drop(Unread, ends[j]), framed, j, e) /\ e[m] = ends[m] - ends[j]
  <2>1. k \in 0..m
    BY <1>1
  <2>. QED
    BY <1>1, <1>2, <2>1, LaidDrop DEF k, m
<1>8. ASSUME ~broken PROVE e[m] = Len(Unread')
  <2>1. ends[m] = Len(Unread)
    BY <1>8 DEF m
  <2>2. ends[j] \in 0..Len(Unread)
    <3>1. ends \in [k..m -> Nat]
      BY DEF Laid, k, m
    <3>. QED
      BY <1>1, <1>2, <3>1
  <2>3. Len(F!Drop(Unread, ends[j])) = Len(Unread) - ends[j]
    BY <1>2, <2>2, Dropped
  <2>. QED
    BY <1>7, <2>1, <2>3
<1>9. Arriving'
  BY <1>5, <1>7, <1>8 DEF Arriving, m
<1>. QED
  BY <1>6, <1>9

(* on_readable takes the whole frames off.                                 *)
LEMMA LoopArriving ==
  ASSUME F!FramingAssumption, ByteTypes, OneReader, ReadAsSent, Arriving, F!OnReadable
  PROVE  ReadAsSent' /\ Arriving'
<1>. DEFINE n == F!Least(Len(flight), MaxChunk)
            taken == SubSeq(flight, 1, n)
            later == F!Drop(flight, n)
            b == inbuf \o taken
            tail == later \o Flat(writes)
<1>1. /\ want = 0 /\ want' = 0 /\ framed' = framed /\ broken' = broken /\ writes' = writes
      /\ flight' = later /\ inbuf' = F!Extract(b).rest /\ got' = got \o F!Extract(b).frames
  BY DEF F!OnReadable, F!sender
<1>2. inbuf \in Seq(F!Bytes) /\ flight \in Seq(F!Bytes) /\ Flat(writes) \in Seq(F!Bytes)
      /\ Unread \in Seq(F!Bytes)
  BY UnreadBytes DEF ByteTypes
<1>3. n \in 0..Len(flight)
  <2>1. Len(flight) \in Nat /\ MaxChunk \in Nat
    BY <1>2, LenProperties DEF F!FramingAssumption
  <2>2. n \in Nat /\ n <= Len(flight)
    BY <2>1, LeastOf
  <2>. QED
    BY <2>1, <2>2
<1>. HIDE DEF n
<1>4. taken \in Seq(F!Bytes) /\ later \in Seq(F!Bytes) /\ taken \o later = flight
  BY <1>2, <1>3, TakeAndDrop, Dropped
<1>. HIDE DEF taken, later
<1>5. b \in Seq(F!Bytes) /\ tail \in Seq(F!Bytes)
  BY <1>2, <1>4, ConcatProperties
<1>6. Unread = b \o tail
  <2>1. inbuf \in Seq(F!Bytes) /\ taken \in Seq(F!Bytes) /\ tail \in Seq(F!Bytes)
    BY <1>2, <1>4, <1>5
  <2>2. taken \in Seq(F!Bytes) /\ later \in Seq(F!Bytes) /\ Flat(writes) \in Seq(F!Bytes)
    BY <1>2, <1>4
  <2>3. (taken \o later) \o Flat(writes) = taken \o (later \o Flat(writes))
    BY <2>2, ConcatAssociative
  <2>. HIDE DEF tail
  <2>4. (inbuf \o taken) \o tail = inbuf \o (taken \o tail)
    BY <2>1, ConcatAssociative
  <2>5. Unread = inbuf \o (flight \o Flat(writes))
    BY <1>1 DEF Unread, Held
  <2>6. taken \o tail = flight \o Flat(writes)
    BY <1>4, <2>3 DEF tail
  <2>. QED
    BY <2>4, <2>5, <2>6
<1>7. Unread' = inbuf' \o tail
  BY <1>1 DEF Unread, Held
<1>. HIDE DEF b, tail
<1>8. Len(b) <= Len(Unread) /\ \A i \in 1..Len(b) : b[i] = Unread[i]
  BY <1>5, <1>6, Beginning
<1>9. PICK ends : /\ Laid(Unread, framed, Len(got), ends)
                  /\ ~broken => ends[Len(framed)] = Len(Unread)
  BY DEF Arriving
<1>10. Payloads(framed) /\ Len(got) \in 0..Len(framed)
  <2>1. Len(got) \in Nat /\ Len(framed) \in Nat
    BY LenProperties DEF ByteTypes, Payloads
  <2>. QED
    BY <2>1 DEF ReadAsSent, ByteTypes
<1>11. Laid(b, framed, Len(got), ends)
  BY <1>2, <1>5, <1>8, <1>9, <1>10, LaidPrefix
<1>12. PICK j \in Len(got)..Len(framed) :
         /\ ends[j] <= Len(b) /\ F!Extract(b).frames = SubSeq(framed, Len(got) + 1, j)
         /\ F!Extract(b).rest = F!Drop(b, ends[j])
  <2>1. PICK k \in 0..Len(framed) : k = Len(got) /\ Laid(b, framed, k, ends)
    BY <1>10, <1>11
  <2>2. b \in Seq(F!Bytes) /\ Payloads(framed)
    BY <1>5, <1>10
  <2>3. \E j \in k..Len(framed) :
          /\ ends[j] <= Len(b)
          /\ F!Extract(b).frames = SubSeq(framed, k + 1, j)
          /\ F!Extract(b).rest = F!Drop(b, ends[j])
    <3>1. \A i \in 0..Len(framed) : Laid(b, framed, i, ends) =>
            \E j \in i..Len(framed) :
              /\ ends[j] <= Len(b)
              /\ F!Extract(b).frames = SubSeq(framed, i + 1, j)
              /\ F!Extract(b).rest = F!Drop(b, ends[j])
      BY <2>2, ExtractLaid
    <3>. QED
      BY <2>1, <3>1
  <2>. QED
    BY <2>1, <2>3
<1>13. ends[j] \in 0..Len(b) /\ ends[j] <= Len(Unread)
  <2>1. ends \in [Len(got)..Len(framed) -> Nat]
    BY <1>11 DEF Laid
  <2>2. Len(b) \in Nat /\ Len(Unread) \in Nat
    BY <1>2, <1>5, LenProperties
  <2>. QED
    BY <1>8, <1>12, <2>1, <2>2
<1>14. Unread' = F!Drop(Unread, ends[j])
  <2>1. F!Drop(b \o tail, ends[j]) = F!Drop(b, ends[j]) \o tail
    BY <1>5, <1>13, DropConcat
  <2>. QED
    BY <1>1, <1>6, <1>7, <1>12, <2>1, Zenon
<1>. QED
  BY <1>1, <1>9, <1>12, <1>13, <1>14, TakenOff

(* A read of Channel.recv goes on with the frame, or completes it.         *)
LEMMA RecvArriving ==
  ASSUME F!FramingAssumption, ByteTypes, OneReader, Modes, Receives, ReadAsSent, Arriving, F!Read
  PROVE  Receives' /\ ReadAsSent' /\ Arriving'
<1>1. PICK n \in Nat, all \in Seq(F!Bytes) :
           /\ n > 0 /\ n <= want /\ n <= Len(flight)
           /\ all = have \o SubSeq(flight, 1, n) /\ Len(all) = Len(have) + n
           /\ \A i \in 1..Len(have) : all[i] = have[i]
           /\ have' = all /\ flight' = F!Drop(flight, n) /\ flight' \in Seq(F!Bytes)
           /\ Len(flight') = Len(flight) - n
           /\ all \o flight' = have \o flight
           /\ want' = IF want = n /\ Len(all) = 5 THEN F!Unpack4(all) + 1 ELSE want - n
           /\ got' = IF want = n /\ Len(all) > 5
                     THEN Append(got, F!Payload(SubSeq(all, 6, Len(all) - 1), all[5])) ELSE got
  BY ReadTakes
<1>2. /\ want \in Nat /\ want > 0 /\ have \in Seq(F!Bytes) /\ flight \in Seq(F!Bytes)
      /\ Len(have) \in Nat /\ Len(all) \in Nat /\ Flat(writes) \in Seq(F!Bytes)
      /\ Unread \in Seq(F!Bytes)
  BY UnreadBytes, LenProperties DEF ByteTypes, F!Read
<1>3. /\ framed' = framed /\ broken' = broken /\ writes' = writes /\ inbuf' = inbuf
  BY DEF F!Read, F!sender
<1>4. inbuf = <<>>
  BY <1>2, NeverBoth DEF Modes
<1>. DEFINE tail == flight' \o Flat(writes)
<1>5. tail \in Seq(F!Bytes) /\ Unread = all \o tail
  <2>1. all \in Seq(F!Bytes) /\ flight' \in Seq(F!Bytes) /\ Flat(writes) \in Seq(F!Bytes)
    BY <1>1, <1>2
  <2>2. (all \o flight') \o Flat(writes) = all \o (flight' \o Flat(writes))
    BY <2>1, ConcatAssociative
  <2>3. (have \o flight) \o Flat(writes) = have \o (flight \o Flat(writes))
    <3>1. have \in Seq(F!Bytes) /\ flight \in Seq(F!Bytes) /\ Flat(writes) \in Seq(F!Bytes)
      BY <1>2
    <3>. QED
      BY <3>1, ConcatAssociative
  <2>4. Unread = have \o (flight \o Flat(writes))
    BY <1>2 DEF Unread, Held
  <2>5. tail \in Seq(F!Bytes)
    BY <2>1, ConcatProperties
  <2>. QED
    BY <1>1, <2>2, <2>3, <2>4, <2>5
<1>6. Unread' = IF want' > 0 THEN all \o tail ELSE <<>> \o tail
  BY <1>1, <1>3, <1>4 DEF Unread, Held
<1>. HIDE DEF tail
<1>7. want = IF Len(have) < 5 THEN 5 - Len(have) ELSE F!Total(have) - Len(have)
  BY <1>2 DEF Receives
<1>8. ASSUME Len(have) >= 5
      PROVE  /\ F!Total(have) = F!Total(all) /\ F!Total(all) = F!Unpack4(all) + 6
             /\ F!Unpack4(all) \in Nat
  <2>1. \A i \in 1..4 : have[i] = all[i]
    BY <1>1, <1>2, <1>8
  <2>2. Len(all) >= 4
    BY <1>1, <1>2, <1>8
  <2>3. F!Unpack4(all) \in Nat
    BY <1>1, <2>2, UnpackNat
  <2>4. F!Total(all) = F!Unpack4(all) + 6
    BY <2>3 DEF F!Total, F!HeaderSize, F!Flusher
  <2>. QED
    BY <2>1, <2>3, <2>4, SameTotal
<1>9. CASE want = n /\ Len(all) > 5
  <2>1. Len(have) >= 5
    BY <1>1, <1>2, <1>7, <1>9
  <2>2. Len(all) = F!Total(all) /\ Len(all) >= 5
    <3>1. F!Total(have) = F!Total(all) /\ F!Total(all) \in Nat
      <4>1. /\ F!Total(have) = F!Total(all) /\ F!Total(all) = F!Unpack4(all) + 6
            /\ F!Unpack4(all) \in Nat
        BY <1>8, <2>1
      <4>. QED
        BY <4>1
    <3>2. want = F!Total(have) - Len(have)
      BY <1>2, <1>7, <2>1
    <3>3. Len(all) = Len(have) + want
      BY <1>1, <1>9
    <3>4. PICK t \in Nat, h \in Nat, a \in Nat : t = F!Total(all) /\ h = Len(have) /\ a = Len(all)
      BY <1>2, <3>1
    <3>5. a = h + (t - h)
      BY <3>1, <3>2, <3>3, <3>4, Zenon
    <3>6. a = t
      BY <3>5
    <3>. QED
      BY <1>9, <3>4, <3>6
  <2>3. want' = 0 /\ got' = Append(got, F!Payload(SubSeq(all, 6, Len(all) - 1), all[5]))
    <3>1. want' = IF want = n /\ Len(all) = 5 THEN F!Unpack4(all) + 1 ELSE want - n
      BY <1>1
    <3>2. got' = IF want = n /\ Len(all) > 5
                 THEN Append(got, F!Payload(SubSeq(all, 6, Len(all) - 1), all[5])) ELSE got
      BY <1>1
    <3>3. Len(all) # 5 /\ want - n = 0
      <4>1. PICK a \in Nat, w \in Nat : a = Len(all) /\ w = want /\ w = n /\ a > 5
        BY <1>2, <1>9
      <4>2. \A y \in Nat : y - y = 0
        OBVIOUS
      <4>3. \A y \in Nat : y > 5 => y # 5
        OBVIOUS
      <4>. QED
        BY <4>1, <4>2, <4>3, Zenon
    <3>. QED
      BY <1>9, <3>1, <3>2, <3>3, Zenon
  <2>4. F!First(all) = F!Payload(SubSeq(all, 6, Len(all) - 1), all[5])
    <3>1. F!HeaderSize = 5 /\ Len(F!Flusher) = 1
      BY DEF F!HeaderSize, F!Flusher
    <3>2. F!HeaderSize + 1 = 6
      BY <3>1
    <3>. QED
      BY <2>2, <3>1, <3>2, Zenon DEF F!First
  <2>5. PICK ends : /\ Laid(Unread, framed, Len(got), ends)
                    /\ ~broken => ends[Len(framed)] = Len(Unread)
    BY DEF Arriving
  <2>6. /\ Payloads(framed) /\ Len(got) \in 0..Len(framed)
        /\ Len(got) \in Nat /\ Len(framed) \in Nat
    <3>1. Len(got) \in Nat /\ Len(framed) \in Nat
      BY LenProperties DEF ByteTypes, Payloads
    <3>. QED
      BY <3>1 DEF ReadAsSent, ByteTypes
  <2>7. Len(all) <= Len(Unread) /\ \A i \in 1..Len(all) : all[i] = Unread[i]
    BY <1>1, <1>5, Beginning
  <2>8. Laid(all, framed, Len(got), ends)
    BY <1>1, <1>2, <2>5, <2>6, <2>7, LaidPrefix
  <2>9. /\ Len(got) < Len(framed) /\ F!Total(all) = ends[Len(got) + 1]
        /\ F!First(all) = framed[Len(got) + 1]
    <3>1. Len(all) >= F!Total(all)
      BY <1>2, <2>2
    <3>2. /\ Len(got) < Len(framed) /\ F!Total(all) = ends[Len(got) + 1]
          /\ Len(all) >= F!Total(all) => F!First(all) = framed[Len(got) + 1]
      <4>1. PICK k \in 0..Len(framed) : k = Len(got) /\ Laid(all, framed, k, ends)
        BY <2>6, <2>8
      <4>2. Payloads(framed) /\ Len(all) >= 5
        BY <2>2, <2>6
      <4>3. /\ k < Len(framed) /\ F!Total(all) = ends[k + 1]
            /\ Len(all) >= F!Total(all) => F!First(all) = framed[k + 1]
        BY <4>1, <4>2, LaidFrame
      <4>. QED
        BY <4>1, <4>3, Zenon
    <3>. QED
      BY <3>1, <3>2
  <2>10. PICK j \in Len(got)..Len(framed) : j = Len(got) + 1
    BY <2>6, <2>9
  <2>11. got' = got \o SubSeq(framed, Len(got) + 1, j)
    <3>1. got \in Seq(Seq(F!Bytes)) /\ framed[j] \in Seq(F!Bytes) /\ framed \in Seq(Seq(F!Bytes))
      <4>1. framed \in Seq(Seq(F!Bytes)) /\ j \in 1..Len(framed)
        BY <2>6, <2>10 DEF Payloads
      <4>. QED
        BY <4>1, ElementOfSeq DEF ByteTypes
    <3>2. got' = Append(got, framed[j])
      BY <2>3, <2>4, <2>9, <2>10
    <3>3. Append(got, framed[j]) = got \o <<framed[j]>>
      BY <3>1, AppendIsConcat
    <3>4. SubSeq(framed, j, j) = <<framed[j]>>
      <4>1. j \in 1..Len(framed) /\ j \in j..Len(framed)
        BY <2>6, <2>10
      <4>2. SubSeq(framed, j, j) = <<framed[j]>> \o SubSeq(framed, j + 1, j)
        BY <3>1, <4>1, SubSeqRecursiveFirst
      <4>3. SubSeq(framed, j + 1, j) = <<>>
        BY <4>1, SubSeqEmpty
      <4>4. <<framed[j]>> \in Seq(Seq(F!Bytes))
        BY <3>1
      <4>. QED
        BY <4>2, <4>3, <4>4, ConcatEmptySeq
    <3>. QED
      BY <2>10, <3>2, <3>3, <3>4
  <2>12. Unread' = F!Drop(Unread, ends[j])
    <3>1. Unread' = tail
      BY <1>5, <1>6, <2>3, ConcatEmptySeq
    <3>2. ends[j] = Len(all)
      BY <2>2, <2>9, <2>10
    <3>3. F!Drop(all \o tail, Len(all)) = F!Drop(all, Len(all)) \o tail
      <4>1. Len(all) \in 0..Len(all)
        BY <1>2
      <4>. QED
        BY <1>1, <1>5, <4>1, DropConcat
    <3>4. F!Drop(all, Len(all)) = <<>>
      BY <1>2, SubSeqEmpty DEF F!Drop
    <3>5. <<>> \o tail = tail
      BY <1>5, ConcatEmptySeq
    <3>. QED
      BY <1>5, <3>1, <3>2, <3>3, <3>4, <3>5
  <2>13. ends[j] <= Len(Unread)
    BY <2>2, <2>7, <2>9, <2>10
  <2>14. ReadAsSent' /\ Arriving'
    BY <1>3, <2>5, <2>11, <2>12, <2>13, TakenOff
  <2>. QED
    BY <2>3, <2>14 DEF Receives
<1>10. CASE ~(want = n /\ Len(all) > 5)
  <2>1. want' > 0 /\ Receives'
    <3>1. CASE want = n
      <4>1. Len(all) = 5
        BY <1>1, <1>2, <1>7, <1>8, <1>10, <3>1
      <4>2. F!Unpack4(all) \in Nat
        <5>1. Len(all) >= 4
          BY <4>1
        <5>. QED
          BY <5>1, UnpackNat
      <4>3. F!Total(all) = F!Unpack4(all) + 6
        BY <4>2 DEF F!Total, F!HeaderSize, F!Flusher
      <4>4. want' = F!Unpack4(all) + 1 /\ have' = all
        BY <1>1, <3>1, <4>1
      <4>5. want' = IF Len(have') < 5 THEN 5 - Len(have') ELSE F!Total(have') - Len(have')
        <5>1. PICK u \in Nat : u = F!Unpack4(all)
          BY <4>2
        <5>2. want' = u + 1 /\ F!Total(have') = u + 6 /\ Len(have') = 5
          BY <4>1, <4>3, <4>4, <5>1, Zenon
        <5>3. u + 1 = (u + 6) - 5 /\ ~(5 < 5)
          OBVIOUS
        <5>. QED
          BY <5>2, <5>3, Zenon
      <4>. QED
        BY <4>2, <4>4, <4>5 DEF Receives
    <3>2. CASE want # n
      <4>1. want' = want - n /\ have' = all
        BY <1>1, <3>2
      <4>2. want - n = IF Len(all) < 5 THEN 5 - Len(all) ELSE F!Total(all) - Len(all)
        <5>1. CASE Len(have) < 5
          BY <1>1, <1>2, <1>7, <3>2, <5>1
        <5>2. CASE Len(have) >= 5
          BY <1>1, <1>2, <1>7, <1>8, <3>2, <5>2
        <5>. QED
          BY <1>2, <5>1, <5>2
      <4>3. want' = IF Len(have') < 5 THEN 5 - Len(have') ELSE F!Total(have') - Len(have')
        BY <4>1, <4>2
      <4>. QED
        BY <1>1, <1>2, <3>2, <4>1, <4>3 DEF Receives
    <3>. QED
      BY <3>1, <3>2
  <2>2. Unread' = Unread /\ got' = got
    BY <1>1, <1>5, <1>6, <1>10, <2>1
  <2>. QED
    BY <1>3, <2>1, <2>2 DEF Arriving, ReadAsSent
<1>. QED
  BY <1>9, <1>10

(* Nothing changes of what is read and what is not.                        *)
LEMMA SameArriving ==
  ASSUME ReadAsSent, Arriving, Unread' = Unread,
         framed' = framed, got' = got, broken' = broken
  PROVE  ReadAsSent' /\ Arriving'
BY DEF ReadAsSent, Arriving

(* One case for every operation; only those that read can disturb what the *)
(* reader holds.                                                           *)
LEMMA StreamPreserved ==
  ASSUME F!FramingAssumption, StreamInv, [F!Next]_(F!vars)
  PROVE  StreamInv'
<1>1. ByteTypes /\ ByteTypes'
  BY BytesPreserved DEF StreamInv
<1>2. setup' = setup
  BY DEF F!Next, F!Sending, F!Reading, F!Send, F!SendRaises, F!Write, F!WriteEmpty, F!WouldBlock,
         F!OwnRead, F!OnReadable, F!Serve, F!Read, F!vars
<1>. SUFFICES ASSUME OneReader PROVE (Modes /\ Receives /\ ReadAsSent /\ Arriving)'
  BY <1>1, <1>2 DEF StreamInv, OneReader
<1>3. Modes /\ Receives /\ ReadAsSent /\ Arriving
  BY DEF StreamInv
<1>4. ASSUME UNCHANGED F!reader PROVE Modes' /\ Receives' /\ Held' = Held /\ got' = got
  BY <1>2, <1>3, <1>4 DEF F!reader, Modes, Receives, Held
<1>5. CASE F!Send
  <2>1. UNCHANGED F!reader
    BY <1>5 DEF F!Send
  <2>. QED
    BY <1>1, <1>3, <1>4, <1>5, <2>1, SendArriving
<1>6. CASE F!SendRaises \/ F!OwnRead \/ UNCHANGED F!vars
  <2>1. UNCHANGED F!reader
    BY <1>6 DEF F!SendRaises, F!OwnRead, F!vars
  <2>2. UNCHANGED <<writes, framed, broken, flight>>
    BY <1>6 DEF F!SendRaises, F!OwnRead, F!vars, F!sender
  <2>3. Unread' = Unread
    BY <1>4, <2>1, <2>2 DEF Unread
  <2>. QED
    BY <1>3, <1>4, <2>1, <2>2, <2>3, SameArriving
<1>7. CASE F!Write \/ F!WriteEmpty
  <2>1. UNCHANGED F!reader /\ UNCHANGED <<framed, broken>>
    BY <1>7 DEF F!Write, F!WriteEmpty
  <2>2. Unread' = Unread
    BY <1>1, <1>4, <1>7, <2>1, WriteSame DEF Unread
  <2>. QED
    BY <1>3, <1>4, <2>1, <2>2, SameArriving
<1>8. CASE F!WouldBlock
  <2>1. UNCHANGED F!reader
    BY <1>8 DEF F!WouldBlock
  <2>. QED
    BY <1>1, <1>3, <1>4, <1>8, <2>1, BlockArriving
<1>9. CASE F!OnReadable
  <2>1. "loop" \in setup.readers /\ want = 0 /\ want' = 0
    BY <1>9 DEF F!OnReadable
  <2>2. Modes' /\ Receives'
    BY <1>2, <2>1 DEF Modes, Receives
  <2>. QED
    BY <1>1, <1>3, <1>9, <2>2, LoopArriving
<1>10. CASE F!Serve
  <2>1. /\ "serve" \in setup.readers /\ want = 0 /\ want' = 5 /\ have' = <<>> /\ inbuf' = inbuf
        /\ got' = got /\ flight' = flight
    BY <1>10 DEF F!Serve, F!HeaderSize
  <2>2. UNCHANGED <<writes, framed, broken>>
    BY <1>10 DEF F!Serve, F!sender
  <2>3. inbuf = <<>>
    BY <1>1, <1>3, <2>1, NeverBoth DEF Modes
  <2>4. Modes'
    BY <1>2, <2>1, <2>3 DEF Modes
  <2>5. Receives'
    <3>1. Len(have') = 0
      BY <2>1, EmptySeq
    <3>. QED
      BY <2>1, <3>1 DEF Receives
  <2>6. Unread' = Unread
    BY <2>1, <2>2, <2>3 DEF Unread, Held
  <2>. QED
    BY <1>3, <2>1, <2>2, <2>4, <2>5, <2>6, SameArriving
<1>11. CASE F!Read
  <2>1. want > 0 /\ inbuf' = inbuf
    BY <1>11 DEF F!Read
  <2>2. Modes'
    BY <1>2, <1>3, <2>1 DEF Modes
  <2>. QED
    BY <1>1, <1>3, <1>11, <2>2, RecvArriving
<1>. QED
  BY <1>5, <1>6, <1>7, <1>8, <1>9, <1>10, <1>11 DEF F!Next, F!Sending, F!Reading

(* Nothing is unread at first.                                             *)
LEMMA StreamAtFirst ==
  ASSUME F!FramingAssumption, F!Init
  PROVE  StreamInv
<1>1. ByteTypes
  BY BytesAtFirst
<1>2. /\ writes = <<>> /\ framed = <<>> /\ flight = <<>> /\ inbuf = <<>>
      /\ want = 0 /\ have = <<>> /\ got = <<>>
  BY DEF F!Init
<1>3. <<>> \in Seq(F!Bytes) /\ <<>> \in Seq(Seq(F!Bytes)) /\ Len(<<>>) = 0
  BY EmptySeq
<1>4. Unread = <<>>
  <2>1. AtMost3(writes)
    BY <1>1 DEF ByteTypes
  <2>2. Flat(writes) = <<>>
    BY <1>2, <2>1, FlatBytes
  <2>3. <<>> \o <<>> = <<>>
    BY <1>3, ConcatEmptySeq
  <2>4. Held = <<>>
    BY <1>2 DEF Held
  <2>. QED
    BY <1>2, <2>2, <2>3, <2>4 DEF Unread
<1>5. Arriving
  <2>. DEFINE ends == [i \in {0} |-> 0]
  <2>1. ends \in [0..0 -> Nat] /\ ends[0] = 0
    BY SMT
  <2>2. 0 + 1..0 = {}
    BY SMT
  <2>. HIDE DEF ends
  <2>3. \A i, j \in 0..0 : ends[i] <= ends[j]
    BY <2>1
  <2>4. Laid(<<>>, <<>>, 0, ends)
    BY <1>3, <2>1, <2>2, <2>3 DEF Laid
  <2>. QED
    BY <1>2, <1>3, <1>4, <2>1, <2>4 DEF Arriving
<1>6. ReadAsSent /\ Modes /\ Receives
  BY <1>2, <1>3 DEF ReadAsSent, Modes, Receives
<1>. QED
  BY <1>1, <1>5, <1>6 DEF StreamInv

(* All of it together is an invariant.                                     *)
THEOREM StreamInvariant ==
  ASSUME F!FramingAssumption
  PROVE  F!Spec => []StreamInv
<1>1. F!Init => StreamInv
  BY StreamAtFirst
<1>2. StreamInv /\ [F!Next]_(F!vars) => StreamInv'
  BY StreamPreserved
<1>. QED
  BY <1>1, <1>2, PTL DEF F!Spec

(* The bytes are in their ranges, whoever reads.                           *)
THEOREM StreamTypeCorrect ==
  ASSUME F!FramingAssumption
  PROVE  F!Spec => []F!TypeOK
<1>1. StreamInv => F!TypeOK
  BY BytesTyped DEF StreamInv
<1>. QED
  BY <1>1, StreamInvariant, PTL

(* While there is one reader, what it reads are the payloads sent, whole   *)
(* and in order: for all payloads, all sizes of chunks and buffers, and    *)
(* all ways to cut the bytes.                                              *)
THEOREM ReadAsSentHolds ==
  ASSUME F!FramingAssumption
  PROVE  F!Spec => [](OneReader => ReadAsSent)
<1>1. StreamInv => (OneReader => ReadAsSent)
  BY DEF StreamInv
<1>. QED
  BY <1>1, StreamInvariant, PTL

=============================================================================
