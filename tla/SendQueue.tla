----------------------------- MODULE SendQueue -----------------------------
(* Connection._send: any number of threads hand messages to one stream     *)
(* without ever blocking on each other (core/protocol.py, core/channel.py).*)
(*                                                                         *)
(* A sender appends its message to _send_queue and then drains the queue   *)
(* under _sendlock, which it only tries to take: if another thread has it, *)
(* that thread will send the message too.  Connection._cleanup closes the  *)
(* channel and then releases _sendlock, whoever holds it.                  *)
(*                                                                         *)
(* One step of a thread is one operation on shared state.  A frame reaches *)
(* the stream in two pieces: Channel.send issues up to three writes and    *)
(* Stream.write loops over partial ones.                                   *)
EXTENDS Naturals, Sequences, FiniteSets

CONSTANTS
  Threads,   (* threads that send on the connection                          *)
  MaxSends   (* bound: messages each thread sends                            *)

ASSUME SendersAssumption == IsFiniteSet(Threads) /\ MaxSends \in Nat

(* The k-th message of thread t.                                           *)
Messages == Threads \X (1..MaxSends)

None    == <<>>
Garbled == <<"garbled">>

VARIABLES
  queue,     (* _send_queue                                                  *)
  locked,    (* _sendlock                                                    *)
  pc,        (* where in _send each thread is                                *)
  hand,      (* the message each thread has popped (data)                    *)
  open,      (* the channel's stream is open                                 *)
  closer,    (* how far _cleanup has got                                     *)
  frame,     (* the frame the peer has got in part                           *)
  sent,      (* history: messages each thread has appended                   *)
  order,     (* history: the order of the appends                            *)
  delivered  (* history: frames the peer has got whole                       *)

vars == <<queue, locked, pc, hand, open, closer, frame, sent, order, delivered>>

(* Places inside the try block, where the lock is held.                    *)
Draining == {"check", "pop", "write", "rest", "release", "raise"}

Goto(t, place) == pc' = [pc EXCEPT ![t] = place]

-----------------------------------------------------------------------------
Init ==
  /\ queue = <<>>
  /\ locked = FALSE
  /\ pc = [t \in Threads |-> "idle"]
  /\ hand = [t \in Threads |-> None]
  /\ open = TRUE
  /\ closer = "no"
  /\ frame = None
  /\ sent = [t \in Threads |-> 0]
  /\ order = <<>>
  /\ delivered = <<>>

(* _send_queue.append(data)                                                *)
Enqueue(t) ==
  /\ pc[t] = "idle" /\ sent[t] < MaxSends
  /\ sent' = [sent EXCEPT ![t] = @ + 1]
  /\ queue' = Append(queue, <<t, sent[t] + 1>>)
  /\ order' = Append(order, <<t, sent[t] + 1>>)
  /\ Goto(t, "test")
  /\ UNCHANGED <<locked, hand, open, closer, frame, delivered>>

(* while self._send_queue                                                  *)
Test(t) ==
  /\ pc[t] = "test"
  /\ Goto(t, IF queue = <<>> THEN "idle" ELSE "acquire")
  /\ UNCHANGED <<queue, locked, hand, open, closer, frame, sent, order, delivered>>

(* _sendlock.acquire(False): another thread has it, leave the message.     *)
Acquire(t) ==
  /\ pc[t] = "acquire"
  /\ locked' = TRUE
  /\ Goto(t, IF locked THEN "idle" ELSE "check")
  /\ UNCHANGED <<queue, hand, open, closer, frame, sent, order, delivered>>

(* The queue may be empty by now: continue, through the finally.           *)
Check(t) ==
  /\ pc[t] = "check"
  /\ Goto(t, IF queue = <<>> THEN "release" ELSE "pop")
  /\ UNCHANGED <<queue, locked, hand, open, closer, frame, sent, order, delivered>>

(* Mutants of Taken: the newest message first; the message is not removed. *)
TakenLast == [first |-> queue[Len(queue)], left |-> SubSeq(queue, 1, Len(queue) - 1)]
TakenKept == [first |-> Head(queue), left |-> queue]

(* _send_queue.pop(0)                                                      *)
Taken == [first |-> Head(queue), left |-> Tail(queue)]

(* An empty list raises IndexError.                                        *)
Pop(t) ==
  /\ pc[t] = "pop"
  /\ IF queue = <<>>
     THEN Goto(t, "raise") /\ UNCHANGED <<queue, hand>>
     ELSE /\ hand' = [hand EXCEPT ![t] = Taken.first]
          /\ queue' = Taken.left
          /\ Goto(t, "write")
  /\ UNCHANGED <<locked, open, closer, frame, sent, order, delivered>>

(* Channel.send, the header and some of the data: the peer now expects the *)
(* rest of this frame.  A closed stream raises EOFError.                   *)
WriteFirst(t) ==
  /\ pc[t] = "write"
  /\ IF open
     THEN frame' = (IF frame = None THEN hand[t] ELSE Garbled) /\ Goto(t, "rest")
     ELSE Goto(t, "raise") /\ UNCHANGED frame
  /\ UNCHANGED <<queue, locked, hand, open, closer, sent, order, delivered>>

(* The rest of the frame, which completes it if nothing came in between.   *)
WriteRest(t) ==
  /\ pc[t] = "rest"
  /\ IF open
     THEN /\ Goto(t, "release")
          /\ IF frame = hand[t]
             THEN frame' = None /\ delivered' = Append(delivered, hand[t])
             ELSE frame' = Garbled /\ UNCHANGED delivered
     ELSE Goto(t, "raise") /\ UNCHANGED <<frame, delivered>>
  /\ UNCHANGED <<queue, locked, hand, open, closer, sent, order>>

(* Mutants of AfterRelease: return without looking at the queue again.     *)
AfterReleaseReturn(t) == "idle"

(* Where a thread goes from the finally: back to the loop, unless an       *)
(* exception is on its way out or the lock was not locked (RuntimeError).  *)
AfterRelease(t) == IF locked /\ pc[t] = "release" THEN "test" ELSE "idle"

(* Mutant of Unlock: only a drain that ends well unlocks.                  *)
UnlockUnlessRaised(t) == locked' = (locked /\ pc[t] = "raise")

(* finally: _sendlock.release()                                            *)
Unlock(t) == locked' = FALSE

Release(t) ==
  /\ pc[t] \in {"release", "raise"}
  /\ Unlock(t)
  /\ Goto(t, AfterRelease(t))
  /\ UNCHANGED <<queue, hand, open, closer, frame, sent, order, delivered>>

-----------------------------------------------------------------------------
(* The peer goes away, or a write fails: SocketStream closes itself.       *)
StreamBreaks ==
  /\ open
  /\ open' = FALSE
  /\ UNCHANGED <<queue, locked, pc, hand, closer, frame, sent, order, delivered>>

(* Mutant of CleanupEffect: the locks are released before the channel is   *)
(* closed.                                                                 *)
CleanupEffectUnlockFirst(step) ==
  IF step = "close" THEN locked' = FALSE /\ UNCHANGED open
                    ELSE open' = FALSE /\ UNCHANGED locked

(* _cleanup: first _channel.close(), in the end _sendlock.release().       *)
CleanupEffect(step) ==
  IF step = "close" THEN open' = FALSE /\ UNCHANGED locked
                    ELSE locked' = FALSE /\ UNCHANGED open

CleanupClose ==
  /\ closer = "no"
  /\ closer' = "closed"
  /\ CleanupEffect("close")
  /\ UNCHANGED <<queue, pc, hand, frame, sent, order, delivered>>

CleanupUnlock ==
  /\ closer = "closed"
  /\ closer' = "done"
  /\ CleanupEffect("unlock")
  /\ UNCHANGED <<queue, pc, hand, frame, sent, order, delivered>>

-----------------------------------------------------------------------------
(* The part of _send a thread does not stop in.                            *)
Send(t) ==
  \/ Test(t) \/ Acquire(t) \/ Check(t) \/ Pop(t)
  \/ WriteFirst(t) \/ WriteRest(t) \/ Release(t)

Cleanup == CleanupClose \/ CleanupUnlock

Next ==
  \/ \E t \in Threads : Enqueue(t) \/ Send(t)
  \/ StreamBreaks
  \/ Cleanup

Spec == Init /\ [][Next]_vars

(* A thread inside _send keeps running; nobody has to send or to close.    *)
FairSpec == Spec /\ \A t \in Threads : WF_vars(Send(t))

-----------------------------------------------------------------------------
(* Properties.                                                             *)

(* Ranges; no message is sent twice.                                       *)
TypeOK ==
  /\ queue \in Seq(Messages)
  /\ locked \in BOOLEAN
  /\ pc \in [Threads -> {"idle", "test", "acquire"} \cup Draining]
  /\ hand \in [Threads -> Messages \cup {None}]
  /\ \A t \in Threads : pc[t] \in {"write", "rest"} => hand[t] \in Messages
  /\ open \in BOOLEAN
  /\ closer \in {"no", "closed", "done"}
  /\ frame \in Messages \cup {None, Garbled}
  /\ sent \in [Threads -> 0..MaxSends]
  /\ order \in Seq(Messages)
  /\ delivered \in Seq(Messages)
  /\ Len(delivered) <= Len(order)

(* The peer never sees the pieces of two frames mixed, not even while      *)
(* _cleanup takes the lock away from the thread that is writing.           *)
FramesWhole == frame # Garbled

(* No message is left behind: while the channel is open, when no thread is *)
(* inside _send the queue is empty, although a thread whose acquire fails  *)
(* leaves its message to another.                                          *)
NoStranded == (open /\ \A t \in Threads : pc[t] = "idle") => queue = <<>>

(* _sendlock is free when nobody is inside _send, after failed writes and  *)
(* after _cleanup too.                                                     *)
LockFreeAtRest == (\A t \in Threads : pc[t] = "idle") => ~locked

(* The drain against the abstract channel: appending to _send_queue is the *)
(* acceptance of a message, its last written piece is the delivery.        *)
Fifo == INSTANCE FifoDelivery WITH accepted <- order, up <- open

(* The peer gets the messages in the order of the appends, each once and   *)
(* whole, whichever threads drain the queue (refinement, safety part).     *)
DeliversInOrder == Fifo!SafeSpec

(* Every message appended while the channel works is delivered, although   *)
(* its own thread may have left it to another (refinement, fairness part). *)
DeliversAll == Fifo!Liveness

(* The invariant the proofs rest on.                                       *)

(* While the channel is open the lock is held by the one thread that       *)
(* drains; it is never held by nobody.                                     *)
LockInv ==
  /\ locked => \E t \in Threads : pc[t] \in Draining
  /\ open => /\ closer = "no"
             /\ \A t \in Threads : pc[t] \in Draining => locked
             /\ \A t, u \in Threads :
                  pc[t] \in Draining /\ pc[u] \in Draining => t = u
             /\ \A t \in Threads : pc[t] # "raise"

(* The peer is in the middle of the frame that is being written.           *)
FrameInv ==
  /\ frame # Garbled
  /\ open => /\ \A t \in Threads : pc[t] = "rest" => frame = hand[t]
             /\ (\A t \in Threads : pc[t] # "rest") => frame = None

(* A popped message sits between those delivered and those queued.         *)
OrderInv ==
  open => /\ \A t \in Threads : pc[t] = "pop" => queue # <<>>
          /\ \A t \in Threads :
               pc[t] \in {"write", "rest"} => order = (delivered \o <<hand[t]>>) \o queue
          /\ (\A t \in Threads : pc[t] \notin {"write", "rest"})
                => order = delivered \o queue

DrainInv == TypeOK /\ LockInv /\ FrameInv /\ OrderInv /\ NoStranded

=============================================================================
