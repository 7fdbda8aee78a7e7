-------------------------- MODULE NetrefLifecycle --------------------------
(***************************************************************************)
(* Distributed reference counting of one direction of a Connection pair    *)
(* (core/protocol.py, core/netref.py, lib/colls.py).                       *)
(*                                                                         *)
(* The owner keeps every object it has sent by reference in                *)
(* _local_objects with a count; the holder has at most one cached proxy    *)
(* per object (_proxy_cache) which counts how often the object arrived.    *)
(* When the last strong reference to a proxy goes, netref.__del__ queues   *)
(* <<id_pack, count>>, wakes the cleanup loop through a debounced signal,  *)
(* and the loop sends HANDLE_DEL and waits for its acknowledgement.        *)
(*                                                                         *)
(* Both peers serve with asyncio: each has one loop thread, which runs     *)
(* callbacks and task steps one at a time, up to the next await.  Proxies  *)
(* are dropped, and finalized, by any thread.                              *)
(***************************************************************************)
EXTENDS Naturals, Sequences, FiniteSets

CONSTANTS
  Objs,         (* objects the owner sends by reference, one id_pack each    *)
  OtherThreads, (* whether threads other than the loop's drop proxies        *)
  MaxBoxes,     (* bound: times each object is boxed                         *)
  MaxCalls      (* bound: requests that pass a proxy back to its owner       *)

ASSUME BoundsAssumption ==
  /\ IsFiniteSet(Objs)
  /\ OtherThreads \in BOOLEAN
  /\ MaxBoxes \in Nat
  /\ MaxCalls \in Nat

Modes == {"sync", "async"}

VARIABLES
  refcnt,        (* owner: _local_objects, 0 when the key is absent          *)
  tasks,         (* owner: async requests scheduled but not yet unboxed      *)
  missed,        (* owner: modes of the requests whose argument was gone     *)
  ownerOpen,     (* owner: not _closed                                       *)
  toHolder,      (* frames in flight to the holder, FIFO                     *)
  toOwner,       (* frames in flight to the owner, FIFO                      *)
  proxy,         (* holder: state of the cached proxy of each object         *)
  rc,            (* holder: ____refcount__ not yet queued by __del__         *)
  fin,           (* holder: how far the finalizer of the proxy has got       *)
  pending,       (* holder: _pending_deletions                               *)
  signalPending, (* holder: _signal_pending                                  *)
  fires,         (* holder: _fire callbacks scheduled on the loop            *)
  event,         (* holder: _deletion_available is set                       *)
  pc,            (* holder: where the cleanup loop is                        *)
  batch,         (* holder: counts the current pass still has to return      *)
  dels,          (* holder: HANDLE_DEL requests sent so far (sequence id)    *)
  holderOpen,    (* holder: not _closed                                      *)
  loopSet,       (* holder: _asyncio_loop is set                             *)
  boxed,         (* history: times each object was boxed                     *)
  calls,         (* history: requests that passed a proxy back               *)
  lost           (* history: references no HANDLE_DEL will ever return       *)

ownerVars  == <<refcnt, tasks, missed, ownerOpen>>
finVars    == <<fin, signalPending, fires>>
loopVars   == <<pc, batch, dels>>
openVars   == <<holderOpen, loopSet>>
boundVars  == <<boxed, calls>>
vars == <<ownerVars, toHolder, toOwner, proxy, rc, finVars, pending, event,
          loopVars, openVars, boundVars, lost>>

-----------------------------------------------------------------------------
(* What the frames or entries of a queue add up to: the number of pairs    *)
(* <<position, unit>>, which needs no recursion.                           *)

UnitPairs(w) == UNION {{i} \X (1..w[i]) : i \in DOMAIN w}

SeqTotal(w) == Cardinality(UnitPairs(w))

(* The total weight of a sequence whose elements weigh what W says.        *)
Weigh(s, W) == SeqTotal([i \in DOMAIN s |-> W[s[i]]])

-----------------------------------------------------------------------------
(* Frames.                                                                 *)

RefFrame(o)    == [kind |-> "ref", obj |-> o]
AckFrame(s)    == [kind |-> "ack", seq |-> s]
DelFrame(o, n, s) == [kind |-> "del", obj |-> o, n |-> n, seq |-> s]
CallFrame(o, m)   == [kind |-> "call", obj |-> o, mode |-> m]

ToHolderFrames == [kind : {"ref"}, obj : Objs]
                  \cup [kind : {"ack"}, seq : Nat]
ToOwnerFrames  == [kind : {"del"}, obj : Objs, n : Nat \ {0}, seq : Nat]
                  \cup [kind : {"call"}, obj : Objs, mode : Modes]

(* An entry of _pending_deletions: the count is never zero.                *)
Entries == [obj : Objs, n : Nat \ {0}]

RefWeight(o) ==
  [f \in ToHolderFrames |-> IF f.kind = "ref" /\ f.obj = o THEN 1 ELSE 0]

DelWeight(o) ==
  [f \in ToOwnerFrames |-> IF f.kind = "del" /\ f.obj = o THEN f.n ELSE 0]

EntryWeight(o) == [e \in Entries |-> IF e.obj = o THEN e.n ELSE 0]

(* References to o in flight to the holder; queued by __del__; and in the  *)
(* HANDLE_DELs in flight to the owner.                                     *)
RefsTo(o)   == Weigh(toHolder, RefWeight(o))
QueuedOf(o) == Weigh(pending, EntryWeight(o))
DelsOf(o)   == Weigh(toOwner, DelWeight(o))

-----------------------------------------------------------------------------
Init ==
  /\ refcnt = [o \in Objs |-> 0]
  /\ tasks = <<>>
  /\ missed = {}
  /\ ownerOpen = TRUE
  /\ toHolder = <<>>
  /\ toOwner = <<>>
  /\ proxy = [o \in Objs |-> "none"]
  /\ rc = [o \in Objs |-> 0]
  /\ fin = [o \in Objs |-> "idle"]
  /\ pending = <<>>
  /\ signalPending = FALSE
  /\ fires = 0
  /\ event = FALSE
  /\ pc = "wait"
  /\ batch = [o \in Objs |-> 0]
  /\ dels = 0
  /\ holderOpen = TRUE
  /\ loopSet = TRUE
  /\ boxed = [o \in Objs |-> 0]
  /\ calls = 0
  /\ lost = [o \in Objs |-> 0]

(* Mutant of SendToOwner: a request overtakes those sent before it.        *)
SendToOwnerUnordered(f) == toOwner' = IF ownerOpen THEN <<f>> \o toOwner ELSE toOwner

(* A send on a connection whose peer is gone reaches nobody.               *)
SendToOwner(f)  == toOwner'  = IF ownerOpen THEN Append(toOwner, f) ELSE toOwner
SendToHolder(f) == toHolder' = IF holderOpen THEN Append(toHolder, f) ELSE toHolder

-----------------------------------------------------------------------------
(* The owner.                                                              *)

(* _box of a local object: _local_objects.add, then the frame with the     *)
(* reference leaves in a request or a reply.                               *)
Box(o) ==
  /\ ownerOpen /\ holderOpen
  /\ boxed[o] < MaxBoxes
  /\ boxed' = [boxed EXCEPT ![o] = @ + 1]
  /\ refcnt' = [refcnt EXCEPT ![o] = @ + 1]
  /\ SendToHolder(RefFrame(o))
  /\ UNCHANGED <<tasks, missed, ownerOpen, toOwner, proxy, rc, finVars, pending,
                 event, loopVars, openVars, calls, lost>>

(* Mutants of Decref: the count of the request is ignored, or the first    *)
(* HANDLE_DEL removes the object whatever the count.                       *)
DecrefByOne(o, n) == refcnt' = [refcnt EXCEPT ![o] = IF @ <= 1 THEN 0 ELSE @ - 1]
DecrefToZero(o, n) == refcnt' = [refcnt EXCEPT ![o] = 0]

(* RefCountingColl.decref: the key goes at zero or below; an absent key is *)
(* reported and left alone.                                                *)
Decref(o, n) ==
  refcnt' = [refcnt EXCEPT ![o] = IF @ <= n THEN 0 ELSE @ - n]

(* _handle_del, a synchronous handler: dispatched where the frame is read. *)
HandleDel ==
  /\ ownerOpen /\ toOwner # <<>> /\ Head(toOwner).kind = "del"
  /\ Decref(Head(toOwner).obj, Head(toOwner).n)
  /\ SendToHolder(AckFrame(Head(toOwner).seq))
  /\ toOwner' = Tail(toOwner)
  /\ UNCHANGED <<tasks, missed, ownerOpen, proxy, rc, finVars, pending, event,
                 loopVars, openVars, boundVars, lost>>

(* _unbox of the argument of a request: the object must still be in        *)
(* _local_objects, or the owner builds a proxy to its own object.          *)
Unbox(o, m) == missed' = IF refcnt[o] > 0 THEN missed ELSE missed \cup {m}

(* _dispatch of a request with a synchronous handler: unboxed at once.     *)
DispatchSync ==
  /\ ownerOpen /\ toOwner # <<>>
  /\ Head(toOwner).kind = "call" /\ Head(toOwner).mode = "sync"
  /\ Unbox(Head(toOwner).obj, "sync")
  /\ toOwner' = Tail(toOwner)
  /\ UNCHANGED <<refcnt, tasks, ownerOpen, toHolder, proxy, rc, finVars, pending,
                 event, loopVars, openVars, boundVars, lost>>

(* _dispatch of a request with an async handler: call_soon_threadsafe      *)
(* schedules _dispatch_request_async, which unboxes when the task runs.    *)
DispatchAsync ==
  /\ ownerOpen /\ toOwner # <<>>
  /\ Head(toOwner).kind = "call" /\ Head(toOwner).mode = "async"
  /\ tasks' = Append(tasks, Head(toOwner).obj)
  /\ toOwner' = Tail(toOwner)
  /\ UNCHANGED <<refcnt, missed, ownerOpen, toHolder, proxy, rc, finVars, pending,
                 event, loopVars, openVars, boundVars, lost>>

RunTask ==
  /\ ownerOpen /\ tasks # <<>>
  /\ Unbox(Head(tasks), "async")
  /\ tasks' = Tail(tasks)
  /\ UNCHANGED <<refcnt, ownerOpen, toHolder, toOwner, proxy, rc, finVars, pending,
                 event, loopVars, openVars, boundVars, lost>>

(* _cleanup at the owner: _local_objects.clear, the dispatch tasks are     *)
(* cancelled, nothing more is read.                                        *)
OwnerCleanup ==
  /\ ownerOpen
  /\ ownerOpen' = FALSE
  /\ refcnt' = [o \in Objs |-> 0]
  /\ tasks' = <<>>
  /\ toOwner' = <<>>
  /\ UNCHANGED <<missed, toHolder, proxy, rc, finVars, pending, event, loopVars,
                 openVars, boundVars, lost>>

-----------------------------------------------------------------------------
(* The holder: frames and user code.                                       *)

(* A finalizer on the loop's thread holds up whatever the loop was doing.  *)
LoopRuns == OtherThreads \/ \A o \in Objs : fin[o] = "idle"

(* The loop thread runs nothing else between two awaits of the cleanup     *)
(* loop, whose pass over a batch only awaits the acknowledgements.         *)
LoopFree == LoopRuns /\ pc # "batch"

(* _unbox of a reference: a cached proxy counts one more, even one whose   *)
(* finalizer is running (its weakref still answers, so the proxy comes     *)
(* back to life and is never finalized again); otherwise a new proxy with  *)
(* count 1 enters the cache.                                               *)
UnboxRef ==
  /\ holderOpen /\ LoopFree
  /\ toHolder # <<>> /\ Head(toHolder).kind = "ref"
  /\ LET o == Head(toHolder).obj
     IN  /\ rc' = [rc EXCEPT ![o] = @ + 1]
         /\ proxy' = [proxy EXCEPT ![o] =
                        IF @ = "none" THEN "alive"
                        ELSE IF @ = "dying" THEN "zombie" ELSE @]
  /\ toHolder' = Tail(toHolder)
  /\ UNCHANGED <<ownerVars, toOwner, finVars, pending, event, loopVars, openVars,
                 boundVars, lost>>

(* The acknowledgement of a HANDLE_DEL: resumes the cleanup loop if that   *)
(* is the one awaited, else its callback was already popped.               *)
RecvAck ==
  /\ holderOpen /\ LoopFree
  /\ toHolder # <<>> /\ Head(toHolder).kind = "ack"
  /\ pc' = IF pc = "ack" /\ Head(toHolder).seq = dels THEN "resume" ELSE pc
  /\ toHolder' = Tail(toHolder)
  /\ UNCHANGED <<ownerVars, toOwner, proxy, rc, finVars, pending, event, batch, dels,
                 openVars, boundVars, lost>>

(* The proxy is the target or an argument of a request: _box finds it in   *)
(* _proxy_cache and sends its id_pack.  An object whose requests go to a   *)
(* synchronous handler and one whose requests are async differ in mode.    *)
Call(o, m) ==
  /\ holderOpen /\ calls < MaxCalls
  /\ proxy[o] \in {"alive", "zombie"} /\ rc[o] > 0
  /\ calls' = calls + 1
  /\ SendToOwner(CallFrame(o, m))
  /\ UNCHANGED <<ownerVars, toHolder, proxy, rc, finVars, pending, event, loopVars,
                 openVars, boxed, lost>>

(* Mutants of Queued: a count of one whatever arrived; one too few.        *)
QueuedOne(o) == [obj |-> o, n |-> 1]
QueuedOneLess(o) == [obj |-> o, n |-> rc[o] - 1]
QueuedOneMore(o) == [obj |-> o, n |-> rc[o] + 1]

(* What __del__ puts on the queue.                                         *)
Queued(o) == [obj |-> o, n |-> rc[o]]

(* The last strong reference goes: netref.__del__ queues the count.  The   *)
(* proxy stays in the cache until the finalizer has returned.              *)
Finalize(o) ==
  /\ proxy[o] = "alive" /\ fin[o] = "idle"
  /\ proxy' = [proxy EXCEPT ![o] = "dying"]
  /\ fin' = [fin EXCEPT ![o] = "check"]
  /\ pending' = Append(pending, Queued(o))
  /\ rc' = [rc EXCEPT ![o] = 0]
  /\ UNCHANGED <<ownerVars, toHolder, toOwner, signalPending, fires, event, loopVars,
                 openVars, boundVars, lost>>

(* _signal_deletion_available, first half: nothing to wake, or a fire is   *)
(* already scheduled.                                                      *)
SignalCheck(o) ==
  /\ fin[o] = "check"
  /\ fin' = [fin EXCEPT ![o] =
               IF ~loopSet \/ signalPending THEN "clear" ELSE "arm"]
  /\ UNCHANGED <<ownerVars, toHolder, toOwner, proxy, rc, signalPending, fires,
                 pending, event, loopVars, openVars, boundVars, lost>>

(* Second half: raise the flag and schedule one _fire on the loop.         *)
SignalArm(o) ==
  /\ fin[o] = "arm"
  /\ fin' = [fin EXCEPT ![o] = "clear"]
  /\ signalPending' = TRUE
  /\ fires' = fires + 1
  /\ UNCHANGED <<ownerVars, toHolder, toOwner, proxy, rc, pending, event, loopVars,
                 openVars, boundVars, lost>>

(* __del__ has returned: the weakref is cleared and its callback removes   *)
(* the cache entry, unless the proxy was resurrected meanwhile.            *)
ClearWeakref(o) ==
  /\ fin[o] = "clear"
  /\ fin' = [fin EXCEPT ![o] = "idle"]
  /\ proxy' = [proxy EXCEPT ![o] = IF @ = "dying" THEN "none" ELSE @]
  /\ UNCHANGED <<ownerVars, toHolder, toOwner, rc, signalPending, fires, pending,
                 event, loopVars, openVars, boundVars, lost>>

(* A resurrected proxy dies: CPython runs a finalizer only once, so what   *)
(* it counted since is queued by nobody.                                   *)
ZombieDies(o) ==
  /\ proxy[o] = "zombie" /\ fin[o] = "idle"
  /\ proxy' = [proxy EXCEPT ![o] = "none"]
  /\ lost' = [lost EXCEPT ![o] = @ + rc[o]]
  /\ rc' = [rc EXCEPT ![o] = 0]
  /\ UNCHANGED <<ownerVars, toHolder, toOwner, finVars, pending, event, loopVars,
                 openVars, boundVars>>

-----------------------------------------------------------------------------
(* The holder: the cleanup loop.                                           *)

(* Mutant of ClearSignal: the flag of the debounce stays up.               *)
ClearSignalNever == UNCHANGED signalPending

(* What _fire does to _signal_pending.                                     *)
ClearSignal == signalPending' = FALSE

(* _fire: clear the flag first, then set the event.                        *)
Fire ==
  /\ fires > 0 /\ LoopFree
  /\ fires' = fires - 1
  /\ ClearSignal
  /\ event' = TRUE
  /\ UNCHANGED <<ownerVars, toHolder, toOwner, proxy, rc, fin, pending, loopVars,
                 openVars, boundVars, lost>>

(* cleanup_loop wakes: clears the event, drains the queue and groups it by *)
(* id_pack.                                                                *)
Wake ==
  /\ LoopRuns /\ pc = "wait" /\ event /\ holderOpen
  /\ event' = FALSE
  /\ batch' = [o \in Objs |-> QueuedOf(o)]
  /\ pending' = <<>>
  /\ pc' = "batch"
  /\ UNCHANGED <<ownerVars, toHolder, toOwner, proxy, rc, finVars, dels,
                 openVars, boundVars, lost>>

(* The resurrection check of _process_pending_deletions: an object with a  *)
(* cached proxy is skipped, and the counts of the batch with it.  The loop *)
(* itself now refers to the proxy it found, so a dying one survives its    *)
(* finalizer.                                                              *)
SkipResurrected(o) ==
  /\ LoopRuns /\ pc = "batch" /\ holderOpen /\ batch[o] > 0
  /\ proxy[o] # "none"
  /\ proxy' = [proxy EXCEPT ![o] = IF @ = "dying" THEN "zombie" ELSE @]
  /\ batch' = [batch EXCEPT ![o] = 0]
  /\ lost' = [lost EXCEPT ![o] = @ + batch[o]]
  /\ UNCHANGED <<ownerVars, toHolder, toOwner, rc, finVars, pending, event, pc, dels,
                 openVars, boundVars>>

(* HANDLE_DEL with the total, then await the acknowledgement.              *)
SendDel(o) ==
  /\ LoopRuns /\ pc = "batch" /\ holderOpen /\ batch[o] > 0
  /\ proxy[o] = "none"
  /\ dels' = dels + 1
  /\ SendToOwner(DelFrame(o, batch[o], dels + 1))
  /\ batch' = [batch EXCEPT ![o] = 0]
  /\ pc' = "ack"
  /\ UNCHANGED <<ownerVars, toHolder, proxy, rc, finVars, pending, event,
                 openVars, boundVars, lost>>

(* The task runs again with the reply, whatever it says.                   *)
ResumeAck ==
  /\ LoopRuns /\ pc = "resume"
  /\ pc' = "batch"
  /\ UNCHANGED <<ownerVars, toHolder, toOwner, proxy, rc, finVars, pending, event,
                 batch, dels, openVars, boundVars, lost>>

(* asyncio.wait_for gives up after cleanup_ack_timeout, or the send raised *)
(* because the peer is gone.                                               *)
AckTimeout ==
  /\ LoopRuns /\ pc = "ack"
  /\ pc' = "batch"
  /\ UNCHANGED <<ownerVars, toHolder, toOwner, proxy, rc, finVars, pending, event,
                 batch, dels, openVars, boundVars, lost>>

PassDone ==
  /\ LoopRuns /\ pc = "batch" /\ \A o \in Objs : batch[o] = 0
  /\ pc' = IF holderOpen THEN "wait" ELSE "final"
  /\ UNCHANGED <<ownerVars, toHolder, toOwner, proxy, rc, finVars, pending, event,
                 batch, dels, openVars, boundVars, lost>>

(* After the connection closed: the rest of a batch is sent into the void  *)
(* without an answer, the loop leaves, and its final drain drops the queue.*)
AbandonBatch ==
  /\ LoopRuns /\ pc = "batch" /\ ~holderOpen /\ \E o \in Objs : batch[o] > 0
  /\ batch' = [o \in Objs |-> 0]
  /\ UNCHANGED <<ownerVars, toHolder, toOwner, proxy, rc, finVars, pending, event, pc,
                 dels, openVars, boundVars, lost>>

FinalDrain ==
  /\ LoopRuns /\ ~holderOpen
  /\ \/ pc = "wait" /\ event /\ event' = FALSE
     \/ pc = "final" /\ UNCHANGED event
  /\ pending' = <<>>
  /\ pc' = "done"
  /\ UNCHANGED <<ownerVars, toHolder, toOwner, proxy, rc, finVars, batch, dels,
                 openVars, boundVars, lost>>

(* close() at the holder, called by the user or on EOF: flips _closed,     *)
(* empties the queue (the HANDLE_DELs sent here are followed by            *)
(* HANDLE_CLOSE, which empties the owner's table, so they are not kept),   *)
(* disable_asyncio_serving unsets the loop, _cleanup.                      *)
HolderClose ==
  /\ holderOpen
  /\ holderOpen' = FALSE
  /\ loopSet' = FALSE
  /\ pending' = <<>>
  /\ toHolder' = <<>>
  /\ UNCHANGED <<ownerVars, toOwner, proxy, rc, finVars, event, loopVars, boundVars,
                 lost>>

(* HANDLE_CLOSE from the owner: _handle_close runs _cleanup alone, which   *)
(* leaves the queue and the loop.                                          *)
HolderPeerClosed ==
  /\ holderOpen /\ ~ownerOpen /\ LoopFree
  /\ holderOpen' = FALSE
  /\ toHolder' = <<>>
  /\ UNCHANGED <<ownerVars, toOwner, proxy, rc, finVars, pending, event, loopVars,
                 loopSet, boundVars, lost>>

-----------------------------------------------------------------------------
OwnerStep == HandleDel \/ DispatchSync \/ DispatchAsync \/ RunTask

FinalizerStep(o) == SignalCheck(o) \/ SignalArm(o) \/ ClearWeakref(o)

CleanupStep ==
  \/ Wake \/ ResumeAck \/ AckTimeout \/ PassDone \/ AbandonBatch \/ FinalDrain
  \/ \E o \in Objs : SkipResurrected(o) \/ SendDel(o)

HolderStep == UnboxRef \/ RecvAck \/ Fire \/ CleanupStep

Next ==
  \/ OwnerStep
  \/ HolderStep
  \/ \E o \in Objs :
       \/ Box(o)
       \/ Finalize(o)
       \/ FinalizerStep(o)
       \/ ZombieDies(o)
       \/ \E m \in Modes : Call(o, m)
  \/ OwnerCleanup
  \/ HolderClose
  \/ HolderPeerClosed

Spec == Init /\ [][Next]_vars

(* Both loops keep running, a finalizer that started returns, and wait_for *)
(* gives up.  Nothing obliges the program to send references, to drop      *)
(* proxies or to close.                                                    *)
Fairness ==
  /\ WF_vars(OwnerStep)
  /\ WF_vars(UnboxRef \/ RecvAck)
  /\ WF_vars(Fire)
  /\ WF_vars(CleanupStep)
  /\ \A o \in Objs : WF_vars(FinalizerStep(o))

FairSpec == Spec /\ Fairness

-----------------------------------------------------------------------------
(* Properties.                                                             *)

(* Every variable stays in its range; what waits to be returned is at      *)
(* least one reference and at most what was ever sent.                     *)
TypeOK ==
  /\ refcnt \in [Objs -> 0..MaxBoxes]
  /\ tasks \in Seq(Objs)
  /\ missed \subseteq Modes
  /\ toHolder \in Seq(ToHolderFrames)
  /\ toOwner \in Seq(ToOwnerFrames)
  /\ proxy \in [Objs -> {"none", "alive", "dying", "zombie"}]
  /\ rc \in [Objs -> Nat]
  /\ fin \in [Objs -> {"idle", "check", "arm", "clear"}]
  /\ pending \in Seq(Entries)
  /\ fires \in Nat
  /\ {signalPending, event, ownerOpen, holderOpen, loopSet} \subseteq BOOLEAN
  /\ pc \in {"wait", "batch", "ack", "resume", "final", "done"}
  /\ batch \in [Objs -> Nat]
  /\ dels \in Nat
  /\ boxed \in [Objs -> 0..MaxBoxes]
  /\ calls \in 0..MaxCalls
  /\ lost \in [Objs -> Nat]

Connected == ownerOpen /\ holderOpen

(* The references the owner counts for o, wherever they are on their way   *)
(* to the holder and back.                                                 *)
Travelling(o) == RefsTo(o) + rc[o] + QueuedOf(o) + batch[o] + DelsOf(o)

(* While both peers are up the owner's count is the number of references   *)
(* in flight, counted by the proxy, queued, in the current batch or in a   *)
(* HANDLE_DEL, plus those given up: _box, _unbox, __del__, the batch and   *)
(* _handle_del neither invent nor mislay one in any interleaving.          *)
Accounting == Connected => \A o \in Objs : refcnt[o] = Travelling(o) + lost[o]

(* The invariant of docs/DESIGN_REFCOUNT_RACE_FIX.md, without the          *)
(* references given up: increments at the owner equal the decrements       *)
(* driven by the holder, done or still to come.                            *)
IncrementsMatchDecrements ==
  Connected => \A o \in Objs : refcnt[o] = Travelling(o)

(* An object whose proxy the holder can still use, or whose reference is   *)
(* in flight to the holder, is in the owner's _local_objects.              *)
LiveProxyHasObject ==
  Connected => \A o \in Objs :
    (RefsTo(o) > 0 \/ (proxy[o] \in {"alive", "zombie"} /\ rc[o] > 0)) => refcnt[o] > 0

(* No HANDLE_DEL asks for more than the owner counts: RefCountingColl      *)
(* never meets an absent key (its "DECREF on missing key" warning) and     *)
(* never removes an object early.                                          *)
DelNeverOverdraws ==
  Connected => \A o \in Objs : DelsOf(o) <= refcnt[o]

(* A request with a synchronous handler always finds the object it names:  *)
(* it is dispatched in frame order, ahead of the HANDLE_DEL of the proxy   *)
(* it was sent with.                                                       *)
SyncArgsFound == "sync" \notin missed

(* The same for requests with an async handler.                            *)
AsyncArgsFound == "async" \notin missed

(* No lost wake-up: what is queued while the connection is up is taken by  *)
(* the cleanup loop, whatever the finalizers and _fire do in between.      *)
QueueServed ==
  (pending # <<>> /\ holderOpen) ~> (pending = <<>> \/ ~holderOpen)

(* Time and again every object is still proxied, or owed nothing but the   *)
(* references given up: a dropped proxy's references reach the owner.      *)
EventuallyReleased ==
  \A o \in Objs :
    []<>(~Connected \/ proxy[o] # "none" \/ refcnt[o] = lost[o])

(* The inductive invariant behind Accounting and SyncArgsFound.            *)

CountBounded == \A o \in Objs : refcnt[o] <= boxed[o]

AliveCounted == \A o \in Objs : proxy[o] = "alive" => rc[o] > 0

BatchInPass == pc \in {"wait", "final", "done"} => \A o \in Objs : batch[o] = 0

(* What the HANDLE_DELs ahead of frame i return of o.                      *)
DelsAhead(i, o) == Weigh(SubSeq(toOwner, 1, i - 1), DelWeight(o))

(* The HANDLE_DELs ahead of a request leave a reference to its argument.   *)
CallsCovered ==
  ownerOpen => \A i \in DOMAIN toOwner :
    toOwner[i].kind = "call" =>
      DelsAhead(i, toOwner[i].obj) < refcnt[toOwner[i].obj]

(* Every request in flight is covered by references its object keeps once  *)
(* the HANDLE_DELs ahead of it are served, and the parts this rests on:    *)
(* _box, _unbox, __del__ and _handle_del keep it, whatever the order.      *)
CountingInv ==
  TypeOK /\ CountBounded /\ AliveCounted /\ BatchInPass /\ Accounting /\ CallsCovered

=============================================================================
