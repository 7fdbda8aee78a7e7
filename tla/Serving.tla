------------------------------ MODULE Serving -------------------------------
(***************************************************************************)
(* Connection.serve (core/protocol.py): with bind_threads it is            *)
(* _serve_bound, without it the receive lock.  The setting is made when    *)
(* the connection is; the requests, the socket and the threads that wait   *)
(* are the same.                                                           *)
(***************************************************************************)
EXTENDS Naturals, Sequences, FiniteSets

CONSTANTS
  Callers, Servers, Background, Workers, (* threads, by what they do        *)
  LockSetups, BoundSetups                (* where to start from             *)

VARIABLES
  bind_threads,
  setup, stack, done, seq, asked, inbox, sent, gone, closed,
  owner, count, slots, ready, expired, dead, escaped,           (* ServeLock  *)
  event, deque, occupied, pool, receiving, late, calling        (* ServeBound *)

lockOnly  == <<owner, count, slots, ready, expired, dead, escaped>>
boundOnly == <<event, deque, occupied, pool, receiving, late, calling>>
vars == <<bind_threads, setup, stack, done, seq, asked, inbox, sent, gone, closed,
          lockOnly, boundOnly>>

L == INSTANCE ServeLock WITH Setups <- LockSetups
B == INSTANCE ServeBound WITH Setups <- BoundSetups

ASSUME ServingAssumption == L!ServeAssumption /\ B!BoundAssumption

Init ==
  \/ /\ bind_threads = FALSE /\ L!Init
     /\ event = {} /\ deque = << >> /\ occupied = << >> /\ pool = << >>
     /\ receiving = FALSE /\ late = {} /\ calling = {}
  \/ /\ bind_threads = TRUE /\ B!Init
     /\ owner = L!Nobody /\ count = 0 /\ slots = {} /\ ready = {} /\ expired = {}
     /\ dead = FALSE /\ escaped = FALSE

Locking == ~bind_threads /\ UNCHANGED <<bind_threads, boundOnly>>
Binding == bind_threads /\ UNCHANGED <<bind_threads, lockOnly>>

Next == (Locking /\ L!Next) \/ (Binding /\ B!Next)

Serve(t) ==
  \/ t \in L!Threads /\ Locking /\ L!Serve(t)
  \/ t \in B!Threads /\ Binding /\ B!Serve(t)

Expire(t) ==
  \/ Locking /\ \E i \in 1..L!Depth(t) : L!Expire(t, i)
  \/ Binding /\ B!Expire(t)

PeerAnswers ==
  \E a \in asked : (Locking /\ L!PeerAnswers(a)) \/ (Binding /\ B!PeerAnswers(a))

Spec == Init /\ [][Next]_vars

(* Threads go on, handlers end, timeouts pass, the peer answers.           *)
FairSpec ==
  /\ Spec
  /\ \A t \in L!Threads \cup B!Threads : WF_vars(Serve(t))
  /\ \A t \in Callers : WF_vars(Expire(t))
  /\ WF_vars(PeerAnswers)

-----------------------------------------------------------------------------
(* One thread at a time reads the socket (see ServeLock and ServeBound).   *)
OneReceiver == IF bind_threads THEN B!OneReceiver ELSE L!OneReceiver

(* Without bind_threads: the receive lock is given back, unless unboxing   *)
(* raised, and nobody sleeps whom nobody will wake.                        *)
LockGivenBack == bind_threads \/ L!LockGivenBack
SleepersOwed  == bind_threads \/ L!SleepersOwed

(* With bind_threads: replies go to the thread that asked, the occupation  *)
(* counts are right, and the pool is not left without a receiver.          *)
ReplyAtAsker    == bind_threads => B!ReplyAtAsker
OccupationExact == bind_threads => B!OccupationExact
PoolServed      == bind_threads => B!PoolServed

(* Every call returns or raises, whoever received the reply, and also when *)
(* the connection ends - unless (without bind_threads) an exception out of *)
(* unboxing kept the lock or lost a reply, or (with it) the peer is gone.  *)
CallsEnd ==
  \A t \in Callers : <>(IF bind_threads THEN B!Over(t) ELSE L!Over(t))

(* close() comes back: it `releases all held resources'.                   *)
CloseEnds ==
  \A t \in B!Threads : (bind_threads /\ B!Closing(t)) ~> ~B!Closing(t)

=============================================================================
