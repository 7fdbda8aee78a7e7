----------------------------- MODULE MCServing ------------------------------
(* TLC instance of Serving.  Without bind_threads, five situations: two    *)
(* calls whose replies bring new classes; two calls, or a call and a       *)
(* thread in serve_all, and a request of the peer; and a call that may     *)
(* raise or time out beside a thread of serve_all or of BgServingThread.   *)
(* With bind_threads, three: two calls beside a thread in serve_all, while *)
(* the peer stays or may go away; and one that may time out.               *)
(* MCErrors is another one, for the calls that raise: two without timeout. *)
EXTENDS Serving

CONSTANTS c1, c2, s1, b1, w1

MCLock(threads, limits, ends, seqs, frames) ==
  [threads |-> threads, impatient |-> limits, errors |-> limits, ends |-> ends,
   seqs |-> seqs, frames |-> frames]

MCLockSetups == { MCLock({c1, c2}, FALSE, TRUE, 3, 0), MCLock({c1, c2}, FALSE, FALSE, 2, 1),
                  MCLock({c1, s1}, FALSE, TRUE, 2, 1),
                  MCLock({c1, s1}, TRUE, TRUE, 1, 1), MCLock({c1, b1}, TRUE, FALSE, 2, 1) }

MCErrors == {[MCLock({c1, c2}, FALSE, FALSE, 2, 0) EXCEPT !.errors = TRUE]}

MCBound(threads, impatient, ends, seqs) ==
  [threads |-> threads, impatient |-> impatient, ends |-> ends, seqs |-> seqs,
   frames |-> 1]

MCBoundSetups == { MCBound({c1, c2, s1}, {}, FALSE, 3), MCBound({c1, c2, s1}, {}, TRUE, 2),
                   MCBound({c1, s1}, {c1}, TRUE, 2) }

MCNone == {}

=============================================================================
