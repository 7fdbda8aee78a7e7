---------------------------- MODULE FifoDelivery ----------------------------
(* What a caller of Connection._send may rely on: messages are accepted in *)
(* some order, and the peer gets them in that order, each once and each    *)
(* whole, for as long as the channel is up.                                *)
EXTENDS Naturals, Sequences

CONSTANT Messages

VARIABLES
  accepted,   (* messages in the order their senders handed them over        *)
  delivered,  (* messages the peer has got completely                        *)
  up          (* whether the channel still works                             *)

fifoVars == <<accepted, delivered, up>>

Init ==
  /\ accepted = <<>>
  /\ delivered = <<>>
  /\ up = TRUE

Accept ==
  /\ \E m \in Messages : accepted' = Append(accepted, m)
  /\ UNCHANGED <<delivered, up>>

Deliver ==
  /\ up
  /\ Len(delivered) < Len(accepted)
  /\ delivered' = Append(delivered, accepted[Len(delivered) + 1])
  /\ UNCHANGED <<accepted, up>>

Break ==
  /\ up
  /\ up' = FALSE
  /\ UNCHANGED <<accepted, delivered>>

Next == Accept \/ Deliver \/ Break

SafeSpec == Init /\ [][Next]_fifoVars

(* While the channel is up, what was accepted gets delivered.              *)
Liveness == WF_fifoVars(Deliver)

Spec == SafeSpec /\ Liveness

=============================================================================
