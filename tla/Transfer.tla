------------------------------ MODULE Transfer ------------------------------
(* What the framing of a stream promises, whatever carries the bytes:      *)
(* stated once for Framing, for Wire and for the proofs.                   *)
EXTENDS Naturals, Sequences

VARIABLES
  framed, (* history: payloads Channel.send has made frames of              *)
  got     (* payloads read, in order                                        *)

(* What is read are the payloads that frames were made of, whole and in    *)
(* order, however the bytes are cut, whatever the payloads hold, and when  *)
(* a write fails in the middle of a frame, too.                            *)
ReadAsSent ==
  Len(got) <= Len(framed) /\ \A i \in 1..Len(got) : got[i] = framed[i]

=============================================================================
