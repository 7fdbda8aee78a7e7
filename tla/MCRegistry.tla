----------------------------- MODULE MCRegistry -----------------------------
(* TLC instance of Registry.                                               *)
EXTENDS Registry, TLC

CONSTANTS s1, s2, n1, n2

MCOffers == (s1 :> {n1}) @@ (s2 :> {n1, n2})

MCCase(transport, servers, closes, restarts, lost) ==
  [transport |-> transport, servers |-> servers, closes |-> closes, starts |-> restarts,
   losses |-> lost]

(* A server of two names that is closed, killed and started again; servers *)
(* that run on while datagrams go wrong; two that share a name, over TCP.  *)
MCCases == { MCCase("udp", {s2}, TRUE, 1, 2), MCCase("udp", {s1}, FALSE, 0, 3),
             MCCase("tcp", {s1}, TRUE, 1, 1), MCCase("tcp", {s1, s2}, TRUE, 0, 0) }

=============================================================================
