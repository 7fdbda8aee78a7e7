------------------------- MODULE MCInboundDispatch -------------------------
(* TLC instance of InboundDispatch: connection c1 gets three requests, one *)
(* of them with a late coroutine; c2, on the same loop, gets one.          *)
EXTENDS InboundDispatch

CONSTANTS c1, c2, r1, r2, r3, r4

MCConnOf == [r \in Requests |-> IF r = r4 THEN c2 ELSE c1]

MCKindOf == [r \in Requests |-> IF r = r3 THEN "late" ELSE "async"]

=============================================================================
