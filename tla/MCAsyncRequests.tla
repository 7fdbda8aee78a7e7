-------------------------- MODULE MCAsyncRequests ---------------------------
(* TLC instance of AsyncRequests: all awaiters wait for the first request; *)
(* another one keeps the loop and a thread busy meanwhile.                 *)
EXTENDS AsyncRequests

CONSTANTS r1, r2, a1, a2

MCOf == [a \in Awaiters |-> r1]

=============================================================================
