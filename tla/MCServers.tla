------------------------------ MODULE MCServers -----------------------------
(* TLC instances of Servers.  With threads, four situations of a pool: two *)
(* clients that share the workers; three of which two leave, on one        *)
(* descriptor, so that it is used again twice; one that makes requests in  *)
(* batches of two; and a server that is stopped while a client comes.  And *)
(* the other two kinds, with two clients, stopped at any time.             *)
(* With a loop: three clients that may be cancelled while the server is    *)
(* stopped, or two and room for one socket.                                *)
EXTENDS Servers

CONSTANTS c1, c2, c3, w1, w2

MCNone == {}

MCServer(k, cs, leavers, fds, stops, batch, requests) ==
  [kind |-> k, clients |-> cs, leavers |-> leavers, fds |-> fds, stops |-> stops,
   batch |-> batch, requests |-> requests]

MCThreads ==
  { MCServer("pool", {c1, c2}, {}, {3, 4}, FALSE, 1, 1),
    MCServer("pool", {c1, c2, c3}, {c1, c2}, {3}, FALSE, 1, 1),
    MCServer("pool", {c1}, {c1}, {3}, FALSE, 2, 3),
    MCServer("pool", {c1}, {c1}, {3}, TRUE, 1, 1),
    MCServer("threaded", {c1, c2}, {c1, c2}, {3, 4}, TRUE, 1, 1),
    MCServer("oneshot", {c1, c2}, {c1, c2}, {3, 4}, TRUE, 1, 1) }

MCUnkept ==
  { MCServer("threaded", {c1}, {}, {3}, TRUE, 1, 1),
    MCServer("pool", {c1, c2}, {c1}, {3}, FALSE, 1, 1) }

MCLoop(cs, sockets, stops, impatient) ==
  [clients |-> cs, sockets |-> sockets, stops |-> stops, impatient |-> impatient]

MCLoops == { MCLoop({c1, c2}, 2, TRUE, {c1, c2}), MCLoop({c1, c2, c3}, 3, FALSE, {c1}),
             MCLoop({c1, c2}, 1, TRUE, {}) }

MCShort == {MCLoop({c1}, 1, FALSE, {}), MCLoop({c1}, 1, FALSE, {c1}),
            MCLoop({c1, c2}, 1, FALSE, {})}

=============================================================================
