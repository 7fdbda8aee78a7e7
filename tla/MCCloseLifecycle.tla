-------------------------- MODULE MCCloseLifecycle --------------------------
(* TLC instance of CloseLifecycle: threads in close() and in a request,    *)
(* and on the loop an aclose(), a HANDLE_CLOSE from the peer, the end of   *)
(* the socket, and a reply.                                                *)
EXTENDS CloseLifecycle

CONSTANTS thread, writer, coroutine, peer, socket, reply

MCKindOf ==
  [p \in Closers |-> CASE p = thread -> "close"
                       [] p = writer -> "request"
                       [] p = coroutine -> "aclose"
                       [] p = peer -> "handle_close"
                       [] p = socket -> "eof"
                       [] p = reply -> "reply"]

=============================================================================
