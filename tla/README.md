# TLA+ models of rpyc_async

rpyc_async is a symmetric remote procedure call library: two peers hold a
`Connection` over a stream, send each other requests, pass immutable values by
value and every other object by reference, as a *netref* (proxy). This fork
serves connections from an asyncio loop and lets handlers be coroutines. The
specifications in this directory model the parts of it in which concurrency,
ordering and failure meet, check them with TLC on small instances, and prove the
most important invariants with TLAPS for every value of the constants.

Paths below are relative to `rpyc_async/` unless they begin with `docs/`; line
numbers of every definition are in `PROJECT.json`, `map`.

## 1. Inventory

| Component | State | Operations | Interacts with |
|---|---|---|---|
| Netref reference counting (`core/protocol.py`, `core/netref.py`, `lib/colls.py`) | `_local_objects` (object and count), `_proxy_cache` (weak), `____refcount__`, `_pending_deletions`, `_signal_pending`, `_deletion_available`, the cleanup task | `_box`, `_unbox`, `BaseNetref.__del__`, `_enqueue_deletion`, `cleanup_loop`, `_process_pending_deletions`, `_handle_del`, `decref` | the garbage collector on any thread; the loop; sending; close |
| Sending (`Connection._send`, `Channel.send`, `Stream.write`) | `_send_queue`, `_sendlock`, the stream | append, drain under a trylock, release | every thread that sends; `_cleanup`, which closes the channel and releases the lock |
| Inbound dispatch | `_DISPATCH_INFLIGHT` (all connections), `_inbound_inflight`, `_inbound_quarantined`, the ready queue of the loop, `_request_callbacks` | `on_readable`, `_dispatch`, `_schedule`, `_dispatch_request_async`, `_await_and_reply`, `_on_done`, `_enter_inbound_quarantine`, `_drain_inbound_dispatch`, `_send_async_result_safe` | framing, requests and results, close |
| Connection close | `_closed`, `_local_root`, `_HANDLERS`, `_close_callbacks`, `_close_waiters`, `_close_lock`, the reader on the loop, `SocketStream._on_close` | `close`, `aclose`, `_handle_close`, EOF, `_cleanup`, `add_close_callback`, `wait_closed`, `_fire_close_notifications` | everything that uses the connection |
| Serving without a loop (`Connection.serve`, `_serve_bound`, `AsyncResult.wait`, `BgServingThread`) | `_recvlock`, `_recv_event`; with `bind_threads` `_receiving`, `_thread_pool`, and for each thread a queue, an event and an occupation count | `serve`, `_serve_bound`, `_serve_temporary`, `poll_all`, `serve_all`, `wait` | requests and results; nested requests of handlers and of unboxing; close |
| Requests and AsyncResult (`core/async_.py`) | `_request_callbacks`, `_is_ready`, `_callbacks`, `_ttl`, `_seq` | `_async_request`, `__call__`, `wait`, `add_callback`, `__await__`, `__del__` | serving, dispatch |
| Stable object ids | `_id_pack_seq`, `_obj_to_seq_weak`, `_obj_to_seq_by_id` | `_alloc_stable_obj_id`, `_forget_stable_obj_id` | boxing, `_handle_del` |
| Framing (`core/channel.py`, `core/stream.py`, `_extract_frames`) | `_async_inbuf`, the mode of the socket | `Channel.send`, `Channel.recv`, `recv_available`, `read`, `write`, `_extract_frames` | sending, both readers |
| Serialisation (`core/brine.py`) | none | `dump`, `load`, `dumpable` | boxing, framing, the registry |
| Asynchronous connect (`core/async_connect.py`) | a socket, a reader, the handshake | `async_connect` and its roll-back | the server it calls; close |
| AsyncioServer (`utils/async_server.py`) | the accepting task, the client tasks, the listener | `start`, `_accept_loop`, `_handle_client`, `_serve_connection`, `close` | its connections, the loop, cancellation |
| Threaded servers (`utils/server.py`) | `clients`, `active`; of the pool `fd_to_conn`, the poll object, `_active_connection_queue`, its threads | accept, poll, serve, drop, `close` | connections; the descriptors of the system; the registry |
| Registry (`utils/registry.py`) | `services` with time stamps; the registering thread of a server | register, unregister, query, prune | datagrams, connections, time |
| Exceptions, services, handlers, connection factories, code transfer, CLI | mostly none | conversions, reflection, I/O | |

What makes the code hard, and what each component has to guarantee:

* **Reference counting.** Finalizers run on any thread, between any two steps of
  unboxing and of the cleanup loop; deletions travel in the same stream as new
  references and requests. Neither peer may lose an object the other still uses,
  and dropped proxies must be released.
* **Sending.** Threads never block on the send lock. A message left to another
  thread must not be left behind, frames must not mix, and a close that releases a
  lock it does not hold must do no harm.
* **Dispatch.** One callback queue, tasks that are created later than they are
  accepted, cancelled before or after their first step, and one global set of tasks
  for all connections. The counter behind the overload cap must be exact, the cap
  must mean something, quarantining one connection must leave the others alone, and
  each request is answered once.
* **Requests.** A reply, a timeout, a cancellation, an expiry, a close and a
  quarantine meet at the slot and the callbacks of one `AsyncResult`, which several
  tasks may await and which a thread may complete. Nobody sleeps through a result,
  and whoever stops waiting leaves nothing in the tables.
* **Close.** Five ways to close, from several threads and from the loop, in any
  order and together. Listeners are told exactly once, while nothing of the teardown
  is forgotten; the reader leaves the loop, and until then somebody is about to take
  it off.

* **Serving.** Threads that wait for replies serve the connection for each other.
  One reads at a time; whoever stops reading must leave a successor; a reply reaches
  the thread that asked, also when a handler or the unboxing of a reply asks again in
  between; and every call ends, if only with an error.
* **The wire.** Chunks are cut anywhere, payloads may look like headers, sizes have
  several encodings, two different readers share one socket. What is read is what was
  written.
* **Servers.** Accepting, polling, serving and closing threads share tables keyed by
  descriptors that the system uses again; tasks of a loop are cancelled at any await.
  No connection is lost or served twice, requests are read, a stop stops.
* **Registry.** Datagrams are lost, doubled and overtaken, servers die without a word,
  registries forget. Who runs is found in the end, who is gone is not.

`PROJECT.json` lists the hazards one by one at the line where they bite, with the
properties that cover them or the reason why none does.

## 2. Modules

| Module | Models | Composes |
|---|---|---|
| `NetrefLifecycle` | reference counting, one direction of a connection | |
| `FifoDelivery` | abstract: messages are delivered in the order they were accepted | |
| `SendQueue` | `_send` and the parts of `_cleanup` that interfere with it | refines `FifoDelivery` |
| `InboundDispatch` | the life of an inbound request on a loop shared by several connections | |
| `CloseLifecycle` | closing and the notifications about it | |
| `AsyncRequests` | outbound requests, `AsyncResult` and its awaiters | |
| `ServeLock` | `serve` with the receive lock | |
| `ServeBound` | `serve` with `bind_threads` | |
| `Serving` | a connection without a loop, in either mode | `ServeLock`, `ServeBound` |
| `Struct` | numbers as four bytes | |
| `Transfer` | abstract: payloads are read as they were sent | |
| `Framing` | one direction of a connection, from payloads to bytes and back | `Struct`, `Transfer` |
| `Brine` | serialisation, as operators on sequences of bytes | `Struct` |
| `Wire` | `Framing` that carries what `Brine` makes of values | `Brine`, `Framing`, `Transfer` |
| `AsyncServing` | `AsyncioServer` and the clients in `async_connect` | |
| `ThreadServers` | `ThreadPoolServer`, `ThreadedServer`, `OneShotServer` | |
| `Servers` | a server process, with threads or with a loop | `ThreadServers`, `AsyncServing` |
| `Registry` | the registry and the servers that register | |
| `MC...` (eight modules) | definitions for TLC: symmetry, which request or closer is of which kind, who awaits what, the situations to start from | |
| `NetrefLifecycleProofs`, `SendingProofs` (about `SendQueue` and `Framing`), `CloseLifecycleProofs`, `AsyncRequestsProofs`, `InboundDispatchProofs`, `ServingProofs`, `ServersProofs`, `RegistryProofs` | theorems and proofs | |

The newer modules take a set of *situations* (`Setups`) instead of one instance: which
threads or clients there are, what may go wrong, and the bounds. The initial states
choose among them, so that one run checks several small systems, each with just the
actors that make its case interesting.

### NetrefLifecycle

The *owner* sends objects; the *holder* gets proxies. (A connection has both
roles at both ends; the two directions share only the stream, and the model of one
direction includes the acknowledgements and the requests that travel against it.)
`refcnt` is `_local_objects`; `toHolder` and `toOwner` are the two directions of
the stream, FIFO; `proxy[o]` follows a cached proxy from creation (`alive`) over
its running finalizer (`dying`) to removal, or to `zombie` when a strong reference
came back while the finalizer ran: CPython never runs that finalizer again. `rc` is
`____refcount__`, `pending` the queue of deletions, `signalPending`, `fires` and
`event` the debounced wake-up, `pc` and `batch` the cleanup loop between its
awaits. `Finalize`, `SignalCheck`, `SignalArm` and `ClearWeakref` are the steps of
`__del__` between which other threads run; with `OtherThreads = FALSE` finalizers
run only on the loop's thread and hold it up (`LoopRuns`). `lost` is a history
variable: references given up by the code, namely those the resurrection check
drops and those a zombie counted. It makes the accounting exact instead of one
sided: `Accounting` says the owner's count is precisely what is travelling plus
what was given up, so a reference can be lost in those two places only.

Not in the model: several classes of proxies and the nested request of
`_netref_factory` (it is in `ServeLock`), and the ids themselves (an object is its
`id_pack`).

### SendQueue

Each action is one operation on shared state: append, the test of the queue, the
trylock, the test under the lock, pop, two writes of a frame, release. `frame` is
what the peer has of an unfinished frame, `Garbled` once pieces of two frames mix.
`CleanupClose` and `CleanupUnlock` are the two steps of `_cleanup` that interfere:
the channel is closed first, the lock released last, whoever holds it. The
properties hold because of that order; the mutant that swaps it breaks
`FramesWhole`.

### InboundDispatch

`ready` is the queue of the event loop and holds named callbacks; actions guarded
by `Runs` take the head. `on_readable` is one callback that dispatches several
frames (`reading`, `frames`). A request moves from `unsent` over `scheduled`
(accepted, `_schedule` in the queue), `created` (task exists), `parked` (its
handler awaits a request it sent back), `waking`, `finished` (coroutine returned,
`_on_done` in the queue) to `removed`. `KindOf` tells requests with an async
handler from those whose plain handler returned a coroutine ("late"). A handler
may end at once, or park; `GiveUp` is a `wait_for` of the handler that runs out.
`Cleanup` runs inside `on_readable` or from a coroutine; `Reset` is the network.

### CloseLifecycle

`Closers` are calls of `close` and of requests that find the peer gone (each on a
thread of its own) and, on the loop, `aclose`, a served HANDLE_CLOSE, the EOF found by
`on_readable`, and a reply that finds the peer gone. `pc` is where each is; the ones on
the loop exclude each other (`Runs`) except where `aclose` awaits. `again` marks a
`close` whose `sync_request` serves the peer's HANDLE_CLOSE and so runs `_cleanup` inside
itself, after which the `finally` clause runs it again. `Cancel` is a CancelledError at
an await of `aclose`.

`SocketStream.close` and `_unregister_reader` are several steps each, and threads come in
between: the hook is taken (`TakeHook`), `_registered_fd` is cleared (`Forget`),
`remove_reader` is called (`RemoveReader`), the socket is closed (`Shut`). `part` says how far a closer
is in them, at whichever of its points (`pc`) it came there; `Behind` says where it goes
after them. Of `_cleanup` the root with the tables, `_HANDLERS`, and the executor with
the locks go one after the other (`root`, `handlers`, `rest`). `Register` and `GiveUp`
are the listeners.

### AsyncRequests

`stage` follows `_async_request`, `slots` is the key set of `_request_callbacks`.
`reply` follows the one reply of each request from the wire through `_dispatch`
(`call`: the slot is popped) and `AsyncResult.__call__` (`ready`, `hooks`, `clear`)
and `by` says whether the loop or a thread in `serve` dispatches it. `hooks` is
`_callbacks`; `due` is what the running `for` loop still has to visit, which differs
from `hooks` once `_on_future_done` has put a new list in its place (`rebound`).
`fut` is the future of each awaiter and where `__await__` is with it: `made`,
then `adding` between the two steps of `add_callback`, then `pending`. Callbacks
and `__await__` that run on the loop hold it (`loop`); threads interleave with
them. `SetResult` is the scheduled `set_result`, `Cancel` a `wait_for` that runs
out or a cancelled task, `FutureDone` the done callback that gives up slot and
list. `dropped` is a history variable: requests whose slot went with the table.

`InboundDispatch` contains the same await in a coarser form, for handlers that call
back to their peer; there only one awaiter exists and the loop dispatches all.
`AsyncResult.__del__` is not an action: an `AsyncResult` in the table is referenced
by it, so the slot is gone before the finalizer runs.

### ServeLock, ServeBound, Serving

A thread has a stack of frames, one for each loop around `serve()` it is in:
`AsyncResult.wait` of a call, `serve_all`, or the wait of a request that a handler, or
the unboxing of a reply with a class not seen before (`HANDLE_INSPECT`), makes in the
middle of a dispatch. `at` is the place in `serve`: under `_recv_event` (`enter`), with
the lock (`check`, `recv`), in `_dispatch` (`unbox`, `resolve`, `release`, `handle`,
`reply`), before the notification (`notify`). The lock is an RLock with owner and
count, because nested frames of one thread take it again. `_dispatch` releases it at a
different point for each kind of message: `LetGo` and `AfterReply`. `escaped` is a
history variable: an exception out of unboxing, which keeps the lock, happened; the
properties exclude what follows from that and nothing else.

In `ServeBound` every message names a thread. `Receive` routes it (`Mine`, `Routed`),
and a request for nobody goes to a thread that is free (`IsFree`) or to a worker of
the executor (`StartWorker`). `pool` is `_thread_pool`: those that wait to be the next
receiver, to whom `Successor` hands over. `occupied` counts the requests and handlers of
each thread. The peer may call back while it answers a call (`calling`); such a call
must be handled by the thread that waits in the call, which `ReplyAtAsker` and
`OccupationExact` are about.

`Serving` chooses one of the two when the connection is made, as `serve` does. Threads,
sockets and calls are the same variables in both.

### Brine, Framing, Wire

`Brine` writes every value as `dump` does, byte by byte, and reads it as `load` does: the
one-byte values, the immediate integers, the decimal text of the others, strings and
tuples in three classes of length. Floats are opaque eight bytes; the UTF-8 codec goes up to two
bytes and refuses surrogates. `Framing` sends payloads: `Framed` is `Channel.send` with
its pieces, `Write` takes as many bytes of a piece as the system has `Room` for,
`WouldBlock` is what a non-blocking socket does. Readers are `OnReadable` (a chunk, and
`Extract` for `_extract_frames`, a recursive function over the places of the buffer) and `Serve` with `Read` (`Channel.recv`, exactly as many
bytes as it asks for). `OwnRead` is the effect of `recv_available` on the socket of the
sender's side. `Compress` is any function with an inverse that changes the length.
`framed` is history: the payloads that frames were made of. `Wire` is `Framing` with the
encodings of the values as payloads; `Brine` declares RECURSIVE operators, so that what is to be
proved is in `Framing` and `Struct`, which need none.

### AsyncServing

What a task does between two awaits is one step, `task` and `phase` say at which await it
is. A cancellation is delivered at the next await (`cancelled`); CancelledError passes
`except Exception`. `Dialled` covers everything from the connected socket to the await of
the handshake, as the code has no await in between. `frozen` is a loop that has
entered a step without an await that never ends.

### ThreadServers

Each table is a variable, each lock-free step on it an action: `Accept`, `CheckActive`,
`Admit`, `Build`, `Register` on the accepting thread; `Poll` and `HandlePolled` on the
poll thread, which works off a list that may be stale (`poller.found`); `Get`, `Serve`,
`PutBack`, `PutInactive` on the workers. `_drop_connection` is two steps, on the poll thread and
on the workers: it looks up a connection (`Dropped`), then deletes the entry and closes
what it looked up (`Delete`); the accepting thread may have put a new connection under
that descriptor in between. A descriptor is free as soon as the socket is closed, and
the next client gets it. `stolen` is a history variable: connections that a drop hit
which was meant for another owner of their descriptor; it closed them, or took them out
of the map. The latter stay open, and `Collect` is their `__del__`, if the service keeps
no reference.

### Servers

A server process is an instance of one class or of the other, and that does not change
(`asyncio`). `setup`, `acceptor` and `listening` are the same variables in both; the
others belong to one and stand still in the other.

### Registry

`services` holds the age of each entry instead of its time; `Tick` ages all entries when
no thread has anything to do without waiting. `line` is what is on its way: over UDP
any datagram may be taken next, lost or doubled, over TCP the first. `bg` and `due` are the registering
thread and its clock. `struck` is a history variable: running servers whose
entry went by a restart of the registry or by an old UNREGISTER.

## 3. What is checked

| Run | Instance | Shows |
|---|---|---|
| `netref_safety` | two objects, each sent twice, one request back, finalizers on any thread | `Accounting`, `LiveProxyHasObject`, `SyncArgsFound` |
| `netref_liveness` | one object sent three times, one request back | no deletion is lost between queue, debounce and loop (`QueueServed`), references of dropped proxies reach the owner (`EventuallyReleased`) |
| `send_queue` | three threads, one message each, stream failure and `_cleanup` at any point | `NoStranded`, refinement of `FifoDelivery` with its fairness (`DeliversInOrder`, `DeliversAll`) |
| `inbound_quarantine` | two connections, four requests (one late), cap 1, chunks of two frames, one connection may end | `CounterExact`, `InflightBounded`, `AnsweredOnce`, `DrainEnds` |
| `close_notified` | one closer of every kind, two of them on threads, an `aclose` that may be cancelled, a waiter | `ToldOnce`; listeners are told on a closed connection without socket and tables, and what is not torn down yet somebody is about to (`ToldInTeardown`); a reader that outlives its socket is in the hands of a closer (`ReaderOwed`) and goes (`ReaderGoes`); a closer past its awaits gets the listeners told, whichever closers raise in `_cleanup` (`CloserTells`) |
| `async_requests` | two awaiters of a request that may expire, a second request, replies dispatched by the loop and by a thread, cancellation, close, quarantine | `NothingLeft`, `NoLostWakeup`, `StillExpected`, `AnsweredWakes` |
| `serving` | five situations of threads with the receive lock, three with `bind_threads`: two calls, `serve_all`, `BgServingThread`, a worker, requests of the peer and nested ones, timeouts, errors, EOF | one receiver; the lock is given back; a sleeper has somebody who will wake it; replies reach the asker; occupation counts; the pool has a receiver; `CallsEnd` |
| `threaded_servers` | four pools of two workers, with up to three clients on one descriptor, batches of two, a stop; a threaded and a one-shot server | until a drop hits another connection, each is in exactly one place (`OnePlace`); the requests of those that none has hit are read (`RequestsRead`); `CloseReturns` |
| `async_serving` | up to three clients that may be cancelled, a server that is stopped or has one descriptor too few | `ReaderHasSocket` on both sides, `HandshakeAnswered`, `SessionsEnd` |
| `registry` | two servers, one with two names, UDP with two or three losses, TCP, crash and restart of a server, restart of the registry | `AckedIsListed`, `FoundInTheEnd`, `GoneInTheEnd` |
| `wire` | a value at each limit of each encoding, conversations of frames with header-like content, every cut into chunks, both readers | `ReadAsSent`, `LoadsBack`, `AllArrives` |
| `wire_nonblocking` | a sender whose loop has read once | counterexample: the stream breaks in the middle of a frame |

Every property of a passing run has a mutant in `PROJECT.json`: a plausible bug in
one definition of the model (an operator defined just before it) that makes TLC
report the property as violated. The mutants show that no property holds vacuously. Type invariants (`TypeOK`) are proved
for the modules with proofs; those of the other modules are stated and are no property of a run.

**Bounds.** `MaxBoxes` and `MaxCalls` bound what users send; two sends of an object
give a proxy that counts two, a reference that meets a dying proxy, and a second
generation of a proxy; a third lets an old deletion meet a proxy that was revived. One
request back is enough to have it before, between or behind deletions, because
requests do not influence one another. Two objects separate what a batch groups.
Three threads in `_send` let one drain, one give up on the lock and one come late;
a fourth would be like one of them. The in-flight cap is 1 and a chunk has two frames, so
that the overshoot, which the code allows, happens; three requests on one connection
fill, overshoot and quarantine it, and the fourth on the other watches. One closer of
each kind covers each pair of different kinds, a thread with the loop and a thread with
another; several of a kind are covered by the theorems. Two awaiters of one `AsyncResult` are the
least that get into each other's way, and the second request occupies the loop or
the thread while the first is on its way. The counts `MaxSends`, `MaxFrames` and
`Ending` bound effort only: the theorems about `SendQueue` hold for every value.

`serving`: two callers are the least that serve for each other, and a third thread that
only serves shows the difference; a third request of this side is one that is
nested. One request of the peer occupies a thread; a second would be routed alike.
`threaded_servers`: three clients on one descriptor give two reuses, of which the first
meets what a stale event, a stale queue entry and a worker left behind; two workers race
for one entry. `registry`: `Interval` 2, `Timeout` 1 and `Pruning` 5 keep the order that
the code's 60 s, 2 s and 240 s have, with room for one failed attempt in between. Two losses let an
UNREGISTER be doubled and a REGISTER be lost. `wire`: `MaxChunk` 9 and
`Room` 11 are smaller than a frame, so that it is written in pieces and read in parts.

**Fairness.** It is assumed for what the runtime guarantees: a started thread gets
on, the loop runs its ready callbacks, a finalizer returns, `asyncio.wait_for` and
`sync_request` end with an answer or a timeout. It is not assumed for users (sending,
dropping proxies, closing, registering), for the peer, nor for failures. `DrainEnds`
does not rely on an answer of the peer or a timeout of the handler: cancellation
alone must end the tasks. In `CloseLifecycle` a closer that was called gets on, which
includes that the `sync_request` of `close` ends by its timeout and that the shutdown of
the executor returns (`ServingClose` in section 5 shows when it does not); nobody has to
call a closer, to cancel, or to listen. In `AsyncRequests` fairness covers the dispatch of a
reply that was received, the steps of `__await__` and what is scheduled on the loop,
and neither the peer's reply nor a timeout. All actions of the cleanup loop share one
weak fairness condition, because it is a single task. In `Serving` each thread is
weakly fair (also in `acquire(False)`, which never waits), timeouts pass, and the peer answers what it
was asked; it need not make requests or go away. `Servers` assumes
threads and tasks that get on, nothing of clients, and nothing of the collector (`Collect`). `Registry` assumes that time passes, that the registry takes what
reaches it and that clients go on asking; losses are bounded by the situation, which is what
"in the end" of a lossy network means.

`CHECK_DEADLOCK` is off: all models may stop when the bounded users have
done all they may, or when the connection is closed.

## 4. What is proved

`tlapm` checks the proofs in the eight proof modules; nothing is assumed except the
named assumptions on the constants (`BoundsAssumption`, `SendersAssumption`,
`CloseAssumption`, `RequestsAssumption`, `ServersAssumption`, `DispatchAssumption`,
`ServingAssumption`, `RegistryAssumption`, and `FramingAssumption` as a hypothesis: finite sets,
natural bounds, kinds, bytes), which TLC evaluates too.

Two of the modules count along sequences: the references in the frames of a stream, the
frames of a stack that hold a lock, the messages for one thread in a queue. Such a count is
the cardinality of a set of places (`SeqTotal`, `CountIn`) instead of a recursive sum,
so that what `Append` and `Tail` do to it follows from theorems about finite sets and needs
no induction; the lemmas are at the beginning of `NetrefLifecycleProofs` and `ServingProofs`.

* **NetrefLifecycleProofs.** `Accounting` alone is not inductive for
  `SyncArgsFound`: a request is served only after the deletions in front of it.
  `CountingInv` adds `CallsCovered` (those deletions leave a reference to its
  argument), the reason for which is that a proxy in use still has a count
  (`AliveCounted`), that the batch is empty outside of a pass (`BatchInPass`), and types.
  From it: `TypeCorrect`, `AccountingHolds`, `LiveProxyHasObjectHolds`,
  `DelNeverOverdrawsHolds`, `SyncArgsFoundHolds`, for any set of objects and any bounds.
* **SendingProofs**, the queue. `DrainInv` says who may hold the lock while the channel is
  open (`LockInv`), what of a frame has been written (`FrameInv`) and that a popped
  message sits between those delivered and those queued (`OrderInv`). From it the
  safety invariants and, step by step, the refinement `DeliversInOrderHolds`, for any
  number of threads and messages.
* **SendingProofs**, the frames. `StreamInv` is about everything between the two ends:
  `Unread` is what the reader holds, then what is in flight, then what is still to write, and
  `Arriving` says that these bytes are the frames of the payloads sent and not yet read
  (`Laid`), one behind the other, the last ones cut off if a write failed, and nothing else.
  `Receives` says that `Channel.recv` waits for exactly what is missing of a header or of a
  frame, and `Modes` that only one reader holds anything. The steps follow from lemmas about
  laid frames: another one behind the last (`LaidAppend`), a beginning of them (`LaidPrefix`),
  without the first ones (`LaidDrop`), and that the header at the front says where the first
  frame ends and what it holds (`LaidFrame`). `_extract_frames` is a loop: that it takes the
  whole frames off and leaves the rest (`ExtractLaid`) is shown by induction over the places of
  the buffer, from the last one back, in the form of a least counterexample (`LeastNumber`).
  From it `ReadAsSentHolds`: with one reader, what is read are the payloads sent, in order,
  for all payloads, all sizes of chunks and of the system's buffers, all ways the bytes are cut,
  and when a write fails in a frame. The hypothesis is `FramingAssumption` (a chunk is larger
  than a header, payloads are bytes), which TLC evaluates as part of `WireAssumption`. Two
  readers are excluded because the code fails there (`WireReaders`, section 5).
* **CloseLifecycleProofs.** `CloseInv` follows each listener: on the list, in the
  hands of one closer, or told (`Places`). `Torn` says what is torn down at each point of
  a closer, and, as several may raise in `_cleanup` on what another took away, who has
  the next thing to do: whoever cleared the root drops the handlers if they are there, and
  the one that found them there releases the rest. `Bound` does the same for the reader:
  it is registered or somebody removes it; if the hook is taken, somebody looks at
  `_registered_fd`; and who is past the hook, or past `_registered_fd`, knows that it is
  taken, or cleared. That is what replaces "socket closed implies reader removed", which
  does not hold. `Located` ties the parts to the points, and says that a closer of the
  loop that is not at an await has the loop: the witness of `ReaderOwed` is one that the
  loop cannot interrupt. From it `ToldOnceHolds`, `ToldInTeardownHolds`, `ReaderOwedHolds`,
  for any number of closers of each kind and of listeners.
* **AsyncRequestsProofs.** `NoLostWakeup` needs to know why an awaiter is on the
  list when its reply comes. `RequestInv` says that replies which the loop dispatches
  and `__await__` exclude each other (`LoopTaken`, `LookedInTime`), that an awaiter
  stays on the list as long as its reply can come (`Enlisted`), that only the end of
  a wait or a cleared table takes a slot away (`SlotKept`), and where slots and
  lists are at each point of a reply (`Progress`). From it `NothingLeftHolds`,
  `NoLostWakeupHolds`, `StillExpectedHolds`, for any number of requests, and any
  number of awaiters of each.
* **InboundDispatchProofs.** Everything rests on the queue of the loop. `DispatchInv` says
  that a request has at most one of `_schedule`, its step and `_on_done` in it, and
  which one tells its state (`Queue`): without that `_on_done` could count a task
  twice. `Answers` and `Slots` follow a request from its start to its answer. From it
  `CounterExactHolds`, `OthersUnaffectedHolds`, `AnsweredOnceHolds`, `SlotsReleasedHolds`.
  `BoundInv` adds the order of the queue, a connection being read again only behind
  the requests of its last chunk (`Lined`), so that all those are counted by then, and what holds
  in the middle of a chunk (`Chunk`). From it `InflightBoundedHolds`, for any number of connections and
  requests and any cap.
* **ServingProofs**, without `bind_threads`. What the lock has to be is a statement about
  stacks: `LockInv` says that the count of the lock is the number of frames of its owner
  that should have it, for every thread (`Counted`), with two exceptions: `escaped`, when
  there are more of them, and a thread whose connection ended under it (`Doomed`), since
  `close` may release once too often. `Buried` says that a frame below another is a handler or
  an unboxing, so that only the innermost one moves. `SleepersOwed` is part of the
  invariant and needs it: who takes over the lock must not sleep. From it
  `LockIsGivenBack`, `SleepersAreOwed`, and half of `OneReceives`.
* **ServingProofs**, with `bind_threads`. `ReplyAtAsker` is about routing, but what
  makes it true is that the conversation of each thread with the peer is nested.
  `ThreadInv` says so: at most one message is on its way to a thread, in the socket or in its
  queue, and belongs to the request of its innermost frame (`OneMessage`); at most one request is the
  peer's turn (`PeersTurn`); the frames in the middle of the stack are handlers of calls
  that the peer made while it answers (`FramesFit`); the occupation count is the sum of all
  of these (`Duties`). `ReqInv` says that a request is in one frame only. `Routing` ties the
  pool, the events and the queues to where threads are: whoever waits is in the pool once, a
  queue with a message has its event set, and when nobody receives, somebody has been woken
  that finds no message (`Served`); a thread that timed out may stay in the pool (`Abandoned`). Once
  the connection is closed most of this ends and `Settled` is left, which is
  what replies still in the queues need. From it `RepliesGoToTheirAsker`, `OccupationIsExact`,
  `PoolIsServed`, and the other half of `OneReceives`. Both parts hold for any
  threads, any situation and any depth of the stacks; the bounds on requests play no part.
* **ServersProofs**, with threads. `OnePlace` speaks of a connection that the map has under
  its descriptor. That is only the good case: a connection which is not in the map yet is
  in no place (`OpenPlaced`), a descriptor that nobody has is in no place either as long as
  new clients may get it (`NoStray`), and a handler works for the client that has its descriptor
  (`HandlersOwn`), since it is the handler who drops a connection at its EOF, and drops what the map
  has. These three (`Placed`) hold until a drop hits another connection; the rest of `PoolInv`
  (`Tables`) holds always: a client is accepted once (`Arriving`), whatever the map
  and the handlers have is without a descriptor or has theirs (`Descriptors`), the poll thread
  has one event of each descriptor that is still polled (`FoundOnce`), and who closes connections
  has stopped the server before (`Stopped`), which is what `NoStray` leans on. The places are counted:
  the lemmas at the beginning say what `Append`, `Tail` and a step of one worker do to the number of
  entries of a descriptor in the queue and at the workers. A poll thread between the lookup and
  the deletion of a drop counts as a place (`Drops`), a worker there does not: its
  connection has its socket closed already. From it `OnePlaceHolds`, for any
  clients, descriptors and workers.
* **ServersProofs**, with a loop. `ReaderHasSocket` depends on who may close a socket.
  `LoopInv` adds that a client which is accepted, or waits to be, has no task yet
  (`Handed`), so that the accepting task closes only sockets nobody reads, and
  that a new task has its socket and only a waiting task a reader (`Served`). From it
  `ReaderHasSocketHolds`, for any number of clients and any situation.
* **RegistryProofs.** `AckedIsListed` speaks of servers that sleep; the registering
  thread also looks at the time between two sleeps (`WaitersListed`), and when it gets the "OK" it
  relies on how old that can be: `AckIsFresh` says that the entry the "OK" speaks of has its full
  time left, and that the registrar's timeout is not over. From it `ListedUntilReregistered`, for
  any servers, names and times, with any losses and doubles.

Only model-checked: everything under fairness (`QueueServed`, `EventuallyReleased`,
`DeliversAll`, `DrainEnds`, `ReaderGoes`, `CloserTells`, `AnsweredWakes`, `CallsEnd`, `RequestsRead`,
`CloseReturns`, `HandshakeAnswered`, `SessionsEnd`, `FoundInTheEnd`, `GoneInTheEnd`,
`AllArrives`), for the prover handles neither `ENABLED` nor fairness; and
`LoadsBack`, because `Brine` is made of RECURSIVE operators over nested values.

## 5. Disagreements with the documentation

One is a run (`wire_nonblocking`). The others have configurations of their own, which
are not among the runs; `tlc -workers 2 -config X.cfg M` with the configuration and the
module of the table prints the counterexample (where several properties share a
configuration, leave out those found before to see the next). All models are those of the
passing runs.

| Configuration, module | Property | What happens |
|---|---|---|
| `WireNonBlocking`, `MCWire` | `SendWaits` | `recv_available` makes the socket non-blocking; `write` takes EAGAIN for a dead stream. `Channel.send` "blocks until the packet has been sent" (`core/channel.py:63`). A reply of some megabytes on a connection with a loop shows it in practice. |
| `WireReaders`, `MCWire` | `ReadAsSent` | A synchronous request on the thread of the loop reads with `Channel.recv` while `_async_inbuf` holds the beginning of a frame: the stream is read from its middle (`docs/API_REFERENCE.md:296` allows the mixture). |
| `NetrefResurrection`, `MCNetrefLifecycle` | `IncrementsMatchDecrements` | A proxy that reappears before the deletion of its predecessor is processed makes the cleanup loop drop the count for good (`core/protocol.py:1598`; `docs/DESIGN_REFCOUNT_RACE_FIX.md:24`). |
| `NetrefAsyncCall`, `MCNetrefLifecycle` | `AsyncArgsFound` | The argument of a request to an async handler may be deleted by a HANDLE_DEL that arrived *behind* the request (`core/protocol.py:2380`, comment at 1978). |
| `InboundLateTasks`, `MCInboundDispatch` | `EveryTaskEnds` | Tasks of late coroutines are invisible to `_drain_inbound_dispatch` (`core/protocol.py:2594`, docstring at 577). |
| `CloseUnkept`, `MCCloseLifecycle` | `ToldAfterTeardown` | A second closer that enters `_cleanup` tells the listeners at once (`core/protocol.py:709`), while the first may still have to drop the handlers (740), to end the executor and to release the locks; the comment at 752 wants the notifications "AFTER all internal state is torn down". |
| `CloseUnkept`, `MCCloseLifecycle` | `ReaderRemoved` | `_registered_fd` is cleared (`core/protocol.py:959`) before `remove_reader` (962), and the hook is taken (`core/stream.py:265`) before it is called: another closer in between finds nothing to do and closes the socket, and its reader is still there. The comment at `core/protocol.py:1183` calls the opposite an invariant. `ReaderOwed` and `ReaderGoes` are what holds. |
| `CloseUnkept`, `MCCloseLifecycle` | `EveryoneTold` | A reply that finds the channel dead marks the connection closed, and nobody tells the listeners (`core/protocol.py:2362`, docstring at 808). |
| `CloseUnkept`, `MCCloseLifecycle` | `AcloseCloses` | `aclose` raises if the send of HANDLE_CLOSE fails, although its comment says it proceeds (`core/protocol.py:3304`). |
| `RequestsThreads`, `MCAsyncRequests` | `ThreadSafeAwait` | A thread that completes the result between the two steps of `add_callback` leaves the awaiter asleep; `docs/API_REFERENCE.md:158` calls `await` thread-safe. |
| `ServingErrors`, `MCServing` | `CallsEnd` | MSG_EXCEPTION releases `_recvlock` before its callback (`core/protocol.py:2867`): the thread it is for may take the lock in between, see that it still waits, and receive for ever. |
| `ServingClose`, `MCServing` | `CloseEnds` | With `bind_threads` the receiver of the EOF closes, and `executor.shutdown(wait=True)` joins a worker that sleeps in the pool (`core/protocol.py:742`): `close` hangs. |
| `ServersUnkept`, `MCServers` | `ConnectEnds` | If the server ends the connection first, `async_connect` awaits the handshake for ever: clearing the callbacks resolves nothing (`core/async_connect.py:83` promises ConnectionError). |
| `ServersUnkept`, `MCServers` | `NothingLeft` | A cancelled `async_connect` leaves reader and socket: `except Exception` misses CancelledError (`core/async_connect.py:185`, "on ANY failure"). |
| `ServersUnkept`, `MCServers` | `LoopRuns` | At the limit of descriptors `sock_accept` fails without an await and `_accept_loop` tries again for ever (`utils/async_server.py:164`; `docs/DESIGN_NO_POLLING_ASYNCIO_READ.md:11`). |
| `ServersUnkept`, `MCServers` | `ClientsClosed` | `Server.close` leaves clients it is just accepting, and all of a pool, whose `clients` is emptied (`utils/server.py:108`, 499). |
| `ServersUnkept`, `MCServers` | `DropsOnlyClosed` | A stale event or queue entry drops the connection that got the descriptor since (`utils/server.py:379`, 437). |
| `ServersUnkept`, `MCServers` | `DropsClose` | `_drop_connection` "removes a connection by closing it and removing it from internal structs" (`utils/server.py:374`). If the accepting thread stores a new connection under the descriptor between lookup (379) and `del` (380), that entry goes and the old connection is closed: the new one stays open, and unless the service lets go of it no thread reads it again. |

Each passing run about the same code shows what does hold: the accounting with the
lost references counted, synchronous arguments, tasks of async handlers, closes that
reach `_cleanup`, a reader that somebody takes off, replies that the loop dispatches, calls without errors.

Known and stated inside a property rather than refuted:

* An awaiter whose slot is taken by another awaiter of the same `AsyncResult`, by a
  cleared table or by an expiry waits for good (`StillExpected` names these as the only
  ways).
* An exception out of the unboxing of a reply keeps `_recvlock` (`escaped` in
  `LockGivenBack`, `SleepersOwed`, `CallsEnd`).
* With `bind_threads` a thread that times out stays in `_thread_pool` and may be woken in
  place of one that waits (`PoolServed` is about connections without a timeout so far);
  an EOF wakes only the first of the pool (`CallsEnd` does not promise an end of the
  calls once the peer is gone).
* A task that is cancelled twice, by `close` and by `asyncio.run`, abandons its
  connection to the collector (`SessionsEnd`).
* A drop of a reused descriptor may close another connection, or delete its entry and
  close the old one. In the second case the new connection is open, perhaps polled, and in
  no map: a request of it wakes a worker that finds no entry and puts the descriptor back "in
  doubt" (`utils/server.py:441`), again and again, and its client neither gets an answer
  nor sees it closed, until `__del__` closes it (`Collect`) if nothing refers to it.
  `OnePlace` speaks of the time before the first such drop, `RequestsRead` of the
  connections that none has hit (`stolen`).
* An `aclose` that is cancelled, or cannot send, leaves the connection open and its
  listeners waiting for another closer (`CloserTells` begins behind its awaits).
* A thread that is held up between clearing `_registered_fd` and `remove_reader` has an old
  descriptor: if the socket is closed meanwhile, and the number goes to a new connection
  of the loop, it removes the reader of that one. `CloseLifecycle` follows one connection
  and cannot show it.
* An UNREGISTER that is late, or a REGISTER of the background thread behind the
  UNREGISTER of `close`, leaves a wrong entry until the next registration or pruning
  (`struck` in `AckedIsListed`; `GoneInTheEnd`).
* `dumpable` is true of a string with a lone surrogate, and `dump` raises; the wire model
  sends nothing then.

## 6. Not modelled, and the plan

Done: reference counting, sending, dispatch, close, requests, serving without a loop,
the wire, both kinds of servers, asynchronous connect, the registry. What is left:

1. `StableId`: two live objects never share an id, an object keeps its id while the peer
   knows it. The lookup goes by equality and hash of user objects, so the model has to
   take these as constants.
2. `SendQueue` composed with `AsyncRequests`: the sender that sees the exception of a
   write for another thread's message.
3. An `on_disconnect` that raises, in `CloseLifecycle`.

Not planned, because they are conversions, reflection or I/O of the operating system
without interleavings of their own: exception formatting (`core/vinegar.py`), netref
classes and services, attribute access, the wrappers of `utils/helpers.py`, SSL, pipes and
name resolution, `ForkingServer` and `GeventServer` (their processes and greenlets share
nothing), authentication, code transfer and deployment, command lines.
