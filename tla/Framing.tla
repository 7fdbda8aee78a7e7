------------------------------ MODULE Framing -------------------------------
(***************************************************************************)
(* Frames on the wire, in one direction of a connection: Channel.send and  *)
(* the writes of the stream on one side (core/channel.py, core/stream.py), *)
(* and on the other the reader of the event loop (recv_available and       *)
(* _extract_frames, core/protocol.py) or serve with Channel.recv.          *)
(*                                                                         *)
(* Sizes are the code's but for two: MaxChunk stands for MAX_IO_CHUNK and  *)
(* Threshold for COMPRESSION_THRESHOLD.  The socket of a side whose loop   *)
(* has read from it is non-blocking, for its writes too.                   *)
(***************************************************************************)
EXTENDS Struct, Transfer

CONSTANTS
  Encoded,   (* the bytes of every value that can be dumped                 *)
  MaxChunk,  (* MAX_IO_CHUNK                                                *)
  Threshold, (* COMPRESSION_THRESHOLD                                       *)
  Room,      (* bound: what the system buffers of what was sent             *)
  Setups     (* situations: the values to send, how the sender is served,   *)
             (* and who reads                                               *)

HeaderSize == 5
Flusher    == <<10>>

(* Assumed of the constants by Wire.                                       *)
FramingAssumption ==
  /\ MaxChunk \in Nat /\ MaxChunk > HeaderSize /\ Threshold \in Nat /\ Room \in Nat \ {0}
  /\ \A v \in DOMAIN Encoded : Encoded[v] \in Seq(Bytes)
  /\ \A s \in Setups : s.loop \in BOOLEAN /\ s.readers \in SUBSET {"loop", "serve"}

VARIABLES
  setup,    (* the situation, constant                                      *)
  todo,     (* values still to send                                         *)
  writes,   (* what Channel.send has still to write of its frame            *)
  blocking, (* the mode of the sender's socket                              *)
  broken,   (* a write failed and closed the stream                         *)
  flight,   (* bytes in the buffers of the system                           *)
  inbuf,    (* _async_inbuf                                                 *)
  want,     (* of Channel.recv: bytes to come, 0 if it is not running       *)
  have      (* of Channel.recv: bytes read                                  *)

sender == <<todo, writes, framed, blocking, broken>>
reader == <<inbuf, want, have, got>>
vars == <<setup, sender, flight, reader>>

Init ==
  /\ setup \in Setups /\ todo = setup.values
  /\ writes = <<>> /\ framed = <<>> /\ blocking = TRUE /\ broken = FALSE
  /\ flight = <<>> /\ inbuf = <<>> /\ want = 0 /\ have = <<>> /\ got = <<>>

-----------------------------------------------------------------------------
(* Frames.                                                                 *)

(* zlib: any function with an inverse; the result may be the longer one.   *)
Compress(data)   == <<120>> \o data
Decompress(data) == IF data = <<>> THEN data ELSE Tail(data)

Compressed(data) == Len(data) > Threshold
Body(data)       == IF Compressed(data) THEN Compress(data) ELSE data
Header(data)     == Pack4(Len(Body(data))) \o <<IF Compressed(data) THEN 1 ELSE 0>>

(* header + data + FLUSHER at once, if it fits into a chunk.               *)
Pieces(header, body) ==
  IF Len(header) + Len(body) + 1 <= MaxChunk THEN <<header \o body \o Flusher>>
  ELSE LET part1 == MaxChunk - HeaderSize IN
       << header \o SubSeq(body, 1, part1), SubSeq(body, part1 + 1, Len(body)), Flusher >>

Framed(data) == Pieces(Header(data), Body(data))

Payload(body, compressed) == IF compressed = 0 THEN body ELSE Decompress(body)

(* Mutant of Total: the FLUSHER stays in the buffer.                       *)
TotalNoFlusher(buf) == HeaderSize + Unpack4(buf)

Total(buf) == HeaderSize + Unpack4(buf) + Len(Flusher)

Whole(buf) == Len(buf) >= HeaderSize /\ Len(buf) >= Total(buf)

(* The payload of the frame that a buffer begins with.                     *)
First(buf) == Payload(SubSeq(buf, HeaderSize + 1, Total(buf) - Len(Flusher)), buf[HeaderSize])

Least(m, n) == IF m < n THEN m ELSE n

Drop(s, n) == SubSeq(s, n + 1, Len(s))

(* _extract_frames: the payloads of whole frames, and the remainder; the   *)
(* frames from a position on are the first and those behind it.            *)
Carve(buf, at, carve) ==
  LET rest == Drop(buf, at) IN
  IF ~Whole(rest) THEN [frames |-> <<>>, rest |-> rest]
  ELSE LET behind == carve[at + Total(rest)]
       IN [frames |-> <<First(rest)>> \o behind.frames, rest |-> behind.rest]

Extract(buf) ==
  LET carve[at \in 0..Len(buf)] == Carve(buf, at, carve)
  IN carve[0]

-----------------------------------------------------------------------------
(* The sender.                                                             *)

(* dump returns, and so does the pack of the header.                       *)
Sends(v) == v \in DOMAIN Encoded /\ Packs4(Len(Body(Encoded[v])))

(* _send, holding _sendlock.                                               *)
Send ==
  /\ todo # <<>> /\ writes = <<>> /\ ~broken /\ Sends(todo[1])
  /\ todo' = Tail(todo)
  /\ writes' = Framed(Encoded[todo[1]]) /\ framed' = Append(framed, Encoded[todo[1]])
  /\ UNCHANGED <<setup, blocking, broken, flight, reader>>

(* dump or pack raises before anything is written.                         *)
SendRaises ==
  /\ todo # <<>> /\ writes = <<>> /\ ~broken /\ ~Sends(todo[1])
  /\ todo' = Tail(todo)
  /\ UNCHANGED <<setup, writes, framed, blocking, broken, flight, reader>>

(* Mutant of Sent: the rest of a piece is dropped (send, not sendall).     *)
SentOnce(n) == Tail(writes)

Sent(n) ==
  IF n = Len(writes[1]) THEN Tail(writes) ELSE <<Drop(writes[1], n)>> \o Tail(writes)

(* sock.send takes some of it, or fails if it would have to wait.          *)
Write ==
  /\ writes # <<>> /\ Len(flight) < Room
  /\ \E n \in 1..Least(Least(Len(writes[1]), MaxChunk), Room - Len(flight)) :
       flight' = flight \o SubSeq(writes[1], 1, n) /\ writes' = Sent(n)
  /\ UNCHANGED <<setup, todo, framed, blocking, broken, reader>>

(* `while data`: nothing is written of nothing.                            *)
WriteEmpty ==
  /\ writes # <<>> /\ writes[1] = <<>> /\ writes' = Tail(writes)
  /\ UNCHANGED <<setup, todo, framed, blocking, broken, flight, reader>>

WouldBlock ==
  /\ writes # <<>> /\ Len(flight) >= Room /\ ~blocking
  /\ broken' = TRUE /\ writes' = <<>>
  /\ UNCHANGED <<setup, todo, framed, blocking, flight, reader>>

(* The sender's own loop reads from the socket what comes the other way.   *)
OwnRead ==
  /\ setup.loop /\ blocking /\ ~broken /\ blocking' = FALSE
  /\ UNCHANGED <<setup, todo, writes, framed, broken, flight, reader>>

-----------------------------------------------------------------------------
(* The reader.                                                             *)

(* on_readable, unless its thread is in serve.                             *)
OnReadable ==
  /\ "loop" \in setup.readers /\ flight # <<>> /\ want = 0
  /\ LET n       == Least(Len(flight), MaxChunk)
         extract == Extract(inbuf \o SubSeq(flight, 1, n))
     IN /\ flight' = Drop(flight, n)
        /\ inbuf' = extract.rest /\ got' = got \o extract.frames
  /\ UNCHANGED <<setup, sender, want, have>>

(* serve: poll, then Channel.recv reads the header.                        *)
Serve ==
  /\ "serve" \in setup.readers /\ flight # <<>> /\ want = 0
  /\ want' = HeaderSize /\ have' = <<>>
  /\ UNCHANGED <<setup, sender, flight, inbuf, got>>

(* stream.read: until all that is wanted came.  A non-blocking socket is   *)
(* asked again and again.                                                  *)
Read ==
  /\ want > 0 /\ flight # <<>>
  /\ LET n == Least(Least(Len(flight), MaxChunk), want)
         all == have \o SubSeq(flight, 1, n)
     IN /\ flight' = Drop(flight, n) /\ have' = all
        /\ want' = IF want = n /\ Len(all) = HeaderSize THEN Unpack4(all) + Len(Flusher)
                   ELSE want - n
        /\ got' = IF want = n /\ Len(all) > HeaderSize
                  THEN Append(got, Payload(SubSeq(all, HeaderSize + 1, Len(all) - 1),
                                           all[HeaderSize]))
                  ELSE got
  /\ UNCHANGED <<setup, sender, inbuf>>

-----------------------------------------------------------------------------
Sending == Send \/ SendRaises \/ Write \/ WriteEmpty \/ WouldBlock
Reading == OnReadable \/ Serve \/ Read

Next == Sending \/ OwnRead \/ Reading

Spec == Init /\ [][Next]_vars

(* A sender goes on while there is room, and what has come is read.        *)
FairSpec == Spec /\ WF_vars(Sending) /\ WF_vars(Reading)

-----------------------------------------------------------------------------
(* The bytes are in their ranges, and so is what Channel.recv waits for.   *)
TypeOK ==
  /\ \A s \in {flight, inbuf, have} : \A i \in 1..Len(s) : s[i] \in Bytes
  /\ \A k \in 1..Len(writes) : \A i \in 1..Len(writes[k]) : writes[k][i] \in Bytes
  /\ Len(writes) <= 3 /\ Len(flight) <= Room /\ want \in Nat
  /\ blocking \in BOOLEAN /\ broken \in BOOLEAN

(* Channel.send "blocks until the packet has been sent".                   *)
SendWaits == ~broken

=============================================================================
