-------------------------------- MODULE Wire --------------------------------
(* Values on the wire: brine (core/brine.py) makes bytes of them, Framing  *)
(* carries these, brine makes values of them again.                        *)
(*                                                                         *)
(* _box passes by value what brine calls dumpable; the values are such.    *)
EXTENDS Brine, Transfer

CONSTANTS
  MaxChunk,  (* MAX_IO_CHUNK                                                *)
  Threshold, (* COMPRESSION_THRESHOLD                                       *)
  Room,      (* bound: what the system buffers of what was sent             *)
  Setups     (* situations: the values to send, how the sender is served,   *)
             (* and who reads                                               *)

VARIABLES setup, todo, writes, blocking, broken, flight, inbuf, want, have

(* dump of every value that can be dumped: a constant, worked out once.    *)
Dumped ==
  [v \in {w \in UNION {ToSet(s.values) : s \in Setups} : Dumps(w)} |-> DumpValue(v)]

F == INSTANCE Framing WITH Encoded <- Dumped

ASSUME WireAssumption ==
  /\ F!FramingAssumption
  /\ \A s \in Setups : \A i \in DOMAIN s.values : Dumpable(s.values[i])

FairSpec == F!FairSpec
SendWaits == F!SendWaits

-----------------------------------------------------------------------------
Sendable == SelectSeq(setup.values, Dumps)

(* What was dumped is loaded again, and to the last byte: every tag leads  *)
(* to the loader that undoes the dumper, at the limits of the lengths and  *)
(* of the one-byte integers, and in any nesting.                           *)
LoadsBack ==
  \A i \in DOMAIN got :
    LoadValue(got[i], 1) = [value |-> Sendable[i], next |-> Len(got[i]) + 1]

(* All that is sent arrives, unless the stream broke.                      *)
AllArrives == <>(broken \/ Len(got) = Len(Sendable))

=============================================================================
