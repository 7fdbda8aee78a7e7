------------------------------- MODULE Struct -------------------------------
(* Numbers as the struct module packs them: "!B", and "!L" and "!LB" with  *)
(* the most significant byte first.                                        *)
EXTENDS Integers, Sequences

ByteBase == 256
Bytes    == 0..255

(* What four bytes can say; for more, pack raises struct.error.            *)
Packs4(n) == n \div (ByteBase * ByteBase * ByteBase) < ByteBase

Pack4(n) ==
  << n \div (ByteBase * ByteBase * ByteBase), (n \div (ByteBase * ByteBase)) % ByteBase,
     (n \div ByteBase) % ByteBase, n % ByteBase >>

Unpack4(b) ==
  b[1] * (ByteBase * ByteBase * ByteBase) + b[2] * (ByteBase * ByteBase) + b[3] * ByteBase + b[4]

=============================================================================
