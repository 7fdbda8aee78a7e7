------------------------------- MODULE Brine --------------------------------
(***************************************************************************)
(* Brine (core/brine.py): values to bytes and back.                        *)
(*                                                                         *)
(* A value is <<type, content>>; bytes are numbers, and the tags are those *)
(* of the code.  A float is its eight bytes, a complex number its sixteen,  *)
(* as the struct module packs them.                                        *)
(***************************************************************************)
EXTENDS Struct, SequencesExt

(* The one-byte values, and the tags of the rest.                          *)
Singletons == [none |-> 0, true |-> 3, false |-> 4, notimplemented |-> 5, ellipsis |-> 6]

EmptyStr == 1
EmptyTuple == 2
Unicode == 8
Str == 9      (* + 1..4 *)
StrL1 == 14
StrL4 == 15
Tup == 15     (* + 1..4 *)
TupL1 == 20
TupL4 == 21
IntL1 == 22
IntL4 == 23
Float == 24
Slice == 25
FSet == 26
Complex == 27

ImmInts   == -48..159
ImmOffset == 80

(* str(n) and int(s): the sign and the decimal digits, in ASCII.           *)
RECURSIVE DigitsOf(_)
DigitsOf(n) == (IF n < 10 THEN <<>> ELSE DigitsOf(n \div 10)) \o <<48 + (n % 10)>>

IntText(n) == IF n < 0 THEN <<45>> \o DigitsOf(-n) ELSE DigitsOf(n)

TextInt(s) ==
  IF s[1] = 45 THEN -FoldLeft(LAMBDA n, d : 10 * n + d - 48, 0, Tail(s))
               ELSE  FoldLeft(LAMBDA n, d : 10 * n + d - 48, 0, s)

(* The utf8 codec, for code points below 2048 and for the lone surrogate,  *)
(* which it refuses.                                                       *)
Surrogate == 55296

EncodeChar(c) == IF c < 128 THEN <<c>> ELSE <<192 + (c \div 64), 128 + (c % 64)>>

Utf8(s) == FlattenSeq([i \in DOMAIN s |-> EncodeChar(s[i])])

RECURSIVE DecodeUtf8(_)
DecodeUtf8(b) ==
  IF b = <<>> THEN <<>>
  ELSE IF b[1] < 128 THEN <<b[1]>> \o DecodeUtf8(Tail(b))
  ELSE <<(b[1] - 192) * 64 + b[2] - 128>> \o DecodeUtf8(SubSeq(b, 3, Len(b)))

-----------------------------------------------------------------------------
(* Dumping.                                                                *)

(* Mutant of OneByteLength: a length of 256 is taken for one byte, too.    *)
OneByteLengthWrong(n) == n <= ByteBase

OneByteLength(n) == n < ByteBase

WithLength(n, short, long) ==
  IF OneByteLength(n) THEN <<short, n % ByteBase>> ELSE <<long>> \o Pack4(n)

DumpBytes(s) ==
  LET n == Len(s) IN
  (IF n = 0 THEN <<EmptyStr>> ELSE IF n <= 4 THEN <<Str + n>>
   ELSE WithLength(n, StrL1, StrL4)) \o s

DumpInt(n) ==
  IF n \in ImmInts THEN <<n + ImmOffset>>
  ELSE WithLength(Len(IntText(n)), IntL1, IntL4) \o IntText(n)

RECURSIVE Joined(_)
Joined(ss) ==
  IF Len(ss) = 0 THEN <<>> ELSE IF Len(ss) = 1 THEN ss[1]
  ELSE LET half == Len(ss) \div 2
       IN Joined(SubSeq(ss, 1, half)) \o Joined(SubSeq(ss, half + 1, Len(ss)))

RECURSIVE DumpValue(_)
DumpTuple(s) ==
  LET n == Len(s) IN
  (IF n = 0 THEN <<EmptyTuple>> ELSE IF n <= 4 THEN <<Tup + n>>
   ELSE WithLength(n, TupL1, TupL4)) \o Joined([i \in DOMAIN s |-> DumpValue(s[i])])

(* The members of a frozenset are given in the order tuple() yields them.  *)
DumpValue(v) ==
  CASE v[1] = "single"  -> <<Singletons[v[2]]>>
    [] v[1] = "int"     -> DumpInt(v[2])
    [] v[1] = "float"   -> <<Float>> \o v[2]
    [] v[1] = "complex" -> <<Complex>> \o v[2]
    [] v[1] = "bytes"   -> DumpBytes(v[2])
    [] v[1] = "str"     -> <<Unicode>> \o DumpBytes(Utf8(v[2]))
    [] v[1] = "tuple"   -> DumpTuple(v[2])
    [] v[1] = "slice"   -> <<Slice>> \o DumpTuple(v[2])
    [] v[1] = "fset"    -> <<FSet>> \o DumpTuple(v[2])

(* dump returns, and does not raise: no other type, and no surrogate.      *)
RECURSIVE Dumps(_)
Dumps(v) ==
  CASE v[1] = "other" -> FALSE
    [] v[1] = "str"   -> \A i \in DOMAIN v[2] : v[2][i] # Surrogate
    [] v[1] \in {"tuple", "slice", "fset"} -> \A i \in DOMAIN v[2] : Dumps(v[2][i])
    [] OTHER -> TRUE

(* dumpable: of the type alone; it takes a surrogate for dumpable.         *)
RECURSIVE Dumpable(_)
Dumpable(v) ==
  CASE v[1] = "other" -> FALSE
    [] v[1] \in {"tuple", "slice", "fset"} -> \A i \in DOMAIN v[2] : Dumpable(v[2][i])
    [] OTHER -> TRUE

-----------------------------------------------------------------------------
(* Loading: a loader returns the value and the position behind it.         *)

Loaded(v, next) == [value |-> v, next |-> next]

LoadTail(b, p, n) == SubSeq(b, p, p + n - 1)

(* A length follows: of one byte, or of four; what it counts begins at.    *)
LengthAt(b, p, short) ==
  IF b[p] = short THEN [n |-> b[p + 1], at |-> p + 2]
  ELSE [n |-> Unpack4(LoadTail(b, p + 1, 4)), at |-> p + 5]

LoadBytes(b, p) ==
  LET l == IF b[p] = EmptyStr THEN [n |-> 0, at |-> p + 1]
           ELSE IF b[p] \in Str + 1..Str + 4 THEN [n |-> b[p] - Str, at |-> p + 1]
           ELSE LengthAt(b, p, StrL1)
  IN Loaded(LoadTail(b, l.at, l.n), l.at + l.n)

RECURSIVE LoadValue(_, _), LoadItems(_, _, _)

(* Next(v) for the value v; TLC then evaluates v once.                     *)
Then(v, Next(_)) == CHOOSE result \in {Next(x) : x \in {v}} : TRUE

(* One after the other; by halves, which spares TLC's stack.               *)
LoadItems(b, p, n) ==
  IF n = 0 THEN Loaded(<<>>, p)
  ELSE IF n = 1 THEN Then(LoadValue(b, p), LAMBDA only : Loaded(<<only.value>>, only.next))
  ELSE Then(LoadItems(b, p, n \div 2), LAMBDA first :
         Then(LoadItems(b, first.next, n - n \div 2), LAMBDA rest :
           Loaded(first.value \o rest.value, rest.next)))

LoadTuple(b, p) ==
  IF b[p] = EmptyTuple THEN Loaded(<<>>, p + 1)
  ELSE IF b[p] \in Tup + 1..Tup + 4 THEN LoadItems(b, p + 1, b[p] - Tup)
  ELSE LET l == LengthAt(b, p, TupL1) IN LoadItems(b, l.at, l.n)

LoadValue(b, p) ==
  LET tag == b[p]
      As(type, content) == Loaded(<<type, content.value>>, content.next)
      Long == LengthAt(b, p, IntL1)
  IN
  CASE tag - ImmOffset \in ImmInts -> Loaded(<<"int", tag - ImmOffset>>, p + 1)
    [] \E s \in DOMAIN Singletons : Singletons[s] = tag ->
         Loaded(<<"single", CHOOSE s \in DOMAIN Singletons : Singletons[s] = tag>>, p + 1)
    [] tag \in {IntL1, IntL4} ->
         Loaded(<<"int", TextInt(LoadTail(b, Long.at, Long.n))>>, Long.at + Long.n)
    [] tag = Float   -> Loaded(<<"float", LoadTail(b, p + 1, 8)>>, p + 9)
    [] tag = Complex -> Loaded(<<"complex", LoadTail(b, p + 1, 16)>>, p + 17)
    [] tag = Unicode -> LET s == LoadBytes(b, p + 1)
                        IN Loaded(<<"str", DecodeUtf8(s.value)>>, s.next)
    [] tag = Slice   -> As("slice", LoadTuple(b, p + 1))
    [] tag = FSet    -> As("fset", LoadTuple(b, p + 1))
    [] tag \in {EmptyStr} \cup Str + 1..StrL4 -> As("bytes", LoadBytes(b, p))
    [] tag \in {EmptyTuple} \cup Tup + 1..TupL4 -> As("tuple", LoadTuple(b, p))

=============================================================================
