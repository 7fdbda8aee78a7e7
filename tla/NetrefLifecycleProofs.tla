----------------------- MODULE NetrefLifecycleProofs -----------------------
(* Proofs about NetrefLifecycle for any set of objects and any bounds.     *)
EXTENDS NetrefLifecycle, Integers, SequenceTheorems, FiniteSetTheorems, TLAPS

-----------------------------------------------------------------------------
(* How SeqTotal changes when a FIFO queue of weights grows at its end and  *)
(* shrinks at its head.                                                    *)

(* A pair of UnitPairs, without the UNION.                                 *)
LEMMA UnitPairsMember ==
  ASSUME NEW w, NEW p
  PROVE  p \in UnitPairs(w) <=> \E i \in DOMAIN w : \E u \in 1..w[i] : p = <<i, u>>
BY DEF UnitPairs

(* The units of one position.                                              *)
LEMMA ColumnCardinality ==
  ASSUME NEW i, NEW n \in Nat
  PROVE  /\ IsFiniteSet({i} \X (1..n))
         /\ Cardinality({i} \X (1..n)) = n
<1>1. IsFiniteSet({i}) /\ Cardinality({i}) = 1
  BY FS_Singleton
<1>2. IsFiniteSet(1..n) /\ Cardinality(1..n) = n
  BY FS_Interval
<1>3. /\ IsFiniteSet({i} \X (1..n))
      /\ Cardinality({i} \X (1..n)) = Cardinality({i}) * Cardinality(1..n)
  BY <1>1, <1>2, FS_Product
<1>. QED
  BY <1>1, <1>2, <1>3

(* A sequence has finitely many units, so its total is a number.           *)
LEMMA SeqTotalNat ==
  ASSUME NEW w \in Seq(Nat)
  PROVE  IsFiniteSet(UnitPairs(w)) /\ SeqTotal(w) \in Nat
<1>. DEFINE Column(i) == {i} \X (1..w[i])
            B == 1..Len(w)
            F == [i \in B |-> Column(i)]
<1>1. DOMAIN w = B /\ \A i \in B : w[i] \in Nat
  BY LenProperties, ElementOfSeq
<1>2. IsFiniteSet(B)
  BY LenProperties, FS_Interval
<1>3. IsFiniteSet({Column(i) : i \in B})
  <2>1. F \in Surjection(B, {Column(i) : i \in B})
    BY DEF Surjection
  <2>. QED
    BY <2>1, <1>2, FS_Surjection
<1>4. \A T \in {Column(i) : i \in B} : IsFiniteSet(T)
  <2>1. ASSUME NEW i \in B PROVE IsFiniteSet(Column(i))
    <3>1. w[i] \in Nat
      BY <1>1
    <3>. QED
      BY <3>1, ColumnCardinality
  <2>. QED
    BY <2>1
<1>5. IsFiniteSet(UNION {Column(i) : i \in B})
  BY <1>3, <1>4, FS_UNION
<1>6. IsFiniteSet(UnitPairs(w))
  BY <1>1, <1>5 DEF UnitPairs
<1>. QED
  BY <1>6, FS_CardinalityType DEF SeqTotal

LEMMA SeqTotalEmpty == SeqTotal(<<>>) = 0
<1>1. UnitPairs(<<>>) = {}
  BY DEF UnitPairs
<1>. QED
  BY <1>1, FS_EmptySet DEF SeqTotal

(* Appending adds the weight of the new element.                           *)
LEMMA SeqTotalAppend ==
  ASSUME NEW w \in Seq(Nat), NEW e \in Nat
  PROVE  SeqTotal(Append(w, e)) = SeqTotal(w) + e
<1>. DEFINE n == Len(w)
            a == Append(w, e)
            C == {n + 1} \X (1..e)
<1>1. /\ n \in Nat /\ DOMAIN w = 1..n
      /\ DOMAIN a = 1..(n + 1)
      /\ \A i \in 1..n : a[i] = w[i]
      /\ a[n + 1] = e
  BY LenProperties, AppendProperties
<1>2. UnitPairs(a) = UnitPairs(w) \cup C
  <2>1. \A i : i \in DOMAIN a <=> (i \in DOMAIN w \/ i = n + 1)
    BY <1>1
  <2>2. \A p : p \in C <=> \E u \in 1..e : p = <<n + 1, u>>
    OBVIOUS
  <2>3. ASSUME NEW p
        PROVE  p \in UnitPairs(a) <=> (p \in UnitPairs(w) \/ p \in C)
    <3>1. p \in UnitPairs(a) <=> \E i \in DOMAIN a : \E u \in 1..a[i] : p = <<i, u>>
      <4>. HIDE DEF a
      <4>. QED
        BY UnitPairsMember
    <3>2. p \in UnitPairs(w) <=> \E i \in DOMAIN w : \E u \in 1..w[i] : p = <<i, u>>
      BY UnitPairsMember
    <3>3. \A i \in DOMAIN w : w[i] = a[i]
      BY <1>1
    <3>. HIDE DEF a, n, C
    <3>4. p \in UnitPairs(w) <=> \E i \in DOMAIN w : \E u \in 1..a[i] : p = <<i, u>>
      BY <3>2, <3>3
    <3>5. p \in C <=> \E u \in 1..a[n + 1] : p = <<n + 1, u>>
      BY <2>2, <1>1
    <3>. QED
      BY <3>1, <3>4, <3>5, <2>1
  <2>. QED
    BY <2>3
<1>3. UnitPairs(w) \cap C = {}
  <2>1. ~ (n + 1 \in DOMAIN w)
    BY <1>1
  <2>. QED
    BY <2>1, UnitPairsMember
<1>4. IsFiniteSet(UnitPairs(w)) /\ SeqTotal(w) \in Nat
  BY SeqTotalNat
<1>5. IsFiniteSet(C) /\ Cardinality(C) = e
  BY ColumnCardinality
<1>6. Cardinality(UnitPairs(a)) = Cardinality(UnitPairs(w)) + Cardinality(C) - Cardinality({})
  BY <1>2, <1>3, <1>4, <1>5, FS_Union
<1>. QED
  BY <1>4, <1>5, <1>6, FS_EmptySet DEF SeqTotal

(* Removing the head takes its weight away.                                *)
LEMMA SeqTotalTail ==
  ASSUME NEW w \in Seq(Nat), w # <<>>
  PROVE  SeqTotal(w) = Head(w) + SeqTotal(Tail(w))
<1>. DEFINE n == Len(w)
            t == Tail(w)
            C == {1} \X (1..w[1])
            S == {<<p[1] + 1, p[2]>> : p \in UnitPairs(t)}
            f == [p \in UnitPairs(t) |-> <<p[1] + 1, p[2]>>]
<1>1. /\ n \in Nat \ {0} /\ DOMAIN w = 1..n
      /\ t \in Seq(Nat) /\ DOMAIN t = 1..(n - 1)
      /\ \A i \in 1..(n - 1) : t[i] = w[i + 1]
      /\ w[1] \in Nat /\ Head(w) = w[1]
  BY EmptySeq, LenProperties, HeadTailProperties, ElementOfSeq
<1>2. ASSUME NEW p \in UnitPairs(t)
      PROVE  \E i \in 1..(n - 1) : \E u \in 1..w[i + 1] : p = <<i, u>>
  <2>1. PICK i \in DOMAIN t : \E u \in 1..t[i] : p = <<i, u>>
    <3>. HIDE DEF t
    <3>. QED
      BY UnitPairsMember
  <2>2. i \in 1..(n - 1) /\ t[i] = w[i + 1]
    BY <1>1
  <2>. HIDE DEF t, n
  <2>. QED
    BY <2>1, <2>2
<1>3. UnitPairs(w) = C \cup S
  <2>1. ASSUME NEW p \in UnitPairs(w) PROVE p \in C \cup S
    <3>1. PICK i \in 1..n : \E u \in 1..w[i] : p = <<i, u>>
      BY <1>1, UnitPairsMember
    <3>2. PICK u \in 1..w[i] : p = <<i, u>>
      BY <3>1
    <3>3. CASE i = 1
      BY <3>2, <3>3
    <3>4. CASE i # 1
      <4>1. i - 1 \in 1..(n - 1) /\ w[i] = t[i - 1]
        BY <1>1, <3>4
      <4>2. <<i - 1, u>> \in UnitPairs(t)
        BY <4>1, <1>1, UnitPairsMember
      <4>3. p = <<<<i - 1, u>>[1] + 1, <<i - 1, u>>[2]>>
        BY <3>2
      <4>. QED
        BY <4>2, <4>3
    <3>. QED
      BY <3>3, <3>4
  <2>2. ASSUME NEW p \in C PROVE p \in UnitPairs(w)
    <3>1. PICK u \in 1..w[1] : p = <<1, u>>
      OBVIOUS
    <3>2. 1 \in DOMAIN w
      BY <1>1
    <3>. QED
      BY <3>1, <3>2, UnitPairsMember
  <2>3. ASSUME NEW p \in S PROVE p \in UnitPairs(w)
    <3>1. PICK q \in UnitPairs(t) : p = <<q[1] + 1, q[2]>>
      OBVIOUS
    <3>2. PICK i \in 1..(n - 1) : \E u \in 1..w[i + 1] : q = <<i, u>>
      BY <1>2
    <3>3. PICK u \in 1..w[i + 1] : q = <<i, u>>
      BY <3>2
    <3>4. p = <<i + 1, u>> /\ i + 1 \in DOMAIN w
      BY <3>1, <3>3, <1>1
    <3>. QED
      BY <3>3, <3>4, UnitPairsMember
  <2>. QED
    BY <2>1, <2>2, <2>3
<1>4. C \cap S = {}
  <2>1. ASSUME NEW p \in S PROVE p \notin C
    <3>1. PICK q \in UnitPairs(t) : p = <<q[1] + 1, q[2]>>
      OBVIOUS
    <3>2. PICK i \in 1..(n - 1) : \E u \in 1..w[i + 1] : q = <<i, u>>
      BY <1>2
    <3>3. p[1] = i + 1 /\ i + 1 # 1
      BY <3>1, <3>2, <1>1
    <3>. QED
      BY <3>3
  <2>. QED
    BY <2>1
<1>5. IsFiniteSet(UnitPairs(t)) /\ SeqTotal(t) \in Nat
  BY <1>1, SeqTotalNat
<1>6. IsFiniteSet(S) /\ Cardinality(S) = SeqTotal(t)
  <2>1. f \in Bijection(UnitPairs(t), S)
    <3>1. f \in Surjection(UnitPairs(t), S)
      BY DEF Surjection
    <3>2. ASSUME NEW p \in UnitPairs(t), NEW q \in UnitPairs(t), f[p] = f[q]
          PROVE  p = q
      <4>1. PICK i \in 1..(n - 1) : \E u \in 1..w[i + 1] : p = <<i, u>>
        BY <1>2
      <4>2. PICK j \in 1..(n - 1) : \E u \in 1..w[j + 1] : q = <<j, u>>
        BY <1>2
      <4>3. p[1] + 1 = q[1] + 1 /\ p[2] = q[2]
        BY <3>2
      <4>. QED
        BY <4>1, <4>2, <4>3, <1>1
    <3>. QED
      BY <3>1, <3>2 DEF Bijection, Injection, IsInjective, Surjection
  <2>2. ExistsBijection(UnitPairs(t), S)
    BY <2>1 DEF ExistsBijection
  <2>. QED
    BY <2>2, <1>5, FS_Bijection DEF SeqTotal
<1>7. IsFiniteSet(C) /\ Cardinality(C) = w[1]
  BY <1>1, ColumnCardinality
<1>8. Cardinality(UnitPairs(w)) = Cardinality(C) + Cardinality(S) - Cardinality({})
  BY <1>3, <1>4, <1>6, <1>7, FS_Union
<1>. QED
  BY <1>1, <1>5, <1>6, <1>7, <1>8, FS_EmptySet DEF SeqTotal

-----------------------------------------------------------------------------
(* The same for a sequence of elements with weights.                       *)

LEMMA WeightsType ==
  ASSUME NEW S, NEW s \in Seq(S), NEW W \in [S -> Nat]
  PROVE  [i \in DOMAIN s |-> W[s[i]]] \in Seq(Nat)
<1>1. Len(s) \in Nat /\ DOMAIN s = 1..Len(s)
  BY LenProperties
<1>2. \A i \in DOMAIN s : W[s[i]] \in Nat
  BY <1>1, ElementOfSeq
<1>3. [i \in DOMAIN s |-> W[s[i]]] \in [1..Len(s) -> Nat]
  BY <1>1, <1>2
<1>. QED
  BY <1>1, <1>3, SeqDef

LEMMA WeighNat ==
  ASSUME NEW S, NEW s \in Seq(S), NEW W \in [S -> Nat]
  PROVE  Weigh(s, W) \in Nat
BY WeightsType, SeqTotalNat DEF Weigh

LEMMA WeighEmpty ==
  ASSUME NEW W
  PROVE  Weigh(<<>>, W) = 0
<1>1. [i \in DOMAIN <<>> |-> W[<<>>[i]]] = <<>>
  OBVIOUS
<1>. QED
  BY <1>1, SeqTotalEmpty DEF Weigh

(* What joins a queue adds its weight.                                     *)
LEMMA WeighAppend ==
  ASSUME NEW S, NEW s \in Seq(S), NEW e \in S, NEW W \in [S -> Nat]
  PROVE  Weigh(Append(s, e), W) = Weigh(s, W) + W[e]
<1>. DEFINE w == [i \in DOMAIN s |-> W[s[i]]]
            a == Append(s, e)
            v == [i \in DOMAIN a |-> W[a[i]]]
<1>1. w \in Seq(Nat) /\ W[e] \in Nat
  BY WeightsType
<1>2. /\ Len(s) \in Nat /\ DOMAIN s = 1..Len(s) /\ Len(w) = Len(s)
      /\ a \in Seq(S) /\ DOMAIN a = 1..(Len(s) + 1)
      /\ \A i \in 1..Len(s) : a[i] = s[i]
      /\ a[Len(s) + 1] = e
  BY LenProperties, AppendProperties
<1>3. /\ Append(w, W[e]) \in Seq(Nat)
      /\ Len(Append(w, W[e])) = Len(s) + 1
      /\ \A i \in 1..Len(s) : Append(w, W[e])[i] = w[i]
      /\ Append(w, W[e])[Len(s) + 1] = W[e]
  BY <1>1, <1>2, AppendProperties
<1>4. v \in Seq(Nat) /\ Len(v) = Len(s) + 1
  BY <1>2, WeightsType
<1>5. \A i \in 1..(Len(s) + 1) : v[i] = Append(w, W[e])[i]
  BY <1>2, <1>3
<1>6. v = Append(w, W[e])
  BY <1>3, <1>4, <1>5, SeqEqual
<1>. QED
  BY <1>1, <1>6, SeqTotalAppend DEF Weigh

(* What leaves a queue takes its weight away.                              *)
LEMMA WeighTail ==
  ASSUME NEW S, NEW s \in Seq(S), s # <<>>, NEW W \in [S -> Nat]
  PROVE  Weigh(s, W) = W[Head(s)] + Weigh(Tail(s), W)
<1>. DEFINE w == [i \in DOMAIN s |-> W[s[i]]]
            t == Tail(s)
            v == [i \in DOMAIN t |-> W[t[i]]]
<1>1. w \in Seq(Nat)
  BY WeightsType
<1>2. /\ Len(s) \in Nat \ {0} /\ DOMAIN s = 1..Len(s) /\ Len(w) = Len(s)
      /\ t \in Seq(S) /\ Len(t) = Len(s) - 1 /\ DOMAIN t = 1..(Len(s) - 1)
      /\ \A i \in 1..(Len(s) - 1) : t[i] = s[i + 1]
      /\ Head(s) = s[1]
  BY EmptySeq, LenProperties, HeadTailProperties
<1>3. w # <<>> /\ Head(w) = W[Head(s)]
  BY <1>1, <1>2
<1>4. /\ Tail(w) \in Seq(Nat) /\ Len(Tail(w)) = Len(s) - 1
      /\ \A i \in 1..(Len(s) - 1) : Tail(w)[i] = w[i + 1]
  BY <1>1, <1>2, <1>3, HeadTailProperties
<1>5. v \in Seq(Nat) /\ Len(v) = Len(s) - 1
  BY <1>2, WeightsType
<1>6. \A i \in 1..(Len(s) - 1) : v[i] = Tail(w)[i]
  BY <1>2, <1>4
<1>7. v = Tail(w)
  BY <1>4, <1>5, <1>6, SeqEqual
<1>. QED
  BY <1>1, <1>3, <1>7, SeqTotalTail DEF Weigh

-----------------------------------------------------------------------------
(* What sending and receiving a frame does to the counts in flight.        *)

LEMMA WeightTypes ==
  ASSUME NEW o \in Objs
  PROVE  /\ RefWeight(o) \in [ToHolderFrames -> Nat]
         /\ DelWeight(o) \in [ToOwnerFrames -> Nat]
         /\ EntryWeight(o) \in [Entries -> Nat]
<1>1. RefWeight(o) \in [ToHolderFrames -> Nat]
  BY DEF RefWeight
<1>2. ASSUME NEW f \in ToOwnerFrames
      PROVE  (IF f.kind = "del" /\ f.obj = o THEN f.n ELSE 0) \in Nat
  BY DEF ToOwnerFrames
<1>3. DelWeight(o) \in [ToOwnerFrames -> Nat]
  BY <1>2 DEF DelWeight
<1>4. EntryWeight(o) \in [Entries -> Nat]
  BY DEF EntryWeight, Entries
<1>. QED
  BY <1>1, <1>3, <1>4

LEMMA FrameTypes ==
  /\ \A o \in Objs : RefFrame(o) \in ToHolderFrames
  /\ \A s \in Nat : AckFrame(s) \in ToHolderFrames
  /\ \A o \in Objs, n \in Nat \ {0}, s \in Nat : DelFrame(o, n, s) \in ToOwnerFrames
  /\ \A o \in Objs, m \in Modes : CallFrame(o, m) \in ToOwnerFrames
BY DEF RefFrame, AckFrame, DelFrame, CallFrame, ToHolderFrames, ToOwnerFrames, Modes

LEMMA RefWeightOf ==
  ASSUME NEW o \in Objs
  PROVE  /\ \A p \in Objs : RefWeight(o)[RefFrame(p)] = IF p = o THEN 1 ELSE 0
         /\ \A f \in ToHolderFrames :
              RefWeight(o)[f] = IF f.kind = "ref" /\ f.obj = o THEN 1 ELSE 0
         /\ \A s \in Nat : RefWeight(o)[AckFrame(s)] = 0
BY FrameTypes DEF RefWeight, RefFrame, AckFrame

LEMMA DelWeightOf ==
  ASSUME NEW o \in Objs
  PROVE  /\ \A p \in Objs, n \in Nat \ {0}, s \in Nat :
              DelWeight(o)[DelFrame(p, n, s)] = IF p = o THEN n ELSE 0
         /\ \A p \in Objs, m \in Modes : DelWeight(o)[CallFrame(p, m)] = 0
         /\ \A f \in ToOwnerFrames :
              DelWeight(o)[f] = IF f.kind = "del" /\ f.obj = o THEN f.n ELSE 0
BY FrameTypes DEF DelWeight, DelFrame, CallFrame

LEMMA RefsAppend ==
  ASSUME NEW o \in Objs, NEW s \in Seq(ToHolderFrames)
  PROVE  /\ \A p \in Objs : Weigh(Append(s, RefFrame(p)), RefWeight(o))
                              = Weigh(s, RefWeight(o)) + (IF p = o THEN 1 ELSE 0)
         /\ \A q \in Nat :
              Weigh(Append(s, AckFrame(q)), RefWeight(o)) = Weigh(s, RefWeight(o))
<1>1. ASSUME NEW f \in ToHolderFrames
      PROVE  Weigh(Append(s, f), RefWeight(o)) = Weigh(s, RefWeight(o)) + RefWeight(o)[f]
  BY WeighAppend, WeightTypes
<1>2. Weigh(s, RefWeight(o)) \in Nat
  BY WeighNat, WeightTypes
<1>. QED
  BY <1>1, <1>2, RefWeightOf, FrameTypes

LEMMA RefsTail ==
  ASSUME NEW o \in Objs, NEW s \in Seq(ToHolderFrames), s # <<>>
  PROVE  Weigh(s, RefWeight(o))
           = (IF Head(s).kind = "ref" /\ Head(s).obj = o THEN 1 ELSE 0)
             + Weigh(Tail(s), RefWeight(o))
<1>1. Weigh(s, RefWeight(o)) = RefWeight(o)[Head(s)] + Weigh(Tail(s), RefWeight(o))
  BY WeighTail, WeightTypes
<1>. QED
  BY <1>1, RefWeightOf, HeadTailProperties

LEMMA DelsAppend ==
  ASSUME NEW o \in Objs, NEW s \in Seq(ToOwnerFrames)
  PROVE  /\ \A p \in Objs, n \in Nat \ {0}, q \in Nat :
              Weigh(Append(s, DelFrame(p, n, q)), DelWeight(o))
                = Weigh(s, DelWeight(o)) + (IF p = o THEN n ELSE 0)
         /\ \A p \in Objs, m \in Modes :
              Weigh(Append(s, CallFrame(p, m)), DelWeight(o)) = Weigh(s, DelWeight(o))
<1>1. ASSUME NEW f \in ToOwnerFrames
      PROVE  Weigh(Append(s, f), DelWeight(o)) = Weigh(s, DelWeight(o)) + DelWeight(o)[f]
  BY WeighAppend, WeightTypes
<1>2. Weigh(s, DelWeight(o)) \in Nat
  BY WeighNat, WeightTypes
<1>. QED
  BY <1>1, <1>2, DelWeightOf, FrameTypes

LEMMA DelsTail ==
  ASSUME NEW o \in Objs, NEW s \in Seq(ToOwnerFrames), s # <<>>
  PROVE  Weigh(s, DelWeight(o))
           = (IF Head(s).kind = "del" /\ Head(s).obj = o THEN Head(s).n ELSE 0)
             + Weigh(Tail(s), DelWeight(o))
<1>1. Weigh(s, DelWeight(o)) = DelWeight(o)[Head(s)] + Weigh(Tail(s), DelWeight(o))
  BY WeighTail, WeightTypes
<1>. QED
  BY <1>1, DelWeightOf, HeadTailProperties

LEMMA EntriesAppend ==
  ASSUME NEW o \in Objs, NEW s \in Seq(Entries), NEW e \in Entries
  PROVE  Weigh(Append(s, e), EntryWeight(o))
           = Weigh(s, EntryWeight(o)) + (IF e.obj = o THEN e.n ELSE 0)
<1>1. Weigh(Append(s, e), EntryWeight(o)) = Weigh(s, EntryWeight(o)) + EntryWeight(o)[e]
  BY WeighAppend, WeightTypes
<1>2. EntryWeight(o)[e] = IF e.obj = o THEN e.n ELSE 0
  BY DEF EntryWeight
<1>. QED
  BY <1>1, <1>2

(* The counts are numbers.                                                 *)
LEMMA CountsNat ==
  ASSUME TypeOK, NEW o \in Objs
  PROVE  RefsTo(o) \in Nat /\ QueuedOf(o) \in Nat /\ DelsOf(o) \in Nat
BY WeighNat, WeightTypes DEF TypeOK, RefsTo, QueuedOf, DelsOf

-----------------------------------------------------------------------------
(* Types, with the two bounds they rest on.                                *)

Typing == TypeOK /\ CountBounded /\ AliveCounted

LEMMA TypingInit == Init => Typing
<1>. SUFFICES ASSUME Init PROVE Typing
  OBVIOUS
<1>1. /\ refcnt \in [Objs -> 0..MaxBoxes] /\ boxed \in [Objs -> 0..MaxBoxes]
      /\ calls \in 0..MaxCalls
  BY BoundsAssumption DEF Init
<1>2. /\ tasks \in Seq(Objs) /\ pending \in Seq(Entries)
      /\ toHolder \in Seq(ToHolderFrames) /\ toOwner \in Seq(ToOwnerFrames)
  BY EmptySeq DEF Init
<1>3. CountBounded /\ AliveCounted
  BY DEF Init, CountBounded, AliveCounted
<1>. QED
  BY <1>1, <1>2, <1>3 DEF Init, Typing, TypeOK

(* Frames only ever join a queue at its end or leave it at its head.       *)
LEMMA SendTypes ==
  ASSUME Typing
  PROVE  /\ \A f \in ToOwnerFrames : SendToOwner(f) => toOwner' \in Seq(ToOwnerFrames)
         /\ \A f \in ToHolderFrames : SendToHolder(f) => toHolder' \in Seq(ToHolderFrames)
<1>1. toOwner \in Seq(ToOwnerFrames) /\ toHolder \in Seq(ToHolderFrames)
  BY DEF Typing, TypeOK
<1>2. ASSUME NEW f \in ToOwnerFrames, SendToOwner(f)
      PROVE  toOwner' \in Seq(ToOwnerFrames)
  BY <1>1, <1>2, AppendProperties DEF SendToOwner
<1>3. ASSUME NEW f \in ToHolderFrames, SendToHolder(f)
      PROVE  toHolder' \in Seq(ToHolderFrames)
  BY <1>1, <1>3, AppendProperties DEF SendToHolder
<1>. QED
  BY <1>2, <1>3

LEMMA HeadTypes ==
  ASSUME Typing
  PROVE  /\ toOwner # <<>> => /\ Head(toOwner) \in ToOwnerFrames
                             /\ Tail(toOwner) \in Seq(ToOwnerFrames)
                             /\ Head(toOwner).obj \in Objs
         /\ toHolder # <<>> => /\ Head(toHolder) \in ToHolderFrames
                              /\ Tail(toHolder) \in Seq(ToHolderFrames)
<1>1. toOwner \in Seq(ToOwnerFrames) /\ toHolder \in Seq(ToHolderFrames)
  BY DEF Typing, TypeOK
<1>2. \A f \in ToOwnerFrames : f.obj \in Objs
  BY DEF ToOwnerFrames
<1>. QED
  BY <1>1, <1>2, HeadTailProperties

LEMMA TypingOwner ==
  ASSUME Typing, OwnerStep
  PROVE  Typing'
<1>. USE DEF Typing, CountBounded, AliveCounted, finVars, loopVars, openVars,
             boundVars, ownerVars
<1>1. CASE HandleDel
  <2>. DEFINE f == Head(toOwner)
  <2>1. f \in ToOwnerFrames /\ f.kind = "del" /\ f.obj \in Objs /\ toOwner' = Tail(toOwner)
    BY <1>1, HeadTypes DEF HandleDel
  <2>2. f.n \in Nat \ {0} /\ f.seq \in Nat
    BY <2>1 DEF ToOwnerFrames
  <2>3. /\ refcnt' \in [Objs -> 0..MaxBoxes]
        /\ \A o \in Objs : refcnt'[o] <= refcnt[o]
    <3>1. refcnt' = [refcnt EXCEPT ![f.obj] = IF @ <= f.n THEN 0 ELSE @ - f.n]
      BY <1>1 DEF HandleDel, Decref
    <3>2. refcnt \in [Objs -> 0..MaxBoxes]
      BY DEF TypeOK
    <3>. HIDE DEF f
    <3>. QED
      BY <3>1, <3>2, <2>1, <2>2, BoundsAssumption
  <2>4. toHolder' \in Seq(ToHolderFrames)
    BY <1>1, <2>2, SendTypes, FrameTypes DEF HandleDel
  <2>5. toOwner' \in Seq(ToOwnerFrames)
    BY <1>1, HeadTypes DEF HandleDel
  <2>6. CountBounded'
    BY <1>1, <2>3, BoundsAssumption DEF HandleDel, TypeOK
  <2>. QED
    BY <1>1, <2>3, <2>4, <2>5, <2>6 DEF HandleDel, TypeOK
<1>2. CASE DispatchSync
  <2>1. toOwner' \in Seq(ToOwnerFrames)
    BY <1>2, HeadTypes DEF DispatchSync
  <2>2. missed' \subseteq Modes
    BY <1>2 DEF DispatchSync, Unbox, TypeOK, Modes
  <2>. QED
    BY <1>2, <2>1, <2>2 DEF DispatchSync, TypeOK
<1>3. CASE DispatchAsync
  <2>1. toOwner' \in Seq(ToOwnerFrames) /\ tasks' \in Seq(Objs)
    BY <1>3, HeadTypes, AppendProperties DEF DispatchAsync, TypeOK
  <2>. QED
    BY <1>3, <2>1 DEF DispatchAsync, TypeOK
<1>4. CASE RunTask
  <2>1. tasks' \in Seq(Objs) /\ missed' \subseteq Modes
    BY <1>4, HeadTailProperties DEF RunTask, Unbox, TypeOK, Modes
  <2>. QED
    BY <1>4, <2>1 DEF RunTask, TypeOK
<1>. QED
  BY <1>1, <1>2, <1>3, <1>4 DEF OwnerStep

LEMMA TypingHolder ==
  ASSUME Typing, HolderStep
  PROVE  Typing'
<1>. USE DEF Typing, CountBounded, AliveCounted, finVars, loopVars, openVars,
             boundVars, ownerVars
<1>1. CASE UnboxRef
  <2>1. toHolder' \in Seq(ToHolderFrames) /\ Head(toHolder) \in ToHolderFrames
    BY <1>1, HeadTypes DEF UnboxRef
  <2>2. Head(toHolder).obj \in Objs
    BY <1>1, <2>1 DEF UnboxRef, ToHolderFrames
  <2>. DEFINE r == Head(toHolder).obj
  <2>3. /\ r \in Objs
        /\ rc' = [rc EXCEPT ![r] = @ + 1]
        /\ proxy' = [proxy EXCEPT ![r] = IF @ = "none" THEN "alive"
                                         ELSE IF @ = "dying" THEN "zombie" ELSE @]
    BY <1>1, <2>2 DEF UnboxRef
  <2>4. /\ rc' \in [Objs -> Nat]
        /\ proxy' \in [Objs -> {"none", "alive", "dying", "zombie"}]
        /\ \A o \in Objs : proxy'[o] = "alive" => rc'[o] > 0
    <3>1. /\ rc \in [Objs -> Nat]
          /\ proxy \in [Objs -> {"none", "alive", "dying", "zombie"}]
          /\ \A o \in Objs : proxy[o] = "alive" => rc[o] > 0
      BY DEF TypeOK
    <3>. HIDE DEF r
    <3>2. rc' \in [Objs -> Nat] /\ rc'[r] > 0 /\ \A o \in Objs : o # r => rc'[o] = rc[o]
      BY <2>3, <3>1
    <3>3. proxy' \in [Objs -> {"none", "alive", "dying", "zombie"}]
      BY <2>3, <3>1
    <3>4. \A o \in Objs : o # r => proxy'[o] = proxy[o]
      BY <2>3, <3>1
    <3>. QED
      BY <3>1, <3>2, <3>3, <3>4
  <2>. QED
    BY <1>1, <2>1, <2>4 DEF UnboxRef, TypeOK
<1>2. CASE RecvAck
  <2>1. toHolder' \in Seq(ToHolderFrames) /\ Head(toHolder) \in ToHolderFrames
    BY <1>2, HeadTypes DEF RecvAck
  <2>3. pc' \in {"wait", "batch", "ack", "resume", "final", "done"}
    BY <1>2 DEF RecvAck, TypeOK
  <2>. QED
    BY <1>2, <2>1, <2>3 DEF RecvAck, TypeOK
<1>3. CASE Fire
  <2>1. fires' \in Nat /\ event' = TRUE /\ signalPending' = FALSE
    BY <1>3 DEF Fire, ClearSignal, TypeOK
  <2>. QED
    BY <1>3, <2>1 DEF Fire, TypeOK
<1>4. CASE Wake
  <2>1. batch' \in [Objs -> Nat]
    BY <1>4, CountsNat DEF Wake
  <2>. QED
    BY <1>4, <2>1, EmptySeq DEF Wake, TypeOK
<1>5. CASE ResumeAck
  BY <1>5 DEF ResumeAck, TypeOK
<1>6. CASE AckTimeout
  BY <1>6 DEF AckTimeout, TypeOK
<1>7. CASE PassDone
  BY <1>7 DEF PassDone, TypeOK
<1>8. CASE AbandonBatch
  BY <1>8 DEF AbandonBatch, TypeOK
<1>9. CASE FinalDrain
  BY <1>9, EmptySeq DEF FinalDrain, TypeOK
<1>10. ASSUME NEW o \in Objs, SkipResurrected(o) PROVE Typing'
  <2>1. /\ batch' \in [Objs -> Nat] /\ lost' \in [Objs -> Nat]
        /\ proxy' \in [Objs -> {"none", "alive", "dying", "zombie"}]
    BY <1>10 DEF SkipResurrected, TypeOK
  <2>2. \A p \in Objs : proxy'[p] = "alive" => proxy[p] = "alive"
    BY <1>10 DEF SkipResurrected, TypeOK
  <2>. QED
    BY <1>10, <2>1, <2>2 DEF SkipResurrected, TypeOK
<1>11. ASSUME NEW o \in Objs, SendDel(o) PROVE Typing'
  <2>1. batch[o] \in Nat \ {0} /\ dels + 1 \in Nat
    BY <1>11 DEF SendDel, TypeOK
  <2>2. toOwner' \in Seq(ToOwnerFrames)
    BY <1>11, <2>1, FrameTypes, SendTypes DEF SendDel
  <2>. QED
    BY <1>11, <2>1, <2>2 DEF SendDel, TypeOK
<1>. QED
  BY <1>1, <1>2, <1>3, <1>4, <1>5, <1>6, <1>7, <1>8, <1>9, <1>10, <1>11
     DEF HolderStep, CleanupStep

(* The references are unaffected by who sends what when: each variable     *)
(* keeps its range in every step.                                          *)
LEMMA TypingStep ==
  ASSUME Typing, [Next]_vars
  PROVE  Typing'
<1>. USE DEF Typing, CountBounded, AliveCounted, finVars, loopVars, openVars,
             boundVars, ownerVars
<1>1. ASSUME NEW o \in Objs, Box(o) PROVE Typing'
  <2>1. toHolder' \in Seq(ToHolderFrames)
    BY <1>1, SendTypes, FrameTypes DEF Box
  <2>2. /\ boxed' \in [Objs -> 0..MaxBoxes] /\ refcnt' \in [Objs -> 0..MaxBoxes]
        /\ \A p \in Objs : refcnt'[p] <= boxed'[p]
    <3>1. /\ refcnt \in [Objs -> 0..MaxBoxes] /\ boxed \in [Objs -> 0..MaxBoxes]
          /\ \A p \in Objs : refcnt[p] <= boxed[p]
      BY DEF TypeOK
    <3>2. /\ boxed[o] < MaxBoxes
          /\ boxed' = [boxed EXCEPT ![o] = @ + 1]
          /\ refcnt' = [refcnt EXCEPT ![o] = @ + 1]
      BY <1>1 DEF Box
    <3>. QED
      BY <3>1, <3>2, BoundsAssumption
  <2>3. /\ UNCHANGED <<tasks, missed, ownerOpen, toOwner, proxy, rc, finVars, pending>>
        /\ UNCHANGED <<event, loopVars, openVars, calls, lost>>
    BY <1>1 DEF Box
  <2>4. TypeOK'
    BY <2>1, <2>2, <2>3 DEF TypeOK
  <2>. QED
    BY <2>2, <2>3, <2>4
<1>2. ASSUME NEW o \in Objs, Finalize(o) PROVE Typing'
  <2>1. Queued(o) \in Entries
    BY <1>2 DEF Finalize, Queued, Entries, TypeOK
  <2>2. pending' \in Seq(Entries)
    BY <1>2, <2>1, AppendProperties DEF Finalize, TypeOK
  <2>3. \A p \in Objs : proxy'[p] = "alive" => proxy[p] = "alive" /\ rc'[p] = rc[p]
    BY <1>2 DEF Finalize, TypeOK
  <2>. QED
    BY <1>2, <2>2, <2>3 DEF Finalize, TypeOK
<1>3. ASSUME NEW o \in Objs, SignalCheck(o) PROVE Typing'
  BY <1>3 DEF SignalCheck, TypeOK
<1>4. ASSUME NEW o \in Objs, SignalArm(o) PROVE Typing'
  <2>1. /\ fin' \in [Objs -> {"idle", "check", "arm", "clear"}]
        /\ signalPending' \in BOOLEAN /\ fires' \in Nat
    BY <1>4 DEF SignalArm, TypeOK
  <2>2. /\ UNCHANGED <<ownerVars, toHolder, toOwner, proxy, rc, pending, event>>
        /\ UNCHANGED <<loopVars, openVars, boundVars, lost>>
    BY <1>4 DEF SignalArm
  <2>. QED
    BY <2>1, <2>2 DEF TypeOK
<1>5. ASSUME NEW o \in Objs, ClearWeakref(o) PROVE Typing'
  BY <1>5 DEF ClearWeakref, TypeOK
<1>6. ASSUME NEW o \in Objs, ZombieDies(o) PROVE Typing'
  <2>1. \A p \in Objs : proxy'[p] = "alive" => proxy[p] = "alive" /\ rc'[p] = rc[p]
    BY <1>6 DEF ZombieDies, TypeOK
  <2>2. /\ proxy' \in [Objs -> {"none", "alive", "dying", "zombie"}]
        /\ rc' \in [Objs -> Nat] /\ lost' \in [Objs -> Nat]
    BY <1>6 DEF ZombieDies, TypeOK
  <2>. QED
    BY <1>6, <2>1, <2>2 DEF ZombieDies, TypeOK
<1>7. ASSUME NEW o \in Objs, NEW m \in Modes, Call(o, m) PROVE Typing'
  <2>1. toOwner' \in Seq(ToOwnerFrames)
    BY <1>7, SendTypes, FrameTypes DEF Call
  <2>2. calls' \in 0..MaxCalls
    BY <1>7, BoundsAssumption DEF Call, TypeOK
  <2>. QED
    BY <1>7, <2>1, <2>2 DEF Call, TypeOK
<1>8. CASE OwnerCleanup
  <2>1. /\ refcnt' \in [Objs -> 0..MaxBoxes] /\ \A o \in Objs : refcnt'[o] <= boxed'[o]
        /\ tasks' \in Seq(Objs) /\ toOwner' \in Seq(ToOwnerFrames) /\ ownerOpen' = FALSE
    BY <1>8, EmptySeq, BoundsAssumption DEF OwnerCleanup, TypeOK
  <2>. QED
    BY <1>8, <2>1 DEF OwnerCleanup, TypeOK
<1>9. CASE HolderClose
  BY <1>9, EmptySeq DEF HolderClose, TypeOK
<1>10. CASE HolderPeerClosed
  BY <1>10, EmptySeq DEF HolderPeerClosed, TypeOK
<1>11. CASE UNCHANGED vars
  BY <1>11 DEF vars, TypeOK
<1>. QED
  BY <1>1, <1>2, <1>3, <1>4, <1>5, <1>6, <1>7, <1>8, <1>9, <1>10, <1>11,
     TypingOwner, TypingHolder DEF Next, FinalizerStep

-----------------------------------------------------------------------------
(* The books of the owner and the holder balance.                          *)

Balanced(o) == refcnt[o] = Travelling(o) + lost[o]

LEMMA BatchStep ==
  ASSUME Typing, BatchInPass, [Next]_vars
  PROVE  BatchInPass'
<1>. USE DEF BatchInPass, loopVars
<1>1. batch \in [Objs -> Nat]
  BY DEF Typing, TypeOK
<1>2. ASSUME HolderStep PROVE BatchInPass'
  BY <1>1, <1>2 DEF HolderStep, UnboxRef, RecvAck, Fire, CleanupStep, Wake, ResumeAck,
     AckTimeout, PassDone, AbandonBatch, FinalDrain, SkipResurrected, SendDel
<1>3. ASSUME OwnerStep PROVE BatchInPass'
  BY <1>3 DEF OwnerStep, HandleDel, DispatchSync, DispatchAsync, RunTask
<1>4. ASSUME NEW o \in Objs, Box(o) \/ Finalize(o) \/ FinalizerStep(o) \/ ZombieDies(o)
      PROVE  BatchInPass'
  BY <1>4 DEF Box, Finalize, FinalizerStep, SignalCheck, SignalArm, ClearWeakref, ZombieDies
<1>5. ASSUME NEW o \in Objs, NEW m \in Modes, Call(o, m) PROVE BatchInPass'
  BY <1>5 DEF Call
<1>6. ASSUME OwnerCleanup \/ HolderClose \/ HolderPeerClosed PROVE BatchInPass'
  BY <1>6 DEF OwnerCleanup, HolderClose, HolderPeerClosed
<1>7. ASSUME UNCHANGED vars PROVE BatchInPass'
  BY <1>7 DEF vars
<1>. QED
  BY <1>2, <1>3, <1>4, <1>5, <1>6, <1>7 DEF Next

(* Every term of the balance is a number.                                  *)
LEMMA TermsNat ==
  ASSUME Typing, NEW o \in Objs
  PROVE  /\ RefsTo(o) \in Nat /\ QueuedOf(o) \in Nat /\ DelsOf(o) \in Nat
         /\ rc[o] \in Nat /\ batch[o] \in Nat /\ lost[o] \in Nat /\ refcnt[o] \in Nat
<1>1. RefsTo(o) \in Nat /\ QueuedOf(o) \in Nat /\ DelsOf(o) \in Nat
  BY CountsNat DEF Typing
<1>2. /\ rc \in [Objs -> Nat] /\ batch \in [Objs -> Nat] /\ lost \in [Objs -> Nat]
      /\ refcnt \in [Objs -> 0..MaxBoxes]
  BY DEF Typing, TypeOK
<1>. QED
  BY <1>1, <1>2, BoundsAssumption

(* A step that leaves the counts alone leaves the balance alone.           *)
LEMMA BalanceUnchanged ==
  ASSUME NEW o \in Objs, Balanced(o),
         UNCHANGED <<refcnt, toHolder, toOwner, rc, pending, batch, lost>>
  PROVE  Balanced(o)'
BY DEF Balanced, Travelling, RefsTo, QueuedOf, DelsOf

LEMMA BalanceOwner ==
  ASSUME Typing, NEW o \in Objs, Balanced(o), Connected, OwnerStep
  PROVE  Balanced(o)'
<1>1. /\ RefsTo(o) \in Nat /\ QueuedOf(o) \in Nat /\ DelsOf(o) \in Nat
      /\ rc[o] \in Nat /\ batch[o] \in Nat /\ lost[o] \in Nat /\ refcnt[o] \in Nat
  BY TermsNat
<1>2. toOwner \in Seq(ToOwnerFrames) /\ toHolder \in Seq(ToHolderFrames)
  BY DEF Typing, TypeOK
<1>3. CASE HandleDel
  <2>. DEFINE f == Head(toOwner)
              n == IF f.obj = o THEN f.n ELSE 0
  <2>1. /\ f \in ToOwnerFrames /\ f.kind = "del" /\ f.obj \in Objs
        /\ toOwner # <<>> /\ toOwner' = Tail(toOwner)
    BY <1>3, HeadTypes DEF HandleDel
  <2>2. f.n \in Nat \ {0} /\ f.seq \in Nat
    BY <2>1 DEF ToOwnerFrames
  <2>3. DelsOf(o) = n + DelsOf(o)' /\ DelsOf(o)' \in Nat
    <3>1. DelsOf(o) = n + DelsOf(o)'
      BY <1>2, <2>1, DelsTail DEF DelsOf
    <3>2. DelsOf(o)' \in Nat
      BY <1>2, <2>1, HeadTypes, WeighNat, WeightTypes DEF DelsOf
    <3>. QED
      BY <3>1, <3>2
  <2>4. refcnt'[o] = refcnt[o] - n
    <3>1. refcnt' = [refcnt EXCEPT ![f.obj] = IF @ <= f.n THEN 0 ELSE @ - f.n]
      BY <1>3 DEF HandleDel, Decref
    <3>2. n <= refcnt[o]
      BY <1>1, <2>2, <2>3 DEF Balanced, Travelling
    <3>3. refcnt \in [Objs -> 0..MaxBoxes]
      BY DEF Typing, TypeOK
    <3>4. CASE f.obj = o
      <4>1. refcnt'[o] = IF refcnt[o] <= f.n THEN 0 ELSE refcnt[o] - f.n
        BY <3>1, <3>3, <3>4
      <4>. QED
        BY <4>1, <3>2, <3>4, <2>2, <1>1
    <3>5. CASE f.obj # o
      <4>1. refcnt'[o] = refcnt[o]
        BY <3>1, <3>3, <3>5
      <4>. QED
        BY <4>1, <3>5, <1>1
    <3>. QED
      BY <3>4, <3>5
  <2>5. RefsTo(o)' = RefsTo(o)
    <3>1. SendToHolder(AckFrame(f.seq))
      BY <1>3 DEF HandleDel
    <3>2. toHolder' = Append(toHolder, AckFrame(f.seq))
      BY <3>1 DEF SendToHolder, Connected
    <3>. QED
      BY <3>2, <1>2, <2>2, RefsAppend DEF RefsTo
  <2>6. UNCHANGED <<rc, pending, batch, lost>>
    BY <1>3 DEF HandleDel, loopVars
  <2>7. QueuedOf(o)' = QueuedOf(o) /\ rc'[o] = rc[o] /\ batch'[o] = batch[o] /\ lost'[o] = lost[o]
    BY <2>6 DEF QueuedOf
  <2>8. n \in Nat
    BY <2>2
  <2>. HIDE DEF n
  <2>. QED
    BY <1>1, <2>3, <2>4, <2>5, <2>7, <2>8 DEF Balanced, Travelling
<1>4. CASE DispatchSync \/ DispatchAsync
  <2>1. /\ toOwner # <<>> /\ Head(toOwner).kind = "call" /\ toOwner' = Tail(toOwner)
        /\ UNCHANGED <<refcnt, toHolder, rc, pending, batch, lost>>
    BY <1>4 DEF DispatchSync, DispatchAsync, loopVars
  <2>2. Weigh(toOwner, DelWeight(o)) = 0 + Weigh(Tail(toOwner), DelWeight(o))
    BY <1>2, <2>1, DelsTail
  <2>3. Weigh(Tail(toOwner), DelWeight(o)) \in Nat
    BY <2>1, HeadTypes, WeighNat, WeightTypes
  <2>4. DelsOf(o)' = DelsOf(o)
    BY <2>1, <2>2, <2>3 DEF DelsOf
  <2>. QED
    BY <2>1, <2>4 DEF Balanced, Travelling, RefsTo, QueuedOf
<1>5. CASE RunTask
  BY <1>5, BalanceUnchanged DEF RunTask, loopVars
<1>. QED
  BY <1>3, <1>4, <1>5 DEF OwnerStep

LEMMA BalanceHolder ==
  ASSUME Typing, BatchInPass, NEW o \in Objs, Balanced(o), Connected, HolderStep
  PROVE  Balanced(o)'
<1>1. /\ RefsTo(o) \in Nat /\ QueuedOf(o) \in Nat /\ DelsOf(o) \in Nat
      /\ rc[o] \in Nat /\ batch[o] \in Nat /\ lost[o] \in Nat /\ refcnt[o] \in Nat
  BY TermsNat
<1>2. /\ toOwner \in Seq(ToOwnerFrames) /\ toHolder \in Seq(ToHolderFrames)
      /\ rc \in [Objs -> Nat] /\ batch \in [Objs -> Nat] /\ lost \in [Objs -> Nat]
  BY DEF Typing, TypeOK
<1>3. CASE UnboxRef
  <2>. DEFINE r == Head(toHolder).obj
  <2>1. /\ toHolder # <<>> /\ Head(toHolder).kind = "ref" /\ toHolder' = Tail(toHolder)
        /\ rc' = [rc EXCEPT ![r] = @ + 1]
        /\ UNCHANGED <<refcnt, toOwner, pending, batch, lost>>
    BY <1>3 DEF UnboxRef, ownerVars, loopVars
  <2>2. RefsTo(o) = (IF r = o THEN 1 ELSE 0) + RefsTo(o)'
    BY <1>2, <2>1, RefsTail DEF RefsTo
  <2>3. RefsTo(o)' \in Nat
    BY <2>1, HeadTypes, WeighNat, WeightTypes DEF RefsTo
  <2>4. rc'[o] = rc[o] + (IF r = o THEN 1 ELSE 0)
    BY <1>1, <1>2, <2>1
  <2>5. refcnt'[o] = refcnt[o] /\ DelsOf(o)' = DelsOf(o) /\ QueuedOf(o)' = QueuedOf(o)
        /\ batch'[o] = batch[o] /\ lost'[o] = lost[o]
    BY <2>1 DEF DelsOf, QueuedOf
  <2>. QED
    BY <1>1, <2>2, <2>3, <2>4, <2>5 DEF Balanced, Travelling
<1>4. CASE RecvAck
  <2>1. /\ toHolder # <<>> /\ Head(toHolder).kind = "ack" /\ toHolder' = Tail(toHolder)
        /\ UNCHANGED <<refcnt, toOwner, rc, pending, batch, lost>>
    BY <1>4 DEF RecvAck, ownerVars
  <2>2. Weigh(toHolder, RefWeight(o)) = 0 + Weigh(Tail(toHolder), RefWeight(o))
    BY <1>2, <2>1, RefsTail
  <2>3. Weigh(Tail(toHolder), RefWeight(o)) \in Nat
    BY <2>1, HeadTypes, WeighNat, WeightTypes
  <2>4. RefsTo(o)' = RefsTo(o)
    BY <2>1, <2>2, <2>3 DEF RefsTo
  <2>. QED
    BY <2>1, <2>4 DEF Balanced, Travelling, DelsOf, QueuedOf
<1>5. CASE Fire
  BY <1>5, BalanceUnchanged DEF Fire, ownerVars, loopVars
<1>6. CASE Wake
  <2>1. /\ batch[o] = 0 /\ batch'[o] = QueuedOf(o) /\ pending' = <<>>
        /\ UNCHANGED <<refcnt, toHolder, toOwner, rc, lost>>
    BY <1>6 DEF Wake, BatchInPass, ownerVars
  <2>2. QueuedOf(o)' = 0
    BY <2>1, WeighEmpty DEF QueuedOf
  <2>3. /\ refcnt'[o] = refcnt[o] /\ rc'[o] = rc[o] /\ lost'[o] = lost[o]
        /\ RefsTo(o)' = RefsTo(o) /\ DelsOf(o)' = DelsOf(o)
    BY <2>1 DEF RefsTo, DelsOf
  <2>. QED
    BY <1>1, <2>1, <2>2, <2>3 DEF Balanced, Travelling
<1>7. CASE ResumeAck \/ AckTimeout \/ PassDone
  BY <1>7, BalanceUnchanged DEF ResumeAck, AckTimeout, PassDone, ownerVars
<1>8. CASE AbandonBatch \/ FinalDrain
  BY <1>8 DEF AbandonBatch, FinalDrain, Connected
<1>9. ASSUME NEW p \in Objs, SkipResurrected(p) PROVE Balanced(o)'
  <2>1. /\ batch' = [batch EXCEPT ![p] = 0]
        /\ lost' = [lost EXCEPT ![p] = @ + batch[p]]
        /\ UNCHANGED <<refcnt, toHolder, toOwner, rc, pending>>
    BY <1>9 DEF SkipResurrected, ownerVars
  <2>2. batch'[o] + lost'[o] = batch[o] + lost[o] /\ batch'[o] \in Nat /\ lost'[o] \in Nat
    BY <1>1, <1>2, <2>1
  <2>3. /\ refcnt'[o] = refcnt[o] /\ rc'[o] = rc[o] /\ RefsTo(o)' = RefsTo(o)
        /\ DelsOf(o)' = DelsOf(o) /\ QueuedOf(o)' = QueuedOf(o)
    BY <2>1 DEF RefsTo, DelsOf, QueuedOf
  <2>4. Travelling(o) + lost[o] = (RefsTo(o) + rc[o] + QueuedOf(o) + DelsOf(o)) + (batch[o] + lost[o])
    BY <1>1 DEF Travelling
  <2>5. (Travelling(o) + lost[o])'
          = (RefsTo(o) + rc[o] + QueuedOf(o) + DelsOf(o)) + (batch'[o] + lost'[o])
    BY <1>1, <2>2, <2>3 DEF Travelling
  <2>. QED
    BY <2>2, <2>3, <2>4, <2>5 DEF Balanced
<1>10. ASSUME NEW p \in Objs, SendDel(p) PROVE Balanced(o)'
  <2>1. /\ batch[p] \in Nat \ {0} /\ dels + 1 \in Nat
        /\ batch' = [batch EXCEPT ![p] = 0]
        /\ toOwner' = Append(toOwner, DelFrame(p, batch[p], dels + 1))
        /\ UNCHANGED <<refcnt, toHolder, rc, pending, lost>>
    <3>1. batch[p] \in Nat /\ dels \in Nat
      BY <1>2 DEF Typing, TypeOK
    <3>. QED
      BY <1>10, <3>1 DEF SendDel, SendToOwner, Connected, ownerVars
  <2>2. DelsOf(o)' = DelsOf(o) + (IF p = o THEN batch[p] ELSE 0)
    BY <1>2, <2>1, DelsAppend DEF DelsOf
  <2>3. batch'[o] = IF p = o THEN 0 ELSE batch[o]
    BY <1>2, <2>1
  <2>4. RefsTo(o)' = RefsTo(o) /\ QueuedOf(o)' = QueuedOf(o) /\ rc'[o] = rc[o]
        /\ refcnt'[o] = refcnt[o] /\ lost'[o] = lost[o]
    BY <2>1 DEF RefsTo, QueuedOf
  <2>. QED
    BY <1>1, <2>2, <2>3, <2>4 DEF Balanced, Travelling
<1>. QED
  BY <1>3, <1>4, <1>5, <1>6, <1>7, <1>8, <1>9, <1>10 DEF HolderStep, CleanupStep

LEMMA AccountingStep ==
  ASSUME Typing, BatchInPass, Accounting, [Next]_vars
  PROVE  Accounting'
<1>. SUFFICES ASSUME Connected', NEW o \in Objs
              PROVE  Balanced(o)'
  BY DEF Accounting, Balanced
<1>1. Connected
  BY DEF Connected, Next, OwnerStep, HolderStep, FinalizerStep, CleanupStep, HandleDel,
     DispatchSync, DispatchAsync, RunTask, UnboxRef, RecvAck, Fire, Wake, ResumeAck,
     AckTimeout, PassDone, AbandonBatch, FinalDrain, SkipResurrected, SendDel, Box,
     Finalize, SignalCheck, SignalArm, ClearWeakref, ZombieDies, Call, OwnerCleanup,
     HolderClose, HolderPeerClosed, ownerVars, openVars, vars
<1>2. Balanced(o)
  BY <1>1 DEF Accounting, Balanced
<1>3. /\ RefsTo(o) \in Nat /\ QueuedOf(o) \in Nat /\ DelsOf(o) \in Nat
      /\ rc[o] \in Nat /\ batch[o] \in Nat /\ lost[o] \in Nat /\ refcnt[o] \in Nat
  BY TermsNat
<1>4. /\ toOwner \in Seq(ToOwnerFrames) /\ toHolder \in Seq(ToHolderFrames)
      /\ rc \in [Objs -> Nat] /\ refcnt \in [Objs -> 0..MaxBoxes]
      /\ lost \in [Objs -> Nat] /\ pending \in Seq(Entries)
  BY DEF Typing, TypeOK
<1>5. ASSUME NEW p \in Objs, Box(p) PROVE Balanced(o)'
  <2>1. /\ toHolder' = Append(toHolder, RefFrame(p))
        /\ refcnt' = [refcnt EXCEPT ![p] = @ + 1]
        /\ UNCHANGED <<toOwner, rc, pending, batch, lost>>
    BY <1>5 DEF Box, SendToHolder, loopVars
  <2>2. RefsTo(o)' = RefsTo(o) + (IF p = o THEN 1 ELSE 0)
    <3>1. toHolder' = Append(toHolder, RefFrame(p)) /\ toHolder \in Seq(ToHolderFrames)
      BY <1>4, <2>1
    <3>. QED
      BY <3>1, RefsAppend DEF RefsTo
  <2>3. refcnt'[o] = refcnt[o] + (IF p = o THEN 1 ELSE 0)
    <3>1. DOMAIN refcnt = Objs /\ refcnt[o] + 0 = refcnt[o]
      BY <1>3, <1>4
    <3>2. refcnt' = [refcnt EXCEPT ![p] = @ + 1]
      BY <2>1
    <3>. QED
      BY <3>1, <3>2
  <2>4. DelsOf(o)' = DelsOf(o) /\ QueuedOf(o)' = QueuedOf(o) /\ rc'[o] = rc[o]
        /\ batch'[o] = batch[o] /\ lost'[o] = lost[o]
    BY <2>1 DEF DelsOf, QueuedOf
  <2>5. (IF p = o THEN 1 ELSE 0) \in Nat
    OBVIOUS
  <2>. QED
    BY <1>2, <1>3, <2>2, <2>3, <2>4, <2>5 DEF Balanced, Travelling
<1>6. ASSUME NEW p \in Objs, Finalize(p) PROVE Balanced(o)'
  <2>1. /\ pending' = Append(pending, Queued(p)) /\ Queued(p) = [obj |-> p, n |-> rc[p]]
        /\ rc[p] \in Nat \ {0}
        /\ rc' = [rc EXCEPT ![p] = 0]
        /\ UNCHANGED <<refcnt, toOwner, toHolder, batch, lost>>
    BY <1>6, <1>4 DEF Finalize, Queued, Typing, AliveCounted, ownerVars, loopVars
  <2>2. Queued(p) \in Entries /\ Queued(p).obj = p /\ Queued(p).n = rc[p]
    BY <2>1 DEF Entries
  <2>3. QueuedOf(o)' = QueuedOf(o) + (IF p = o THEN rc[p] ELSE 0)
    BY <1>4, <2>1, <2>2, EntriesAppend DEF QueuedOf
  <2>4. rc'[o] = IF p = o THEN 0 ELSE rc[o]
    BY <1>4, <2>1
  <2>5. DelsOf(o)' = DelsOf(o) /\ RefsTo(o)' = RefsTo(o) /\ refcnt'[o] = refcnt[o]
        /\ batch'[o] = batch[o] /\ lost'[o] = lost[o]
    BY <2>1 DEF DelsOf, RefsTo
  <2>. QED
    BY <1>2, <1>3, <2>3, <2>4, <2>5 DEF Balanced, Travelling
<1>7. ASSUME NEW p \in Objs, FinalizerStep(p) PROVE Balanced(o)'
  BY <1>2, <1>7, BalanceUnchanged
     DEF FinalizerStep, SignalCheck, SignalArm, ClearWeakref, ownerVars, loopVars
<1>8. ASSUME NEW p \in Objs, ZombieDies(p) PROVE Balanced(o)'
  <2>1. /\ lost' = [lost EXCEPT ![p] = @ + rc[p]] /\ rc' = [rc EXCEPT ![p] = 0]
        /\ UNCHANGED <<refcnt, toOwner, toHolder, batch, pending>>
    BY <1>8 DEF ZombieDies, ownerVars, loopVars
  <2>2. rc'[o] + lost'[o] = rc[o] + lost[o] /\ rc'[o] \in Nat /\ lost'[o] \in Nat
    BY <1>3, <1>4, <2>1
  <2>3. /\ refcnt'[o] = refcnt[o] /\ batch'[o] = batch[o] /\ RefsTo(o)' = RefsTo(o)
        /\ DelsOf(o)' = DelsOf(o) /\ QueuedOf(o)' = QueuedOf(o)
    BY <2>1 DEF RefsTo, DelsOf, QueuedOf
  <2>4. Travelling(o) + lost[o] = (RefsTo(o) + QueuedOf(o) + batch[o] + DelsOf(o)) + (rc[o] + lost[o])
    BY <1>3 DEF Travelling
  <2>5. (Travelling(o) + lost[o])'
          = (RefsTo(o) + QueuedOf(o) + batch[o] + DelsOf(o)) + (rc'[o] + lost'[o])
    BY <1>3, <2>2, <2>3 DEF Travelling
  <2>. QED
    BY <1>2, <2>2, <2>3, <2>4, <2>5 DEF Balanced
<1>9. ASSUME NEW p \in Objs, NEW m \in Modes, Call(p, m) PROVE Balanced(o)'
  <2>1. /\ toOwner' = Append(toOwner, CallFrame(p, m))
        /\ UNCHANGED <<refcnt, toHolder, rc, pending, batch, lost>>
    BY <1>1, <1>9 DEF Call, SendToOwner, Connected, ownerVars, loopVars
  <2>2. DelsOf(o)' = DelsOf(o)
    BY <1>4, <2>1, DelsAppend DEF DelsOf
  <2>. QED
    BY <1>2, <2>1, <2>2 DEF Balanced, Travelling, RefsTo, QueuedOf
<1>10. CASE OwnerCleanup \/ HolderClose \/ HolderPeerClosed
  BY <1>10 DEF OwnerCleanup, HolderClose, HolderPeerClosed, Connected
<1>11. CASE UNCHANGED vars
  BY <1>2, <1>11, BalanceUnchanged DEF vars, ownerVars, loopVars
<1>. QED
  BY <1>1, <1>2, <1>5, <1>6, <1>7, <1>8, <1>9, <1>10, <1>11, BalanceOwner, BalanceHolder
     DEF Next

-----------------------------------------------------------------------------
(* Requests and the HANDLE_DELs ahead of them.                             *)

LEMMA PrefixAppend ==
  ASSUME NEW S, NEW s \in Seq(S), NEW e \in S, NEW k \in 0..Len(s)
  PROVE  SubSeq(Append(s, e), 1, k) = SubSeq(s, 1, k)
<1>. DEFINE a == Append(s, e)
<1>1. Len(s) \in Nat /\ Len(a) = Len(s) + 1 /\ \A i \in 1..Len(s) : a[i] = s[i] /\ a[i] \in S
  BY LenProperties, ElementOfSeq, AppendProperties
<1>. HIDE DEF a
<1>2. \A i \in 1..k : a[i] \in S /\ s[i] \in S /\ a[i] = s[i]
  BY <1>1
<1>3. /\ SubSeq(a, 1, k) \in Seq(S) /\ Len(SubSeq(a, 1, k)) = k
      /\ \A i \in 1..k : SubSeq(a, 1, k)[i] = a[i]
  <2>1. \A i \in 1..k : a[i] \in S
    BY <1>2
  <2>2. k \in Int /\ k - 1 + 1 = k
    BY <1>1
  <2>. QED
    BY <2>1, <2>2, <1>1, SubSeqProperties
<1>4. /\ SubSeq(s, 1, k) \in Seq(S) /\ Len(SubSeq(s, 1, k)) = k
      /\ \A i \in 1..k : SubSeq(s, 1, k)[i] = s[i]
  <2>1. \A i \in 1..k : s[i] \in S
    BY <1>2
  <2>. QED
    BY <2>1, <1>1, SubSeqProperties
<1>5. SubSeq(a, 1, k) = SubSeq(s, 1, k)
  BY <1>2, <1>3, <1>4, SeqEqual
<1>. QED
  BY <1>5 DEF a

LEMMA PrefixTail ==
  ASSUME NEW S, NEW s \in Seq(S), s # <<>>, NEW k \in 1..Len(s)
  PROVE  /\ SubSeq(s, 1, k) \in Seq(S) /\ SubSeq(s, 1, k) # <<>>
         /\ Head(SubSeq(s, 1, k)) = Head(s)
         /\ Tail(SubSeq(s, 1, k)) = SubSeq(Tail(s), 1, k - 1)
<1>. DEFINE p == SubSeq(s, 1, k)
            t == Tail(s)
            q == SubSeq(t, 1, k - 1)
<1>1. Len(s) \in Nat \ {0} /\ \A i \in 1..Len(s) : s[i] \in S
  BY EmptySeq, LenProperties, ElementOfSeq
<1>2. t \in Seq(S) /\ Len(t) = Len(s) - 1 /\ \A i \in 1..(Len(s) - 1) : t[i] = s[i + 1]
  BY HeadTailProperties
<1>. HIDE DEF t
<1>3. p \in Seq(S) /\ Len(p) = k /\ \A i \in 1..k : p[i] = s[i]
  <2>1. \A i \in 1..k : s[i] \in S
    BY <1>1
  <2>. QED
    BY <2>1, <1>1, SubSeqProperties
<1>4. q \in Seq(S) /\ Len(q) = k - 1 /\ \A i \in 1..(k - 1) : q[i] = t[i]
  <2>1. \A i \in 1..(k - 1) : t[i] \in S
    BY <1>1, <1>2
  <2>. QED
    BY <2>1, <1>1, SubSeqProperties
<1>. HIDE DEF p, q
<1>5. p # <<>> /\ Head(p) = s[1] /\ Head(s) = s[1]
  BY <1>1, <1>3
<1>6. Tail(p) \in Seq(S) /\ Len(Tail(p)) = k - 1 /\ \A i \in 1..(k - 1) : Tail(p)[i] = p[i + 1]
  BY <1>3, <1>5, HeadTailProperties
<1>7. \A i \in 1..(k - 1) : Tail(p)[i] = q[i]
  BY <1>1, <1>2, <1>3, <1>4, <1>6
<1>8. Tail(p) = q
  BY <1>4, <1>6, <1>7, SeqEqual
<1>. QED
  BY <1>3, <1>5, <1>8 DEF p, q, t

(* Serving the head of the queue moves every other frame up by one.        *)
LEMMA AheadTail ==
  ASSUME Typing, toOwner # <<>>, toOwner' = Tail(toOwner),
         NEW i \in DOMAIN toOwner', NEW o \in Objs
  PROVE  /\ i + 1 \in DOMAIN toOwner /\ toOwner'[i] = toOwner[i + 1]
         /\ DelsAhead(i, o)' \in Nat
         /\ DelsAhead(i + 1, o)
              = DelsAhead(i, o)'
                + (IF Head(toOwner).kind = "del" /\ Head(toOwner).obj = o
                   THEN Head(toOwner).n ELSE 0)
<1>. DEFINE s == toOwner
            p == SubSeq(s, 1, i)
<1>1. s \in Seq(ToOwnerFrames)
  BY DEF Typing, TypeOK
<1>2. /\ Len(s) \in Nat \ {0} /\ DOMAIN s = 1..Len(s)
      /\ Tail(s) \in Seq(ToOwnerFrames) /\ DOMAIN Tail(s) = 1..(Len(s) - 1)
      /\ \A j \in 1..(Len(s) - 1) : Tail(s)[j] = s[j + 1]
  BY <1>1, EmptySeq, LenProperties, HeadTailProperties
<1>3. i \in 1..Len(s) /\ i + 1 \in DOMAIN s /\ Tail(s)[i] = s[i + 1]
  BY <1>2
<1>4. /\ p \in Seq(ToOwnerFrames) /\ p # <<>> /\ Head(p) = Head(s)
      /\ Tail(p) = SubSeq(Tail(s), 1, i - 1)
  BY <1>1, <1>3, PrefixTail
<1>5. Tail(p) \in Seq(ToOwnerFrames)
  BY <1>4, HeadTailProperties
<1>6. Weigh(Tail(p), DelWeight(o)) \in Nat
  BY <1>5, WeighNat, WeightTypes
<1>7. Weigh(p, DelWeight(o))
        = (IF Head(p).kind = "del" /\ Head(p).obj = o THEN Head(p).n ELSE 0)
          + Weigh(Tail(p), DelWeight(o))
  BY <1>4, DelsTail
<1>8. DelsAhead(i, o)' = Weigh(Tail(p), DelWeight(o))
  BY <1>4 DEF DelsAhead
<1>9. DelsAhead(i + 1, o) = Weigh(p, DelWeight(o))
  <2>1. (i + 1) - 1 = i
    BY <1>3
  <2>. QED
    BY <2>1 DEF DelsAhead
<1>10. Head(s) \in ToOwnerFrames
  BY <1>1, HeadTailProperties
<1>11. (IF Head(s).kind = "del" /\ Head(s).obj = o THEN Head(s).n ELSE 0) \in Nat
  BY <1>10 DEF ToOwnerFrames
<1>12. DelsAhead(i, o)' \in Nat
  BY <1>6, <1>8
<1>13. DelsAhead(i + 1, o)
         = (IF Head(s).kind = "del" /\ Head(s).obj = o THEN Head(s).n ELSE 0)
           + DelsAhead(i, o)'
  BY <1>4, <1>7, <1>8, <1>9
<1>14. \A m, n \in Nat : m + n = n + m
  OBVIOUS
<1>15. DelsAhead(i + 1, o)
         = DelsAhead(i, o)'
           + (IF Head(s).kind = "del" /\ Head(s).obj = o THEN Head(s).n ELSE 0)
  <2>. HIDE DEF s, p
  <2>. QED
    BY <1>11, <1>12, <1>13, <1>14
<1>. QED
  BY <1>3, <1>12, <1>15

(* A frame that joins the queue is behind every request already there.     *)
LEMMA CoveredAppend ==
  ASSUME Typing, CallsCovered, NEW f \in ToOwnerFrames,
         ownerOpen' => ownerOpen,
         SendToOwner(f),
         \A o \in Objs : refcnt'[o] = refcnt[o],
         f.kind = "call" /\ ownerOpen => DelsOf(f.obj) < refcnt[f.obj]
  PROVE  CallsCovered'
<1>. SUFFICES ASSUME ownerOpen', NEW i \in DOMAIN toOwner', toOwner'[i].kind = "call"
              PROVE  (DelsAhead(i, toOwner[i].obj) < refcnt[toOwner[i].obj])'
  BY DEF CallsCovered
<1>1. toOwner \in Seq(ToOwnerFrames) /\ toOwner' = Append(toOwner, f)
  BY DEF Typing, TypeOK, SendToOwner
<1>2. /\ Len(toOwner) \in Nat /\ DOMAIN toOwner = 1..Len(toOwner)
      /\ DOMAIN toOwner' = 1..(Len(toOwner) + 1)
      /\ \A j \in 1..Len(toOwner) : toOwner'[j] = toOwner[j]
      /\ toOwner'[Len(toOwner) + 1] = f
  BY <1>1, LenProperties, AppendProperties
<1>3. \A g \in ToOwnerFrames : g.obj \in Objs
  BY DEF ToOwnerFrames
<1>4. DelsAhead(i, toOwner[i].obj)'
        = Weigh(SubSeq(toOwner, 1, i - 1), DelWeight(toOwner'[i].obj))
  <2>1. i - 1 \in 0..Len(toOwner)
    BY <1>2
  <2>2. SubSeq(toOwner', 1, i - 1) = SubSeq(toOwner, 1, i - 1)
    BY <1>1, <2>1, PrefixAppend
  <2>. QED
    BY <2>2 DEF DelsAhead
<1>5. CASE i = Len(toOwner) + 1
  <2>1. SubSeq(toOwner, 1, i - 1) = toOwner
    <3>1. SubSeq(toOwner, 1, Len(toOwner)) = toOwner
      BY <1>1, SubSeqFull
    <3>2. i - 1 = Len(toOwner)
      BY <1>2, <1>5
    <3>. QED
      BY <3>1, <3>2
  <2>. QED
    BY <1>2, <1>3, <1>4, <1>5, <2>1 DEF DelsOf
<1>6. CASE i \in 1..Len(toOwner)
  <2>1. toOwner'[i] = toOwner[i] /\ toOwner[i].obj \in Objs
    BY <1>1, <1>2, <1>3, <1>6, ElementOfSeq
  <2>2. DelsAhead(i, toOwner[i].obj) < refcnt[toOwner[i].obj]
    BY <1>2, <1>6, <2>1 DEF CallsCovered
  <2>. QED
    BY <1>4, <2>1, <2>2 DEF DelsAhead
<1>. QED
  BY <1>2, <1>5, <1>6

(* Serving the head keeps what covers the requests behind it.              *)
LEMMA CoveredTail ==
  ASSUME Typing, CallsCovered, ownerOpen, toOwner # <<>>, toOwner' = Tail(toOwner),
         \A o \in Objs :
           LET n == IF Head(toOwner).kind = "del" /\ Head(toOwner).obj = o
                    THEN Head(toOwner).n ELSE 0
           IN  refcnt[o] > n => refcnt'[o] = refcnt[o] - n
  PROVE  CallsCovered'
<1>. SUFFICES ASSUME NEW i \in DOMAIN toOwner', toOwner'[i].kind = "call"
              PROVE  (DelsAhead(i, toOwner[i].obj) < refcnt[toOwner[i].obj])'
  BY DEF CallsCovered
<1>1. PICK o \in Objs : o = toOwner'[i].obj
  <2>1. toOwner' \in Seq(ToOwnerFrames)
    BY HeadTypes
  <2>2. toOwner'[i] \in ToOwnerFrames
    BY <2>1, LenProperties, ElementOfSeq
  <2>. QED
    BY <2>2 DEF ToOwnerFrames
<1>. DEFINE n == IF Head(toOwner).kind = "del" /\ Head(toOwner).obj = o
                 THEN Head(toOwner).n ELSE 0
<1>2. /\ i + 1 \in DOMAIN toOwner /\ toOwner'[i] = toOwner[i + 1]
      /\ DelsAhead(i, o)' \in Nat
      /\ DelsAhead(i + 1, o) = DelsAhead(i, o)' + n
  BY AheadTail
<1>3. DelsAhead(i + 1, o) < refcnt[o]
  BY <1>1, <1>2 DEF CallsCovered
<1>4. n \in Nat /\ refcnt[o] \in Nat
  <2>1. n \in Nat
    BY HeadTypes DEF ToOwnerFrames
  <2>. QED
    BY <2>1, TermsNat
<1>5. refcnt[o] > n => refcnt'[o] = refcnt[o] - n
  OBVIOUS
<1>. HIDE DEF n
<1>6. DelsAhead(i, o)' < refcnt'[o]
  BY <1>2, <1>3, <1>4, <1>5
<1>. QED
  BY <1>1, <1>6 DEF DelsAhead

(* Nobody touches the requests or the table: they stay covered.            *)
LEMMA CoveredUnchanged ==
  ASSUME CallsCovered, ownerOpen' => ownerOpen, UNCHANGED <<refcnt, toOwner>>
  PROVE  CallsCovered'
BY DEF CallsCovered, DelsAhead

LEMMA CoveredOwner ==
  ASSUME Typing, CallsCovered, OwnerStep
  PROVE  CallsCovered'
<1>1. CASE HandleDel
  <2>. DEFINE f == Head(toOwner)
  <2>1. /\ ownerOpen /\ toOwner # <<>> /\ toOwner' = Tail(toOwner)
        /\ refcnt' = [refcnt EXCEPT ![f.obj] = IF @ <= f.n THEN 0 ELSE @ - f.n]
    BY <1>1 DEF HandleDel, Decref
  <2>2. f \in ToOwnerFrames /\ f.kind = "del" /\ f.n \in Nat
    BY <1>1, <2>1, HeadTypes DEF HandleDel, ToOwnerFrames
  <2>3. refcnt \in [Objs -> 0..MaxBoxes]
    BY DEF Typing, TypeOK
  <2>4. ASSUME NEW o \in Objs,
               refcnt[o] > (IF f.kind = "del" /\ f.obj = o THEN f.n ELSE 0)
        PROVE  refcnt'[o] = refcnt[o] - (IF f.kind = "del" /\ f.obj = o THEN f.n ELSE 0)
    <3>1. refcnt[o] \in Nat
      BY TermsNat
    <3>2. CASE f.obj = o
      <4>1. refcnt'[o] = IF refcnt[o] <= f.n THEN 0 ELSE refcnt[o] - f.n
        BY <2>1, <2>3, <3>2
      <4>. QED
        BY <2>2, <2>4, <3>1, <3>2, <4>1
    <3>3. CASE f.obj # o
      BY <2>1, <2>3, <3>1, <3>3
    <3>. QED
      BY <3>2, <3>3
  <2>. HIDE DEF f
  <2>5. \A o \in Objs :
          LET n == IF f.kind = "del" /\ f.obj = o THEN f.n ELSE 0
          IN  refcnt[o] > n => refcnt'[o] = refcnt[o] - n
    BY <2>4
  <2>. QED
    BY <2>1, <2>5, CoveredTail DEF f
<1>2. CASE DispatchSync \/ DispatchAsync
  <2>1. /\ ownerOpen /\ toOwner # <<>> /\ Head(toOwner).kind = "call"
        /\ toOwner' = Tail(toOwner) /\ refcnt' = refcnt
    BY <1>2 DEF DispatchSync, DispatchAsync
  <2>2. \A o \in Objs :
          LET n == IF Head(toOwner).kind = "del" /\ Head(toOwner).obj = o
                   THEN Head(toOwner).n ELSE 0
          IN  refcnt[o] > n => refcnt'[o] = refcnt[o] - n
    <3>1. \A o \in Objs : refcnt[o] \in Nat
      BY TermsNat
    <3>. QED
      BY <2>1, <3>1
  <2>. QED
    BY <2>1, <2>2, CoveredTail
<1>3. CASE RunTask
  BY <1>3, CoveredUnchanged DEF RunTask
<1>. QED
  BY <1>1, <1>2, <1>3 DEF OwnerStep

LEMMA CoveredStep ==
  ASSUME Typing, Accounting, CallsCovered, [Next]_vars
  PROVE  CallsCovered'
<1>1. ASSUME NEW p \in Objs, Box(p) PROVE CallsCovered'
  <2>1. /\ refcnt \in [Objs -> 0..MaxBoxes] /\ \A o \in Objs : refcnt[o] \in Nat
    BY TermsNat DEF Typing, TypeOK
  <2>2. /\ ownerOpen' = ownerOpen /\ toOwner' = toOwner
        /\ refcnt' = [refcnt EXCEPT ![p] = @ + 1]
    BY <1>1 DEF Box
  <2>3. \A o \in Objs : refcnt'[o] \in Nat /\ refcnt'[o] >= refcnt[o]
    BY <2>1, <2>2
  <2>4. ASSUME ownerOpen, NEW i \in DOMAIN toOwner, toOwner[i].kind = "call"
        PROVE  (DelsAhead(i, toOwner[i].obj) < refcnt[toOwner[i].obj])'
    <3>1. DelsAhead(i, toOwner[i].obj)' = DelsAhead(i, toOwner[i].obj)
      BY <2>2 DEF DelsAhead
    <3>2. DelsAhead(i, toOwner[i].obj) < refcnt[toOwner[i].obj]
      BY <2>4 DEF CallsCovered
    <3>3. toOwner \in Seq(ToOwnerFrames)
      BY DEF Typing, TypeOK
    <3>4. toOwner[i] \in ToOwnerFrames
      BY <3>3, LenProperties, ElementOfSeq
    <3>5. toOwner[i].obj \in Objs
      BY <3>4 DEF ToOwnerFrames
    <3>6. DelsAhead(i, toOwner[i].obj) \in Nat
      <4>1. i \in 1..Len(toOwner) /\ Len(toOwner) \in Nat
        BY <3>3, LenProperties
      <4>2. \A j \in 1..(i - 1) : toOwner[j] \in ToOwnerFrames
        BY <4>1, <3>3, ElementOfSeq
      <4>3. SubSeq(toOwner, 1, i - 1) \in Seq(ToOwnerFrames)
        BY <4>1, <4>2, SubSeqProperties
      <4>. QED
        BY <3>5, <4>3, WeighNat, WeightTypes DEF DelsAhead
    <3>7. /\ refcnt[toOwner[i].obj] \in Nat /\ refcnt'[toOwner[i].obj] \in Nat
          /\ refcnt'[toOwner[i].obj] >= refcnt[toOwner[i].obj]
      BY <2>1, <2>3, <3>5
    <3>8. DelsAhead(i, toOwner[i].obj) < refcnt'[toOwner[i].obj]
      BY <3>2, <3>6, <3>7
    <3>. QED
      BY <2>2, <3>1, <3>8
  <2>. QED
    BY <2>2, <2>4 DEF CallsCovered
<1>2. ASSUME NEW p \in Objs, NEW m \in Modes, Call(p, m) PROVE CallsCovered'
  <2>1. /\ SendToOwner(CallFrame(p, m)) /\ ownerOpen' = ownerOpen /\ refcnt' = refcnt
        /\ holderOpen /\ rc[p] > 0
    BY <1>2 DEF Call, ownerVars
  <2>2. ownerOpen => DelsOf(p) < refcnt[p]
    <3>1. ASSUME ownerOpen PROVE refcnt[p] = Travelling(p) + lost[p]
      BY <2>1, <3>1 DEF Accounting, Connected
    <3>. QED
      BY <2>1, <3>1, TermsNat DEF Travelling
  <2>3. CallFrame(p, m) \in ToOwnerFrames /\ CallFrame(p, m).obj = p
    BY FrameTypes DEF CallFrame
  <2>. QED
    BY <2>1, <2>2, <2>3, CoveredAppend
<1>3. ASSUME NEW p \in Objs, SendDel(p) PROVE CallsCovered'
  <2>1. /\ batch[p] \in Nat \ {0} /\ dels + 1 \in Nat
        /\ SendToOwner(DelFrame(p, batch[p], dels + 1))
        /\ ownerOpen' = ownerOpen /\ refcnt' = refcnt
    BY <1>3 DEF SendDel, ownerVars, Typing, TypeOK
  <2>2. DelFrame(p, batch[p], dels + 1) \in ToOwnerFrames
    BY <2>1, FrameTypes
  <2>3. DelFrame(p, batch[p], dels + 1).kind # "call"
    BY DEF DelFrame
  <2>. QED
    BY <2>1, <2>2, <2>3, CoveredAppend
<1>4. ASSUME OwnerCleanup PROVE CallsCovered'
  BY <1>4 DEF OwnerCleanup, CallsCovered
<1>5. ASSUME NEW p \in Objs,
             \/ Finalize(p) \/ FinalizerStep(p) \/ ZombieDies(p) \/ SkipResurrected(p)
      PROVE  CallsCovered'
  BY <1>5, CoveredUnchanged DEF Finalize, FinalizerStep, SignalCheck, SignalArm,
     ClearWeakref, ZombieDies, SkipResurrected, ownerVars
<1>6. ASSUME \/ UnboxRef \/ RecvAck \/ Fire \/ Wake \/ ResumeAck \/ AckTimeout
             \/ PassDone \/ AbandonBatch \/ FinalDrain \/ HolderClose
             \/ HolderPeerClosed \/ UNCHANGED vars
      PROVE  CallsCovered'
  BY <1>6, CoveredUnchanged DEF UnboxRef, RecvAck, Fire, Wake, ResumeAck, AckTimeout,
     PassDone, AbandonBatch, FinalDrain, HolderClose, HolderPeerClosed, ownerVars, vars
<1>. QED
  BY <1>1, <1>2, <1>3, <1>4, <1>5, <1>6, CoveredOwner DEF Next, HolderStep, CleanupStep

(* A synchronous handler unboxes what CallsCovered keeps.                  *)
LEMMA SyncArgsStep ==
  ASSUME Typing, CallsCovered, SyncArgsFound, [Next]_vars
  PROVE  SyncArgsFound'
<1>1. ASSUME DispatchSync PROVE SyncArgsFound'
  <2>1. /\ ownerOpen /\ toOwner # <<>> /\ Head(toOwner).kind = "call"
        /\ Unbox(Head(toOwner).obj, "sync")
    BY <1>1 DEF DispatchSync
  <2>2. 1 \in DOMAIN toOwner /\ toOwner[1] = Head(toOwner)
    BY <2>1, EmptySeq, LenProperties DEF Typing, TypeOK
  <2>3. DelsAhead(1, toOwner[1].obj) < refcnt[toOwner[1].obj]
    BY <2>1, <2>2 DEF CallsCovered
  <2>4. DelsAhead(1, toOwner[1].obj) = 0
    <3>1. SubSeq(toOwner, 1, 1 - 1) = <<>>
      BY SubSeqEmpty
    <3>. QED
      BY <3>1, WeighEmpty DEF DelsAhead
  <2>5. refcnt[Head(toOwner).obj] > 0
    <3>1. refcnt[Head(toOwner).obj] \in Nat
      BY <2>1, HeadTypes, TermsNat
    <3>. QED
      BY <2>2, <2>3, <2>4, <3>1
  <2>. QED
    BY <2>1, <2>5 DEF Unbox, SyncArgsFound
<1>2. ASSUME RunTask PROVE SyncArgsFound'
  BY <1>2 DEF RunTask, Unbox, SyncArgsFound
<1>3. ASSUME ~ DispatchSync, ~ RunTask PROVE missed' = missed
  BY <1>3 DEF Next, OwnerStep, HolderStep, FinalizerStep, CleanupStep, HandleDel,
     DispatchAsync, UnboxRef, RecvAck, Fire, Wake, ResumeAck, AckTimeout, PassDone,
     AbandonBatch, FinalDrain, SkipResurrected, SendDel, Box, Finalize, SignalCheck,
     SignalArm, ClearWeakref, ZombieDies, Call, OwnerCleanup, HolderClose,
     HolderPeerClosed, ownerVars, vars
<1>. QED
  BY <1>1, <1>2, <1>3 DEF SyncArgsFound

-----------------------------------------------------------------------------
(* The theorems.                                                           *)

LEMMA CountingInvInit == Init => CountingInv /\ SyncArgsFound
<1>. SUFFICES ASSUME Init PROVE CountingInv /\ SyncArgsFound
  OBVIOUS
<1>1. Typing
  BY TypingInit
<1>2. \A o \in Objs : RefsTo(o) = 0 /\ QueuedOf(o) = 0 /\ DelsOf(o) = 0
  BY WeighEmpty DEF Init, RefsTo, QueuedOf, DelsOf
<1>3. Accounting
  BY <1>2 DEF Init, Accounting, Travelling
<1>4. BatchInPass /\ SyncArgsFound
  BY DEF Init, BatchInPass, SyncArgsFound
<1>5. CallsCovered
  BY DEF Init, CallsCovered
<1>. QED
  BY <1>1, <1>3, <1>4, <1>5 DEF CountingInv, Typing

(* For any set of objects, any bounds and any mix of threads, the counting *)
(* invariant holds and a request with a synchronous handler finds its      *)
(* argument in the owner's _local_objects.                                 *)
THEOREM CountingInvariant == Spec => [](CountingInv /\ SyncArgsFound)
<1>1. Init => CountingInv /\ SyncArgsFound
  BY CountingInvInit
<1>2. CountingInv /\ SyncArgsFound /\ [Next]_vars => (CountingInv /\ SyncArgsFound)'
  <2>. SUFFICES ASSUME CountingInv, SyncArgsFound, [Next]_vars
                PROVE  (CountingInv /\ SyncArgsFound)'
    OBVIOUS
  <2>1. Typing /\ BatchInPass /\ Accounting /\ CallsCovered
    BY DEF CountingInv, Typing
  <2>2. Typing'
    BY <2>1, TypingStep
  <2>3. BatchInPass'
    BY <2>1, BatchStep
  <2>4. Accounting'
    BY <2>1, AccountingStep
  <2>5. CallsCovered'
    BY <2>1, CoveredStep
  <2>6. SyncArgsFound'
    BY <2>1, SyncArgsStep
  <2>. QED
    BY <2>2, <2>3, <2>4, <2>5, <2>6 DEF CountingInv, Typing
<1>. QED
  BY <1>1, <1>2, PTL DEF Spec

(* Every variable stays in its range.                                      *)
THEOREM TypeCorrect == Spec => []TypeOK
<1>1. CountingInv => TypeOK
  BY DEF CountingInv
<1>. QED
  BY <1>1, CountingInvariant, PTL

(* _box, _unbox, __del__, the cleanup pass and _handle_del neither invent  *)
(* nor mislay a reference, in any interleaving of the two event loops and  *)
(* the threads that drop proxies.                                          *)
THEOREM AccountingHolds == Spec => []Accounting
<1>1. CountingInv => Accounting
  BY DEF CountingInv
<1>. QED
  BY <1>1, CountingInvariant, PTL

(* A usable proxy, or a reference on its way to become one, has its object *)
(* in the owner's _local_objects.                                          *)
THEOREM LiveProxyHasObjectHolds == Spec => []LiveProxyHasObject
<1>1. CountingInv => LiveProxyHasObject
  <2>. SUFFICES ASSUME CountingInv, Connected, NEW o \in Objs,
                       RefsTo(o) > 0 \/ rc[o] > 0
                PROVE  refcnt[o] > 0
    BY DEF LiveProxyHasObject
  <2>1. Typing /\ refcnt[o] = Travelling(o) + lost[o]
    BY DEF CountingInv, Typing, Accounting
  <2>. QED
    BY <2>1, TermsNat DEF Travelling
<1>. QED
  BY <1>1, CountingInvariant, PTL

(* The HANDLE_DELs in flight never ask for more than the owner counts.     *)
THEOREM DelNeverOverdrawsHolds == Spec => []DelNeverOverdraws
<1>1. CountingInv => DelNeverOverdraws
  <2>. SUFFICES ASSUME CountingInv, Connected, NEW o \in Objs
                PROVE  DelsOf(o) <= refcnt[o]
    BY DEF DelNeverOverdraws
  <2>1. Typing /\ refcnt[o] = Travelling(o) + lost[o]
    BY DEF CountingInv, Typing, Accounting
  <2>. QED
    BY <2>1, TermsNat DEF Travelling
<1>. QED
  BY <1>1, CountingInvariant, PTL

(* A request with a synchronous handler is dispatched ahead of the         *)
(* HANDLE_DEL of the proxy it was sent with.                               *)
THEOREM SyncArgsFoundHolds == Spec => []SyncArgsFound
BY CountingInvariant, PTL

=============================================================================
