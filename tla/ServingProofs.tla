--------------------------- MODULE ServingProofs ---------------------------
(* Connection.serve for any threads and any depth of their stacks.         *)
(* Without bind_threads: one thread at a time reads the socket, the        *)
(* receive lock is given back, and no sleeper is left whom nobody will     *)
(* wake.  With bind_threads: a reply reaches the thread that asked for it, *)
(* _occupation_count is exact, and a pool in which a thread waits has a    *)
(* receiver, or a thread that has been woken to become one.                *)
EXTENDS Serving, Integers, SequenceTheorems, FiniteSetTheorems,
        WellFoundedInduction, TLAPS

-----------------------------------------------------------------------------
(* The number of places of a sequence whose element is in a set.           *)

CountIn(s, M) == Cardinality({i \in 1..Len(s) : s[i] \in M})

One(condition) == IF condition THEN 1 ELSE 0

(* The count is a number, zero if no element is in the set.                *)
LEMMA CountInNat ==
  ASSUME NEW S, NEW s \in Seq(S), NEW M
  PROVE  /\ IsFiniteSet({i \in 1..Len(s) : s[i] \in M})
         /\ CountIn(s, M) \in Nat
         /\ CountIn(s, M) = 0 <=> \A i \in 1..Len(s) : s[i] \notin M
<1>. DEFINE I == {i \in 1..Len(s) : s[i] \in M}
<1>1. IsFiniteSet(1..Len(s))
  BY LenProperties, FS_Interval
<1>2. IsFiniteSet(I)
  BY <1>1, FS_Subset
<1>3. Cardinality(I) \in Nat /\ (Cardinality(I) = 0 <=> I = {})
  BY <1>2, FS_CardinalityType, FS_EmptySet
<1>. QED
  BY <1>2, <1>3 DEF CountIn

(* What the usual changes of a sequence do to the count.                   *)
LEMMA CountInEmpty ==
  ASSUME NEW M
  PROVE  CountIn(<<>>, M) = 0
<1>1. {i \in 1..Len(<<>>) : <<>>[i] \in M} = {}
  OBVIOUS
<1>. QED
  BY <1>1, FS_EmptySet DEF CountIn

LEMMA CountInAppend ==
  ASSUME NEW S, NEW s \in Seq(S), NEW e \in S, NEW M
  PROVE  CountIn(Append(s, e), M) = CountIn(s, M) + One(e \in M)
<1>. DEFINE I == {i \in 1..Len(s) : s[i] \in M}
            J == {i \in 1..Len(Append(s, e)) : Append(s, e)[i] \in M}
            n == Len(s) + 1
<1>1. /\ Len(s) \in Nat /\ Len(Append(s, e)) = n
      /\ \A i \in 1..Len(s) : Append(s, e)[i] = s[i]
      /\ Append(s, e)[n] = e
  BY LenProperties, AppendProperties
<1>2. J = IF e \in M THEN I \cup {n} ELSE I
  <2>. HIDE DEF n
  <2>. QED
    BY <1>1 DEF n
<1>3. IsFiniteSet(I) /\ Cardinality(I) \in Nat /\ n \notin I
  BY <1>1, CountInNat DEF CountIn
<1>4. Cardinality(I \cup {n}) = Cardinality(I) + 1
  <2>. HIDE DEF I, n
  <2>. QED
    BY <1>3, FS_AddElement
<1>. HIDE DEF I, J, n
<1>5. Cardinality(J) = Cardinality(I) + One(e \in M)
  BY <1>2, <1>3, <1>4 DEF One
<1>. QED
  BY <1>5 DEF CountIn, I, J

(* A sequence, as what is below its last element and that element.         *)
LEMMA FrontAndLast ==
  ASSUME NEW S, NEW s \in Seq(S), s # <<>>
  PROVE  /\ Len(s) \in Nat \ {0} /\ s[Len(s)] \in S
         /\ SubSeq(s, 1, Len(s) - 1) \in Seq(S)
         /\ Len(SubSeq(s, 1, Len(s) - 1)) = Len(s) - 1
         /\ \A i \in 1..(Len(s) - 1) : SubSeq(s, 1, Len(s) - 1)[i] = s[i]
         /\ s = Append(SubSeq(s, 1, Len(s) - 1), s[Len(s)])
<1>. DEFINE f == SubSeq(s, 1, Len(s) - 1)
            l == s[Len(s)]
<1>1. Len(s) \in Nat \ {0} /\ \A i \in 1..Len(s) : s[i] \in S
  BY EmptySeq, ElementOfSeq
<1>2. \A i \in 1..(Len(s) - 1) : s[i] \in S
  BY <1>1
<1>3. /\ f \in Seq(S) /\ Len(f) = Len(s) - 1
      /\ \A i \in 1..(Len(s) - 1) : f[i] = s[i]
  <2>1. 1 \in Int /\ Len(s) - 1 \in Int
    BY <1>1
  <2>2. /\ f \in Seq(S)
        /\ Len(f) = IF 1 <= Len(s) - 1 THEN (Len(s) - 1) - 1 + 1 ELSE 0
        /\ \A i \in 1..((Len(s) - 1) - 1 + 1) : f[i] = s[1 + i - 1]
    BY <1>2, <2>1, SubSeqProperties
  <2>3. Len(f) = Len(s) - 1
    <3>1. PICK n \in Nat : n = Len(s) /\ n # 0
      BY <1>1
    <3>2. Len(f) = IF 1 <= n - 1 THEN (n - 1) - 1 + 1 ELSE 0
      BY <2>2, <3>1
    <3>. HIDE DEF f
    <3>. QED
      BY <3>1, <3>2
  <2>4. \A i \in 1..(Len(s) - 1) : f[i] = s[i]
    <3>1. \A i \in 1..(Len(s) - 1) : i \in 1..((Len(s) - 1) - 1 + 1) /\ 1 + i - 1 = i
      BY <1>1
    <3>. HIDE DEF f
    <3>. QED
      BY <3>1, <2>2
  <2>. QED
    BY <2>2, <2>3, <2>4
<1>4. l \in S
  BY <1>1
<1>. HIDE DEF f, l
<1>5. /\ Append(f, l) \in Seq(S) /\ Len(Append(f, l)) = Len(s)
      /\ \A i \in 1..(Len(s) - 1) : Append(f, l)[i] = s[i]
      /\ Append(f, l)[Len(s)] = l
  BY <1>1, <1>3, <1>4, AppendProperties
<1>6. \A i \in 1..Len(s) : s[i] = Append(f, l)[i]
  BY <1>1, <1>5 DEF l
<1>7. s = Append(f, l)
  BY <1>5, <1>6, SeqEqual
<1>. QED
  BY <1>1, <1>3, <1>4, <1>7 DEF f, l

LEMMA CountInFront ==
  ASSUME NEW S, NEW s \in Seq(S), s # <<>>, NEW M
  PROVE  CountIn(s, M) = CountIn(SubSeq(s, 1, Len(s) - 1), M) + One(s[Len(s)] \in M)
<1>. DEFINE f == SubSeq(s, 1, Len(s) - 1)
            l == s[Len(s)]
<1>1. f \in Seq(S) /\ l \in S /\ s = Append(f, l)
  BY FrontAndLast
<1>. HIDE DEF f, l
<1>2. CountIn(s, M) = CountIn(f, M) + One(l \in M)
  BY <1>1, CountInAppend
<1>. QED
  BY <1>2 DEF f, l

(* Another last element.                                                   *)
LEMMA CountInLast ==
  ASSUME NEW S, NEW s \in Seq(S), s # <<>>, NEW e \in S, NEW M
  PROVE  /\ [s EXCEPT ![Len(s)] = e] \in Seq(S)
         /\ Len([s EXCEPT ![Len(s)] = e]) = Len(s)
         /\ CountIn([s EXCEPT ![Len(s)] = e], M) + One(s[Len(s)] \in M)
              = CountIn(s, M) + One(e \in M)
<1>. DEFINE f == SubSeq(s, 1, Len(s) - 1)
            t == [s EXCEPT ![Len(s)] = e]
<1>1. /\ Len(s) \in Nat \ {0} /\ f \in Seq(S) /\ Len(f) = Len(s) - 1
      /\ \A i \in 1..(Len(s) - 1) : f[i] = s[i]
      /\ s = Append(f, s[Len(s)]) /\ s[Len(s)] \in S
  BY FrontAndLast
<1>2. /\ t \in Seq(S) /\ Len(t) = Len(s)
      /\ \A i \in 1..Len(s) : t[i] = IF i = Len(s) THEN e ELSE s[i]
  <2>1. Len(s) \in 1..Len(s)
    BY <1>1
  <2>. QED
    BY <2>1, ExceptSeq
<1>3. t = Append(f, e)
  <2>1. /\ Append(f, e) \in Seq(S) /\ Len(Append(f, e)) = Len(s)
        /\ \A i \in 1..(Len(s) - 1) : Append(f, e)[i] = s[i]
        /\ Append(f, e)[Len(s)] = e
    <3>. HIDE DEF f
    <3>. QED
      BY <1>1, AppendProperties
  <2>2. \A i \in 1..Len(t) : t[i] = Append(f, e)[i]
    <3>. HIDE DEF f, t
    <3>. QED
      BY <1>1, <1>2, <2>1
  <2>. HIDE DEF f, t
  <2>. QED
    BY <1>2, <2>1, <2>2, SeqEqual
<1>4. CountIn(t, M) = CountIn(f, M) + One(e \in M)
  <2>. HIDE DEF f, t
  <2>. QED
    BY <1>1, <1>3, CountInAppend
<1>5. CountIn(s, M) = CountIn(f, M) + One(s[Len(s)] \in M)
  BY CountInFront
<1>6. CountIn(f, M) \in Nat
  <2>. HIDE DEF f
  <2>. QED
    BY <1>1, CountInNat
<1>. HIDE DEF f, t
<1>7. CountIn(t, M) + One(s[Len(s)] \in M) = CountIn(s, M) + One(e \in M)
  BY <1>4, <1>5, <1>6 DEF One
<1>. QED
  BY <1>2, <1>7 DEF t

LEMMA CountInTail ==
  ASSUME NEW S, NEW s \in Seq(S), s # <<>>, NEW M
  PROVE  CountIn(s, M) = CountIn(Tail(s), M) + One(Head(s) \in M)
<1>. DEFINE t == Tail(s)
            I == {i \in 1..Len(s) : s[i] \in M}
            J == {i \in 1..Len(t) : t[i] \in M}
            f == [i \in J |-> i + 1]
<1>1. /\ Len(s) \in Nat \ {0} /\ Head(s) = s[1]
      /\ t \in Seq(S) /\ Len(t) = Len(s) - 1
      /\ \A i \in 1..(Len(s) - 1) : t[i] = s[i + 1]
  BY EmptySeq, HeadTailProperties
<1>2. f \in Bijection(J, I \ {1})
  <2>. HIDE DEF t
  <2>1. \A i \in J : i + 1 \in I \ {1}
    BY <1>1
  <2>2. \A i \in I \ {1} : i - 1 \in J /\ (i - 1) + 1 = i
    BY <1>1
  <2>3. \A i \in J : i \in Nat
    BY <1>1
  <2>. HIDE DEF I, J
  <2>. QED
    BY <2>1, <2>2, <2>3 DEF Bijection, Injection, IsInjective, Surjection
<1>3. IsFiniteSet(I) /\ IsFiniteSet(J) /\ Cardinality(I) \in Nat /\ Cardinality(J) \in Nat
  <2>. HIDE DEF t
  <2>. QED
    BY <1>1, CountInNat DEF CountIn
<1>4. 1 \in I <=> Head(s) \in M
  BY <1>1
<1>. HIDE DEF I, J, f, t
<1>5. ExistsBijection(J, I \ {1})
  BY <1>2 DEF ExistsBijection
<1>6. Cardinality(I \ {1}) = Cardinality(J)
  BY <1>3, <1>5, FS_Bijection
<1>7. Cardinality(I \ {1}) = IF 1 \in I THEN Cardinality(I) - 1 ELSE Cardinality(I)
  BY <1>3, FS_RemoveElement
<1>8. Cardinality(I) = Cardinality(J) + One(Head(s) \in M)
  BY <1>3, <1>4, <1>6, <1>7 DEF One
<1>. QED
  BY <1>8 DEF CountIn, I, J, t

(* A set of numbers that is not empty has a least one.                     *)
LEMMA LeastIndex ==
  ASSUME NEW I, I \subseteq Nat, I # {}
  PROVE  \E i \in I : \A j \in I : i <= j
<1>. DEFINE R == OpToRel(<, Nat)
<1>1. IsWellFoundedOn(R, Nat)
  BY NatLessThanWellFounded
<1>2. \A x, y \in Nat : <<y, x>> \in R <=> y < x
  BY DEF OpToRel
<1>. HIDE DEF R
<1>3. PICK i \in I : \A j \in I : <<j, i>> \notin R
  BY <1>1, WFMin
<1>4. \A j \in I : ~(j < i)
  <2>. SUFFICES ASSUME NEW j \in I PROVE ~(j < i)
    OBVIOUS
  <2>1. i \in Nat /\ j \in Nat /\ <<j, i>> \notin R
    BY <1>3
  <2>. QED
    BY <1>2, <2>1
<1>. QED
  BY <1>3, <1>4

(* A sequence without the element at one position.                         *)
CutAt(s, i) == SubSeq(s, 1, i - 1) \o SubSeq(s, i + 1, Len(s))

(* A sequence without its i-th element: the others keep their order.       *)
LEMMA WithoutAt ==
  ASSUME NEW S, NEW s \in Seq(S), NEW i \in 1..Len(s)
  PROVE  /\ CutAt(s, i) \in Seq(S) /\ Len(CutAt(s, i)) = Len(s) - 1
         /\ \A k \in 1..(Len(s) - 1) : CutAt(s, i)[k] = IF k < i THEN s[k] ELSE s[k + 1]
<1>. DEFINE r == CutAt(s, i)
            a == SubSeq(s, 1, i - 1)
            b == SubSeq(s, i + 1, Len(s))
            n == Len(s)
<1>1. n \in Nat /\ i \in 1..n /\ \A k \in 1..n : s[k] \in S
  BY LenProperties, ElementOfSeq
<1>2. a \in Seq(S) /\ Len(a) = i - 1 /\ \A k \in 1..(i - 1) : a[k] = s[k]
  BY <1>1, SubSeqProperties
<1>3. b \in Seq(S) /\ Len(b) = n - i /\ \A k \in 1..(n - i) : b[k] = s[i + k]
  BY <1>1, SubSeqProperties
<1>4. r = a \o b
  BY DEF CutAt
<1>. HIDE DEF a, b, r
<1>5. /\ r \in Seq(S) /\ Len(r) = Len(a) + Len(b)
      /\ \A k \in 1..(Len(a) + Len(b)) : r[k] = IF k <= Len(a) THEN a[k] ELSE b[k - Len(a)]
  <2>1. a \in Seq(S) /\ b \in Seq(S)
    BY <1>2, <1>3
  <2>. QED
    BY <1>4, <2>1, ConcatProperties
<1>6. Len(r) = n - 1
  BY <1>1, <1>2, <1>3, <1>5
<1>7. ASSUME NEW k \in 1..(n - 1)
      PROVE  r[k] = IF k < i THEN s[k] ELSE s[k + 1]
  <2>1. k \in 1..(Len(a) + Len(b))
    BY <1>1, <1>5, <1>6, <1>7
  <2>2. CASE k < i
    <3>1. k <= Len(a) /\ k \in 1..(i - 1)
      BY <1>1, <1>2, <2>1, <2>2
    <3>. QED
      BY <1>2, <1>5, <2>1, <2>2, <3>1
  <2>3. CASE ~(k < i)
    <3>. DEFINE l == k - (i - 1)
    <3>1. k \in Nat /\ k <= n - 1 /\ k >= i
      BY <1>1, <1>7, <2>3
    <3>2. l \in 1..(n - i) /\ i + l = k + 1
      BY <1>1, <3>1
    <3>3. ~(k <= Len(a)) /\ k - Len(a) = l
      BY <1>1, <1>2, <3>1
    <3>. HIDE DEF l
    <3>4. r[k] = b[l]
      BY <1>5, <2>1, <3>3
    <3>5. b[l] = s[k + 1]
      BY <1>3, <3>2
    <3>. QED
      BY <2>3, <3>4, <3>5
  <2>. QED
    BY <2>2, <2>3
<1>. QED
  BY <1>5, <1>6, <1>7 DEF r

-----------------------------------------------------------------------------
(* Without bind_threads: the receive lock.                                 *)

Places == {"loop", "enter", "asleep", "check", "recv", "unbox", "resolve",
           "settle", "release", "handle", "reply", "notify", "fail"}

Messages == [kind : {"reply", "exception", "request", "close"}, of : Nat, inspect : BOOLEAN]

LockData ==
  /\ inbox \in Seq(Messages)
  /\ owner \in L!Threads \cup {L!Nobody} /\ count \in Nat
  /\ (owner = L!Nobody) <=> (count = 0)
  /\ seq \in Nat /\ slots \subseteq 1..seq /\ asked \subseteq 1..seq
  /\ escaped \in BOOLEAN /\ dead \in BOOLEAN /\ closed \in BOOLEAN

LockTypes == stack \in [L!Threads -> Seq(L!Frame)] /\ LockData

(* Below the top of a stack are handlers and unboxings, which made the     *)
(* requests above them.                                                    *)
Buried == \A t \in L!Threads : \A i \in 1..(Len(stack[t]) - 1) :
            stack[t][i].at \in {"handle", "unbox"}

HoldingFrames == {f \in L!Frame : f.at \in L!Holding}

(* How many times thread t should have the lock.                           *)
Held(t) == CountIn(stack[t], HoldingFrames)

(* The connection has ended under t, whose exception goes up its stack:    *)
(* close() may have released the lock once too often.                      *)
Doomed(t) == /\ dead /\ L!At(t) \in {"fail", "reply"}
             /\ escaped \/ owner # t \/ count <= Held(t)

HasLock(t) == owner = t /\ count >= Held(t) /\ (escaped \/ count = Held(t))

HasNoLock(t) == owner # t /\ Held(t) = 0

Counted(t) == Doomed(t) \/ HasLock(t) \/ HasNoLock(t)

LockCounted == \A t \in L!Threads : Counted(t)

LockInv == LockTypes /\ Buried /\ LockCounted /\ L!SleepersOwed

(* The top frame of t moves to a place.                                    *)
TopMoves(t, place) ==
  /\ stack' \in [L!Threads -> Seq(L!Frame)]
  /\ \A u \in L!Threads \ {t} : stack'[u] = stack[u]
  /\ stack'[t] # << >> /\ Len(stack'[t]) = Len(stack[t])
  /\ \A i \in 1..(Len(stack[t]) - 1) : stack'[t][i] = stack[t][i]
  /\ stack'[t][Len(stack[t])].at = place
  /\ L!At(t)' = place
  /\ Held(t)' + One(L!At(t) \in L!Holding) = Held(t) + One(place \in L!Holding)

(* Moving a frame to another place gives a frame.                          *)
LEMMA FrameAt ==
  ASSUME NEW f \in L!Frame
  PROVE  /\ f.at \in Places
         /\ f \in HoldingFrames <=> f.at \in L!Holding
         /\ \A place \in Places : /\ [f EXCEPT !.at = place] \in L!Frame
                                  /\ [f EXCEPT !.at = place].at = place
BY DEF L!Frame, HoldingFrames, Places

(* The innermost frame of a thread that is in serve().                     *)
LEMMA TopOf ==
  ASSUME LockTypes, NEW t \in L!Threads, stack[t] # << >>
  PROVE  /\ stack[t] \in Seq(L!Frame) /\ Len(stack[t]) \in Nat \ {0}
         /\ L!Top(t) \in L!Frame /\ L!Top(t) = stack[t][Len(stack[t])]
         /\ L!At(t) = L!Top(t).at /\ L!At(t) \in Places \ {"idle"}
<1>1. stack[t] \in Seq(L!Frame)
  BY DEF LockTypes
<1>2. Len(stack[t]) \in Nat \ {0} /\ stack[t][Len(stack[t])] \in L!Frame
  BY <1>1, FrontAndLast
<1>3. L!At(t) \in Places
  BY <1>2, FrameAt DEF L!At, L!Top, L!Depth
<1>. QED
  BY <1>1, <1>2, <1>3 DEF L!At, L!Top, L!Depth, Places

(* Another frame at the top.                                               *)
LEMMA TopSet ==
  ASSUME LockTypes, NEW t \in L!Threads, stack[t] # << >>, NEW f \in L!Frame,
         stack' = [stack EXCEPT ![t] = [stack[t] EXCEPT ![Len(stack[t])] = f]]
  PROVE  TopMoves(t, f.at)
<1>. DEFINE s == stack[t]
            r == [s EXCEPT ![Len(s)] = f]
<1>1. s \in Seq(L!Frame) /\ Len(s) \in Nat \ {0} /\ L!At(t) = s[Len(s)].at
      /\ s[Len(s)] \in L!Frame
  BY TopOf
<1>2. /\ r \in Seq(L!Frame) /\ Len(r) = Len(s)
      /\ CountIn(r, HoldingFrames) + One(s[Len(s)] \in HoldingFrames)
           = CountIn(s, HoldingFrames) + One(f \in HoldingFrames)
  BY <1>1, CountInLast
<1>3. \A i \in 1..Len(s) : r[i] = IF i = Len(s) THEN f ELSE s[i]
  BY <1>1, LenProperties
<1>4. stack' \in [L!Threads -> Seq(L!Frame)] /\ stack'[t] = r
      /\ \A u \in L!Threads \ {t} : stack'[u] = stack[u]
  BY <1>2 DEF LockTypes
<1>. HIDE DEF r
<1>5. r # << >> /\ r[Len(r)] = f
  BY <1>1, <1>2, <1>3, EmptySeq
<1>6. L!At(t)' = f.at
  BY <1>4, <1>5 DEF L!At, L!Top, L!Depth
<1>7. s[Len(s)] \in HoldingFrames <=> L!At(t) \in L!Holding
  BY <1>1, FrameAt
<1>8. f \in HoldingFrames <=> f.at \in L!Holding
  BY FrameAt
<1>9. Held(t)' + One(L!At(t) \in L!Holding) = Held(t) + One(f.at \in L!Holding)
  BY <1>2, <1>4, <1>7, <1>8 DEF Held, One
<1>. QED
  BY <1>1, <1>2, <1>3, <1>4, <1>5, <1>6, <1>9 DEF TopMoves

(* Goes moves only the innermost frame.                                    *)
LEMMA GoesTo ==
  ASSUME LockTypes, NEW t \in L!Threads, stack[t] # << >>, NEW place \in Places,
         L!Goes(t, place)
  PROVE  TopMoves(t, place)
<1>. DEFINE f == [stack[t][Len(stack[t])] EXCEPT !.at = place]
<1>1. f \in L!Frame /\ f.at = place
  BY TopOf, FrameAt
<1>2. stack' = [stack EXCEPT ![t] = [stack[t] EXCEPT ![Len(stack[t])] = f]]
  BY DEF L!Goes, L!Moved
<1>. HIDE DEF f
<1>. QED
  BY <1>1, <1>2, TopSet

(* The last frame of any stack moves to a place.                           *)
LastMoved(q, place) == [q EXCEPT ![Len(q)].at = place]

(* What moving the last frame of a stack does to the count of the lock.    *)
LEMMA LastAt ==
  ASSUME NEW q \in Seq(L!Frame), q # << >>, NEW place \in Places
  PROVE  /\ LastMoved(q, place) \in Seq(L!Frame) /\ LastMoved(q, place) # << >>
         /\ Len(LastMoved(q, place)) = Len(q)
         /\ LastMoved(q, place)[Len(q)].at = place
         /\ \A i \in 1..(Len(q) - 1) : LastMoved(q, place)[i] = q[i]
         /\ CountIn(LastMoved(q, place), HoldingFrames) + One(q[Len(q)].at \in L!Holding)
              = CountIn(q, HoldingFrames) + One(place \in L!Holding)
<1>. DEFINE f == [q[Len(q)] EXCEPT !.at = place]
            r == [q EXCEPT ![Len(q)] = f]
<1>1. Len(q) \in Nat \ {0} /\ q[Len(q)] \in L!Frame
  BY FrontAndLast
<1>2. /\ f \in L!Frame /\ f.at = place
      /\ f \in HoldingFrames <=> place \in L!Holding
      /\ q[Len(q)] \in HoldingFrames <=> q[Len(q)].at \in L!Holding
  BY <1>1, FrameAt
<1>3. LastMoved(q, place) = r
  BY DEF LastMoved
<1>. HIDE DEF f
<1>4. /\ r \in Seq(L!Frame) /\ Len(r) = Len(q)
      /\ CountIn(r, HoldingFrames) + One(q[Len(q)] \in HoldingFrames)
           = CountIn(q, HoldingFrames) + One(f \in HoldingFrames)
  BY <1>2, CountInLast
<1>5. \A i \in 1..Len(q) : r[i] = IF i = Len(q) THEN f ELSE q[i]
  BY <1>1, LenProperties
<1>6. r # << >>
  BY <1>1, <1>4, EmptySeq
<1>. HIDE DEF r
<1>7. /\ r[Len(q)].at = place
      /\ \A i \in 1..(Len(q) - 1) : r[i] = q[i]
      /\ CountIn(r, HoldingFrames) + One(q[Len(q)].at \in L!Holding)
              = CountIn(q, HoldingFrames) + One(place \in L!Holding)
  BY <1>1, <1>2, <1>4, <1>5 DEF One
<1>. QED
  BY <1>3, <1>4, <1>6, <1>7

(* A thread makes a request: a frame more.                                 *)
Pushed(t) ==
  /\ stack' \in [L!Threads -> Seq(L!Frame)]
  /\ \A u \in L!Threads \ {t} : stack'[u] = stack[u]
  /\ Len(stack'[t]) = Len(stack[t]) + 1
  /\ \A i \in 1..Len(stack[t]) : stack'[t][i] = stack[t][i]
  /\ stack'[t][Len(stack[t]) + 1].at = "loop"
  /\ L!At(t)' = "loop"
  /\ Held(t)' = Held(t)

(* A request puts a frame for its wait on the stack.                       *)
LEMMA RequestPushes ==
  ASSUME LockTypes, NEW t \in L!Threads, L!SendRequest(t, stack)
  PROVE  Pushed(t)
<1>. DEFINE f == L!Waiting(seq + 1)
            q == stack[t]
            r == Append(q, f)
<1>1. f \in L!Frame /\ f.at = "loop" /\ f \notin HoldingFrames
  BY DEF LockTypes, LockData, L!Waiting, L!Nothing, L!Frame, HoldingFrames, L!Holding
<1>2. q \in Seq(L!Frame) /\ Len(q) \in Nat
  BY LenProperties DEF LockTypes
<1>. HIDE DEF f
<1>3. /\ r \in Seq(L!Frame) /\ r # << >> /\ Len(r) = Len(q) + 1
      /\ \A i \in 1..Len(q) : r[i] = q[i]
      /\ r[Len(q) + 1] = f
  BY <1>1, <1>2, AppendProperties
<1>4. CountIn(r, HoldingFrames) = CountIn(q, HoldingFrames)
  <2>1. CountIn(r, HoldingFrames) = CountIn(q, HoldingFrames) + One(f \in HoldingFrames)
    BY <1>1, <1>2, CountInAppend
  <2>2. CountIn(q, HoldingFrames) \in Nat
    BY <1>2, CountInNat
  <2>. QED
    BY <1>1, <2>1, <2>2 DEF One
<1>. HIDE DEF r
<1>5. stack' \in [L!Threads -> Seq(L!Frame)] /\ stack'[t] = r
      /\ \A u \in L!Threads \ {t} : stack'[u] = stack[u]
  BY <1>3 DEF LockTypes, L!SendRequest, r, f
<1>6. L!At(t)' = "loop"
  BY <1>1, <1>3, <1>5 DEF L!At, L!Top, L!Depth
<1>. QED
  BY <1>1, <1>3, <1>4, <1>5, <1>6 DEF Pushed, Held

(* A loop around serve() ends: a frame less, and the one below goes on.    *)
LEMMA UnwindsTo ==
  ASSUME LockTypes, Buried, NEW t \in L!Threads, stack[t] # << >>, NEW raised \in BOOLEAN,
         NEW s, s = L!Unwound(t, raised)
  PROVE  /\ s \in [L!Threads -> Seq(L!Frame)]
         /\ \A u \in L!Threads \ {t} : s[u] = stack[u]
         /\ Len(s[t]) = Len(stack[t]) - 1
         /\ \A i \in 1..(Len(stack[t]) - 2) : s[t][i] = stack[t][i]
         /\ Len(stack[t]) = 1 =>
              s[t] = << >> /\ Held(t) = One(L!At(t) \in L!Holding)
         /\ Len(stack[t]) # 1 =>
              LET under == stack[t][Len(stack[t]) - 1].at
                  place == IF under = "handle" THEN "reply" ELSE IF raised THEN "fail" ELSE "resolve"
              IN  /\ s[t] # << >> /\ s[t][Len(stack[t]) - 1].at = place
                  /\ CountIn(s[t], HoldingFrames) + One(under \in L!Holding)
                       + One(L!At(t) \in L!Holding) = Held(t) + One(place \in L!Holding)
<1>. DEFINE q == stack[t]
            b == SubSeq(q, 1, Len(q) - 1)
            under == b[Len(b)].at
            place == IF under = "handle" THEN "reply" ELSE IF raised THEN "fail" ELSE "resolve"
<1>1. q \in Seq(L!Frame) /\ q # << >> /\ L!At(t) = q[Len(q)].at
  BY TopOf
<1>2. /\ Len(q) \in Nat \ {0} /\ b \in Seq(L!Frame) /\ Len(b) = Len(q) - 1
      /\ \A i \in 1..(Len(q) - 1) : b[i] = q[i]
      /\ q[Len(q)] \in L!Frame
  BY <1>1, FrontAndLast
<1>3. CountIn(q, HoldingFrames) = CountIn(b, HoldingFrames) + One(L!At(t) \in L!Holding)
  <2>1. CountIn(q, HoldingFrames) = CountIn(b, HoldingFrames) + One(q[Len(q)] \in HoldingFrames)
    BY <1>1, CountInFront
  <2>2. q[Len(q)] \in HoldingFrames <=> L!At(t) \in L!Holding
    BY <1>1, <1>2, FrameAt
  <2>. QED
    BY <2>1, <2>2 DEF One
<1>4. s = [stack EXCEPT ![t] = IF b = << >> THEN b
                              ELSE [b EXCEPT ![Len(b)].at =
                                      IF b # << >> /\ b[Len(b)].at = "handle" THEN "reply"
                                      ELSE IF raised THEN "fail" ELSE "resolve"]]
  BY DEF L!Unwound, L!Depth
<1>5. CountIn(b, HoldingFrames) \in Nat
  BY <1>2, CountInNat
<1>6. CASE Len(q) = 1
  <2>1. b = << >>
    BY <1>2, <1>6, EmptySeq
  <2>2. CountIn(b, HoldingFrames) = 0
    BY <2>1, CountInEmpty
  <2>3. /\ s \in [L!Threads -> Seq(L!Frame)] /\ s[t] = b
        /\ \A u \in L!Threads \ {t} : s[u] = stack[u]
    BY <1>2, <1>4, <2>1 DEF LockTypes
  <2>. HIDE DEF b
  <2>4. Held(t) = One(L!At(t) \in L!Holding)
    BY <1>3, <2>2 DEF Held, One
  <2>5. Len(s[t]) = Len(q) - 1
    BY <2>3, <1>2
  <2>. QED
    BY <1>6, <2>1, <2>3, <2>4, <2>5
<1>7. CASE Len(q) # 1
  <2>. DEFINE r == LastMoved(b, place)
  <2>0. \A n \in Nat \ {0} : n # 1 => n - 1 # 0 /\ n - 1 \in 1..(n - 1)
    OBVIOUS
  <2>1. b # << >> /\ place \in Places
    <3>1. place \in Places
      BY DEF Places
    <3>2. Len(b) # 0
      BY <1>2, <1>7, <2>0
    <3>. HIDE DEF b
    <3>. QED
      BY <3>1, <3>2
  <2>2. under = stack[t][Len(stack[t]) - 1].at
    <3>1. Len(q) - 1 \in 1..(Len(q) - 1)
      BY <1>2, <1>7, <2>0
    <3>. QED
      BY <1>2, <3>1
  <2>3. s = [stack EXCEPT ![t] = r]
    BY <1>4, <2>1 DEF LastMoved
  <2>. HIDE DEF b, place
  <2>4. /\ r \in Seq(L!Frame) /\ Len(r) = Len(b) /\ r # << >>
        /\ r[Len(b)].at = place
        /\ \A i \in 1..(Len(b) - 1) : r[i] = b[i]
        /\ CountIn(r, HoldingFrames) + One(under \in L!Holding)
             = CountIn(b, HoldingFrames) + One(place \in L!Holding)
    BY <1>2, <2>1, LastAt
  <2>. HIDE DEF r, under
  <2>5. /\ s \in [L!Threads -> Seq(L!Frame)] /\ s[t] = r
        /\ \A u \in L!Threads \ {t} : s[u] = stack[u]
    BY <2>3, <2>4 DEF LockTypes
  <2>6. CountIn(r, HoldingFrames) + One(under \in L!Holding) + One(L!At(t) \in L!Holding)
          = Held(t) + One(place \in L!Holding)
    <3>1. CountIn(r, HoldingFrames) \in Nat
      BY <2>4, CountInNat
    <3>. QED
      BY <1>3, <1>5, <2>4, <3>1 DEF Held, One
  <2>7. \A i \in 1..(Len(q) - 2) : s[t][i] = stack[t][i]
    <3>1. \A i \in 1..(Len(q) - 2) : i \in 1..(Len(b) - 1) /\ i \in 1..(Len(q) - 1)
      BY <1>2
    <3>. QED
      BY <3>1, <1>2, <2>4, <2>5
  <2>8. Len(s[t]) = Len(q) - 1 /\ s[t] # << >> /\ s[t][Len(q) - 1].at = place
    BY <1>2, <2>4, <2>5
  <2>. QED
    BY <1>7, <2>2, <2>5, <2>6, <2>7, <2>8 DEF place
<1>. QED
  BY <1>6, <1>7

(* notify_all leaves nobody asleep, and all else where it is.              *)
Woken(u) ==
  /\ Held(u)' = Held(u)
  /\ Len(stack'[u]) = Len(stack[u])
  /\ \A i \in 1..(Len(stack[u]) - 1) : stack'[u][i] = stack[u][i]
  /\ L!At(u)' = IF L!At(u) = "asleep" THEN "loop" ELSE L!At(u)

(* notify_all of a thread that is awake itself wakes the others, and       *)
(* moves nobody else.                                                      *)
LEMMA NotifiesAll ==
  ASSUME LockTypes, NEW t \in L!Threads, L!At(t) # "asleep",
         NEW s \in [L!Threads -> Seq(L!Frame)],
         \A u \in L!Threads \ {t} : s[u] = stack[u],
         stack' = L!NotifyAll(s)
  PROVE  /\ stack' \in [L!Threads -> Seq(L!Frame)]
         /\ stack'[t] = s[t]
         /\ \A u \in L!Threads \ {t} : Woken(u)
<1>1. \A u \in L!Threads : stack'[u] = IF L!At(u) = "asleep" THEN L!Moved(s, u, "loop")[u] ELSE s[u]
  BY DEF L!NotifyAll
<1>2. ASSUME NEW u \in L!Threads \ {t}, L!At(u) = "asleep"
      PROVE  stack'[u] \in Seq(L!Frame) /\ Woken(u)
  <2>1. stack[u] \in Seq(L!Frame) /\ stack[u] # << >> /\ L!At(u) = stack[u][Len(stack[u])].at
    BY <1>2 DEF LockTypes, L!At, L!Top, L!Depth
  <2>2. stack'[u] = LastMoved(stack[u], "loop")
    BY <1>1, <1>2 DEF L!Moved, LastMoved
  <2>3. "loop" \in Places
    BY DEF Places
  <2>4. /\ stack'[u] \in Seq(L!Frame) /\ stack'[u] # << >>
        /\ Len(stack'[u]) = Len(stack[u])
        /\ stack'[u][Len(stack[u])].at = "loop"
        /\ \A i \in 1..(Len(stack[u]) - 1) : stack'[u][i] = stack[u][i]
        /\ CountIn(stack'[u], HoldingFrames) + One(stack[u][Len(stack[u])].at \in L!Holding)
             = CountIn(stack[u], HoldingFrames) + One("loop" \in L!Holding)
    BY <2>1, <2>2, <2>3, LastAt
  <2>5. CountIn(stack'[u], HoldingFrames) = CountIn(stack[u], HoldingFrames)
    <3>1. CountIn(stack[u], HoldingFrames) \in Nat /\ CountIn(stack'[u], HoldingFrames) \in Nat
      BY <2>1, <2>4, CountInNat
    <3>. QED
      BY <1>2, <2>1, <2>4, <3>1 DEF One, L!Holding
  <2>6. L!At(u)' = "loop"
    BY <2>4 DEF L!At, L!Top, L!Depth
  <2>. QED
    BY <1>2, <2>4, <2>5, <2>6 DEF Woken, Held
<1>3. ASSUME NEW u \in L!Threads \ {t}, L!At(u) # "asleep"
      PROVE  stack'[u] \in Seq(L!Frame) /\ Woken(u)
  <2>1. stack'[u] = stack[u]
    BY <1>1, <1>3
  <2>. QED
    BY <1>3, <2>1 DEF LockTypes, Woken, Held, L!At, L!Top, L!Depth
<1>4. stack'[t] = s[t]
  BY <1>1
<1>5. stack' = [u \in L!Threads |-> stack'[u]]
  BY DEF L!NotifyAll
<1>6. \A u \in L!Threads : stack'[u] \in Seq(L!Frame)
  BY <1>2, <1>3, <1>4
<1>. QED
  BY <1>2, <1>3, <1>4, <1>5, <1>6

-----------------------------------------------------------------------------
(* What a step of one thread leaves true of the others.                    *)

OthersStay(t) ==
  \A u \in L!Threads \ {t} :
    /\ Held(u)' = Held(u)
    /\ L!At(u)' = L!At(u) \/ (L!At(u) = "asleep" /\ L!At(u)' = "loop")

(* A step of t leaves the count of the lock right for the other threads.   *)
LEMMA OthersCounted ==
  ASSUME L!ServeAssumption, LockCounted, NEW t \in L!Threads, OthersStay(t),
         dead => dead', escaped => escaped',
         \/ owner' = owner /\ count' = count
         \/ owner \in {t, L!Nobody} /\ owner' \in {t, L!Nobody}
  PROVE  \A u \in L!Threads \ {t} : Counted(u)'
<1>. SUFFICES ASSUME NEW u \in L!Threads \ {t} PROVE Counted(u)'
  OBVIOUS
<1>1. Held(u)' = Held(u) /\ u # L!Nobody
  BY DEF OthersStay, L!ServeAssumption, L!Nobody
<1>2. L!At(u) \in {"fail", "reply"} => L!At(u)' = L!At(u)
  BY DEF OthersStay
<1>3. Counted(u)
  BY DEF LockCounted, Counted
<1>4. CASE Doomed(u)
  <2>1. escaped' \/ owner' # u \/ count' <= Held(u)
    BY <1>1, <1>4 DEF Doomed
  <2>. QED
    BY <1>1, <1>2, <1>4, <2>1 DEF Doomed, Counted
<1>5. CASE HasLock(u)
  BY <1>1, <1>5 DEF HasLock, Counted
<1>6. CASE HasNoLock(u)
  BY <1>1, <1>6 DEF HasNoLock, Counted
<1>. QED
  BY <1>3, <1>4, <1>5, <1>6 DEF Counted

(* A thread with a frame that holds the lock has it, unless it is doomed.  *)
LEMMA HolderHasLock ==
  ASSUME LockTypes, LockCounted, NEW t \in L!Threads, L!At(t) \in L!Holding
  PROVE  HasLock(t) /\ Held(t) \in Nat /\ Held(t) >= 1 /\ count >= 1 /\ stack[t] # << >>
<1>1. stack[t] # << >>
  BY DEF L!At, L!Holding
<1>2. /\ stack[t] \in Seq(L!Frame) /\ Len(stack[t]) \in Nat \ {0}
      /\ stack[t][Len(stack[t])] \in HoldingFrames
  BY <1>1, TopOf, FrameAt
<1>3. Held(t) \in Nat /\ Held(t) # 0
  <2>1. Len(stack[t]) \in 1..Len(stack[t])
    BY <1>2
  <2>. QED
    BY <1>2, <2>1, CountInNat DEF Held
<1>4. HasLock(t)
  BY <1>3 DEF LockCounted, Counted, Doomed, HasNoLock, L!Holding
<1>. QED
  BY <1>1, <1>3, <1>4 DEF HasLock, LockTypes, LockData

LEMMA HeldNat ==
  ASSUME LockTypes, NEW t \in L!Threads
  PROVE  Held(t) \in Nat
BY CountInNat DEF LockTypes, Held

(* A step after which the top frame of t is at another place.              *)
Quiet == {"loop", "enter", "asleep"}

(* A step that moves the innermost frame of t keeps the invariant, if it   *)
(* keeps the count of t and leaves somebody who owes the sleepers a        *)
(* notification.                                                           *)
LEMMA TopMovesStep ==
  ASSUME L!ServeAssumption, LockInv, NEW t \in L!Threads, stack[t] # << >>,
         NEW place \in Places, TopMoves(t, place), LockData',
         dead => dead', escaped => escaped',
         \/ owner' = owner /\ count' = count
         \/ owner \in {t, L!Nobody} /\ owner' \in {t, L!Nobody},
         Counted(t)',
         \/ place \notin Quiet
         \/ L!At(t) \in Quiet /\ place # "asleep"
         \/ ~escaped' => \E u \in L!Threads \ {t} : L!Owes(u)
  PROVE  LockInv'
<1>1. LockTypes'
  BY DEF TopMoves, LockTypes
<1>2. /\ \A u \in L!Threads \ {t} : stack'[u] = stack[u] /\ L!At(u)' = L!At(u) /\ Held(u)' = Held(u)
      /\ \A u \in L!Threads \ {t} : L!Owes(u)' = L!Owes(u)
  BY DEF TopMoves, L!At, L!Top, L!Depth, Held, L!Owes
<1>3. Buried'
  <2>. SUFFICES ASSUME NEW u \in L!Threads, NEW i \in 1..(Len(stack'[u]) - 1)
                PROVE  stack'[u][i].at \in {"handle", "unbox"}
    BY DEF Buried
  <2>1. CASE u = t
    BY <2>1 DEF TopMoves, LockInv, Buried
  <2>2. CASE u # t
    BY <2>2, <1>2 DEF LockInv, Buried
  <2>. QED
    BY <2>1, <2>2
<1>4. LockCounted'
  <2>1. OthersStay(t)
    BY <1>2 DEF OthersStay
  <2>2. \A u \in L!Threads \ {t} : Counted(u)'
    BY <2>1, OthersCounted DEF LockInv
  <2>. QED
    BY <2>2 DEF LockCounted
<1>5. L!SleepersOwed'
  <2>0. Len(stack[t]) \in Nat \ {0} /\ L!At(t) = stack[t][Len(stack[t])].at
    BY TopOf DEF LockInv
  <2>1. CASE place \notin Quiet
    <3>1. Len(stack'[t]) \in 1..Len(stack'[t]) /\ stack'[t][Len(stack'[t])].at \notin Quiet
      BY <2>0, <2>1 DEF TopMoves
    <3>2. L!Owes(t)'
      BY <3>1 DEF L!Owes, L!Depth, Quiet
    <3>. QED
      BY <3>2 DEF L!SleepersOwed
  <2>2. CASE L!At(t) \in Quiet /\ place # "asleep"
    <3>1. L!Owes(t) => L!Owes(t)'
      <4>. SUFFICES ASSUME NEW i \in 1..Len(stack[t]), stack[t][i].at \notin Quiet
                    PROVE  L!Owes(t)'
        BY DEF L!Owes, L!Depth, Quiet
      <4>1. i # Len(stack[t])
        BY <2>0, <2>2
      <4>2. i \in 1..(Len(stack[t]) - 1) /\ i \in 1..Len(stack'[t])
        BY <2>0, <4>1 DEF TopMoves
      <4>3. stack'[t][i].at \notin Quiet
        BY <4>2 DEF TopMoves
      <4>. QED
        BY <4>2, <4>3 DEF L!Owes, L!Depth, Quiet
    <3>2. \A u \in L!Threads : L!At(u)' = "asleep" => L!At(u) = "asleep"
      BY <1>2, <2>2 DEF TopMoves
    <3>. QED
      BY <1>2, <3>1, <3>2 DEF LockInv, L!SleepersOwed
  <2>3. CASE ~escaped' => \E u \in L!Threads \ {t} : L!Owes(u)
    BY <1>2, <2>3 DEF L!SleepersOwed
  <2>. QED
    BY <2>1, <2>2, <2>3
<1>. QED
  BY <1>1, <1>3, <1>4, <1>5 DEF LockInv

(* A step in which t makes a request.                                      *)
LEMMA PushedStep ==
  ASSUME L!ServeAssumption, LockInv, NEW t \in L!Threads, Pushed(t), LockData',
         L!At(t) \in {"idle", "handle", "unbox"},
         UNCHANGED <<owner, count, dead, escaped>>
  PROVE  LockInv'
<1>1. LockTypes'
  BY DEF Pushed, LockTypes
<1>2. /\ \A u \in L!Threads \ {t} : stack'[u] = stack[u] /\ L!At(u)' = L!At(u) /\ Held(u)' = Held(u)
      /\ \A u \in L!Threads \ {t} : L!Owes(u)' = L!Owes(u)
  BY DEF Pushed, L!At, L!Top, L!Depth, Held, L!Owes
<1>3. stack[t] \in Seq(L!Frame) /\ Len(stack[t]) \in Nat
  BY LenProperties DEF LockInv, LockTypes
<1>4. Buried'
  <2>. SUFFICES ASSUME NEW u \in L!Threads, NEW i \in 1..(Len(stack'[u]) - 1)
                PROVE  stack'[u][i].at \in {"handle", "unbox"}
    BY DEF Buried
  <2>1. CASE u = t
    <3>1. i \in 1..Len(stack[t]) /\ stack'[u][i] = stack[t][i]
      BY <2>1, <1>3 DEF Pushed
    <3>2. CASE i = Len(stack[t])
      <4>1. stack[t] # << >>
        BY <3>1, <1>3
      <4>. QED
        BY <3>1, <3>2, <4>1, TopOf DEF LockInv
    <3>3. CASE i # Len(stack[t])
      <4>1. i \in 1..(Len(stack[t]) - 1)
        BY <3>1, <3>3, <1>3
      <4>. QED
        BY <3>1, <4>1 DEF LockInv, Buried
    <3>. QED
      BY <3>2, <3>3
  <2>2. CASE u # t
    BY <2>2, <1>2 DEF LockInv, Buried
  <2>. QED
    BY <2>1, <2>2
<1>5. LockCounted'
  <2>1. OthersStay(t)
    BY <1>2 DEF OthersStay
  <2>2. \A u \in L!Threads \ {t} : Counted(u)'
    BY <2>1, OthersCounted DEF LockInv
  <2>3. Counted(t)'
    BY DEF LockInv, LockCounted, Counted, Doomed, HasLock, HasNoLock, Pushed
  <2>. QED
    BY <2>2, <2>3 DEF LockCounted
<1>6. L!SleepersOwed'
  <2>1. L!Owes(t) => L!Owes(t)'
    BY <1>3 DEF L!Owes, L!Depth, Pushed
  <2>2. \A u \in L!Threads : L!At(u)' = "asleep" => L!At(u) = "asleep"
    BY <1>2 DEF Pushed
  <2>. QED
    BY <1>2, <2>1, <2>2 DEF LockInv, L!SleepersOwed
<1>. QED
  BY <1>1, <1>4, <1>5, <1>6 DEF LockInv

(* A step that leaves the stacks and the lock alone.                       *)
LEMMA StacksStay ==
  ASSUME LockInv, LockData', UNCHANGED <<stack, owner, count, escaped>>, dead => dead'
  PROVE  LockInv'
<1>1. LockTypes' /\ Buried' /\ L!SleepersOwed'
  BY DEF LockInv, LockTypes, Buried, L!SleepersOwed, L!Owes, L!At, L!Top, L!Depth
<1>2. \A t \in L!Threads : L!At(t)' = L!At(t) /\ Held(t)' = Held(t)
  BY DEF L!At, L!Top, L!Depth, Held
<1>3. LockCounted'
  BY <1>2 DEF LockInv, LockCounted, Counted, Doomed, HasLock, HasNoLock
<1>. QED
  BY <1>1, <1>3 DEF LockInv

(* Who has the lock will notify the sleepers.                              *)
LEMMA OwnerOwes ==
  ASSUME LockInv, ~escaped, owner \in L!Threads, owner # L!Nobody
  PROVE  L!Owes(owner)
<1>1. count \in Nat /\ count # 0 /\ Counted(owner)
  BY DEF LockInv, LockTypes, LockData, LockCounted
<1>2. CASE Doomed(owner)
  <2>1. stack[owner] # << >> /\ L!At(owner) \in {"fail", "reply"}
    BY <1>2 DEF Doomed, L!At
  <2>2. Len(stack[owner]) \in 1..Len(stack[owner]) /\ L!At(owner) = stack[owner][Len(stack[owner])].at
    BY <2>1, TopOf DEF LockInv
  <2>. QED
    BY <2>1, <2>2 DEF L!Owes, L!Depth
<1>3. CASE HasLock(owner)
  <2>1. Held(owner) # 0
    BY <1>1, <1>3 DEF HasLock
  <2>2. PICK i \in 1..Len(stack[owner]) : stack[owner][i] \in HoldingFrames
    BY <2>1, CountInNat DEF LockInv, LockTypes, Held
  <2>. QED
    BY <2>2 DEF L!Owes, L!Depth, HoldingFrames, L!Holding
<1>. QED
  BY <1>1, <1>2, <1>3 DEF Counted, HasNoLock

-----------------------------------------------------------------------------
(* The loops around serve() that end.                                      *)

Ends(t, raised) ==
  stack' \in {L!Unwound(t, raised), L!NotifyAll(L!Unwound(t, raised))}

(* Where the frame below goes on when the innermost one ends.              *)
LEMMA EndsTo ==
  ASSUME LockInv, NEW t \in L!Threads, NEW raised \in BOOLEAN, Ends(t, raised),
         L!At(t) \in {"loop", "fail"}
  PROVE  /\ stack' \in [L!Threads -> Seq(L!Frame)]
         /\ Buried' /\ OthersStay(t)
         /\ Held(t) \in Nat /\ Held(t)' \in Nat
         /\ L!Depth(t) = 1 => Held(t) = 0 /\ Held(t)' = 0
         /\ L!Depth(t) # 1 =>
              \/ /\ stack[t][L!Depth(t) - 1].at = "handle"
                 /\ L!At(t)' = "reply" /\ Held(t)' = Held(t)
              \/ /\ stack[t][L!Depth(t) - 1].at = "unbox" /\ raised
                 /\ L!At(t)' = "fail" /\ Held(t)' + 1 = Held(t)
              \/ /\ stack[t][L!Depth(t) - 1].at = "unbox" /\ ~raised
                 /\ L!At(t)' = "resolve" /\ Held(t)' = Held(t)
<1>. DEFINE s == L!Unwound(t, raised)
<1>0. stack[t] # << >> /\ LockTypes /\ Buried
  BY DEF L!At, LockInv
<1>1. /\ s \in [L!Threads -> Seq(L!Frame)]
      /\ \A u \in L!Threads \ {t} : s[u] = stack[u]
      /\ Len(s[t]) = Len(stack[t]) - 1
      /\ \A i \in 1..(Len(stack[t]) - 2) : s[t][i] = stack[t][i]
      /\ Len(stack[t]) = 1 =>
           s[t] = << >> /\ Held(t) = One(L!At(t) \in L!Holding)
      /\ Len(stack[t]) # 1 =>
           LET under == stack[t][Len(stack[t]) - 1].at
               place == IF under = "handle" THEN "reply" ELSE IF raised THEN "fail" ELSE "resolve"
           IN  /\ s[t] # << >> /\ s[t][Len(stack[t]) - 1].at = place
               /\ CountIn(s[t], HoldingFrames) + One(under \in L!Holding)
                    + One(L!At(t) \in L!Holding) = Held(t) + One(place \in L!Holding)
  BY <1>0, UnwindsTo
<1>. HIDE DEF s
<1>2. /\ stack' \in [L!Threads -> Seq(L!Frame)]
      /\ stack'[t] = s[t]
      /\ \A u \in L!Threads \ {t} :
           /\ Held(u)' = Held(u) /\ Len(stack'[u]) = Len(stack[u])
           /\ \A i \in 1..(Len(stack[u]) - 1) : stack'[u][i] = stack[u][i]
           /\ L!At(u)' = L!At(u) \/ (L!At(u) = "asleep" /\ L!At(u)' = "loop")
  <2>1. CASE stack' = s
    BY <2>1, <1>1 DEF Held, L!At, L!Top, L!Depth
  <2>2. CASE stack' = L!NotifyAll(s)
    <3>1. L!At(t) # "asleep"
      OBVIOUS
    <3>2. /\ stack' \in [L!Threads -> Seq(L!Frame)] /\ stack'[t] = s[t]
          /\ \A u \in L!Threads \ {t} : Woken(u)
      BY <1>0, <1>1, <2>2, <3>1, NotifiesAll
    <3>. QED
      BY <3>2 DEF Woken
  <2>. QED
    BY <2>1, <2>2 DEF Ends, s
<1>3. OthersStay(t)
  BY <1>2 DEF OthersStay
<1>4. /\ Len(stack[t]) \in Nat \ {0}
      /\ Len(stack[t]) # 1 => Len(stack[t]) - 1 \in 1..(Len(stack[t]) - 1)
  <2>1. Len(stack[t]) \in Nat \ {0}
    BY <1>0, TopOf
  <2>2. \A n \in Nat \ {0} : n # 1 => n - 1 \in 1..(n - 1)
    OBVIOUS
  <2>. QED
    BY <2>1, <2>2
<1>5. Buried'
  <2>. SUFFICES ASSUME NEW u \in L!Threads, NEW i \in 1..(Len(stack'[u]) - 1)
                PROVE  stack'[u][i].at \in {"handle", "unbox"}
    BY DEF Buried
  <2>1. CASE u = t
    <3>1. i \in 1..(Len(stack[t]) - 2) /\ i \in 1..(Len(stack[t]) - 1)
      BY <1>1, <1>2, <1>4, <2>1
    <3>2. stack'[t][i] = stack[t][i]
      BY <1>1, <1>2, <3>1
    <3>. QED
      BY <1>0, <2>1, <3>1, <3>2 DEF Buried
  <2>2. CASE u # t
    BY <1>0, <1>2, <2>2 DEF Buried
  <2>. QED
    BY <2>1, <2>2
<1>6. Held(t) \in Nat /\ Held(t)' \in Nat
  BY <1>0, <1>2, CountInNat DEF LockTypes, Held
<1>7. CASE L!Depth(t) = 1
  <2>1. Held(t)' = 0
    BY <1>1, <1>2, <1>7, CountInEmpty DEF Held, L!Depth
  <2>2. Held(t) = 0
    BY <1>1, <1>7 DEF One, L!Depth, L!Holding
  <2>. QED
    BY <1>2, <1>3, <1>5, <1>6, <1>7, <2>1, <2>2
<1>8. CASE L!Depth(t) # 1
  <2>. DEFINE under == stack[t][Len(stack[t]) - 1].at
              place == IF under = "handle" THEN "reply" ELSE IF raised THEN "fail" ELSE "resolve"
  <2>1. under \in {"handle", "unbox"}
    BY <1>0, <1>4, <1>8 DEF Buried, L!Depth
  <2>2. /\ stack'[t] # << >> /\ Len(stack'[t]) = Len(stack[t]) - 1
        /\ stack'[t][Len(stack[t]) - 1].at = place
        /\ Held(t)' + One(under \in L!Holding) + One(L!At(t) \in L!Holding)
             = Held(t) + One(place \in L!Holding)
    BY <1>1, <1>2, <1>8 DEF Held, L!Depth
  <2>3. L!At(t)' = place
    BY <2>2 DEF L!At, L!Top, L!Depth
  <2>4. One(L!At(t) \in L!Holding) = 0
    BY DEF One, L!Holding
  <2>. HIDE DEF under
  <2>5. CASE under = "handle"
    <3>1. Held(t)' = Held(t)
      BY <1>6, <2>2, <2>4, <2>5 DEF One, L!Holding
    <3>. QED
      BY <1>2, <1>3, <1>5, <1>6, <1>8, <2>3, <2>5, <3>1 DEF under, L!Depth
  <2>6. CASE under = "unbox" /\ raised
    <3>1. Held(t)' + 1 = Held(t)
      BY <1>6, <2>2, <2>4, <2>6 DEF One, L!Holding
    <3>. QED
      BY <1>2, <1>3, <1>5, <1>6, <1>8, <2>3, <2>6, <3>1 DEF under, L!Depth
  <2>7. CASE under = "unbox" /\ ~raised
    <3>1. Held(t)' = Held(t)
      BY <1>6, <2>2, <2>4, <2>7 DEF One, L!Holding
    <3>. QED
      BY <1>2, <1>3, <1>5, <1>6, <1>8, <2>3, <2>7, <3>1 DEF under, L!Depth
  <2>. QED
    BY <2>1, <2>5, <2>6, <2>7
<1>. QED
  BY <1>7, <1>8

(* The steps of a thread, one lemma for each that changes the lock or the  *)
(* stack.                                                                  *)
LEMMA ReturnStep ==
  ASSUME L!ServeAssumption, LockInv, NEW t \in L!Threads, L!Return(t)
  PROVE  LockInv'
<1>. DEFINE raised == L!Top(t).req \notin ready \cup {0}
<1>1. /\ L!At(t) = "loop" /\ raised \in BOOLEAN /\ Ends(t, raised)
      /\ escaped' = (escaped \/ L!Escapes(t, raised))
      /\ UNCHANGED <<owner, count, seq, slots, asked, inbox, dead, closed>>
  BY DEF L!Return, Ends, L!lockVars, L!reqVars, L!peerVars, L!endVars
<1>2. stack' = L!Unwound(t, raised) /\ stack[t] # << >>
  BY DEF L!Return, L!At
<1>. HIDE DEF raised
<1>3. /\ stack' \in [L!Threads -> Seq(L!Frame)]
      /\ Buried' /\ OthersStay(t)
      /\ Held(t) \in Nat /\ Held(t)' \in Nat
      /\ L!Depth(t) = 1 => Held(t) = 0 /\ Held(t)' = 0
      /\ L!Depth(t) # 1 =>
           \/ /\ stack[t][L!Depth(t) - 1].at = "handle"
              /\ L!At(t)' = "reply" /\ Held(t)' = Held(t)
           \/ /\ stack[t][L!Depth(t) - 1].at = "unbox" /\ raised
              /\ L!At(t)' = "fail" /\ Held(t)' + 1 = Held(t)
           \/ /\ stack[t][L!Depth(t) - 1].at = "unbox" /\ ~raised
              /\ L!At(t)' = "resolve" /\ Held(t)' = Held(t)
  BY <1>1, EndsTo
<1>4. Len(stack[t]) \in Nat \ {0} /\ stack[t] \in Seq(L!Frame)
  BY <1>2, TopOf DEF LockInv
<1>5. escaped \in BOOLEAN /\ escaped' \in BOOLEAN /\ (escaped => escaped')
      /\ (L!Depth(t) # 1 /\ raised /\ stack[t][L!Depth(t) - 1].at = "unbox" => escaped')
  <2>1. L!Depth(t) # 1 => L!Depth(t) > 1
    <3>1. \A n \in Nat \ {0} : n # 1 => n > 1
      OBVIOUS
    <3>. QED
      BY <1>4, <3>1 DEF L!Depth
  <2>. QED
    BY <1>1, <2>1 DEF LockInv, LockTypes, LockData, L!Escapes
<1>6. LockTypes'
  BY <1>1, <1>3, <1>5 DEF LockInv, LockTypes, LockData
<1>7. Counted(t)'
  <2>1. HasLock(t) \/ HasNoLock(t)
    BY <1>1 DEF LockInv, LockCounted, Counted, Doomed
  <2>2. count \in Nat
    BY DEF LockInv, LockTypes, LockData
  <2>3. CASE HasLock(t)
    <3>1. count' >= Held(t)' /\ (escaped' \/ count' = Held(t)')
      BY <1>1, <1>3, <1>5, <2>2, <2>3 DEF HasLock
    <3>. QED
      BY <1>1, <2>3, <3>1 DEF HasLock, Counted
  <2>4. CASE HasNoLock(t)
    <3>1. Held(t)' = 0
      BY <1>3, <2>4 DEF HasNoLock
    <3>. QED
      BY <1>1, <2>4, <3>1 DEF HasNoLock, Counted
  <2>. QED
    BY <2>1, <2>3, <2>4
<1>8. LockCounted'
  <2>1. \A u \in L!Threads \ {t} : Counted(u)'
    BY <1>1, <1>3, <1>5, OthersCounted DEF LockInv
  <2>. QED
    BY <1>7, <2>1 DEF LockCounted
<1>9. L!SleepersOwed'
  <2>1. \A u \in L!Threads \ {t} : stack'[u] = stack[u]
    BY <1>2 DEF L!Unwound
  <2>2. L!Owes(t) => L!Owes(t)' /\ L!At(t)' # "asleep"
    <3>1. CASE L!Depth(t) = 1
      <4>1. ~ L!Owes(t)
        BY <1>1, <1>2, <3>1 DEF L!Owes, L!At, L!Top, L!Depth
      <4>. QED
        BY <4>1
    <3>2. CASE L!Depth(t) # 1
      <4>1. L!At(t)' \in {"reply", "fail", "resolve"}
        BY <1>3, <3>2
      <4>2. stack'[t] # << >>
        BY <4>1 DEF L!At
      <4>3. /\ Len(stack'[t]) \in 1..Len(stack'[t])
            /\ L!At(t)' = stack'[t][Len(stack'[t])].at
        BY <4>2, <1>3, FrontAndLast DEF L!At, L!Top, L!Depth
      <4>. QED
        BY <4>1, <4>3 DEF L!Owes, L!Depth
    <3>. QED
      BY <3>1, <3>2
  <2>3. L!At(t)' # "asleep"
    <3>1. CASE L!Depth(t) = 1
      <4>1. stack'[t] = << >>
        <5>1. SubSeq(stack[t], 1, 0) = << >>
          BY SubSeqEmpty
        <5>. QED
          BY <1>2, <3>1, <5>1 DEF L!Unwound, LockInv, LockTypes
      <4>. QED
        BY <4>1 DEF L!At
    <3>2. CASE L!Depth(t) # 1
      BY <1>3, <3>2
    <3>. QED
      BY <3>1, <3>2
  <2>4. \A u \in L!Threads \ {t} : L!At(u)' = L!At(u) /\ L!Owes(u)' = L!Owes(u)
    BY <2>1 DEF L!At, L!Top, L!Depth, L!Owes
  <2>. QED
    BY <1>5, <2>2, <2>3, <2>4 DEF LockInv, L!SleepersOwed
<1>. QED
  BY <1>3, <1>6, <1>8, <1>9 DEF LockInv

(* close() by thread t, which has the lock held times as it calls it.      *)
LEMMA TeardownOf ==
  ASSUME L!ServeAssumption, LockInv, NEW t \in L!Threads, NEW held \in Nat, L!Teardown(t, held)
  PROVE  /\ dead' = TRUE /\ closed' \in BOOLEAN /\ slots' \subseteq slots
         /\ seq' = seq /\ count' \in Nat /\ owner' \in L!Threads \cup {L!Nobody}
         /\ (owner' = L!Nobody) <=> (count' = 0)
         /\ owner # t => owner' = owner /\ count' = count
         /\ owner = t => /\ owner' \in {t, L!Nobody} /\ count' <= held
                         /\ held = 0 \/ closed => count' = held
                         /\ held # 0 /\ ~closed => count' = held - 1
<1>1. /\ count \in Nat /\ owner \in L!Threads \cup {L!Nobody}
      /\ (owner = L!Nobody) <=> (count = 0)
      /\ closed \in BOOLEAN
  BY DEF LockInv, LockTypes, LockData
<1>2. /\ dead' = TRUE /\ closed' = TRUE /\ seq' = seq
      /\ slots' = IF closed THEN slots ELSE {}
  BY DEF L!Teardown
<1>. DEFINE left == IF held > 0 /\ ~closed THEN held - 1 ELSE held
<1>3. /\ count' = IF owner = t THEN left ELSE count
      /\ owner' = IF owner = t /\ left = 0 THEN L!Nobody ELSE owner
  BY DEF L!Teardown
<1>4. /\ left \in Nat /\ left <= held
      /\ held = 0 \/ closed => left = held
      /\ held # 0 /\ ~closed => left = held - 1
  <2>1. \A n \in Nat : n # 0 <=> n > 0
    OBVIOUS
  <2>. QED
    BY <2>1
<1>5. t # L!Nobody
  BY DEF L!ServeAssumption, L!Nobody
<1>. HIDE DEF left
<1>6. dead' = TRUE /\ closed' \in BOOLEAN /\ slots' \subseteq slots /\ seq' = seq
  BY <1>2
<1>7. CASE owner = t
  <2>1. count' = left /\ owner' = IF left = 0 THEN L!Nobody ELSE t
    BY <1>3, <1>7
  <2>2. owner' \in {t, L!Nobody} /\ (owner' = L!Nobody <=> count' = 0)
    BY <1>5, <2>1
  <2>. QED
    BY <1>4, <1>6, <1>7, <2>1, <2>2
<1>8. CASE owner # t
  <2>1. owner' = owner /\ count' = count
    BY <1>3, <1>8
  <2>. QED
    BY <1>1, <1>6, <1>8, <2>1
<1>. QED
  BY <1>7, <1>8

(* notify_all after a frame was unwound leaves no sleeper.                 *)
LEMMA NobodyAsleep ==
  ASSUME LockInv, NEW t \in L!Threads, L!At(t) = "fail", NEW raised \in BOOLEAN,
         stack' = L!NotifyAll(L!Unwound(t, raised))
  PROVE  \A u \in L!Threads : L!At(u)' # "asleep"
<1>1. PICK s : s = L!Unwound(t, raised)
  OBVIOUS
<1>2. LockTypes /\ Buried /\ stack[t] # << >>
  BY DEF LockInv, L!At
<1>3. /\ s \in [L!Threads -> Seq(L!Frame)]
      /\ \A u \in L!Threads \ {t} : s[u] = stack[u]
      /\ Len(stack[t]) = 1 => s[t] = << >>
  BY <1>1, <1>2, UnwindsTo
<1>4. stack'[t] = s[t] /\ \A u \in L!Threads \ {t} : Woken(u)
  BY <1>1, <1>2, <1>3, NotifiesAll
<1>5. L!At(t)' # "asleep"
  <2>1. CASE Len(stack[t]) = 1
    BY <1>3, <1>4, <2>1 DEF L!At
  <2>2. CASE Len(stack[t]) # 1
    BY <2>2, EndsTo DEF Ends, L!Depth
  <2>. QED
    BY <2>1, <2>2
<1>. QED
  BY <1>4, <1>5 DEF Woken

LEMMA RaiseStep ==
  ASSUME L!ServeAssumption, LockInv, NEW t \in L!Threads, L!Raise(t)
  PROVE  LockInv'
<1>1. /\ L!At(t) = "fail" /\ Ends(t, TRUE) /\ stack' = L!NotifyAll(L!Unwound(t, TRUE))
      /\ escaped' = (escaped \/ L!Escapes(t, TRUE))
      /\ UNCHANGED <<asked, inbox>>
      /\ IF L!Depth(t) = 1 /\ t \in Servers
         THEN L!Teardown(t, IF owner = t THEN count ELSE 0)
         ELSE UNCHANGED <<owner, count, seq, slots, dead, closed>>
  BY DEF L!Raise, Ends, L!lockVars, L!reqVars, L!peerVars, L!endVars
<1>2. stack[t] # << >>
  BY <1>1 DEF L!At
<1>3. /\ stack' \in [L!Threads -> Seq(L!Frame)]
      /\ Buried' /\ OthersStay(t)
      /\ Held(t) \in Nat /\ Held(t)' \in Nat
      /\ L!Depth(t) = 1 => Held(t) = 0 /\ Held(t)' = 0
      /\ L!Depth(t) # 1 =>
           \/ /\ stack[t][L!Depth(t) - 1].at = "handle"
              /\ L!At(t)' = "reply" /\ Held(t)' = Held(t)
           \/ /\ stack[t][L!Depth(t) - 1].at = "unbox"
              /\ L!At(t)' = "fail" /\ Held(t)' + 1 = Held(t)
  BY <1>1, EndsTo
<1>4. Len(stack[t]) \in Nat \ {0}
  BY <1>2, TopOf DEF LockInv
<1>5. escaped \in BOOLEAN /\ escaped' \in BOOLEAN /\ (escaped => escaped')
      /\ (L!Depth(t) # 1 /\ stack[t][L!Depth(t) - 1].at = "unbox" => escaped')
  <2>1. L!Depth(t) # 1 => L!Depth(t) > 1
    <3>1. \A n \in Nat \ {0} : n # 1 => n > 1
      OBVIOUS
    <3>. QED
      BY <1>4, <3>1 DEF L!Depth
  <2>. QED
    BY <1>1, <2>1 DEF LockInv, LockTypes, LockData, L!Escapes
<1>6. /\ count \in Nat /\ owner \in L!Threads \cup {L!Nobody} /\ seq \in Nat
      /\ slots \subseteq 1..seq /\ asked \subseteq 1..seq /\ inbox \in Seq(Messages)
      /\ (owner = L!Nobody) <=> (count = 0)
      /\ dead \in BOOLEAN /\ closed \in BOOLEAN
  BY DEF LockInv, LockTypes, LockData
<1>7. Counted(t)
  BY DEF LockInv, LockCounted
<1>8. L!SleepersOwed'
  BY <1>1, NobodyAsleep DEF L!SleepersOwed
<1>9. CASE L!Depth(t) = 1 /\ t \in Servers
  <2>1. PICK held \in Nat : L!Teardown(t, held) /\ (owner = t => held = count)
    BY <1>1, <1>6, <1>9
  <2>2. /\ dead' = TRUE /\ closed' \in BOOLEAN /\ slots' \subseteq slots
        /\ seq' = seq /\ count' \in Nat /\ owner' \in L!Threads \cup {L!Nobody}
        /\ (owner' = L!Nobody) <=> (count' = 0)
        /\ owner # t => owner' = owner /\ count' = count
        /\ owner = t => /\ owner' \in {t, L!Nobody} /\ count' <= held
                        /\ held = 0 \/ closed => count' = held
                        /\ held # 0 /\ ~closed => count' = held - 1
    <3>1. L!Teardown(t, held)
      BY <2>1
    <3>. QED
      BY <3>1, TeardownOf
  <2>3. LockTypes'
    BY <1>1, <1>3, <1>5, <1>6, <2>2 DEF LockTypes, LockData
  <2>4. \A u \in L!Threads \ {t} : Counted(u)'
    <3>1. LockCounted /\ OthersStay(t) /\ (dead => dead') /\ (escaped => escaped')
      BY <1>3, <1>5, <2>2 DEF LockInv
    <3>2. \/ owner' = owner /\ count' = count
          \/ owner \in {t, L!Nobody} /\ owner' \in {t, L!Nobody}
      BY <2>2
    <3>. QED
      BY <3>1, <3>2, OthersCounted
  <2>5. Counted(t)'
    <3>1. Held(t) = 0 /\ Held(t)' = 0
      BY <1>3, <1>9
    <3>2. owner' = t => escaped'
      <4>. SUFFICES ASSUME owner' = t, ~escaped PROVE FALSE
        BY <1>5
      <4>1. owner = t /\ t # L!Nobody
        BY <2>2 DEF L!ServeAssumption, L!Nobody
      <4>2. count = 0
        BY <1>6, <1>7, <3>1, <4>1 DEF Counted, Doomed, HasLock, HasNoLock
      <4>. QED
        BY <1>6, <4>1, <4>2
    <3>3. CASE owner' = t
      BY <3>1, <3>2, <3>3, <2>2 DEF Counted, HasLock
    <3>4. CASE owner' # t
      BY <3>1, <3>4 DEF Counted, HasNoLock
    <3>. QED
      BY <3>3, <3>4
  <2>. QED
    BY <1>3, <1>8, <2>3, <2>4, <2>5 DEF LockInv, LockCounted
<1>10. CASE ~(L!Depth(t) = 1 /\ t \in Servers)
  <2>1. UNCHANGED <<owner, count, seq, slots, dead, closed>>
    BY <1>1, <1>10
  <2>2. LockTypes'
    BY <1>1, <1>3, <1>5, <1>6, <2>1 DEF LockTypes, LockData
  <2>3. \A u \in L!Threads \ {t} : Counted(u)'
    BY <1>3, <1>5, <2>1, OthersCounted DEF LockInv
  <2>4. Counted(t)'
    <3>1. CASE L!Depth(t) = 1
      <4>1. Held(t) = 0 /\ Held(t)' = 0
        BY <1>3, <3>1
      <4>2. CASE owner = t
        <5>1. escaped
          BY <1>6, <1>7, <4>1, <4>2 DEF Counted, Doomed, HasLock, HasNoLock, L!ServeAssumption, L!Nobody
        <5>. QED
          BY <1>5, <1>6, <2>1, <4>1, <4>2, <5>1 DEF Counted, HasLock
      <4>3. CASE owner # t
        BY <2>1, <4>1, <4>3 DEF Counted, HasNoLock
      <4>. QED
        BY <4>2, <4>3
    <3>2. CASE L!Depth(t) # 1 /\ stack[t][L!Depth(t) - 1].at = "handle"
      <4>1. L!At(t)' = "reply" /\ Held(t)' = Held(t)
        BY <1>3, <3>2
      <4>2. CASE Doomed(t)
        BY <1>5, <2>1, <4>1, <4>2 DEF Counted, Doomed
      <4>3. CASE HasLock(t)
        BY <1>5, <2>1, <4>1, <4>3 DEF Counted, HasLock
      <4>4. CASE HasNoLock(t)
        BY <2>1, <4>1, <4>4 DEF Counted, HasNoLock
      <4>. QED
        BY <1>7, <4>2, <4>3, <4>4 DEF Counted
    <3>3. CASE L!Depth(t) # 1 /\ stack[t][L!Depth(t) - 1].at # "handle"
      <4>1. L!At(t)' = "fail" /\ Held(t)' + 1 = Held(t) /\ escaped'
        BY <1>3, <1>5, <3>3
      <4>2. CASE Doomed(t)
        BY <2>1, <4>1, <4>2 DEF Counted, Doomed
      <4>3. CASE HasLock(t)
        BY <1>3, <1>6, <2>1, <4>1, <4>3 DEF Counted, HasLock
      <4>4. CASE HasNoLock(t)
        BY <1>3, <4>1, <4>4 DEF HasNoLock
      <4>. QED
        BY <1>7, <4>2, <4>3, <4>4 DEF Counted
    <3>. QED
      BY <3>1, <3>2, <3>3
  <2>. QED
    BY <1>3, <1>8, <2>2, <2>3, <2>4 DEF LockInv, LockCounted
<1>. QED
  BY <1>9, <1>10

-----------------------------------------------------------------------------
(* The steps of serve() that move a frame and leave the lock as it is.     *)

(* A move that takes and gives back nothing.                               *)
LEMMA PlainMove ==
  ASSUME L!ServeAssumption, LockInv, NEW t \in L!Threads, stack[t] # << >>,
         NEW place \in Places, TopMoves(t, place), LockData',
         dead => dead', UNCHANGED <<owner, count, escaped>>,
         place \in L!Holding <=> L!At(t) \in L!Holding,
         L!At(t) \in {"fail", "reply"} => ~dead \/ place \in {"fail", "reply"},
         \/ place \notin Quiet
         \/ L!At(t) \in Quiet /\ place # "asleep"
         \/ ~escaped' => \E u \in L!Threads \ {t} : L!Owes(u)
  PROVE  LockInv'
<1>1. Held(t)' = Held(t)
  <2>1. LockTypes /\ LockTypes'
    BY DEF LockInv, LockTypes, TopMoves
  <2>2. Held(t) \in Nat /\ Held(t)' \in Nat
    BY <2>1, CountInNat DEF LockTypes, Held
  <2>3. Held(t)' + One(L!At(t) \in L!Holding) = Held(t) + One(place \in L!Holding)
    BY DEF TopMoves
  <2>. QED
    BY <2>2, <2>3 DEF One
<1>2. L!At(t)' = place
  BY DEF TopMoves
<1>3. Counted(t)
  BY DEF LockInv, LockCounted
<1>4. Counted(t)'
  <2>1. CASE Doomed(t)
    BY <1>1, <1>2, <2>1 DEF Counted, Doomed
  <2>2. CASE HasLock(t)
    BY <1>1, <2>2 DEF Counted, HasLock
  <2>3. CASE HasNoLock(t)
    BY <1>1, <2>3 DEF Counted, HasNoLock
  <2>. QED
    BY <1>3, <2>1, <2>2, <2>3 DEF Counted
<1>. QED
  BY <1>4, TopMovesStep

(* A step that leaves the data of the lock and of the requests alone.      *)
LEMMA DataStays ==
  ASSUME LockInv, UNCHANGED <<owner, count, seq, slots, asked, inbox, dead, closed, escaped>>
  PROVE  LockData'
BY DEF LockInv, LockTypes, LockData

LEMMA EnterStep ==
  ASSUME L!ServeAssumption, LockInv, NEW t \in L!Threads,
         L!Enter(t) \/ L!WaitTimesOut(t) \/ L!Unbox(t) \/ L!Reply(t)
  PROVE  LockInv'
<1>1. UNCHANGED <<owner, count, seq, slots, asked, inbox, dead, closed, escaped>>
  BY DEF L!Enter, L!WaitTimesOut, L!Unbox, L!Reply,
         L!lockVars, L!reqVars, L!peerVars, L!endVars
<1>2. LockData'
  BY <1>1, DataStays
<1>3. PICK place \in {"enter", "loop", "resolve", "notify"} :
        /\ L!Goes(t, place)
        /\ L!At(t) = IF place = "enter" THEN "loop" ELSE IF place = "loop" THEN "asleep"
                     ELSE IF place = "resolve" THEN "unbox" ELSE L!At(t)
        /\ place = "notify" => L!Replies(t) /\ ~dead
  BY DEF L!Enter, L!WaitTimesOut, L!Unbox, L!Reply
<1>4. L!At(t) # "idle" /\ (place = "notify" => L!At(t) \in {"reply", "handle"})
  BY <1>3 DEF L!Replies
<1>5. stack[t] # << >> /\ place \in Places
  BY <1>4 DEF L!At, Places
<1>6. TopMoves(t, place)
  BY <1>3, <1>5, GoesTo DEF LockInv
<1>7. /\ place \in L!Holding <=> L!At(t) \in L!Holding
      /\ L!At(t) \in {"fail", "reply"} => ~dead \/ place \in {"fail", "reply"}
      /\ place \notin Quiet \/ (L!At(t) \in Quiet /\ place # "asleep")
  BY <1>3, <1>4 DEF L!Holding, Quiet
<1>. QED
  BY <1>1, <1>2, <1>5, <1>6, <1>7, PlainMove

LEMMA ResolveStep ==
  ASSUME L!ServeAssumption, LockInv, NEW t \in L!Threads, L!Resolve(t)
  PROVE  LockInv'
<1>1. /\ UNCHANGED <<owner, count, seq, asked, inbox, dead, closed, escaped>>
      /\ slots' \subseteq slots
      /\ L!At(t) \in {"resolve", "settle"}
      /\ L!Goes(t, IF L!At(t) = "resolve" THEN "release" ELSE "notify")
  BY DEF L!Resolve, L!lockVars, L!reqVars, L!peerVars, L!endVars
<1>2. LockData'
  BY <1>1 DEF LockInv, LockTypes, LockData
<1>3. PICK place \in {"release", "notify"} :
        L!Goes(t, place) /\ (place = "release" <=> L!At(t) = "resolve")
  BY <1>1
<1>4. stack[t] # << >> /\ place \in Places
  BY <1>1 DEF L!At, Places
<1>5. TopMoves(t, place)
  BY <1>3, <1>4, GoesTo DEF LockInv
<1>6. /\ place \in L!Holding <=> L!At(t) \in L!Holding
      /\ L!At(t) \notin {"fail", "reply"} /\ place \notin Quiet
  BY <1>1, <1>3 DEF L!Holding, Quiet
<1>. QED
  BY <1>1, <1>2, <1>4, <1>5, <1>6, PlainMove

LEMMA ReplyFailsStep ==
  ASSUME L!ServeAssumption, LockInv, NEW t \in L!Threads, L!ReplyFails(t)
  PROVE  LockInv'
<1>1. /\ UNCHANGED <<owner, count, seq, slots, asked, inbox, closed, escaped>>
      /\ dead' = TRUE /\ L!Goes(t, "fail") /\ L!At(t) \in {"reply", "handle"}
  BY DEF L!ReplyFails, L!SendBreaks, L!Replies, L!lockVars, L!reqVars, L!peerVars
<1>2. LockData'
  BY <1>1 DEF LockInv, LockTypes, LockData
<1>3. stack[t] # << >> /\ "fail" \in Places
  BY <1>1 DEF L!At, Places
<1>4. TopMoves(t, "fail")
  BY <1>1, <1>3, GoesTo DEF LockInv
<1>5. /\ "fail" \in L!Holding <=> L!At(t) \in L!Holding
      /\ "fail" \notin Quiet
  BY <1>1 DEF L!Holding, Quiet
<1>. QED
  BY <1>1, <1>2, <1>3, <1>4, <1>5, PlainMove

-----------------------------------------------------------------------------
(* The steps that take the lock, and those that give it back.              *)

LEMMA TryLockStep ==
  ASSUME L!ServeAssumption, LockInv, NEW t \in L!Threads, L!TryLock(t)
  PROVE  LockInv'
<1>1. /\ L!At(t) = "enter"
      /\ UNCHANGED <<seq, slots, asked, inbox, dead, closed, escaped>>
  BY DEF L!TryLock, L!reqVars, L!peerVars, L!endVars
<1>2. stack[t] # << >> /\ t # L!Nobody
  BY <1>1 DEF L!At, L!ServeAssumption, L!Nobody
<1>3. /\ count \in Nat /\ owner \in L!Threads \cup {L!Nobody} /\ Counted(t)
      /\ (owner = L!Nobody) <=> (count = 0)
      /\ LockTypes
  BY DEF LockInv, LockTypes, LockData, LockCounted
<1>4. CASE owner \in {L!Nobody, t}
  <2>1. owner' = t /\ count' = (IF owner = t THEN count + 1 ELSE 1) /\ L!Goes(t, "check")
    BY <1>4 DEF L!TryLock, L!CanAcquire, L!Acquired
  <2>2. LockData'
    BY <1>1, <1>2, <1>3, <2>1 DEF LockInv, LockTypes, LockData
  <2>3. "check" \in Places /\ "check" \notin Quiet /\ "check" \in L!Holding
        /\ "enter" \notin L!Holding
    BY DEF Places, Quiet, L!Holding
  <2>4. TopMoves(t, "check")
    BY <1>2, <1>3, <2>1, <2>3, GoesTo
  <2>5. Held(t) \in Nat /\ Held(t)' \in Nat
    BY <1>3, <2>4, CountInNat DEF Held, LockTypes, TopMoves
  <2>6. Held(t)' = Held(t) + 1
    BY <1>1, <2>3, <2>4, <2>5 DEF TopMoves, One
  <2>7. Counted(t)'
    <3>1. CASE HasLock(t)
      <4>1. count' = count + 1
        BY <2>1, <3>1 DEF HasLock
      <4>2. count' >= Held(t)' /\ (escaped' \/ count' = Held(t)')
        BY <1>1, <1>3, <2>5, <2>6, <3>1, <4>1 DEF HasLock
      <4>. QED
        BY <2>1, <4>2 DEF HasLock, Counted
    <3>2. CASE HasNoLock(t)
      <4>1. count' = 1 /\ Held(t)' = 1
        BY <2>1, <2>5, <2>6, <3>2 DEF HasNoLock
      <4>. QED
        BY <2>1, <4>1 DEF HasLock, Counted
    <3>. QED
      BY <1>1, <1>3, <3>1, <3>2 DEF Counted, Doomed
  <2>8. owner \in {t, L!Nobody} /\ owner' \in {t, L!Nobody}
    BY <1>4, <2>1
  <2>. QED
    BY <1>1, <1>2, <2>2, <2>3, <2>4, <2>7, <2>8, TopMovesStep
<1>5. CASE owner \notin {L!Nobody, t}
  <2>1. UNCHANGED <<owner, count>> /\ L!Goes(t, L!Refused(t))
    BY <1>5 DEF L!TryLock, L!CanAcquire, L!lockVars
  <2>2. LockData'
    BY <1>1, <2>1, DataStays
  <2>3. PICK place \in {"asleep", "loop"} : L!Goes(t, place)
    BY <2>1 DEF L!Refused
  <2>4. place \in Places /\ place \notin L!Holding /\ "enter" \notin L!Holding
    BY DEF Places, L!Holding
  <2>5. TopMoves(t, place)
    BY <1>2, <1>3, <2>3, <2>4, GoesTo
  <2>6. ~escaped' => \E u \in L!Threads \ {t} : L!Owes(u)
    BY <1>1, <1>3, <1>5, OwnerOwes
  <2>. QED
    BY <1>1, <1>2, <2>1, <2>2, <2>4, <2>5, <2>6, PlainMove
<1>. QED
  BY <1>4, <1>5

(* The lock is released once as the frame that held it goes on.            *)
LEMMA ReleasingMove ==
  ASSUME L!ServeAssumption, LockInv, NEW t \in L!Threads, L!At(t) \in L!Holding,
         NEW place \in Places, place \notin Quiet, place \notin L!Holding,
         TopMoves(t, place), L!Release,
         UNCHANGED <<seq, dead, closed, escaped>>,
         slots' \subseteq slots, asked' \subseteq asked, inbox' \in Seq(Messages)
  PROVE  LockInv'
<1>1. /\ LockTypes /\ count \in Nat /\ owner \in L!Threads \cup {L!Nobody}
      /\ seq \in Nat /\ slots \subseteq 1..seq /\ asked \subseteq 1..seq
      /\ escaped \in BOOLEAN /\ dead \in BOOLEAN /\ closed \in BOOLEAN
  BY DEF LockInv, LockTypes, LockData
<1>2. HasLock(t) /\ Held(t) \in Nat /\ Held(t) >= 1 /\ count >= 1 /\ stack[t] # << >>
  BY HolderHasLock DEF LockInv
<1>3. owner = t /\ t # L!Nobody
  BY <1>2 DEF HasLock, L!ServeAssumption, L!Nobody
<1>4. count' = count - 1 /\ owner' = IF count = 1 THEN L!Nobody ELSE owner
  BY DEF L!Release, L!Drop
<1>5. count' \in Nat /\ (count = 1 <=> count' = 0)
  <2>1. \A n \in Nat : n >= 1 => n - 1 \in Nat /\ (n = 1 <=> n - 1 = 0)
    OBVIOUS
  <2>. QED
    BY <1>1, <1>2, <1>4, <2>1
<1>6. owner' \in {t, L!Nobody} /\ (owner' = L!Nobody <=> count' = 0)
  BY <1>3, <1>4, <1>5
<1>7. LockData'
  BY <1>1, <1>5, <1>6 DEF LockData
<1>8. Held(t)' \in Nat /\ Held(t)' = Held(t) - 1
  <2>1. Held(t)' \in Nat
    BY CountInNat DEF Held, TopMoves
  <2>2. Held(t)' + 1 = Held(t) + 0
    BY DEF TopMoves, One
  <2>. QED
    BY <1>2, <2>1, <2>2
<1>9. Counted(t)'
  <2>1. count' >= Held(t)' /\ (escaped' \/ count' = Held(t)')
    BY <1>1, <1>2, <1>4, <1>8 DEF HasLock
  <2>2. CASE owner' = t
    BY <2>1, <2>2 DEF Counted, HasLock
  <2>3. CASE owner' # t
    <3>1. count' = 0
      BY <1>6, <2>3
    <3>2. Held(t)' = 0
      <4>1. \A m, n \in Nat : m >= n /\ m = 0 => n = 0
        OBVIOUS
      <4>2. Held(t)' \in Nat
        BY <1>8
      <4>. QED
        BY <1>5, <2>1, <3>1, <4>1, <4>2
    <3>. QED
      BY <2>3, <3>2 DEF Counted, HasNoLock
  <2>. QED
    BY <2>2, <2>3
<1>. QED
  BY <1>2, <1>3, <1>6, <1>7, <1>9, TopMovesStep

LEMMA CheckStep ==
  ASSUME L!ServeAssumption, LockInv, NEW t \in L!Threads,
         L!Check(t) \/ L!ReceiveNothing(t) \/ L!AfterReply(t)
  PROVE  LockInv'
<1>1. /\ UNCHANGED <<seq, slots, asked, inbox, dead, closed, escaped>>
      /\ L!At(t) \in {"check", "recv", "release"}
      /\ \/ L!At(t) = "check" /\ L!Goes(t, "recv") /\ UNCHANGED <<owner, count>>
         \/ L!Goes(t, "notify") /\ L!Release
  BY DEF L!Check, L!ReceiveNothing, L!AfterReply, L!GivenUp, L!LetGo,
         L!lockVars, L!reqVars, L!peerVars, L!endVars
<1>2. /\ stack[t] # << >> /\ L!At(t) \in L!Holding
      /\ {"recv", "notify"} \subseteq Places \ Quiet
      /\ "recv" \in L!Holding /\ "notify" \notin L!Holding
      /\ L!At(t) \notin {"fail", "reply"}
  BY <1>1 DEF L!At, L!Holding, Places, Quiet
<1>3. CASE L!Goes(t, "recv") /\ UNCHANGED <<owner, count>>
  <2>1. TopMoves(t, "recv")
    BY <1>2, <1>3, GoesTo DEF LockInv
  <2>2. LockData'
    BY <1>1, <1>3, DataStays
  <2>. QED
    BY <1>1, <1>2, <1>3, <2>1, <2>2, PlainMove
<1>4. CASE L!Goes(t, "notify") /\ L!Release
  <2>1. TopMoves(t, "notify")
    BY <1>2, <1>4, GoesTo DEF LockInv
  <2>2. inbox' \in Seq(Messages)
    BY <1>1 DEF LockInv, LockTypes, LockData
  <2>. QED
    BY <1>1, <1>2, <1>4, <2>1, <2>2, ReleasingMove
<1>. QED
  BY <1>1, <1>3, <1>4

LEMMA ReceiveStep ==
  ASSUME L!ServeAssumption, LockInv, NEW t \in L!Threads, L!Receive(t)
  PROVE  LockInv'
<1>. DEFINE m == Head(inbox)
            f == [stack[t][Len(stack[t])] EXCEPT !.at = L!Place(m), !.msg = m]
<1>1. /\ UNCHANGED <<seq, asked, dead, closed, escaped, slots>>
      /\ L!At(t) = "recv" /\ inbox # << >> /\ inbox' = Tail(inbox)
      /\ IF L!Arrival(m.kind) THEN L!Release ELSE UNCHANGED <<owner, count>>
  BY DEF L!Receive, L!reqVars, L!endVars, L!lockVars
<1>2. stack[t] # << >> /\ LockTypes
  BY <1>1 DEF L!At, LockInv
<1>3. m \in Messages /\ inbox' \in Seq(Messages)
  BY <1>1, HeadTailProperties DEF LockInv, LockTypes, LockData
<1>4. /\ L!Place(m) \in {"unbox", "resolve", "settle", "handle"}
      /\ L!Place(m) \in {"unbox", "resolve"} <=> ~L!Arrival(m.kind)
  BY <1>3 DEF Messages, L!Place, L!Arrival
<1>5. stack[t][Len(stack[t])] \in L!Frame
  BY <1>2, TopOf
<1>6. f \in L!Frame /\ f.at = L!Place(m)
  BY <1>3, <1>4, <1>5 DEF L!Frame, Messages
<1>7. stack' = [stack EXCEPT ![t] = [stack[t] EXCEPT ![Len(stack[t])] = f]]
  BY DEF L!Receive, L!Depth
<1>. HIDE DEF f, m
<1>8. TopMoves(t, L!Place(m))
  BY <1>2, <1>6, <1>7, TopSet
<1>9. PICK place \in {"unbox", "resolve", "settle", "handle"} :
        /\ TopMoves(t, place)
        /\ place \in {"unbox", "resolve"} <=> ~L!Arrival(m.kind)
  BY <1>4, <1>8
<1>10. place \in Places /\ place \notin Quiet
       /\ "recv" \in L!Holding
       /\ (place \in L!Holding <=> place \in {"unbox", "resolve"})
  BY DEF Places, Quiet, L!Holding
<1>11. CASE L!Arrival(m.kind)
  BY <1>1, <1>3, <1>9, <1>10, <1>11, ReleasingMove DEF m
<1>12. CASE ~L!Arrival(m.kind)
  <2>1. UNCHANGED <<owner, count>>
    BY <1>1, <1>12
  <2>2. LockData'
    BY <1>1, <1>3, <2>1 DEF LockInv, LockTypes, LockData
  <2>. QED
    BY <1>1, <1>2, <1>9, <1>10, <1>12, <2>1, <2>2, PlainMove
<1>. QED
  BY <1>11, <1>12

-----------------------------------------------------------------------------
(* The end of the connection.                                              *)

(* close() by the thread whose frame fails: the thread is doomed.          *)
LEMMA TeardownStep ==
  ASSUME L!ServeAssumption, LockInv, NEW t \in L!Threads, NEW held \in Nat,
         stack[t] # << >>, TopMoves(t, "fail"), L!Teardown(t, held),
         owner = t => escaped \/ held <= Held(t)',
         UNCHANGED <<asked, inbox, escaped>>
  PROVE  LockInv'
<1>1. LockTypes /\ LockData
  BY DEF LockInv, LockTypes
<1>2. /\ dead' = TRUE /\ closed' \in BOOLEAN /\ slots' \subseteq slots
      /\ seq' = seq /\ count' \in Nat /\ owner' \in L!Threads \cup {L!Nobody}
      /\ (owner' = L!Nobody) <=> (count' = 0)
      /\ owner # t => owner' = owner /\ count' = count
      /\ owner = t => owner' \in {t, L!Nobody} /\ count' <= held
  BY TeardownOf
<1>3. LockData'
  BY <1>1, <1>2 DEF LockData
<1>4. Held(t)' \in Nat
  BY CountInNat DEF Held, TopMoves
<1>5. owner' = t => escaped' \/ count' <= Held(t)'
  <2>. SUFFICES ASSUME owner' = t, ~escaped PROVE count' <= Held(t)'
    OBVIOUS
  <2>1. owner = t
    BY <1>2 DEF L!ServeAssumption, L!Nobody
  <2>2. count' <= held /\ held <= Held(t)'
    BY <1>2, <2>1
  <2>3. \A a, b, c \in Nat : a <= b /\ b <= c => a <= c
    OBVIOUS
  <2>4. count' \in Nat
    BY <1>2
  <2>. QED
    BY <1>4, <2>2, <2>3, <2>4
<1>6. L!At(t)' = "fail"
  BY DEF TopMoves
<1>7. Counted(t)'
  BY <1>2, <1>5, <1>6 DEF Counted, Doomed
<1>8. \/ owner' = owner /\ count' = count
      \/ owner \in {t, L!Nobody} /\ owner' \in {t, L!Nobody}
  BY <1>2
<1>9. "fail" \in Places /\ "fail" \notin Quiet
  BY DEF Places, Quiet
<1>. QED
  BY <1>2, <1>3, <1>7, <1>8, <1>9, TopMovesStep

LEMMA ReceiveEOFStep ==
  ASSUME L!ServeAssumption, LockInv, NEW t \in L!Threads, L!ReceiveEOF(t)
  PROVE  LockInv'
<1>1. /\ L!At(t) = "recv" /\ L!Goes(t, "fail") /\ L!Teardown(t, count - 1)
      /\ UNCHANGED <<asked, inbox, escaped>>
  BY DEF L!ReceiveEOF, L!peerVars
<1>2. L!At(t) \in L!Holding /\ "fail" \notin L!Holding /\ "fail" \in Places
  BY <1>1 DEF L!Holding, Places
<1>3. HasLock(t) /\ Held(t) \in Nat /\ Held(t) >= 1 /\ count >= 1 /\ stack[t] # << >>
  BY <1>2, HolderHasLock DEF LockInv
<1>4. TopMoves(t, "fail")
  BY <1>1, <1>2, <1>3, GoesTo DEF LockInv
<1>5. Held(t)' \in Nat
  BY <1>4, CountInNat DEF Held, TopMoves
<1>6. Held(t)' + 1 = Held(t) + 0
  BY <1>2, <1>4 DEF TopMoves, One
<1>7. count \in Nat
  BY DEF LockInv, LockTypes, LockData
<1>8. count - 1 \in Nat /\ (escaped \/ count - 1 <= Held(t)')
  BY <1>3, <1>5, <1>6, <1>7 DEF HasLock
<1>. QED
  BY <1>1, <1>3, <1>4, <1>8, TeardownStep

LEMMA HandleCloseStep ==
  ASSUME L!ServeAssumption, LockInv, NEW t \in L!Threads, L!HandleClose(t)
  PROVE  LockInv'
<1>1. /\ L!At(t) = "handle" /\ L!Goes(t, "fail")
      /\ L!Teardown(t, IF owner = t THEN count ELSE 0)
      /\ UNCHANGED <<asked, inbox, escaped>>
  BY DEF L!HandleClose, L!peerVars
<1>2. /\ stack[t] # << >> /\ L!At(t) \notin L!Holding
      /\ "fail" \notin L!Holding /\ "fail" \in Places
  BY <1>1 DEF L!At, L!Holding, Places
<1>3. TopMoves(t, "fail")
  BY <1>1, <1>2, GoesTo DEF LockInv
<1>4. Held(t) \in Nat /\ Held(t)' \in Nat
  BY <1>3, CountInNat DEF Held, TopMoves, LockInv, LockTypes
<1>5. Held(t)' = Held(t)
  BY <1>2, <1>3, <1>4 DEF TopMoves, One
<1>6. count \in Nat /\ Counted(t)
  BY DEF LockInv, LockTypes, LockData, LockCounted
<1>7. PICK held \in Nat : L!Teardown(t, held) /\ (owner = t => held = count)
  BY <1>1, <1>6
<1>8. owner = t => escaped \/ held <= Held(t)'
  <2>. SUFFICES ASSUME owner = t, ~escaped PROVE held <= Held(t)'
    OBVIOUS
  <2>1. HasLock(t)
    BY <1>1, <1>6 DEF Counted, Doomed, HasNoLock
  <2>2. held = Held(t)'
    BY <1>5, <1>7, <2>1 DEF HasLock
  <2>. QED
    BY <1>4, <2>2
<1>9. L!Teardown(t, held)
  BY <1>7
<1>. QED
  BY <1>1, <1>2, <1>3, <1>8, <1>9, TeardownStep

(* The unboxing of a reply raises: the lock is kept.                       *)
LEMMA UnboxFailsStep ==
  ASSUME L!ServeAssumption, LockInv, NEW t \in L!Threads, L!UnboxFails(t)
  PROVE  LockInv'
<1>1. /\ L!At(t) = "unbox" /\ L!Goes(t, "fail") /\ dead' = TRUE /\ escaped' = TRUE
      /\ UNCHANGED <<owner, count, seq, slots, asked, inbox, closed>>
  BY DEF L!UnboxFails, L!SendBreaks, L!lockVars, L!reqVars, L!peerVars
<1>2. /\ L!At(t) \in L!Holding /\ "fail" \notin L!Holding
      /\ "fail" \in Places /\ "fail" \notin Quiet
  BY <1>1 DEF L!Holding, Places, Quiet
<1>3. HasLock(t) /\ stack[t] # << >>
  BY <1>2, HolderHasLock DEF LockInv
<1>4. TopMoves(t, "fail")
  BY <1>1, <1>2, <1>3, GoesTo DEF LockInv
<1>5. LockData'
  BY <1>1 DEF LockInv, LockTypes, LockData
<1>6. Counted(t)'
  BY <1>1, <1>4 DEF Counted, Doomed, TopMoves
<1>. QED
  BY <1>1, <1>2, <1>3, <1>4, <1>5, <1>6, TopMovesStep

-----------------------------------------------------------------------------
(* finally: notify_all.                                                    *)

LEMMA NotifyStep ==
  ASSUME L!ServeAssumption, LockInv, NEW t \in L!Threads, L!Notify(t)
  PROVE  LockInv'
<1>. DEFINE f == L!Waiting(stack[t][Len(stack[t])].req)
            r == [stack[t] EXCEPT ![Len(stack[t])] = f]
<1>1. /\ L!At(t) = "notify"
      /\ UNCHANGED <<owner, count, seq, slots, asked, inbox, dead, closed, escaped>>
      /\ stack' = L!NotifyAll([stack EXCEPT ![t] = r])
  BY DEF L!Notify, L!lockVars, L!reqVars, L!peerVars, L!endVars, L!Depth
<1>2. stack[t] # << >> /\ LockTypes
  BY <1>1 DEF L!At, LockInv
<1>3. stack[t] \in Seq(L!Frame) /\ stack[t][Len(stack[t])] \in L!Frame
      /\ Len(stack[t]) \in Nat \ {0} /\ stack[t][Len(stack[t])].at = "notify"
  BY <1>1, <1>2, TopOf
<1>4. f \in L!Frame /\ f.at = "loop" /\ f \notin HoldingFrames
  BY <1>3 DEF L!Waiting, L!Nothing, L!Frame, HoldingFrames, L!Holding
<1>. HIDE DEF f
<1>5. /\ r \in Seq(L!Frame) /\ Len(r) = Len(stack[t])
      /\ CountIn(r, HoldingFrames) + One(stack[t][Len(stack[t])] \in HoldingFrames)
           = CountIn(stack[t], HoldingFrames) + One(f \in HoldingFrames)
  BY <1>2, <1>3, <1>4, CountInLast
<1>6. \A i \in 1..Len(stack[t]) : r[i] = IF i = Len(stack[t]) THEN f ELSE stack[t][i]
  BY <1>3, LenProperties
<1>. HIDE DEF r
<1>7. Held(t) \in Nat /\ CountIn(r, HoldingFrames) = Held(t)
  <2>1. CountIn(r, HoldingFrames) \in Nat /\ Held(t) \in Nat
    BY <1>3, <1>5, CountInNat DEF Held
  <2>2. stack[t][Len(stack[t])] \notin HoldingFrames
    BY <1>3 DEF HoldingFrames, L!Holding
  <2>. QED
    BY <1>4, <1>5, <2>1, <2>2 DEF Held, One
<1>. DEFINE s == [stack EXCEPT ![t] = r]
<1>8. /\ s \in [L!Threads -> Seq(L!Frame)] /\ s[t] = r
      /\ \A u \in L!Threads \ {t} : s[u] = stack[u]
  BY <1>2, <1>5 DEF LockTypes
<1>9. stack' = L!NotifyAll(s) /\ L!At(t) # "asleep"
  BY <1>1
<1>. HIDE DEF s
<1>10. /\ stack' \in [L!Threads -> Seq(L!Frame)] /\ stack'[t] = r
       /\ \A u \in L!Threads \ {t} : Woken(u)
  BY <1>2, <1>8, <1>9, NotifiesAll
<1>11. Held(t)' = Held(t) /\ L!At(t)' = "loop" /\ OthersStay(t)
  <2>1. r[Len(r)] = f /\ r # << >>
    BY <1>3, <1>5, <1>6
  <2>2. L!At(t)' = "loop"
    BY <1>4, <1>10, <2>1 DEF L!At, L!Top, L!Depth
  <2>. QED
    BY <1>7, <1>10, <2>2 DEF Held, OthersStay, Woken
<1>12. LockTypes'
  <2>1. LockData'
    BY <1>1, DataStays
  <2>. QED
    BY <1>10, <2>1 DEF LockTypes
<1>13. Buried'
  <2>. SUFFICES ASSUME NEW u \in L!Threads, NEW i \in 1..(Len(stack'[u]) - 1)
                PROVE  stack'[u][i].at \in {"handle", "unbox"}
    BY DEF Buried
  <2>1. CASE u = t
    <3>1. i \in 1..(Len(stack[t]) - 1) /\ i \in 1..Len(stack[t]) /\ i # Len(stack[t])
      BY <1>3, <1>5, <1>10, <2>1
    <3>. QED
      BY <1>6, <1>10, <2>1, <3>1 DEF LockInv, Buried
  <2>2. CASE u # t
    BY <1>10, <2>2 DEF LockInv, Buried, Woken
  <2>. QED
    BY <2>1, <2>2
<1>14. LockCounted'
  <2>1. \A u \in L!Threads \ {t} : Counted(u)'
    BY <1>1, <1>11, OthersCounted DEF LockInv
  <2>2. Counted(t)'
    BY <1>1, <1>11 DEF LockInv, LockCounted, Counted, Doomed, HasLock, HasNoLock
  <2>. QED
    BY <2>1, <2>2 DEF LockCounted
<1>15. L!SleepersOwed'
  BY <1>10, <1>11 DEF L!SleepersOwed, Woken
<1>. QED
  BY <1>12, <1>13, <1>14, <1>15 DEF LockInv

-----------------------------------------------------------------------------
(* Requests, timeouts and the peer.                                        *)

LEMMA RequestStep ==
  ASSUME L!ServeAssumption, LockInv, NEW t \in L!Threads,
         L!Start(t) \/ L!UnboxInspects(t) \/ L!HandlerAsks(t)
  PROVE  LockInv'
<1>1. /\ L!SendRequest(t, stack) /\ UNCHANGED <<owner, count>>
      /\ stack[t] = << >> \/ L!At(t) \in {"unbox", "handle"}
  BY DEF L!Start, L!UnboxInspects, L!HandlerAsks, L!lockVars
<1>2. L!At(t) \in {"idle", "handle", "unbox"}
  BY <1>1 DEF L!At
<1>3. Pushed(t)
  BY <1>1, RequestPushes DEF LockInv
<1>4. /\ seq' = seq + 1 /\ slots' = slots \cup {seq + 1} /\ asked' = asked \cup {seq + 1}
      /\ UNCHANGED <<inbox, dead, closed, escaped>>
  BY <1>1 DEF L!SendRequest, L!endVars
<1>5. LockData'
  <2>1. LockData
    BY DEF LockInv, LockTypes
  <2>. QED
    BY <1>1, <1>4, <2>1 DEF LockData
<1>. QED
  BY <1>1, <1>2, <1>3, <1>4, <1>5, PushedStep

(* Steps that move no thread.                                              *)
LEMMA StayStep ==
  ASSUME LockInv,
         \/ \E t \in L!Threads : L!StartFails(t)
         \/ \E t \in L!Threads : \E i \in 1..L!Depth(t) : L!Expire(t, i)
         \/ L!Peer
  PROVE  LockInv'
<1>1. /\ UNCHANGED <<stack, owner, count, seq, slots, closed, escaped>>
      /\ dead' = dead \/ dead' = TRUE
      /\ asked' \subseteq asked
  BY DEF L!StartFails, L!SendBreaks, L!Expire, L!Peer, L!PeerAnswers, L!PeerRequests,
         L!PeerGone, L!PeerSends, L!lockVars, L!reqVars, L!peerVars, L!endVars
<1>2. LockData
  BY DEF LockInv, LockTypes
<1>3. inbox' = inbox \/ \E m \in Messages : inbox' = Append(inbox, m)
  <2>1. ASSUME NEW r \in asked, L!PeerAnswers(r)
        PROVE  \E m \in Messages : inbox' = Append(inbox, m)
    <3>1. r \in Nat
      BY <1>2 DEF LockData
    <3>. QED
      BY <2>1, <3>1 DEF L!PeerAnswers, L!PeerSends, Messages
  <2>2. ASSUME L!PeerRequests
        PROVE  \E m \in Messages : inbox' = Append(inbox, m)
    BY <2>2 DEF L!PeerRequests, L!PeerSends, Messages
  <2>3. ASSUME \/ \E t \in L!Threads : L!StartFails(t)
               \/ \E t \in L!Threads : \E i \in 1..L!Depth(t) : L!Expire(t, i)
               \/ L!PeerGone
        PROVE  inbox' = inbox
    BY <2>3 DEF L!StartFails, L!Expire, L!PeerGone, L!peerVars
  <2>. QED
    BY <2>1, <2>2, <2>3 DEF L!Peer
<1>4. inbox' \in Seq(Messages)
  <2>1. inbox \in Seq(Messages)
    BY <1>2 DEF LockData
  <2>. QED
    BY <1>3, <2>1, AppendProperties
<1>5. LockData'
  BY <1>1, <1>2, <1>4 DEF LockData
<1>6. (dead => dead') /\ UNCHANGED <<stack, owner, count, escaped>>
  BY <1>1
<1>. QED
  BY <1>5, <1>6, StacksStay

(* Every step keeps the invariant.                                         *)
LEMMA LockStep ==
  ASSUME L!ServeAssumption, LockInv, L!Next
  PROVE  LockInv'
<1>1. ASSUME NEW t \in L!Threads, L!Serve(t)
      PROVE  LockInv'
  <2>1. CASE L!Start(t) \/ L!UnboxInspects(t) \/ L!HandlerAsks(t)
    BY <2>1, RequestStep
  <2>2. CASE L!StartFails(t)
    BY <2>2, StayStep
  <2>3. CASE L!Return(t)
    BY <2>3, ReturnStep
  <2>4. CASE L!Enter(t) \/ L!WaitTimesOut(t) \/ L!Unbox(t) \/ L!Reply(t)
    BY <2>4, EnterStep
  <2>5. CASE L!TryLock(t)
    BY <2>5, TryLockStep
  <2>6. CASE L!Check(t) \/ L!ReceiveNothing(t) \/ L!AfterReply(t)
    BY <2>6, CheckStep
  <2>7. CASE L!Receive(t)
    BY <2>7, ReceiveStep
  <2>8. CASE L!ReceiveEOF(t)
    BY <2>8, ReceiveEOFStep
  <2>9. CASE L!UnboxFails(t)
    BY <2>9, UnboxFailsStep
  <2>10. CASE L!Resolve(t)
    BY <2>10, ResolveStep
  <2>11. CASE L!HandleClose(t)
    BY <2>11, HandleCloseStep
  <2>12. CASE L!ReplyFails(t)
    BY <2>12, ReplyFailsStep
  <2>13. CASE L!Notify(t)
    BY <2>13, NotifyStep
  <2>14. CASE L!Raise(t)
    BY <2>14, RaiseStep
  <2>. QED
    BY <1>1, <2>1, <2>2, <2>3, <2>4, <2>5, <2>6, <2>7, <2>8, <2>9, <2>10, <2>11,
       <2>12, <2>13, <2>14 DEF L!Serve
<1>. QED
  BY <1>1, StayStep DEF L!Next

(* The invariant holds at first.                                           *)
LEMMA LockInit ==
  ASSUME L!ServeAssumption, L!Init
  PROVE  LockInv
<1>. DEFINE f == L!Waiting(0)
<1>1. f \in L!Frame /\ f.at = "loop" /\ f \notin HoldingFrames
  BY DEF L!Waiting, L!Nothing, L!Frame, HoldingFrames, L!Holding
<1>. HIDE DEF f
<1>2. stack = [t \in L!Threads |-> IF t \in setup.threads \ Callers THEN <<f>> ELSE << >>]
  BY DEF L!Init, f
<1>3. ASSUME NEW t \in L!Threads
      PROVE  /\ stack[t] \in Seq(L!Frame) /\ Len(stack[t]) \in {0, 1}
             /\ Held(t) = 0 /\ L!At(t) # "asleep"
  <2>1. CASE stack[t] = << >>
    BY <2>1, CountInEmpty DEF Held, L!At
  <2>2. CASE stack[t] = <<f>>
    <3>1. /\ <<f>> = Append(<< >>, f) /\ << >> \in Seq(L!Frame)
      OBVIOUS
    <3>2. CountIn(<<f>>, HoldingFrames) = 0
      <4>1. CountIn(Append(<< >>, f), HoldingFrames)
              = CountIn(<< >>, HoldingFrames) + One(f \in HoldingFrames)
        BY <1>1, <3>1, CountInAppend
      <4>2. CountIn(<< >>, HoldingFrames) = 0 /\ One(f \in HoldingFrames) = 0
        BY <1>1, CountInEmpty DEF One
      <4>. QED
        BY <3>1, <4>1, <4>2
    <3>3. /\ <<f>> \in Seq(L!Frame) /\ Len(<<f>>) = 1 /\ <<f>>[1] = f
      BY <1>1
    <3>. QED
      BY <1>1, <2>2, <3>2, <3>3 DEF Held, L!At, L!Top, L!Depth
  <2>. QED
    BY <1>2, <2>1, <2>2
<1>4. LockTypes
  <2>1. stack \in [L!Threads -> Seq(L!Frame)]
    BY <1>2, <1>3
  <2>2. LockData
    <3>1. /\ owner = L!Nobody /\ count = 0 /\ seq = 0 /\ slots = {} /\ asked = {}
          /\ inbox = << >> /\ escaped = FALSE /\ dead = FALSE /\ closed = FALSE
      BY DEF L!Init
    <3>2. inbox \in Seq(Messages)
      BY <3>1
    <3>. QED
      BY <3>1, <3>2 DEF LockData
  <2>. QED
    BY <2>1, <2>2 DEF LockTypes
<1>5. Buried
  <2>1. \A n \in {0, 1} : \A i \in 1..(n - 1) : FALSE
    OBVIOUS
  <2>2. \A t \in L!Threads : \A i \in 1..(Len(stack[t]) - 1) : FALSE
    BY <1>3, <2>1
  <2>. QED
    BY <2>2 DEF Buried
<1>6. LockCounted
  BY <1>3 DEF LockCounted, Counted, HasNoLock, L!Init, L!ServeAssumption, L!Nobody
<1>7. L!SleepersOwed
  BY <1>3 DEF L!SleepersOwed
<1>. QED
  BY <1>4, <1>5, <1>6, <1>7 DEF LockInv

(* The invariant of Serving's runs without bind_threads.                   *)
THEOREM LockInvariant == Spec => [](~bind_threads => LockInv)
<1>. DEFINE Inv == ~bind_threads => LockInv
<1>1. L!ServeAssumption
  BY ServingAssumption
<1>2. Init => Inv
  BY <1>1, LockInit DEF Init
<1>3. Inv /\ [Next]_vars => Inv'
  <2>. SUFFICES ASSUME Inv, [Next]_vars PROVE Inv'
    OBVIOUS
  <2>1. CASE Locking /\ L!Next
    BY <1>1, <2>1, LockStep DEF Locking
  <2>2. CASE Binding /\ B!Next
    BY <2>2 DEF Binding
  <2>3. CASE UNCHANGED vars
    <3>1. UNCHANGED <<bind_threads, stack, owner, count, seq, slots, asked, inbox,
                      dead, closed, escaped>>
      BY <2>3 DEF vars, lockOnly
    <3>2. LockInv => LockInv'
      BY <3>1, DataStays, StacksStay
    <3>. QED
      BY <3>1, <3>2
  <2>. QED
    BY <2>1, <2>2, <2>3 DEF Next
<1>. QED
  BY <1>2, <1>3, PTL DEF Spec

(* The receive lock is given back, whatever the threads and the requests   *)
(* inside requests, unless an exception left the unboxing of a reply.      *)
THEOREM LockIsGivenBack == Spec => []LockGivenBack
<1>1. (~bind_threads => LockInv) => LockGivenBack
  <2>. SUFFICES ASSUME LockInv, ~escaped, owner # L!Nobody PROVE L!HoldsLock(owner)
    BY DEF LockGivenBack, L!LockGivenBack
  <2>1. owner \in L!Threads /\ count \in Nat /\ count # 0 /\ LockTypes
    BY DEF LockInv, LockTypes, LockData
  <2>2. Counted(owner)
    BY <2>1 DEF LockInv, LockCounted
  <2>3. Held(owner) \in Nat /\ Held(owner) # 0
    BY <2>1, <2>2, HeldNat DEF Counted, Doomed, HasLock, HasNoLock
  <2>4. PICK i \in 1..Len(stack[owner]) : stack[owner][i] \in HoldingFrames
    BY <2>1, <2>3, CountInNat DEF LockTypes, Held
  <2>. QED
    BY <2>4 DEF L!HoldsLock, L!Depth, HoldingFrames
<1>. QED
  BY <1>1, LockInvariant, PTL

(* Nobody sleeps on _recv_event whom nobody is going to notify.            *)
THEOREM SleepersAreOwed == Spec => []SleepersOwed
<1>1. (~bind_threads => LockInv) => SleepersOwed
  BY DEF SleepersOwed, LockInv
<1>. QED
  BY <1>1, LockInvariant, PTL

-----------------------------------------------------------------------------
(* With bind_threads: _serve_bound.                                        *)

BoundPlaces == {"loop", "pooled", "recv", "closing", "fail", "dispatch", "handle", "reply"}

(* A request for any thread is of no request of ours.                      *)
Mail == {m \in [kind : {"reply", "request"}, of : Nat, to : B!Threads \cup {B!Unbound}] :
           /\ m.to = B!Unbound <=> m.of = 0
           /\ m.of = 0 => m.kind = "request"}

BoundFrame == [at : BoundPlaces, req : Nat,
               msg : Mail \cup {B!Nothing}]

BoundTypes ==
  /\ setup \in BoundSetups
  /\ stack \in [B!Threads -> Seq(BoundFrame)]
  /\ deque \in [B!Threads -> Seq(Mail)] /\ inbox \in Seq(Mail)
  /\ pool \in Seq(B!Threads) /\ event \subseteq B!Threads
  /\ occupied \in [B!Threads -> Int]
  /\ seq \in Nat /\ asked \subseteq [seq : 1..seq, by : B!Threads] /\ IsFiniteSet(asked)
  /\ calling \subseteq 1..seq /\ late \subseteq 1..seq
  /\ done \subseteq Callers /\ receiving \in BOOLEAN /\ closed \in BOOLEAN
  /\ \A t \in B!Threads : \A i \in 1..Len(stack[t]) : stack[t][i].req <= seq

(* Where a thread waits, and where it has a message in hand.               *)
Resting == {"loop", "pooled", "recv"}
Engaged == {"dispatch", "handle", "reply"}

Asked(t, r) == [seq |-> r, by |-> t] \in asked
Open(t) == {a \in asked : a.by = t}

(* The messages on their way to a thread.                                  *)
To(t) == {m \in Mail : m.to = t}
Replies == {m \in Mail : m.kind = "reply"}
RepliesTo(t) == {m \in Mail : m.kind = "reply" /\ m.to = t}

InFlight(t) == CountIn(inbox, To(t)) + CountIn(deque[t], Mail)

OnItsWay(t, m) ==
  \/ m.to = t /\ \E i \in 1..Len(inbox) : inbox[i] = m
  \/ \E i \in 1..Len(deque[t]) : deque[t][i] = m

(* What a thread is involved in, counted.                                  *)
Busy == {f \in BoundFrame : \/ f.at \in {"handle", "reply"}
                            \/ f.at = "dispatch" /\ f.msg.kind = "reply"}

RepliesFor(t) == CountIn(inbox, RepliesTo(t)) + CountIn(deque[t], Replies)

Duties(t) == Cardinality(Open(t)) + RepliesFor(t) + CountIn(stack[t], Busy)

(* A reply is of a request that is not open; a request that comes back is  *)
(* of one that is, and for which the peer waits in turn.                   *)
Linked(t, m) ==
  /\ m.kind = "reply" => ~Asked(t, m.of)
  /\ m.kind = "request" /\ m.of # 0 => Asked(t, m.of) /\ m.of \in calling

Fits(t, m) ==
  /\ stack[t] # << >> => B!At(t) \in Resting /\ m.of = B!Top(t).req
  /\ Linked(t, m)
  /\ m.of = 0 => Len(stack[t]) \in {0, 1}

FrameFits(t, f) ==
  f.at \in Engaged =>
    /\ f.msg \in Mail /\ f.msg.of = f.req
    /\ f.at # "dispatch" => f.msg.kind = "request"
    /\ Linked(t, f.msg)

(* One message at a time for a thread, of the request it waits for.        *)
OneMessage(t) ==
  /\ InFlight(t) \in {0, 1}
  /\ \A m \in Mail : OnItsWay(t, m) => Fits(t, m)

FramesFit(t) ==
  /\ \A i \in 1..Len(stack[t]) : FrameFits(t, stack[t][i])
  /\ \A i \in 1..(Len(stack[t]) - 1) : stack[t][i].at = "handle"

(* It is the peer's turn with one request of a thread, the one at the top. *)
PeersTurn(t) ==
  \A a \in Open(t) : a.seq \notin calling =>
    /\ InFlight(t) = 0
    /\ stack[t] # << >> => B!At(t) \in Resting /\ B!Top(t).req = a.seq
    /\ \A b \in Open(t) : b.seq \notin calling => b = a

(* A thread that has not begun, and a temporary one that has ended.        *)
Unused(t) ==
  stack[t] = << >> /\ t \notin done => InFlight(t) = 0 /\ Open(t) = {}

OccupiedInWait(t) == B!At(t) \in Resting /\ B!Top(t).req # 0 => occupied[t] # 0

ThreadInv(t) ==
  /\ occupied[t] = Duties(t)
  /\ OneMessage(t) /\ FramesFit(t) /\ PeersTurn(t) /\ Unused(t) /\ OccupiedInWait(t)

(* Each request is of one frame; the time of nested requests is not over.  *)
ReqInv ==
  /\ \A a, b \in asked : a.seq = b.seq => a = b
  /\ \A t, u \in B!Threads : \A i \in 1..Len(stack[t]), j \in 1..Len(stack[u]) :
       stack[t][i].req # 0 /\ stack[t][i].req = stack[u][j].req => t = u /\ i = j
  /\ \A t \in B!Threads : \A i \in 1..Len(stack[t]) :
       stack[t][i].req \in late => i = 1 /\ t \in Callers

(* A thread that timed out has not left the pool.                          *)
Abandoned(t) ==
  /\ late # {}
  /\ \/ stack[t] = << >> /\ t \in done
     \/ Len(stack[t]) = 1 /\ B!At(t) = "loop" /\ B!Top(t).req \in late

PoolInv ==
  /\ \A i, j \in 1..Len(pool) : pool[i] = pool[j] => i = j
  /\ \A i \in 1..Len(pool) : B!At(pool[i]) = "pooled" \/ Abandoned(pool[i])
  /\ \A t \in B!Threads : B!At(t) = "pooled" => \E i \in 1..Len(pool) : pool[i] = t
  /\ \A t \in B!Threads : deque[t] # << >> => t \in event

(* When nobody receives, somebody that waits has been woken to do it.      *)
Served ==
  late = {} /\ ~receiving =>
    \/ \E i \in 1..Len(pool) : pool[i] \in event /\ deque[pool[i]] = << >>
    \/ \A i \in 1..Len(pool) : pool[i] \in event

RecvInv ==
  /\ receiving <=> \E t \in B!Threads : B!At(t) = "recv"
  /\ \A t, u \in B!Threads : B!At(t) = "recv" /\ B!At(u) = "recv" => t = u
  /\ \A t \in B!Threads : B!At(t) = "recv" => deque[t] = << >>
  /\ \A t \in B!Threads : B!At(t) \notin {"closing", "fail"}

Routing == PoolInv /\ Served /\ RecvInv

Flow == (\A t \in B!Threads : ThreadInv(t)) /\ ReqInv /\ Routing

InPool(t) == \E i \in 1..Len(pool) : pool[i] = t

(* When the connection is closed the messages in the queues are dispatched *)
(* still; they are of the requests that their threads wait for.            *)
Settled(t) ==
  /\ B!At(t) = "pooled" => InPool(t)
  /\ Len(deque[t]) \in {0, 1}
  /\ \A i \in 1..Len(deque[t]) : stack[t] # << >> =>
       /\ B!At(t) \notin {"dispatch", "handle"}
       /\ B!At(t) \in Resting => deque[t][i].of = B!Top(t).req
  /\ B!At(t) = "dispatch" /\ B!Top(t).msg.kind = "reply" => B!Top(t).msg.of = B!Top(t).req

BoundInv ==
  /\ BoundTypes
  /\ ~closed => Flow
  /\ closed => \A t \in B!Threads : Settled(t)

-----------------------------------------------------------------------------
(* What the counts are.                                                    *)

(* The innermost frame of a thread that is in serve().                     *)
LEMMA BoundTopOf ==
  ASSUME BoundTypes, NEW t \in B!Threads, stack[t] # << >>
  PROVE  /\ stack[t] \in Seq(BoundFrame) /\ Len(stack[t]) \in Nat \ {0}
         /\ B!Top(t) \in BoundFrame /\ B!Top(t) = stack[t][Len(stack[t])]
         /\ B!At(t) = B!Top(t).at /\ B!At(t) \in BoundPlaces
<1>1. stack[t] \in Seq(BoundFrame)
  BY DEF BoundTypes
<1>2. Len(stack[t]) \in Nat \ {0} /\ stack[t][Len(stack[t])] \in BoundFrame
  BY <1>1, FrontAndLast
<1>. QED
  BY <1>1, <1>2 DEF B!At, B!Top, B!Depth, BoundFrame

(* The numbers that ThreadInv compares are natural numbers.                *)
LEMMA CountsAreNat ==
  ASSUME BoundTypes, NEW t \in B!Threads
  PROVE  /\ IsFiniteSet(Open(t)) /\ Cardinality(Open(t)) \in Nat
         /\ Cardinality(Open(t)) = 0 <=> Open(t) = {}
         /\ CountIn(inbox, To(t)) \in Nat /\ CountIn(deque[t], Mail) \in Nat
         /\ CountIn(inbox, RepliesTo(t)) \in Nat /\ CountIn(deque[t], Replies) \in Nat
         /\ InFlight(t) \in Nat /\ RepliesFor(t) \in Nat
         /\ CountIn(stack[t], Busy) \in Nat /\ Duties(t) \in Nat
<1>1. IsFiniteSet(Open(t)) /\ Cardinality(Open(t)) \in Nat
      /\ (Cardinality(Open(t)) = 0 <=> Open(t) = {})
  <2>1. IsFiniteSet(asked) /\ Open(t) \subseteq asked
    BY DEF BoundTypes, Open
  <2>. QED
    BY <2>1, FS_Subset, FS_CardinalityType, FS_EmptySet
<1>2. /\ inbox \in Seq(Mail) /\ deque[t] \in Seq(Mail) /\ stack[t] \in Seq(BoundFrame)
  BY DEF BoundTypes
<1>3. /\ CountIn(inbox, To(t)) \in Nat /\ CountIn(deque[t], Mail) \in Nat
      /\ CountIn(inbox, RepliesTo(t)) \in Nat /\ CountIn(deque[t], Replies) \in Nat
      /\ CountIn(stack[t], Busy) \in Nat
  BY <1>2, CountInNat
<1>4. InFlight(t) \in Nat /\ RepliesFor(t) \in Nat
  BY <1>3 DEF InFlight, RepliesFor
<1>. QED
  BY <1>1, <1>3, <1>4 DEF Duties

(* A count in flight is zero when no such message is on its way.           *)
LEMMA NothingOnItsWay ==
  ASSUME BoundTypes, NEW t \in B!Threads
  PROVE  /\ InFlight(t) = 0 <=> \A m \in Mail : ~OnItsWay(t, m)
         /\ RepliesFor(t) = 0 <=> \A m \in Replies : ~OnItsWay(t, m)
<1>1. inbox \in Seq(Mail) /\ deque[t] \in Seq(Mail)
  BY DEF BoundTypes
<1>2. /\ CountIn(inbox, To(t)) = 0 <=> \A i \in 1..Len(inbox) : inbox[i] \notin To(t)
      /\ CountIn(inbox, RepliesTo(t)) = 0 <=> \A i \in 1..Len(inbox) : inbox[i] \notin RepliesTo(t)
      /\ CountIn(deque[t], Mail) = 0 <=> \A i \in 1..Len(deque[t]) : deque[t][i] \notin Mail
      /\ CountIn(deque[t], Replies) = 0 <=> \A i \in 1..Len(deque[t]) : deque[t][i] \notin Replies
  BY <1>1, CountInNat
<1>3. /\ CountIn(inbox, To(t)) \in Nat /\ CountIn(deque[t], Mail) \in Nat
      /\ CountIn(inbox, RepliesTo(t)) \in Nat /\ CountIn(deque[t], Replies) \in Nat
  BY CountsAreNat
<1>4. /\ \A i \in 1..Len(inbox) : inbox[i] \in Mail
      /\ \A i \in 1..Len(deque[t]) : deque[t][i] \in Mail
  BY <1>1, ElementOfSeq
<1>5. InFlight(t) = 0 <=> \A m \in Mail : ~OnItsWay(t, m)
  <2>1. InFlight(t) = 0 <=> CountIn(inbox, To(t)) = 0 /\ CountIn(deque[t], Mail) = 0
    BY <1>3 DEF InFlight
  <2>. QED
    BY <1>2, <1>4, <2>1 DEF To, OnItsWay
<1>6. RepliesFor(t) = 0 <=> \A m \in Replies : ~OnItsWay(t, m)
  <2>1. RepliesFor(t) = 0 <=> CountIn(inbox, RepliesTo(t)) = 0 /\ CountIn(deque[t], Replies) = 0
    BY <1>3 DEF RepliesFor
  <2>. QED
    BY <1>2, <1>4, <2>1 DEF RepliesTo, Replies, OnItsWay
<1>. QED
  BY <1>5, <1>6

(* The same of the next state.                                             *)
LEMMA CountsNext ==
  ASSUME BoundTypes', NEW t \in B!Threads
  PROVE  /\ InFlight(t)' \in Nat /\ RepliesFor(t)' \in Nat
         /\ CountIn(stack'[t], Busy) \in Nat
         /\ InFlight(t)' = 0 => \A m \in Mail : ~OnItsWay(t, m)'
<1>1. inbox' \in Seq(Mail) /\ deque'[t] \in Seq(Mail) /\ stack'[t] \in Seq(BoundFrame)
  BY DEF BoundTypes
<1>2. /\ CountIn(inbox', To(t)) \in Nat /\ CountIn(deque'[t], Mail) \in Nat
      /\ CountIn(inbox', RepliesTo(t)) \in Nat /\ CountIn(deque'[t], Replies) \in Nat
      /\ CountIn(stack'[t], Busy) \in Nat
  BY <1>1, CountInNat
<1>3. /\ CountIn(inbox', To(t)) = 0 => \A i \in 1..Len(inbox') : inbox'[i] \notin To(t)
      /\ CountIn(deque'[t], Mail) = 0 => \A i \in 1..Len(deque'[t]) : deque'[t][i] \notin Mail
  BY <1>1, CountInNat
<1>4. InFlight(t)' = CountIn(inbox', To(t)) + CountIn(deque'[t], Mail)
      /\ RepliesFor(t)' = CountIn(inbox', RepliesTo(t)) + CountIn(deque'[t], Replies)
  BY DEF InFlight, RepliesFor
<1>5. ASSUME InFlight(t)' = 0, NEW m \in Mail PROVE ~OnItsWay(t, m)'
  <2>1. CountIn(inbox', To(t)) = 0 /\ CountIn(deque'[t], Mail) = 0
    BY <1>2, <1>4, <1>5
  <2>. QED
    BY <1>3, <2>1 DEF To, OnItsWay
<1>. QED
  BY <1>2, <1>4, <1>5

(* A thread with no duties: nothing of its own is open or on its way.      *)
LEMMA FreeHasNothing ==
  ASSUME BoundTypes, NEW t \in B!Threads, ThreadInv(t), occupied[t] = 0
  PROVE  /\ Open(t) = {} /\ Len(stack[t]) \in {0, 1}
         /\ \A m \in Mail : OnItsWay(t, m) => m.of = 0
         /\ \A i \in 1..Len(stack[t]) : stack[t][i] \notin Busy
         /\ B!At(t) \in Resting => B!Top(t).req = 0
<1>1. /\ Cardinality(Open(t)) = 0 /\ RepliesFor(t) = 0 /\ CountIn(stack[t], Busy) = 0
  <2>1. Cardinality(Open(t)) \in Nat /\ RepliesFor(t) \in Nat /\ CountIn(stack[t], Busy) \in Nat
    BY CountsAreNat
  <2>2. Duties(t) = 0
    BY DEF ThreadInv
  <2>. QED
    BY <2>1, <2>2 DEF Duties
<1>2. Open(t) = {}
  BY <1>1, CountsAreNat
<1>3. \A m \in Mail : OnItsWay(t, m) => m.of = 0
  <2>. SUFFICES ASSUME NEW m \in Mail, OnItsWay(t, m), m.of # 0 PROVE FALSE
    OBVIOUS
  <2>1. Fits(t, m)
    BY DEF ThreadInv, OneMessage
  <2>2. m \notin Replies
    BY <1>1, NothingOnItsWay
  <2>3. m.kind = "request"
    BY <2>2 DEF Mail, Replies
  <2>4. Asked(t, m.of)
    BY <2>1, <2>3 DEF Fits, Linked
  <2>. QED
    BY <1>2, <2>4 DEF Asked, Open
<1>4. stack[t] \in Seq(BoundFrame) /\ Len(stack[t]) \in Nat
      /\ \A i \in 1..Len(stack[t]) : stack[t][i] \in BoundFrame
  BY LenProperties, ElementOfSeq DEF BoundTypes
<1>5. \A i \in 1..Len(stack[t]) : stack[t][i] \notin Busy
  BY <1>1, <1>4, CountInNat
<1>6. Len(stack[t]) \in {0, 1}
  <2>. SUFFICES ASSUME Len(stack[t]) \notin {0, 1} PROVE FALSE
    OBVIOUS
  <2>1. \A n \in Nat : n \notin {0, 1} => 1 \in 1..(n - 1) /\ 1 \in 1..n
    OBVIOUS
  <2>2. 1 \in 1..(Len(stack[t]) - 1) /\ 1 \in 1..Len(stack[t])
    BY <1>4, <2>1
  <2>3. stack[t][1].at = "handle"
    BY <2>2 DEF ThreadInv, FramesFit
  <2>. QED
    BY <1>4, <1>5, <2>2, <2>3 DEF Busy
<1>7. B!At(t) \in Resting => B!Top(t).req = 0
  BY DEF ThreadInv, OccupiedInWait
<1>. QED
  BY <1>2, <1>3, <1>5, <1>6, <1>7

(* The cardinality of the module that is instantiated is the same.         *)
LEMMA SameCardinality == \A S : B!Cardinality(S) = Cardinality(S)
BY DEF B!Cardinality, Cardinality

(* _occupation_count, as the model counts it.                              *)
LEMMA InvolvedIsDuties ==
  ASSUME BoundTypes, NEW t \in B!Threads
  PROVE  B!Involved(t) = Duties(t)
<1>1. /\ \A i \in 1..Len(inbox) : inbox[i] \in Mail
      /\ \A i \in 1..Len(deque[t]) : deque[t][i] \in Mail
      /\ \A i \in 1..Len(stack[t]) : stack[t][i] \in BoundFrame
  BY ElementOfSeq DEF BoundTypes
<1>2. /\ {i \in 1..Len(inbox) : inbox[i].kind = "reply" /\ inbox[i].to = t}
           = {i \in 1..Len(inbox) : inbox[i] \in RepliesTo(t)}
      /\ {i \in 1..Len(deque[t]) : deque[t][i].kind = "reply"}
           = {i \in 1..Len(deque[t]) : deque[t][i] \in Replies}
  BY <1>1 DEF RepliesTo, Replies
<1>3. {i \in 1..B!Depth(t) : \/ stack[t][i].at \in {"handle", "reply"}
                             \/ /\ stack[t][i].at = "dispatch"
                                /\ stack[t][i].msg.kind = "reply"}
        = {i \in 1..Len(stack[t]) : stack[t][i] \in Busy}
  BY <1>1 DEF Busy, B!Depth
<1>4. Cardinality(Open(t)) \in Nat /\ CountIn(stack[t], Busy) \in Nat
      /\ CountIn(inbox, RepliesTo(t)) \in Nat /\ CountIn(deque[t], Replies) \in Nat
  BY CountsAreNat
<1>5. /\ Cardinality({i \in 1..Len(inbox) : inbox[i].kind = "reply" /\ inbox[i].to = t})
           = CountIn(inbox, RepliesTo(t))
      /\ Cardinality({i \in 1..Len(deque[t]) : deque[t][i].kind = "reply"})
           = CountIn(deque[t], Replies)
      /\ Cardinality({i \in 1..B!Depth(t) : \/ stack[t][i].at \in {"handle", "reply"}
                                            \/ /\ stack[t][i].at = "dispatch"
                                               /\ stack[t][i].msg.kind = "reply"})
           = CountIn(stack[t], Busy)
      /\ Cardinality({a \in asked : a.by = t}) = Cardinality(Open(t))
  BY <1>2, <1>3, Zenon DEF CountIn, Open
<1>6. B!Involved(t) = Cardinality(Open(t)) + CountIn(inbox, RepliesTo(t))
                        + CountIn(deque[t], Replies) + CountIn(stack[t], Busy)
  BY <1>5, SameCardinality, Zenon DEF B!Involved
<1>. QED
  BY <1>4, <1>6 DEF Duties, RepliesFor

-----------------------------------------------------------------------------
(* Messages that are sent, routed and taken.                               *)

MailStays(u) ==
  /\ InFlight(u)' = InFlight(u) /\ RepliesFor(u)' = RepliesFor(u)
  /\ \A m \in Mail : OnItsWay(u, m)' => OnItsWay(u, m)

MailGone(u, m) ==
  /\ OnItsWay(u, m)
  /\ InFlight(u)' + 1 = InFlight(u) /\ RepliesFor(u)' + One(m \in Replies) = RepliesFor(u)

MailComes(u, m) ==
  /\ InFlight(u)' = InFlight(u) + 1 /\ RepliesFor(u)' = RepliesFor(u) + One(m \in Replies)
  /\ \A x \in Mail : OnItsWay(u, x)' => OnItsWay(u, x) \/ x = m

(* What the operations on the queues do to the messages on their way to a  *)
(* thread.                                                                 *)
LEMMA NoMail ==
  ASSUME UNCHANGED <<inbox, deque>>
  PROVE  \A u : MailStays(u)
BY DEF MailStays, InFlight, RepliesFor, OnItsWay

LEMMA MailPopped ==
  ASSUME BoundTypes, NEW t \in B!Threads, deque[t] # << >>,
         deque' = [deque EXCEPT ![t] = Tail(@)], inbox' = inbox
  PROVE  /\ Head(deque[t]) \in Mail /\ MailGone(t, Head(deque[t]))
         /\ \A u \in B!Threads \ {t} : MailStays(u)
         /\ deque' \in [B!Threads -> Seq(Mail)]
<1>. DEFINE m == Head(deque[t])
<1>1. /\ deque \in [B!Threads -> Seq(Mail)] /\ deque[t] \in Seq(Mail)
      /\ m \in Mail /\ Tail(deque[t]) \in Seq(Mail) /\ 1 \in 1..Len(deque[t])
      /\ m = deque[t][1]
  BY HeadTailProperties, FrontAndLast DEF BoundTypes
<1>2. deque' \in [B!Threads -> Seq(Mail)] /\ deque'[t] = Tail(deque[t])
      /\ \A u \in B!Threads \ {t} : deque'[u] = deque[u]
  BY <1>1
<1>3. \A u \in B!Threads \ {t} : MailStays(u)
  BY <1>2 DEF MailStays, InFlight, RepliesFor, OnItsWay
<1>4. /\ CountIn(deque[t], Mail) = CountIn(deque'[t], Mail) + One(m \in Mail)
      /\ CountIn(deque[t], Replies) = CountIn(deque'[t], Replies) + One(m \in Replies)
  BY <1>1, <1>2, CountInTail
<1>5. /\ CountIn(deque'[t], Mail) \in Nat /\ CountIn(deque'[t], Replies) \in Nat
      /\ CountIn(inbox, To(t)) \in Nat /\ CountIn(inbox, RepliesTo(t)) \in Nat
  BY <1>1, <1>2, CountInNat, CountsAreNat
<1>6. OnItsWay(t, m)
  BY <1>1 DEF OnItsWay
<1>7. InFlight(t)' + 1 = InFlight(t) /\ RepliesFor(t)' + One(m \in Replies) = RepliesFor(t)
  <2>1. One(m \in Mail) = 1 /\ One(m \in Replies) \in Nat
    BY <1>1 DEF One
  <2>2. CountIn(inbox, To(t))' = CountIn(inbox, To(t))
        /\ CountIn(inbox, RepliesTo(t))' = CountIn(inbox, RepliesTo(t))
    OBVIOUS
  <2>. QED
    BY <1>4, <1>5, <2>1, <2>2 DEF InFlight, RepliesFor
<1>. QED
  BY <1>1, <1>2, <1>3, <1>6, <1>7 DEF MailGone

(* A message more in the socket.                                           *)
LEMMA MailSent ==
  ASSUME BoundTypes, NEW m \in Mail, inbox' = Append(inbox, m), deque' = deque
  PROVE  /\ inbox' \in Seq(Mail)
         /\ m.to \in B!Threads => MailComes(m.to, m)
         /\ \A u \in B!Threads : u # m.to => MailStays(u)
<1>1. inbox \in Seq(Mail) /\ Len(inbox) \in Nat
  BY LenProperties DEF BoundTypes
<1>2. /\ inbox' \in Seq(Mail) /\ Len(inbox') = Len(inbox) + 1
      /\ \A i \in 1..Len(inbox) : inbox'[i] = inbox[i]
      /\ inbox'[Len(inbox) + 1] = m
  BY <1>1, AppendProperties
<1>3. ASSUME NEW u \in B!Threads
      PROVE  /\ CountIn(inbox', To(u)) = CountIn(inbox, To(u)) + One(m \in To(u))
             /\ CountIn(inbox', RepliesTo(u)) = CountIn(inbox, RepliesTo(u)) + One(m \in RepliesTo(u))
             /\ \A x \in Mail : OnItsWay(u, x)' => OnItsWay(u, x) \/ (x = m /\ m.to = u)
  <2>1. /\ CountIn(inbox', To(u)) = CountIn(inbox, To(u)) + One(m \in To(u))
        /\ CountIn(inbox', RepliesTo(u)) = CountIn(inbox, RepliesTo(u)) + One(m \in RepliesTo(u))
    BY <1>1, CountInAppend
  <2>2. \A x \in Mail : OnItsWay(u, x)' => OnItsWay(u, x) \/ (x = m /\ m.to = u)
    <3>. SUFFICES ASSUME NEW x \in Mail, OnItsWay(u, x)', ~OnItsWay(u, x)
                  PROVE  x = m /\ m.to = u
      OBVIOUS
    <3>1. PICK i \in 1..Len(inbox') : inbox'[i] = x /\ x.to = u
      BY DEF OnItsWay
    <3>2. i \notin 1..Len(inbox)
      BY <1>2, <3>1 DEF OnItsWay
    <3>3. i = Len(inbox) + 1
      BY <1>1, <1>2, <3>2
    <3>. QED
      BY <1>2, <3>1, <3>3
  <2>. QED
    BY <2>1, <2>2
<1>4. /\ \A u \in B!Threads : To(u)' = To(u) /\ RepliesTo(u)' = RepliesTo(u)
      /\ \A u \in B!Threads : (m \in To(u) <=> m.to = u)
      /\ \A u \in B!Threads : (m \in RepliesTo(u) <=> m.to = u /\ m \in Replies)
  BY DEF To, RepliesTo, Replies
<1>5. ASSUME NEW u \in B!Threads
      PROVE  /\ CountIn(inbox, To(u)) \in Nat /\ CountIn(inbox, RepliesTo(u)) \in Nat
             /\ CountIn(deque[u], Mail) \in Nat /\ CountIn(deque[u], Replies) \in Nat
  BY CountsAreNat
<1>6. ASSUME NEW u \in B!Threads, u = m.to
      PROVE  MailComes(u, m)
  <2>1. CountIn(inbox', To(u)) = CountIn(inbox, To(u)) + 1
    BY <1>3, <1>4, <1>6 DEF One
  <2>2. CountIn(inbox', RepliesTo(u)) = CountIn(inbox, RepliesTo(u)) + One(m \in Replies)
    BY <1>3, <1>4, <1>6 DEF One
  <2>3. One(m \in Replies) \in Nat
    BY DEF One
  <2>4. InFlight(u)' = InFlight(u) + 1 /\ RepliesFor(u)' = RepliesFor(u) + One(m \in Replies)
    BY <1>5, <2>1, <2>2, <2>3 DEF InFlight, RepliesFor
  <2>. QED
    BY <1>3, <2>4 DEF MailComes
<1>7. ASSUME NEW u \in B!Threads, u # m.to
      PROVE  MailStays(u)
  <2>1. CountIn(inbox', To(u)) = CountIn(inbox, To(u))
        /\ CountIn(inbox', RepliesTo(u)) = CountIn(inbox, RepliesTo(u))
    BY <1>3, <1>4, <1>5, <1>7 DEF One
  <2>2. InFlight(u)' = InFlight(u) /\ RepliesFor(u)' = RepliesFor(u)
    BY <2>1 DEF InFlight, RepliesFor
  <2>. QED
    BY <1>3, <1>7, <2>2 DEF MailStays
<1>. QED
  BY <1>2, <1>6, <1>7

(* The receiver takes the message at the head of the socket.               *)
LEMMA MailTaken ==
  ASSUME BoundTypes, inbox # << >>, inbox' = Tail(inbox), deque' = deque
  PROVE  /\ Head(inbox) \in Mail /\ inbox' \in Seq(Mail)
         /\ Head(inbox).to \in B!Threads => MailGone(Head(inbox).to, Head(inbox))
         /\ \A u \in B!Threads : u # Head(inbox).to => MailStays(u)
         /\ \A u \in B!Threads : \A x \in Mail : OnItsWay(u, x)' => OnItsWay(u, x)
<1>. DEFINE m == Head(inbox)
<1>1. inbox \in Seq(Mail) /\ Len(inbox) \in Nat
  BY LenProperties DEF BoundTypes
<1>2. /\ m \in Mail /\ inbox' \in Seq(Mail) /\ Len(inbox') = Len(inbox) - 1
      /\ \A i \in 1..Len(inbox') : inbox'[i] = inbox[i + 1]
      /\ 1 \in 1..Len(inbox) /\ m = inbox[1]
  BY <1>1, HeadTailProperties, FrontAndLast
<1>3. ASSUME NEW u \in B!Threads
      PROVE  /\ CountIn(inbox, To(u)) = CountIn(inbox', To(u)) + One(m \in To(u))
             /\ CountIn(inbox, RepliesTo(u)) = CountIn(inbox', RepliesTo(u)) + One(m \in RepliesTo(u))
             /\ \A x \in Mail : OnItsWay(u, x)' => OnItsWay(u, x)
  <2>1. /\ CountIn(inbox, To(u)) = CountIn(inbox', To(u)) + One(m \in To(u))
        /\ CountIn(inbox, RepliesTo(u)) = CountIn(inbox', RepliesTo(u)) + One(m \in RepliesTo(u))
    BY <1>1, CountInTail
  <2>2. \A i \in 1..Len(inbox') : i + 1 \in 1..Len(inbox)
    BY <1>1, <1>2
  <2>3. \A x \in Mail : OnItsWay(u, x)' => OnItsWay(u, x)
    BY <1>2, <2>2 DEF OnItsWay
  <2>. QED
    BY <2>1, <2>3
<1>4. /\ \A u \in B!Threads : (m \in To(u) <=> m.to = u)
      /\ \A u \in B!Threads : (m \in RepliesTo(u) <=> m.to = u /\ m \in Replies)
  BY <1>2 DEF To, RepliesTo, Replies
<1>5. ASSUME NEW u \in B!Threads
      PROVE  /\ CountIn(inbox', To(u)) \in Nat /\ CountIn(inbox', RepliesTo(u)) \in Nat
             /\ CountIn(deque[u], Mail) \in Nat /\ CountIn(deque[u], Replies) \in Nat
  BY <1>2, CountsAreNat, CountInNat
<1>6. ASSUME NEW u \in B!Threads, u = m.to
      PROVE  MailGone(u, m)
  <2>1. CountIn(inbox, To(u)) = CountIn(inbox', To(u)) + 1
    BY <1>3, <1>4, <1>6 DEF One
  <2>2. CountIn(inbox, RepliesTo(u)) = CountIn(inbox', RepliesTo(u)) + One(m \in Replies)
    BY <1>3, <1>4, <1>6 DEF One
  <2>3. One(m \in Replies) \in Nat
    BY DEF One
  <2>4. InFlight(u)' + 1 = InFlight(u) /\ RepliesFor(u)' + One(m \in Replies) = RepliesFor(u)
    BY <1>5, <2>1, <2>2, <2>3 DEF InFlight, RepliesFor
  <2>5. OnItsWay(u, m)
    BY <1>2, <1>6 DEF OnItsWay
  <2>. QED
    BY <2>4, <2>5 DEF MailGone
<1>7. ASSUME NEW u \in B!Threads, u # m.to
      PROVE  MailStays(u)
  <2>1. CountIn(inbox', To(u)) = CountIn(inbox, To(u))
        /\ CountIn(inbox', RepliesTo(u)) = CountIn(inbox, RepliesTo(u))
    BY <1>3, <1>4, <1>5, <1>7 DEF One
  <2>2. InFlight(u)' = InFlight(u) /\ RepliesFor(u)' = RepliesFor(u)
    BY <2>1 DEF InFlight, RepliesFor
  <2>. QED
    BY <1>3, <1>7, <2>2 DEF MailStays
<1>. QED
  BY <1>2, <1>3, <1>6, <1>7

(* The receiver puts it in the queue of another thread.                    *)
LEMMA MailRouted ==
  ASSUME BoundTypes, NEW v \in B!Threads, inbox # << >>, inbox' = Tail(inbox),
         deque' = [deque EXCEPT ![v] = Append(@, Head(inbox))],
         Head(inbox).to \in {v, B!Unbound}, B!Unbound \notin B!Threads
  PROVE  /\ inbox' \in Seq(Mail) /\ deque' \in [B!Threads -> Seq(Mail)]
         /\ deque'[v] # << >> /\ \A u \in B!Threads \ {v} : deque'[u] = deque[u]
         /\ Head(inbox) \in Mail
         /\ Head(inbox).to = v => \A u \in B!Threads : MailStays(u)
         /\ Head(inbox).to # v =>
              MailComes(v, Head(inbox)) /\ \A u \in B!Threads \ {v} : MailStays(u)
<1>. DEFINE m == Head(inbox)
<1>1. inbox \in Seq(Mail) /\ Len(inbox) \in Nat
  BY LenProperties DEF BoundTypes
<1>2. /\ m \in Mail /\ inbox' \in Seq(Mail) /\ Len(inbox') = Len(inbox) - 1
      /\ \A i \in 1..Len(inbox') : inbox'[i] = inbox[i + 1]
      /\ 1 \in 1..Len(inbox) /\ m = inbox[1]
  BY <1>1, HeadTailProperties, FrontAndLast
<1>3. ASSUME NEW u \in B!Threads
      PROVE  /\ CountIn(inbox, To(u)) = CountIn(inbox', To(u)) + One(m \in To(u))
             /\ CountIn(inbox, RepliesTo(u)) = CountIn(inbox', RepliesTo(u)) + One(m \in RepliesTo(u))
  BY <1>1, CountInTail
<1>4. /\ \A u \in B!Threads : (m \in To(u) <=> m.to = u)
      /\ \A u \in B!Threads : (m \in RepliesTo(u) <=> m.to = u /\ m \in Replies)
      /\ m.to = B!Unbound => m \notin Replies
  BY <1>2 DEF To, RepliesTo, Replies, Mail
<1>5. deque \in [B!Threads -> Seq(Mail)]
  BY DEF BoundTypes
<1>. HIDE DEF m
<1>6. /\ Append(deque[v], m) \in Seq(Mail) /\ Append(deque[v], m) # << >>
      /\ Len(deque[v]) \in Nat /\ Len(Append(deque[v], m)) = Len(deque[v]) + 1
      /\ \A i \in 1..Len(deque[v]) : Append(deque[v], m)[i] = deque[v][i]
      /\ Append(deque[v], m)[Len(deque[v]) + 1] = m
  BY <1>2, <1>5, AppendProperties, LenProperties
<1>7. /\ deque' \in [B!Threads -> Seq(Mail)] /\ deque'[v] = Append(deque[v], m)
      /\ \A u \in B!Threads \ {v} : deque'[u] = deque[u]
  BY <1>5, <1>6 DEF m
<1>8. /\ CountIn(deque'[v], Mail) = CountIn(deque[v], Mail) + One(m \in Mail)
      /\ CountIn(deque'[v], Replies) = CountIn(deque[v], Replies) + One(m \in Replies)
  BY <1>2, <1>5, <1>7, CountInAppend
<1>9. ASSUME NEW u \in B!Threads
      PROVE  /\ CountIn(inbox', To(u)) \in Nat /\ CountIn(inbox', RepliesTo(u)) \in Nat
             /\ CountIn(deque[u], Mail) \in Nat /\ CountIn(deque[u], Replies) \in Nat
  BY <1>2, CountsAreNat, CountInNat
<1>10. One(m \in Mail) = 1 /\ One(m \in Replies) \in Nat
  BY <1>2 DEF One
<1>11. ASSUME NEW u \in B!Threads, NEW x \in Mail, OnItsWay(u, x)'
       PROVE  OnItsWay(u, x) \/ (u = v /\ x = m)
  <2>1. CASE x.to = u /\ \E i \in 1..Len(inbox') : inbox'[i] = x
    <3>1. \A i \in 1..Len(inbox') : i + 1 \in 1..Len(inbox)
      BY <1>1, <1>2
    <3>. QED
      BY <1>2, <2>1, <3>1 DEF OnItsWay
  <2>2. CASE \E i \in 1..Len(deque'[u]) : deque'[u][i] = x
    <3>1. CASE u # v
      BY <1>7, <2>2, <3>1 DEF OnItsWay
    <3>2. CASE u = v
      <4>1. PICK i \in 1..Len(Append(deque[v], m)) : Append(deque[v], m)[i] = x
        BY <1>7, <2>2, <3>2
      <4>2. CASE i \in 1..Len(deque[v])
        BY <1>6, <3>2, <4>1, <4>2 DEF OnItsWay
      <4>3. CASE i \notin 1..Len(deque[v])
        <5>1. i = Len(deque[v]) + 1
          BY <1>6, <4>3
        <5>. QED
          BY <1>6, <3>2, <4>1, <5>1
      <4>. QED
        BY <4>2, <4>3
    <3>. QED
      BY <3>1, <3>2
  <2>. QED
    BY <1>11, <2>1, <2>2 DEF OnItsWay
<1>12. ASSUME NEW u \in B!Threads, u # v
       PROVE  MailStays(u)
  <2>1. m.to # u
    BY <1>12 DEF m
  <2>2. CountIn(inbox', To(u)) = CountIn(inbox, To(u))
        /\ CountIn(inbox', RepliesTo(u)) = CountIn(inbox, RepliesTo(u))
    BY <1>3, <1>4, <1>9, <2>1 DEF One
  <2>3. deque'[u] = deque[u]
    BY <1>7, <1>12
  <2>. QED
    BY <1>11, <1>12, <2>2, <2>3 DEF MailStays, InFlight, RepliesFor
<1>13. /\ InFlight(v)' = CountIn(inbox', To(v)) + CountIn(deque[v], Mail) + 1
       /\ RepliesFor(v)' = CountIn(inbox', RepliesTo(v)) + CountIn(deque[v], Replies) + One(m \in Replies)
  <2>1. /\ InFlight(v)' = CountIn(inbox', To(v)) + CountIn(deque'[v], Mail)
        /\ RepliesFor(v)' = CountIn(inbox', RepliesTo(v)) + CountIn(deque'[v], Replies)
    BY DEF InFlight, RepliesFor
  <2>. QED
    BY <1>8, <1>9, <1>10, <2>1
<1>14. /\ InFlight(v) = CountIn(inbox, To(v)) + CountIn(deque[v], Mail)
       /\ RepliesFor(v) = CountIn(inbox, RepliesTo(v)) + CountIn(deque[v], Replies)
       /\ CountIn(inbox', To(v)) \in Nat /\ CountIn(inbox', RepliesTo(v)) \in Nat
       /\ CountIn(deque[v], Mail) \in Nat /\ CountIn(deque[v], Replies) \in Nat
       /\ One(m \in Replies) \in Nat
  BY <1>9, <1>10 DEF InFlight, RepliesFor
<1>15. ASSUME m.to = v
       PROVE  MailStays(v)
  <2>1. /\ CountIn(inbox, To(v)) = CountIn(inbox', To(v)) + 1
        /\ CountIn(inbox, RepliesTo(v)) = CountIn(inbox', RepliesTo(v)) + One(m \in Replies)
    BY <1>3, <1>4, <1>15 DEF One
  <2>2. InFlight(v)' = InFlight(v) /\ RepliesFor(v)' = RepliesFor(v)
    BY <1>13, <1>14, <2>1
  <2>3. OnItsWay(v, m)
    BY <1>2, <1>15 DEF OnItsWay
  <2>. QED
    BY <1>11, <2>2, <2>3 DEF MailStays
<1>16. ASSUME m.to # v
       PROVE  MailComes(v, m)
  <2>1. CountIn(inbox', To(v)) = CountIn(inbox, To(v))
        /\ CountIn(inbox', RepliesTo(v)) = CountIn(inbox, RepliesTo(v))
    BY <1>3, <1>4, <1>9, <1>16 DEF One
  <2>2. InFlight(v)' = InFlight(v) + 1 /\ RepliesFor(v)' = RepliesFor(v) + One(m \in Replies)
    BY <1>13, <1>14, <2>1
  <2>. QED
    BY <1>11, <2>2 DEF MailComes
<1>. QED
  BY <1>2, <1>6, <1>7, <1>12, <1>15, <1>16 DEF m

-----------------------------------------------------------------------------
(* The frame at the top becomes another one.                               *)

TopIs(t, f) ==
  /\ stack' \in [B!Threads -> Seq(BoundFrame)]
  /\ \A u \in B!Threads \ {t} : stack'[u] = stack[u]
  /\ stack'[t] # << >> /\ Len(stack'[t]) = Len(stack[t])
  /\ \A i \in 1..Len(stack[t]) : stack'[t][i] = IF i = Len(stack[t]) THEN f ELSE stack[t][i]
  /\ B!Top(t)' = f /\ B!At(t)' = f.at
  /\ CountIn(stack'[t], Busy) + One(B!Top(t) \in Busy) = CountIn(stack[t], Busy) + One(f \in Busy)

(* How the operations of a thread change its innermost frame.              *)
LEMMA TopBecomes ==
  ASSUME BoundTypes, NEW t \in B!Threads, stack[t] # << >>, NEW f \in BoundFrame,
         stack' = [stack EXCEPT ![t] = [stack[t] EXCEPT ![Len(stack[t])] = f]]
  PROVE  TopIs(t, f)
<1>. DEFINE s == stack[t]
            r == [s EXCEPT ![Len(s)] = f]
<1>1. s \in Seq(BoundFrame) /\ Len(s) \in Nat \ {0} /\ B!Top(t) = s[Len(s)]
  BY BoundTopOf
<1>2. /\ r \in Seq(BoundFrame) /\ Len(r) = Len(s)
      /\ CountIn(r, Busy) + One(s[Len(s)] \in Busy) = CountIn(s, Busy) + One(f \in Busy)
  BY <1>1, CountInLast
<1>3. \A i \in 1..Len(s) : r[i] = IF i = Len(s) THEN f ELSE s[i]
  BY <1>1, LenProperties
<1>4. stack' \in [B!Threads -> Seq(BoundFrame)] /\ stack'[t] = r
      /\ \A u \in B!Threads \ {t} : stack'[u] = stack[u]
  BY <1>2 DEF BoundTypes
<1>. HIDE DEF r
<1>5. r # << >> /\ r[Len(r)] = f
  BY <1>1, <1>2, <1>3, EmptySeq
<1>6. B!Top(t)' = f /\ B!At(t)' = f.at
  BY <1>4, <1>5 DEF B!At, B!Top, B!Depth
<1>. QED
  BY <1>1, <1>2, <1>3, <1>4, <1>5, <1>6 DEF TopIs

(* It moves to a place; it takes a message there.                          *)
LEMMA BoundGoes ==
  ASSUME BoundTypes, NEW t \in B!Threads, stack[t] # << >>, NEW place \in BoundPlaces,
         B!Goes(t, place)
  PROVE  \E f \in BoundFrame : /\ TopIs(t, f) /\ f.at = place
                              /\ f.req = B!Top(t).req /\ f.msg = B!Top(t).msg
<1>. DEFINE f == [B!Top(t) EXCEPT !.at = place]
<1>1. f \in BoundFrame /\ f.at = place /\ f.req = B!Top(t).req /\ f.msg = B!Top(t).msg
  BY BoundTopOf DEF BoundFrame
<1>2. stack' = [stack EXCEPT ![t] = [stack[t] EXCEPT ![Len(stack[t])] = f]]
  BY DEF B!Goes, B!Top, B!Depth
<1>. HIDE DEF f
<1>. QED
  BY <1>1, <1>2, TopBecomes

LEMMA BoundTakes ==
  ASSUME BoundTypes, NEW t \in B!Threads, stack[t] # << >>, NEW m \in Mail, B!Takes(t, m)
  PROVE  \E f \in BoundFrame : /\ TopIs(t, f) /\ f.at = "dispatch"
                              /\ f.req = B!Top(t).req /\ f.msg = m
<1>. DEFINE f == [B!Top(t) EXCEPT !.at = "dispatch", !.msg = m]
<1>1. f \in BoundFrame /\ f.at = "dispatch" /\ f.req = B!Top(t).req /\ f.msg = m
  BY BoundTopOf DEF BoundFrame, BoundPlaces
<1>2. stack' = [stack EXCEPT ![t] = [stack[t] EXCEPT ![Len(stack[t])] = f]]
  BY DEF B!Takes, B!Top, B!Depth
<1>. HIDE DEF f
<1>. QED
  BY <1>1, <1>2, TopBecomes

LEMMA BoundWaits ==
  ASSUME BoundTypes, NEW t \in B!Threads, stack[t] # << >>, NEW r \in Nat,
         stack' = [stack EXCEPT ![t][B!Depth(t)] = B!Waiting(r)]
  PROVE  \E f \in BoundFrame : /\ TopIs(t, f) /\ f.at = "loop" /\ f.req = r
<1>. DEFINE f == B!Waiting(r)
<1>1. f \in BoundFrame /\ f.at = "loop" /\ f.req = r
  BY DEF BoundFrame, BoundPlaces, B!Waiting
<1>2. stack' = [stack EXCEPT ![t] = [stack[t] EXCEPT ![Len(stack[t])] = f]]
  BY DEF B!Depth
<1>. HIDE DEF f
<1>. QED
  BY <1>1, <1>2, TopBecomes

-----------------------------------------------------------------------------
(* What a step does to a thread.                                           *)

(* What one step of a thread leaves alone for the others.                  *)
LEMMA SameStack ==
  ASSUME NEW u, stack'[u] = stack[u]
  PROVE  B!At(u)' = B!At(u) /\ B!Top(u)' = B!Top(u)
BY DEF B!At, B!Top, B!Depth

(* Nothing is on its way to a thread that does not wait, and the peer      *)
(* waits for it with all its requests.                                     *)
LEMMA AllCalled ==
  ASSUME BoundTypes, NEW t \in B!Threads, ThreadInv(t),
         stack[t] # << >>, B!At(t) \notin Resting
  PROVE  /\ InFlight(t) = 0 /\ \A m \in Mail : ~OnItsWay(t, m)
         /\ \A a \in Open(t) : a.seq \in calling
<1>1. \A m \in Mail : ~OnItsWay(t, m)
  BY DEF ThreadInv, OneMessage, Fits
<1>2. InFlight(t) = 0
  BY <1>1, NothingOnItsWay
<1>3. \A a \in Open(t) : a.seq \in calling
  BY DEF ThreadInv, PeersTurn
<1>. QED
  BY <1>1, <1>2, <1>3

(* A thread that nothing happens to.                                       *)
Still(u) ==
  /\ stack'[u] = stack[u] /\ occupied'[u] = occupied[u]
  /\ MailStays(u)
  /\ Open(u)' = Open(u) /\ \A a \in Open(u) : a.seq \in calling' <=> a.seq \in calling
  /\ u \in done => u \in done'

LEMMA StillThread ==
  ASSUME NEW u \in B!Threads, ThreadInv(u), Still(u)
  PROVE  ThreadInv(u)'
<1>1. B!At(u)' = B!At(u) /\ B!Top(u)' = B!Top(u) /\ stack'[u] = stack[u]
  BY SameStack DEF Still
<1>2. \A r : Asked(u, r)' <=> Asked(u, r)
  BY DEF Still, Asked, Open
<1>3. \A m \in Mail : Linked(u, m) => Linked(u, m)'
  <2>1. ASSUME NEW r, Asked(u, r) PROVE r \in calling' <=> r \in calling
    BY <2>1 DEF Asked, Open, Still
  <2>. QED
    BY <1>2, <2>1 DEF Linked
<1>4. (occupied[u] = Duties(u))'
  BY <1>1 DEF Still, MailStays, ThreadInv, Duties
<1>5. OneMessage(u)'
  BY <1>1, <1>3 DEF Still, MailStays, ThreadInv, OneMessage, Fits
<1>6. FramesFit(u)'
  BY <1>1, <1>3 DEF ThreadInv, FramesFit, FrameFits
<1>7. PeersTurn(u)'
  BY <1>1 DEF Still, MailStays, ThreadInv, PeersTurn
<1>8. Unused(u)' /\ OccupiedInWait(u)'
  BY <1>1 DEF Still, MailStays, ThreadInv, Unused, OccupiedInWait
<1>. QED
  BY <1>4, <1>5, <1>6, <1>7, <1>8 DEF ThreadInv

(* The requests of t stay what they are.                                   *)
SameCalls(t) ==
  Open(t)' = Open(t) /\ \A a \in Open(t) : a.seq \in calling' <=> a.seq \in calling

(* While t makes no call, what its frames are linked to stays.             *)
LEMMA SameLinks ==
  ASSUME NEW t \in B!Threads, SameCalls(t)
  PROVE  /\ \A r : Asked(t, r)' <=> Asked(t, r)
         /\ \A m \in Mail : Linked(t, m) => Linked(t, m)'
<1>1. \A r : Asked(t, r)' <=> Asked(t, r)
  BY DEF SameCalls, Asked, Open
<1>2. ASSUME NEW r, Asked(t, r) PROVE r \in calling' <=> r \in calling
  BY <1>2 DEF Asked, Open, SameCalls
<1>. QED
  BY <1>1, <1>2 DEF Linked

(* The frames below the top fit as long as their messages do.              *)
Below(t, m) == \E i \in 1..(Len(stack[t]) - 1) : stack[t][i].msg = m

(* A new innermost frame that fits leaves a stack that fits.               *)
LEMMA TopFits ==
  ASSUME BoundTypes, NEW t \in B!Threads, stack[t] # << >>, FramesFit(t),
         NEW f \in BoundFrame, TopIs(t, f), FrameFits(t, f)',
         \A m \in Mail : Below(t, m) /\ Linked(t, m) => Linked(t, m)'
  PROVE  FramesFit(t)'
<1>1. Len(stack[t]) \in Nat \ {0}
  BY BoundTopOf
<1>2. \A n \in Nat \ {0} : \A i \in 1..n : i = n \/ i \in 1..(n - 1)
  OBVIOUS
<1>3. \A n \in Nat \ {0} : \A i \in 1..(n - 1) : i \in 1..n /\ i # n
  OBVIOUS
<1>4. /\ Len(stack'[t]) = Len(stack[t])
      /\ \A i \in 1..Len(stack[t]) : stack'[t][i] = IF i = Len(stack[t]) THEN f ELSE stack[t][i]
  BY DEF TopIs
<1>5. \A i \in 1..(Len(stack[t]) - 1) : stack'[t][i] = stack[t][i]
  BY <1>1, <1>3, <1>4
<1>6. \A i \in 1..(Len(stack'[t]) - 1) : stack'[t][i].at = "handle"
  BY <1>4, <1>5 DEF FramesFit
<1>7. ASSUME NEW g, NEW i \in 1..(Len(stack[t]) - 1), g = stack[t][i], FrameFits(t, g)
      PROVE  FrameFits(t, g)'
  <2>1. g.at = "handle" /\ g.msg \in Mail /\ Linked(t, g.msg) /\ Below(t, g.msg)
    BY <1>7 DEF FramesFit, FrameFits, Engaged, Below
  <2>2. PICK m \in Mail : m = g.msg
    BY <2>1
  <2>3. Linked(t, m)'
    BY <2>1, <2>2
  <2>. QED
    BY <1>7, <2>1, <2>2, <2>3 DEF FrameFits
<1>8. \A i \in 1..Len(stack'[t]) : FrameFits(t, stack[t][i])'
  <2>. SUFFICES ASSUME NEW i \in 1..Len(stack[t]) PROVE FrameFits(t, stack[t][i])'
    BY <1>4
  <2>1. CASE i = Len(stack[t])
    BY <1>4, <2>1 DEF FrameFits
  <2>2. CASE i \in 1..(Len(stack[t]) - 1)
    <3>1. FrameFits(t, stack[t][i])
      BY <1>1, <1>3, <2>2 DEF FramesFit
    <3>2. PICK g : g = stack[t][i]
      OBVIOUS
    <3>3. FrameFits(t, g)'
      BY <1>7, <2>2, <3>1, <3>2
    <3>. QED
      BY <1>5, <2>2, <3>2, <3>3 DEF FrameFits
  <2>. QED
    BY <1>1, <1>2, <2>1, <2>2
<1>. QED
  BY <1>6, <1>8 DEF FramesFit

(* A thread that waits goes on waiting, elsewhere.                         *)
LEMMA RestsOn ==
  ASSUME BoundTypes, NEW t \in B!Threads, ThreadInv(t), stack[t] # << >>,
         NEW f \in BoundFrame, TopIs(t, f),
         B!At(t) \in Resting, f.at \in Resting, f.req = B!Top(t).req,
         MailStays(t), SameCalls(t), occupied'[t] = occupied[t]
  PROVE  ThreadInv(t)'
<1>1. /\ B!Top(t) \in BoundFrame /\ B!At(t) = B!Top(t).at /\ Len(stack[t]) \in Nat \ {0}
      /\ stack[t] \in Seq(BoundFrame)
  BY BoundTopOf
<1>2. B!Top(t) \notin Busy /\ f \notin Busy
  BY <1>1 DEF Busy, Resting
<1>3. /\ B!At(t)' = f.at /\ B!Top(t)' = f /\ stack'[t] # << >> /\ Len(stack'[t]) = Len(stack[t])
      /\ \A i \in 1..Len(stack[t]) : stack'[t][i] = IF i = Len(stack[t]) THEN f ELSE stack[t][i]
      /\ stack' \in [B!Threads -> Seq(BoundFrame)]
  BY DEF TopIs
<1>4. CountIn(stack'[t], Busy) = CountIn(stack[t], Busy)
  <2>1. CountIn(stack'[t], Busy) \in Nat /\ CountIn(stack[t], Busy) \in Nat
    BY <1>1, <1>3, CountInNat
  <2>. QED
    BY <1>2, <2>1 DEF TopIs, One
<1>5. (occupied[t] = Duties(t))'
  BY <1>4 DEF MailStays, SameCalls, ThreadInv, Duties
<1>6. OneMessage(t)'
  BY <1>3, SameLinks DEF MailStays, ThreadInv, OneMessage, Fits
<1>7. FramesFit(t)'
  <2>1. FrameFits(t, f)'
    BY DEF FrameFits, Resting, Engaged
  <2>. QED
    BY <2>1, SameLinks, TopFits DEF ThreadInv
<1>8. PeersTurn(t)'
  BY <1>3 DEF SameCalls, MailStays, ThreadInv, PeersTurn
<1>9. Unused(t)' /\ OccupiedInWait(t)'
  BY <1>3 DEF ThreadInv, Unused, OccupiedInWait
<1>. QED
  BY <1>5, <1>6, <1>7, <1>8, <1>9 DEF ThreadInv

(* It takes a message that was on its way to it; or, when it is not        *)
(* occupied, one that is for nobody.                                       *)
LEMMA TakesOn ==
  ASSUME BoundTypes, NEW t \in B!Threads, ThreadInv(t), stack[t] # << >>,
         NEW m \in Mail, NEW f \in BoundFrame, TopIs(t, f), B!At(t) \in Resting,
         f.at = "dispatch", f.req = B!Top(t).req, f.msg = m,
         \/ MailGone(t, m)
         \/ m.of = 0 /\ InFlight(t) = 0 /\ occupied[t] = 0 /\ MailStays(t),
         BoundTypes', SameCalls(t), occupied'[t] = occupied[t]
  PROVE  ThreadInv(t)'
<1>1. /\ B!Top(t) \in BoundFrame /\ B!At(t) = B!Top(t).at /\ Len(stack[t]) \in Nat \ {0}
      /\ stack[t] \in Seq(BoundFrame)
  BY BoundTopOf
<1>2. B!Top(t) \notin Busy /\ (f \in Busy <=> m \in Replies)
  BY <1>1 DEF Busy, Resting, Replies
<1>3. /\ B!At(t)' = "dispatch" /\ B!Top(t)' = f /\ stack'[t] # << >>
      /\ stack' \in [B!Threads -> Seq(BoundFrame)]
  BY DEF TopIs
<1>4. CountIn(stack'[t], Busy) = CountIn(stack[t], Busy) + One(m \in Replies)
  <2>1. CountIn(stack'[t], Busy) \in Nat /\ CountIn(stack[t], Busy) \in Nat
    BY <1>1, <1>3, CountInNat
  <2>. QED
    BY <1>2, <2>1 DEF TopIs, One
<1>5. /\ InFlight(t)' = 0 /\ RepliesFor(t)' + One(m \in Replies) = RepliesFor(t)
      /\ \A a \in Open(t) : a.seq \in calling
      /\ m.of = B!Top(t).req /\ Linked(t, m)
  <2>1. CASE MailGone(t, m)
    <3>1. Fits(t, m) /\ InFlight(t) \in {0, 1}
      BY <2>1 DEF MailGone, ThreadInv, OneMessage
    <3>2. InFlight(t)' \in Nat
      BY CountsNext
    <3>3. InFlight(t)' = 0 /\ InFlight(t) # 0
      BY <2>1, <3>1, <3>2 DEF MailGone
    <3>4. \A a \in Open(t) : a.seq \in calling
      BY <3>3 DEF ThreadInv, PeersTurn
    <3>. QED
      BY <2>1, <3>1, <3>3, <3>4 DEF MailGone, Fits
  <2>2. CASE m.of = 0 /\ InFlight(t) = 0 /\ occupied[t] = 0 /\ MailStays(t)
    <3>1. Open(t) = {} /\ B!Top(t).req = 0
      BY <2>2, FreeHasNothing
    <3>2. m \notin Replies /\ Linked(t, m)
      BY <2>2 DEF Mail, Replies, Linked
    <3>3. RepliesFor(t)' + One(m \in Replies) = RepliesFor(t)
      BY <2>2, <3>2, CountsAreNat DEF MailStays, One
    <3>. QED
      BY <2>2, <3>1, <3>2, <3>3 DEF MailStays
  <2>. QED
    BY <2>1, <2>2
<1>6. (occupied[t] = Duties(t))'
  <2>1. Cardinality(Open(t)) \in Nat /\ RepliesFor(t)' \in Nat /\ CountIn(stack[t], Busy) \in Nat
        /\ RepliesFor(t) \in Nat /\ One(m \in Replies) \in Nat
    BY CountsAreNat, CountsNext DEF One
  <2>2. Duties(t)' = Cardinality(Open(t)) + RepliesFor(t)' + CountIn(stack'[t], Busy)
    BY DEF SameCalls, Duties
  <2>3. occupied[t] = Cardinality(Open(t)) + RepliesFor(t) + CountIn(stack[t], Busy)
    BY DEF ThreadInv, Duties
  <2>. QED
    BY <1>4, <1>5, <2>1, <2>2, <2>3
<1>7. OneMessage(t)'
  <2>1. \A x \in Mail : ~OnItsWay(t, x)'
    BY <1>5, CountsNext
  <2>. QED
    BY <1>5, <2>1 DEF OneMessage
<1>8. FramesFit(t)'
  <2>1. FrameFits(t, f)'
    BY <1>5, SameLinks DEF FrameFits
  <2>. QED
    BY <2>1, SameLinks, TopFits DEF ThreadInv
<1>9. PeersTurn(t)'
  BY <1>5 DEF SameCalls, PeersTurn
<1>10. Unused(t)' /\ OccupiedInWait(t)'
  BY <1>3 DEF Unused, OccupiedInWait, Resting
<1>. QED
  BY <1>6, <1>7, <1>8, <1>9, <1>10 DEF ThreadInv

(* It dispatches a request: the handler runs.                              *)
LEMMA HandlesOn ==
  ASSUME BoundTypes, BoundTypes', NEW t \in B!Threads, ThreadInv(t), stack[t] # << >>,
         NEW f \in BoundFrame, TopIs(t, f), B!At(t) = "dispatch",
         B!Top(t).msg.kind = "request",
         f.at = "handle", f.req = B!Top(t).req, f.msg = B!Top(t).msg,
         MailStays(t), SameCalls(t), occupied'[t] = occupied[t] + 1
  PROVE  ThreadInv(t)'
<1>1. /\ B!Top(t) \in BoundFrame /\ B!At(t) = B!Top(t).at /\ Len(stack[t]) \in Nat \ {0}
      /\ stack[t] \in Seq(BoundFrame) /\ B!Top(t) = stack[t][Len(stack[t])]
  BY BoundTopOf
<1>2. B!Top(t) \notin Busy /\ f \in Busy
  BY <1>1 DEF Busy
<1>3. /\ B!At(t)' = "handle" /\ B!Top(t)' = f /\ stack'[t] # << >>
      /\ stack' \in [B!Threads -> Seq(BoundFrame)]
  BY DEF TopIs
<1>4. CountIn(stack'[t], Busy) = CountIn(stack[t], Busy) + 1
  <2>1. CountIn(stack'[t], Busy) \in Nat /\ CountIn(stack[t], Busy) \in Nat
    BY <1>1, <1>3, CountInNat
  <2>. QED
    BY <1>2, <2>1 DEF TopIs, One
<1>5. /\ InFlight(t) = 0 /\ \A m \in Mail : ~OnItsWay(t, m)
      /\ \A a \in Open(t) : a.seq \in calling
  BY AllCalled DEF Resting
<1>6. (occupied[t] = Duties(t))'
  <2>1. Cardinality(Open(t)) \in Nat /\ RepliesFor(t) \in Nat /\ CountIn(stack[t], Busy) \in Nat
    BY CountsAreNat
  <2>2. Duties(t)' = Cardinality(Open(t)) + RepliesFor(t) + CountIn(stack'[t], Busy)
    BY DEF SameCalls, MailStays, Duties
  <2>3. occupied[t] = Cardinality(Open(t)) + RepliesFor(t) + CountIn(stack[t], Busy)
    BY DEF ThreadInv, Duties
  <2>. QED
    BY <1>4, <2>1, <2>2, <2>3
<1>7. OneMessage(t)'
  BY <1>5 DEF MailStays, OneMessage
<1>8. FramesFit(t)'
  <2>1. FrameFits(t, B!Top(t))
    BY <1>1 DEF ThreadInv, FramesFit
  <2>2. f.msg \in Mail /\ f.msg.of = f.req /\ Linked(t, f.msg)
    BY <1>1, <2>1 DEF FrameFits, Engaged
  <2>3. PICK m \in Mail : m = f.msg
    BY <2>2
  <2>4. Linked(t, m)'
    BY <2>2, <2>3, SameLinks
  <2>5. FrameFits(t, f)'
    BY <2>2, <2>3, <2>4 DEF FrameFits
  <2>. QED
    BY <2>5, SameLinks, TopFits DEF ThreadInv
<1>9. PeersTurn(t)'
  BY <1>5 DEF SameCalls, PeersTurn
<1>10. Unused(t)' /\ OccupiedInWait(t)'
  BY <1>3 DEF Unused, OccupiedInWait, Resting
<1>. QED
  BY <1>6, <1>7, <1>8, <1>9, <1>10 DEF ThreadInv

(* It dispatches the reply it was waiting for, and waits for nothing.      *)
LEMMA RepliedOn ==
  ASSUME BoundTypes, BoundTypes', NEW t \in B!Threads, ThreadInv(t), stack[t] # << >>,
         NEW f \in BoundFrame, TopIs(t, f), B!At(t) = "dispatch",
         B!Top(t).msg.kind = "reply", f.at = "loop", f.req = 0,
         MailStays(t), SameCalls(t), occupied'[t] = occupied[t] - 1
  PROVE  ThreadInv(t)'
<1>1. /\ B!Top(t) \in BoundFrame /\ B!At(t) = B!Top(t).at /\ Len(stack[t]) \in Nat \ {0}
      /\ stack[t] \in Seq(BoundFrame)
  BY BoundTopOf
<1>2. B!Top(t) \in Busy /\ f \notin Busy
  BY <1>1 DEF Busy
<1>3. /\ B!At(t)' = "loop" /\ B!Top(t)' = f /\ stack'[t] # << >>
      /\ stack' \in [B!Threads -> Seq(BoundFrame)]
  BY DEF TopIs
<1>4. CountIn(stack'[t], Busy) + 1 = CountIn(stack[t], Busy)
  <2>1. CountIn(stack'[t], Busy) \in Nat /\ CountIn(stack[t], Busy) \in Nat
    BY <1>1, <1>3, CountInNat
  <2>. QED
    BY <1>2, <2>1 DEF TopIs, One
<1>5. /\ InFlight(t) = 0 /\ \A m \in Mail : ~OnItsWay(t, m)
      /\ \A a \in Open(t) : a.seq \in calling
  BY AllCalled DEF Resting
<1>6. (occupied[t] = Duties(t))'
  <2>1. Cardinality(Open(t)) \in Nat /\ RepliesFor(t) \in Nat
        /\ CountIn(stack[t], Busy) \in Nat /\ CountIn(stack'[t], Busy) \in Nat
    BY <1>3, CountsAreNat, CountInNat
  <2>2. Duties(t)' = Cardinality(Open(t)) + RepliesFor(t) + CountIn(stack'[t], Busy)
    BY DEF SameCalls, MailStays, Duties
  <2>3. occupied[t] = Cardinality(Open(t)) + RepliesFor(t) + CountIn(stack[t], Busy)
    BY DEF ThreadInv, Duties
  <2>. QED
    BY <1>4, <2>1, <2>2, <2>3
<1>7. OneMessage(t)'
  BY <1>5 DEF MailStays, OneMessage
<1>8. FramesFit(t)'
  <2>1. FrameFits(t, f)'
    BY DEF FrameFits, Engaged
  <2>. QED
    BY <2>1, SameLinks, TopFits DEF ThreadInv
<1>9. PeersTurn(t)'
  BY <1>5 DEF SameCalls, PeersTurn
<1>10. Unused(t)' /\ OccupiedInWait(t)'
  BY <1>3 DEF Unused, OccupiedInWait, Resting
<1>. QED
  BY <1>6, <1>7, <1>8, <1>9, <1>10 DEF ThreadInv

(* The handler answers; the request that it served is open again for the   *)
(* peer to answer.                                                         *)
LEMMA AnswersOn ==
  ASSUME BoundTypes, BoundTypes', NEW t \in B!Threads, ThreadInv(t), stack[t] # << >>, ReqInv,
         NEW f \in BoundFrame, TopIs(t, f), B!At(t) \in {"handle", "reply"},
         f.at = "loop", f.req = B!Top(t).req,
         MailStays(t), asked' = asked, calling' = calling \ {B!Top(t).msg.of},
         occupied'[t] = occupied[t] - 1
  PROVE  ThreadInv(t)' /\ \A u \in B!Threads \ {t} : SameCalls(u)
<1>1. /\ B!Top(t) \in BoundFrame /\ B!At(t) = B!Top(t).at /\ Len(stack[t]) \in Nat \ {0}
      /\ stack[t] \in Seq(BoundFrame) /\ B!Top(t) = stack[t][Len(stack[t])]
  BY BoundTopOf
<1>2. B!Top(t) \in Busy /\ f \notin Busy
  BY <1>1 DEF Busy
<1>3. /\ B!At(t)' = "loop" /\ B!Top(t)' = f /\ stack'[t] # << >>
      /\ stack' \in [B!Threads -> Seq(BoundFrame)]
  BY DEF TopIs
<1>4. CountIn(stack'[t], Busy) + 1 = CountIn(stack[t], Busy)
  <2>1. CountIn(stack'[t], Busy) \in Nat /\ CountIn(stack[t], Busy) \in Nat
    BY <1>1, <1>3, CountInNat
  <2>. QED
    BY <1>2, <2>1 DEF TopIs, One
<1>5. /\ InFlight(t) = 0 /\ \A m \in Mail : ~OnItsWay(t, m)
      /\ \A a \in Open(t) : a.seq \in calling
  BY AllCalled DEF Resting
<1>6. PICK m \in Mail : /\ m = B!Top(t).msg /\ m.of = f.req /\ m.kind = "request"
                        /\ Linked(t, m)
  <2>1. FrameFits(t, B!Top(t))
    BY <1>1 DEF ThreadInv, FramesFit
  <2>. QED
    BY <1>1, <2>1 DEF FrameFits, Engaged
<1>7. /\ m.of # 0 => Asked(t, m.of)
      /\ calling' = calling \ {m.of}
      /\ Open(t)' = Open(t) /\ \A u \in B!Threads : Open(u)' = Open(u)
  BY <1>6 DEF Linked, Open
<1>8. (occupied[t] = Duties(t))' /\ (f.req # 0 => occupied'[t] # 0)
  <2>1. Cardinality(Open(t)) \in Nat /\ RepliesFor(t) \in Nat
        /\ CountIn(stack[t], Busy) \in Nat /\ CountIn(stack'[t], Busy) \in Nat
    BY <1>3, CountsAreNat, CountInNat
  <2>2. Duties(t)' = Cardinality(Open(t)) + RepliesFor(t) + CountIn(stack'[t], Busy)
    BY <1>7 DEF MailStays, Duties
  <2>3. occupied[t] = Cardinality(Open(t)) + RepliesFor(t) + CountIn(stack[t], Busy)
    BY DEF ThreadInv, Duties
  <2>4. occupied'[t] = Cardinality(Open(t)) + RepliesFor(t) + CountIn(stack'[t], Busy)
    BY <1>4, <2>1, <2>3
  <2>5. f.req # 0 => Cardinality(Open(t)) # 0
    <3>1. f.req # 0 => Open(t) # {}
      BY <1>6, <1>7 DEF Asked, Open
    <3>. QED
      BY <3>1, CountsAreNat
  <2>. QED
    BY <2>1, <2>2, <2>4, <2>5
<1>9. OneMessage(t)'
  BY <1>5 DEF MailStays, OneMessage
<1>10. ASSUME NEW x \in Mail, Below(t, x), Linked(t, x)
       PROVE  Linked(t, x)'
  <2>1. PICK i \in 1..(Len(stack[t]) - 1) : stack[t][i].msg = x
    BY <1>10 DEF Below
  <2>2. i \in 1..Len(stack[t]) /\ i # Len(stack[t]) /\ Len(stack[t]) \in 1..Len(stack[t])
    BY <1>1
  <2>3. stack[t][i].at = "handle" /\ x.kind = "request" /\ x.of = stack[t][i].req
    BY <2>1, <2>2 DEF ThreadInv, FramesFit, FrameFits, Engaged
  <2>4. stack[t][i].req # 0 => stack[t][i].req # B!Top(t).req
    BY <1>1, <2>2 DEF ReqInv
  <2>5. x.of # 0 => x.of # m.of
    BY <1>6, <2>3, <2>4
  <2>. QED
    BY <1>7, <1>10, <2>3, <2>5 DEF Linked, Asked
<1>11. FramesFit(t)'
  <2>1. FrameFits(t, f)'
    BY DEF FrameFits, Engaged
  <2>. QED
    BY <1>10, <2>1, TopFits DEF ThreadInv
<1>12. PeersTurn(t)'
  <2>. SUFFICES ASSUME NEW a \in Open(t), a.seq \notin calling'
                PROVE  a.seq = m.of /\ \A b \in Open(t) : b.seq \notin calling' => b = a
    BY <1>3, <1>5, <1>6, <1>7 DEF MailStays, PeersTurn, Resting
  <2>1. \A b \in Open(t) : b.seq \notin calling' => b.seq = m.of
    BY <1>5, <1>7
  <2>2. \A b \in Open(t) : b \in asked
    BY DEF Open
  <2>. QED
    BY <2>1, <2>2 DEF ReqInv
<1>13. Unused(t)' /\ OccupiedInWait(t)'
  BY <1>3, <1>8 DEF Unused, OccupiedInWait
<1>14. ASSUME NEW u \in B!Threads \ {t}, NEW a \in Open(u)
       PROVE  a.seq \in calling' <=> a.seq \in calling
  <2>1. CASE m.of = 0
    <3>1. a.seq # 0
      BY <1>14 DEF BoundTypes, Open
    <3>. QED
      BY <1>7, <2>1, <3>1
  <2>2. CASE m.of # 0
    <3>1. [seq |-> m.of, by |-> t] \in asked /\ a \in asked /\ a.by # t
      BY <1>7, <1>14, <2>2 DEF Asked, Open
    <3>2. a.seq # m.of
      BY <3>1 DEF ReqInv
    <3>. QED
      BY <1>7, <3>2
  <2>. QED
    BY <2>1, <2>2
<1>. QED
  BY <1>7, <1>8, <1>9, <1>11, <1>12, <1>13, <1>14 DEF ThreadInv, SameCalls

(* A loop around serve() ends: a frame less, and the handler below goes on.*)
Popped(t) ==
  /\ stack' \in [B!Threads -> Seq(BoundFrame)]
  /\ \A u \in B!Threads \ {t} : stack'[u] = stack[u]
  /\ Len(stack'[t]) = Len(stack[t]) - 1
  /\ Len(stack[t]) = 1 => stack'[t] = << >> /\ B!At(t)' = "idle"
  /\ Len(stack[t]) # 1 =>
       /\ stack'[t] # << >> /\ B!At(t)' = "reply"
       /\ \A i \in 1..(Len(stack[t]) - 2) : stack'[t][i] = stack[t][i]
       /\ stack'[t][Len(stack[t]) - 1] = [stack[t][Len(stack[t]) - 1] EXCEPT !.at = "reply"]
       /\ CountIn(stack'[t], Busy) + One(stack[t][Len(stack[t]) - 1] \in Busy)
            + One(B!Top(t) \in Busy) = CountIn(stack[t], Busy) + 1

(* The innermost frame ends.                                               *)
LEMMA BoundUnwinds ==
  ASSUME BoundTypes, NEW t \in B!Threads, stack[t] # << >>, stack' = B!Unwound(t)
  PROVE  Popped(t)
<1>1. stack[t] \in Seq(BoundFrame) /\ B!Top(t) = stack[t][Len(stack[t])]
  BY BoundTopOf
<1>2. PICK b : b = SubSeq(stack[t], 1, Len(stack[t]) - 1)
  OBVIOUS
<1>3. /\ b \in Seq(BoundFrame) /\ Len(b) = Len(stack[t]) - 1
      /\ \A i \in 1..(Len(stack[t]) - 1) : b[i] = stack[t][i]
      /\ CountIn(stack[t], Busy) = CountIn(b, Busy) + One(B!Top(t) \in Busy)
  BY <1>1, <1>2, FrontAndLast, CountInFront
<1>4. PICK n \in Nat \ {0} : n = Len(stack[t])
  BY <1>1, FrontAndLast
<1>5. stack' = [stack EXCEPT ![t] = IF b = << >> THEN b
                                   ELSE [b EXCEPT ![Len(b)].at = "reply"]]
  BY <1>2 DEF B!Unwound, B!Depth
<1>6. CASE n = 1
  <2>1. b = << >>
    BY <1>3, <1>4, <1>6, EmptySeq
  <2>2. /\ stack' \in [B!Threads -> Seq(BoundFrame)] /\ stack'[t] = << >>
        /\ \A u \in B!Threads \ {t} : stack'[u] = stack[u]
    BY <1>3, <1>5, <2>1 DEF BoundTypes
  <2>3. B!At(t)' = "idle" /\ Len(stack'[t]) = n - 1
    BY <1>6, <2>2 DEF B!At
  <2>. QED
    BY <1>4, <1>6, <2>2, <2>3 DEF Popped
<1>7. CASE n # 1
  <2>1. Len(b) = n - 1 /\ n - 1 \in Nat \ {0} /\ b # << >> /\ b[n - 1] \in BoundFrame
    <3>1. Len(b) = n - 1 /\ n - 1 \in Nat \ {0} /\ n - 1 \in 1..Len(b)
      <4>1. \A k \in Nat \ {0} : k # 1 => k - 1 \in Nat \ {0} /\ k - 1 \in 1..(k - 1)
        OBVIOUS
      <4>2. Len(b) = n - 1
        BY <1>3, <1>4
      <4>. QED
        BY <1>7, <4>1, <4>2
    <3>2. b # << >>
      BY <3>1, EmptySeq
    <3>3. b[n - 1] \in BoundFrame
      BY <1>3, <3>1, ElementOfSeq
    <3>. QED
      BY <3>1, <3>2, <3>3
  <2>2. PICK g : g = [b[n - 1] EXCEPT !.at = "reply"]
    OBVIOUS
  <2>3. g \in BoundFrame /\ g \in Busy /\ g.at = "reply"
    BY <2>1, <2>2 DEF BoundFrame, BoundPlaces, Busy
  <2>4. PICK r : r = [b EXCEPT ![Len(b)] = g]
    OBVIOUS
  <2>5. /\ r \in Seq(BoundFrame) /\ Len(r) = Len(b)
        /\ CountIn(r, Busy) + One(b[n - 1] \in Busy) = CountIn(b, Busy) + One(g \in Busy)
    <3>1. /\ [b EXCEPT ![Len(b)] = g] \in Seq(BoundFrame)
          /\ Len([b EXCEPT ![Len(b)] = g]) = Len(b)
          /\ CountIn([b EXCEPT ![Len(b)] = g], Busy) + One(b[Len(b)] \in Busy)
               = CountIn(b, Busy) + One(g \in Busy)
      BY <1>3, <2>1, <2>3, CountInLast
    <3>2. b[Len(b)] = b[n - 1]
      BY <2>1
    <3>. QED
      BY <2>4, <3>1, <3>2
  <2>6. \A i \in 1..(n - 1) : r[i] = IF i = n - 1 THEN g ELSE b[i]
    BY <1>3, <2>1, <2>4, LenProperties
  <2>7. stack' \in [B!Threads -> Seq(BoundFrame)] /\ stack'[t] = r
        /\ \A u \in B!Threads \ {t} : stack'[u] = stack[u]
    <3>1. stack' = [stack EXCEPT ![t] = r]
      BY <1>5, <2>1, <2>2, <2>4
    <3>. QED
      BY <2>5, <3>1 DEF BoundTypes
  <2>8. r # << >> /\ r[n - 1] = g /\ n - 1 \in 1..(n - 1)
    BY <2>1, <2>5, <2>6, EmptySeq
  <2>9. B!At(t)' = "reply"
    BY <2>1, <2>3, <2>5, <2>7, <2>8 DEF B!At, B!Top, B!Depth
  <2>10. /\ \A i \in 1..(n - 2) : r[i] = stack[t][i]
        /\ g = [stack[t][n - 1] EXCEPT !.at = "reply"] /\ b[n - 1] = stack[t][n - 1]
    <3>1. \A i \in 1..(n - 2) : i \in 1..(n - 1) /\ i # n - 1
      OBVIOUS
    <3>. QED
      BY <1>3, <1>4, <2>2, <2>6, <2>8, <3>1
  <2>11. CountIn(r, Busy) + One(stack[t][n - 1] \in Busy)
            + One(B!Top(t) \in Busy) = CountIn(stack[t], Busy) + 1
    <3>1. CountIn(r, Busy) \in Nat /\ CountIn(b, Busy) \in Nat /\ CountIn(stack[t], Busy) \in Nat
          /\ One(B!Top(t) \in Busy) \in Nat /\ One(b[n - 1] \in Busy) \in Nat
          /\ One(g \in Busy) = 1
      BY <1>1, <1>3, <2>3, <2>5, CountInNat DEF One
    <3>2. One(stack[t][n - 1] \in Busy) = One(b[n - 1] \in Busy)
      BY <2>10
    <3>. QED
      BY <1>3, <2>1, <2>5, <3>1, <3>2
  <2>12. Len(stack'[t]) = n - 1
    BY <2>1, <2>5, <2>7
  <2>. QED
    BY <1>4, <1>7, <2>7, <2>8, <2>9, <2>10, <2>11, <2>12 DEF Popped
<1>. QED
  BY <1>6, <1>7

(* The last loop of a caller ends when its request is answered or late;    *)
(* that of a temporary thread, when it is not occupied.                    *)
LEMMA EndsOn ==
  ASSUME BoundTypes, BoundTypes', NEW t \in B!Threads, ThreadInv(t),
         Len(stack[t]) = 1, Popped(t), B!At(t) = "loop", B!Unbound \notin B!Threads,
         t \in done' \/ (occupied[t] = 0 /\ deque[t] = << >>),
         MailStays(t), SameCalls(t), occupied'[t] = occupied[t], t \in done => t \in done'
  PROVE  ThreadInv(t)'
<1>1. stack'[t] = << >> /\ stack[t] # << >> /\ B!At(t)' = "idle"
  <2>1. Len(<< >>) # 1
    OBVIOUS
  <2>. QED
    BY <2>1 DEF Popped
<1>2. /\ B!Top(t) \in BoundFrame /\ B!At(t) = B!Top(t).at
      /\ stack[t] \in Seq(BoundFrame) /\ B!Top(t) = stack[t][1]
  BY <1>1, BoundTopOf
<1>3. CountIn(stack'[t], Busy) = 0 /\ CountIn(stack[t], Busy) = 0
  <2>1. \A i \in 1..1 : stack[t][i] \notin Busy
    BY <1>2 DEF Busy
  <2>. QED
    BY <1>1, <1>2, <2>1, CountInEmpty, CountInNat
<1>4. (occupied[t] = Duties(t))'
  BY <1>3 DEF SameCalls, MailStays, ThreadInv, Duties
<1>5. OneMessage(t)'
  BY <1>1, SameLinks DEF MailStays, ThreadInv, OneMessage, Fits
<1>6. FramesFit(t)'
  BY <1>1 DEF FramesFit
<1>7. PeersTurn(t)'
  BY <1>1 DEF SameCalls, MailStays, ThreadInv, PeersTurn
<1>8. Unused(t)'
  <2>1. CASE t \in done'
    BY <2>1 DEF Unused
  <2>2. CASE occupied[t] = 0 /\ deque[t] = << >>
    <3>1. Open(t) = {} /\ \A m \in Mail : OnItsWay(t, m) => m.of = 0
      BY <2>2, FreeHasNothing
    <3>2. \A m \in Mail : ~OnItsWay(t, m)
      BY <2>2, <3>1 DEF OnItsWay, Mail
    <3>3. InFlight(t) = 0
      BY <3>2, NothingOnItsWay
    <3>. QED
      BY <3>1, <3>3 DEF MailStays, SameCalls, Unused
  <2>. QED
    BY <2>1, <2>2
<1>9. OccupiedInWait(t)'
  BY <1>1 DEF OccupiedInWait, Resting
<1>. QED
  BY <1>4, <1>5, <1>6, <1>7, <1>8, <1>9 DEF ThreadInv

(* A nested loop ends when its request is answered.                        *)
LEMMA GoesBack ==
  ASSUME BoundTypes, BoundTypes', NEW t \in B!Threads, ThreadInv(t),
         stack[t] # << >>, Len(stack[t]) # 1, Popped(t), B!At(t) = "loop", B!Top(t).req = 0,
         MailStays(t), SameCalls(t), occupied'[t] = occupied[t]
  PROVE  ThreadInv(t)'
<1>1. /\ B!Top(t) \in BoundFrame /\ B!At(t) = B!Top(t).at /\ Len(stack[t]) \in Nat \ {0}
      /\ stack[t] \in Seq(BoundFrame) /\ B!Top(t) = stack[t][Len(stack[t])]
  BY BoundTopOf
<1>. DEFINE n == Len(stack[t]) - 1
<1>2. n \in Nat \ {0} /\ n \in 1..Len(stack[t]) /\ n \in 1..(Len(stack[t]) - 1)
  <2>1. \A k \in Nat \ {0} : k # 1 => /\ k - 1 \in Nat \ {0} /\ k - 1 \in 1..k
                                      /\ k - 1 \in 1..(k - 1)
    OBVIOUS
  <2>. QED
    BY <1>1, <2>1
<1>3. PICK g \in BoundFrame : g = stack[t][n] /\ g.at = "handle" /\ FrameFits(t, g)
  BY <1>1, <1>2, ElementOfSeq DEF ThreadInv, FramesFit
<1>. HIDE DEF n
<1>4. /\ stack'[t] # << >> /\ B!At(t)' = "reply" /\ Len(stack'[t]) = n
      /\ \A i \in 1..(n - 1) : stack'[t][i] = stack[t][i]
      /\ stack'[t][n] = [g EXCEPT !.at = "reply"]
      /\ CountIn(stack'[t], Busy) + One(g \in Busy) + One(B!Top(t) \in Busy)
           = CountIn(stack[t], Busy) + 1
  <2>1. \A k \in Nat : (k - 1) - 1 = k - 2
    OBVIOUS
  <2>. QED
    BY <1>1, <1>3, <2>1 DEF Popped, n
<1>5. CountIn(stack'[t], Busy) = CountIn(stack[t], Busy)
  <2>1. CountIn(stack'[t], Busy) \in Nat /\ CountIn(stack[t], Busy) \in Nat
    BY CountsAreNat, CountsNext
  <2>2. One(g \in Busy) = 1 /\ One(B!Top(t) \in Busy) = 0
    BY <1>1, <1>3 DEF One, Busy
  <2>. QED
    BY <1>4, <2>1, <2>2
<1>6. (occupied[t] = Duties(t))'
  BY <1>5 DEF SameCalls, MailStays, ThreadInv, Duties
<1>7. \A m \in Mail : ~OnItsWay(t, m)
  <2>1. Len(stack[t]) \notin {0, 1}
    BY <1>1
  <2>. QED
    BY <2>1 DEF ThreadInv, OneMessage, Fits
<1>8. InFlight(t) = 0
  BY <1>7, NothingOnItsWay
<1>9. \A a \in Open(t) : a.seq \in calling
  <2>1. \A a \in Open(t) : a.seq # 0
    BY DEF BoundTypes, Open
  <2>. QED
    BY <2>1 DEF ThreadInv, PeersTurn
<1>10. OneMessage(t)'
  BY <1>7, <1>8 DEF MailStays, OneMessage
<1>11. FramesFit(t)'
  <2>1. ASSUME NEW f \in BoundFrame, f.at \in {"handle", "reply"}, FrameFits(t, f)
        PROVE  FrameFits(t, f)'
    BY <2>1, SameLinks DEF FrameFits, Engaged
  <2>2. FrameFits(t, [g EXCEPT !.at = "reply"])'
    <3>1. PICK f \in BoundFrame : f = [g EXCEPT !.at = "reply"]
      BY DEF BoundFrame, BoundPlaces
    <3>2. f.at = "reply" /\ f.msg = g.msg /\ f.req = g.req
      BY <3>1 DEF BoundFrame
    <3>3. FrameFits(t, f)
      BY <1>3, <3>2 DEF FrameFits, Engaged
    <3>. QED
      BY <2>1, <3>1, <3>2, <3>3
  <2>3. \A i \in 1..(n - 1) : i \in 1..(Len(stack[t]) - 1) /\ i \in 1..Len(stack[t])
    BY <1>1 DEF n
  <2>4. \A i \in 1..(n - 1) : stack'[t][i].at = "handle"
    BY <1>4, <2>3 DEF ThreadInv, FramesFit
  <2>5. \A i \in 1..n : FrameFits(t, stack[t][i])'
    <3>. SUFFICES ASSUME NEW i \in 1..n PROVE FrameFits(t, stack[t][i])'
      OBVIOUS
    <3>1. CASE i = n
      BY <1>4, <2>2, <3>1 DEF FrameFits
    <3>2. CASE i # n
      <4>1. i \in 1..(n - 1)
        BY <1>2, <3>2
      <4>2. PICK f \in BoundFrame : f = stack[t][i] /\ f.at = "handle" /\ FrameFits(t, f)
        BY <1>1, <2>3, <4>1, ElementOfSeq DEF ThreadInv, FramesFit
      <4>3. FrameFits(t, f)'
        BY <2>1, <4>2
      <4>. QED
        BY <1>4, <4>1, <4>2, <4>3 DEF FrameFits
    <3>. QED
      BY <3>1, <3>2
  <2>. QED
    BY <1>4, <2>4, <2>5 DEF FramesFit
<1>12. PeersTurn(t)'
  BY <1>9 DEF SameCalls, PeersTurn
<1>13. Unused(t)' /\ OccupiedInWait(t)'
  BY <1>4 DEF Unused, OccupiedInWait, Resting
<1>. QED
  BY <1>6, <1>10, <1>11, <1>12, <1>13 DEF ThreadInv

(* It makes a request: a call that begins, or one of a handler.            *)
LEMMA AsksOn ==
  ASSUME BoundTypes, BoundTypes', NEW t \in B!Threads, ThreadInv(t),
         InFlight(t) = 0, \A a \in Open(t) : a.seq \in calling,
         stack[t] = << >> \/ B!At(t) = "handle",
         stack' = [stack EXCEPT ![t] = Append(@, B!Waiting(seq + 1))],
         asked' = asked \cup {[seq |-> seq + 1, by |-> t]}, calling' = calling,
         MailStays(t), occupied'[t] = occupied[t] + 1
  PROVE  ThreadInv(t)' /\ \A u \in B!Threads \ {t} : SameCalls(u)
<1>1. PICK f : f = B!Waiting(seq + 1)
  OBVIOUS
<1>2. f \in BoundFrame /\ f.at = "loop" /\ f.req = seq + 1 /\ f \notin Busy /\ seq \in Nat
  BY <1>1 DEF BoundTypes, BoundFrame, BoundPlaces, B!Waiting, Busy
<1>3. stack[t] \in Seq(BoundFrame) /\ Len(stack[t]) \in Nat
  BY LenProperties DEF BoundTypes
<1>4. /\ stack'[t] # << >> /\ Len(stack'[t]) = Len(stack[t]) + 1
      /\ \A i \in 1..Len(stack[t]) : stack'[t][i] = stack[t][i]
      /\ stack'[t][Len(stack[t]) + 1] = f
      /\ CountIn(stack'[t], Busy) = CountIn(stack[t], Busy)
  <2>1. stack'[t] = Append(stack[t], f)
    BY <1>1 DEF BoundTypes
  <2>2. CountIn(stack[t], Busy) \in Nat /\ One(f \in Busy) = 0
    BY <1>2, <1>3, CountInNat DEF One
  <2>3. CountIn(Append(stack[t], f), Busy) = CountIn(stack[t], Busy) + One(f \in Busy)
    BY <1>2, <1>3, CountInAppend
  <2>. QED
    BY <1>2, <1>3, <2>1, <2>2, <2>3, AppendProperties
<1>5. B!At(t)' = "loop" /\ B!Top(t)' = f
  BY <1>2, <1>4 DEF B!At, B!Top, B!Depth
<1>6. PICK a : a = [seq |-> seq + 1, by |-> t]
  OBVIOUS
<1>7. /\ a \notin asked /\ a.seq \notin calling /\ a.by = t /\ a.seq = seq + 1
      /\ \A b \in asked : b.seq # seq + 1
  BY <1>2, <1>6 DEF BoundTypes
<1>8. Open(t)' = Open(t) \cup {a} /\ a \notin Open(t)
      /\ \A u \in B!Threads \ {t} : Open(u)' = Open(u)
  BY <1>7, <1>6 DEF Open
<1>9. Cardinality(Open(t)') = Cardinality(Open(t)) + 1
  BY <1>8, CountsAreNat, FS_AddElement
<1>10. (occupied[t] = Duties(t))' /\ occupied'[t] # 0
  <2>1. Cardinality(Open(t)) \in Nat /\ RepliesFor(t) \in Nat /\ CountIn(stack[t], Busy) \in Nat
    BY CountsAreNat
  <2>2. Duties(t)' = Cardinality(Open(t)') + RepliesFor(t) + CountIn(stack[t], Busy)
    BY <1>4 DEF MailStays, Duties
  <2>3. occupied[t] = Cardinality(Open(t)) + RepliesFor(t) + CountIn(stack[t], Busy)
    BY DEF ThreadInv, Duties
  <2>. QED
    BY <1>9, <2>1, <2>2, <2>3
<1>11. OneMessage(t)'
  <2>1. \A m \in Mail : ~OnItsWay(t, m)
    BY NothingOnItsWay
  <2>. QED
    BY <2>1 DEF MailStays, OneMessage
<1>12. FramesFit(t)'
  <2>1. \A i \in 1..Len(stack[t]) : stack[t][i].at = "handle"
    <3>1. CASE stack[t] = << >>
      BY <3>1
    <3>2. CASE stack[t] # << >>
      <4>1. stack[t][Len(stack[t])].at = "handle"
        BY <3>2, BoundTopOf
      <4>2. \A i \in 1..Len(stack[t]) : i = Len(stack[t]) \/ i \in 1..(Len(stack[t]) - 1)
        BY <1>3
      <4>. QED
        BY <4>1, <4>2 DEF ThreadInv, FramesFit
    <3>. QED
      BY <3>1, <3>2
  <2>2. ASSUME NEW g, g.at = "handle", FrameFits(t, g)
        PROVE  FrameFits(t, g)'
    BY <2>2 DEF FrameFits, Engaged, Linked, Asked
  <2>3. FrameFits(t, f)'
    BY <1>2 DEF FrameFits, Engaged
  <2>4. \A i \in 1..Len(stack'[t]) : i \in 1..Len(stack[t]) \/ i = Len(stack[t]) + 1
    BY <1>3, <1>4
  <2>5. \A i \in 1..(Len(stack'[t]) - 1) : i \in 1..Len(stack[t])
    BY <1>3, <1>4
  <2>6. \A i \in 1..Len(stack'[t]) : FrameFits(t, stack[t][i])'
    <3>. SUFFICES ASSUME NEW i \in 1..Len(stack'[t]) PROVE FrameFits(t, stack[t][i])'
      OBVIOUS
    <3>1. CASE i = Len(stack[t]) + 1
      BY <1>4, <2>3, <3>1 DEF FrameFits
    <3>2. CASE i \in 1..Len(stack[t])
      <4>1. PICK g : g = stack[t][i]
        OBVIOUS
      <4>2. g.at = "handle" /\ FrameFits(t, g)
        BY <2>1, <3>2, <4>1 DEF ThreadInv, FramesFit
      <4>3. FrameFits(t, g)'
        BY <2>2, <4>2
      <4>. QED
        BY <1>4, <3>2, <4>1, <4>3 DEF FrameFits
    <3>. QED
      BY <2>4, <3>1, <3>2
  <2>. QED
    BY <1>4, <2>1, <2>5, <2>6 DEF FramesFit
<1>13. PeersTurn(t)'
  <2>1. \A b \in Open(t)' : b.seq \notin calling => b = a
    BY <1>8
  <2>2. InFlight(t)' = 0
    BY DEF MailStays
  <2>. QED
    BY <1>2, <1>5, <1>7, <2>1, <2>2 DEF PeersTurn, Resting
<1>14. Unused(t)' /\ OccupiedInWait(t)'
  BY <1>4, <1>10 DEF Unused, OccupiedInWait
<1>. QED
  BY <1>8, <1>10, <1>11, <1>12, <1>13, <1>14 DEF ThreadInv, SameCalls

(* The peer answers a request of t.                                        *)
LEMMA AnswerComes ==
  ASSUME BoundTypes, BoundTypes', NEW t \in B!Threads, ThreadInv(t),
         stack'[t] = stack[t], occupied'[t] = occupied[t],
         NEW a \in asked, a.by = t, a.seq \notin calling,
         asked' = asked \ {a}, calling' = calling, done' = done,
         NEW m \in Mail, m.kind = "reply", m.of = a.seq, MailComes(t, m)
  PROVE  ThreadInv(t)' /\ \A u \in B!Threads \ {t} : SameCalls(u)
<1>1. B!At(t)' = B!At(t) /\ B!Top(t)' = B!Top(t)
  BY SameStack
<1>2. a \in Open(t) /\ a = [seq |-> a.seq, by |-> t] /\ a.seq # 0
  BY DEF Open, BoundTypes
<1>3. /\ InFlight(t) = 0
      /\ stack[t] # << >> => B!At(t) \in Resting /\ B!Top(t).req = a.seq
      /\ \A b \in Open(t) : b.seq \notin calling => b = a
  BY <1>2 DEF ThreadInv, PeersTurn
<1>4. Open(t)' = Open(t) \ {a} /\ \A u \in B!Threads \ {t} : Open(u)' = Open(u)
  BY DEF Open
<1>5. (occupied[t] = Duties(t))'
  <2>1. Cardinality(Open(t) \ {a}) = Cardinality(Open(t)) - 1
    BY <1>2, CountsAreNat, FS_RemoveElement
  <2>2. RepliesFor(t)' = RepliesFor(t) + 1
    BY DEF MailComes, One, Replies
  <2>3. Cardinality(Open(t)) \in Nat /\ RepliesFor(t) \in Nat /\ CountIn(stack[t], Busy) \in Nat
    BY CountsAreNat
  <2>4. Duties(t)' = Cardinality(Open(t) \ {a}) + RepliesFor(t)' + CountIn(stack[t], Busy)
    BY <1>4 DEF Duties
  <2>5. occupied[t] = Cardinality(Open(t)) + RepliesFor(t) + CountIn(stack[t], Busy)
    BY DEF ThreadInv, Duties
  <2>. QED
    BY <2>1, <2>2, <2>3, <2>4, <2>5
<1>6. OneMessage(t)'
  <2>1. InFlight(t)' = 1
    BY <1>3 DEF MailComes
  <2>2. \A x \in Mail : OnItsWay(t, x)' => x = m
    BY <1>3, NothingOnItsWay DEF MailComes
  <2>3. Fits(t, m)'
    BY <1>1, <1>2, <1>3 DEF Fits, Linked, Asked
  <2>. QED
    BY <2>1, <2>2, <2>3 DEF OneMessage
<1>7. FramesFit(t)'
  <2>1. ASSUME NEW r, Asked(t, r), r \in calling PROVE Asked(t, r)'
    BY <2>1 DEF Asked
  <2>2. \A r : Asked(t, r)' => Asked(t, r)
    BY DEF Asked
  <2>3. ASSUME NEW f, FrameFits(t, f) PROVE FrameFits(t, f)'
    BY <2>1, <2>2, <2>3 DEF FrameFits, Linked
  <2>. QED
    BY <2>3 DEF ThreadInv, FramesFit
<1>8. PeersTurn(t)'
  BY <1>3, <1>4 DEF PeersTurn
<1>9. Unused(t)' /\ OccupiedInWait(t)'
  <2>1. stack[t] = << >> => t \in done
    BY <1>2 DEF ThreadInv, Unused
  <2>. QED
    BY <1>1, <2>1 DEF ThreadInv, Unused, OccupiedInWait
<1>. QED
  BY <1>4, <1>5, <1>6, <1>7, <1>8, <1>9 DEF ThreadInv, SameCalls

(* The peer has a request for t, while it serves one of t.                 *)
LEMMA CallComes ==
  ASSUME BoundTypes, BoundTypes', NEW t \in B!Threads, ThreadInv(t), ReqInv,
         stack'[t] = stack[t], occupied'[t] = occupied[t],
         NEW a \in asked, a.by = t, a.seq \notin calling,
         asked' = asked, calling' = calling \cup {a.seq}, done' = done,
         NEW m \in Mail, m.kind = "request", m.of = a.seq, MailComes(t, m)
  PROVE  ThreadInv(t)' /\ \A u \in B!Threads \ {t} : SameCalls(u)
<1>1. B!At(t)' = B!At(t) /\ B!Top(t)' = B!Top(t)
  BY SameStack
<1>2. a \in Open(t) /\ a = [seq |-> a.seq, by |-> t] /\ a.seq # 0
  BY DEF Open, BoundTypes
<1>3. /\ InFlight(t) = 0
      /\ stack[t] # << >> => B!At(t) \in Resting /\ B!Top(t).req = a.seq
      /\ \A b \in Open(t) : b.seq \notin calling => b = a
  BY <1>2 DEF ThreadInv, PeersTurn
<1>4. \A u \in B!Threads : Open(u)' = Open(u)
  BY DEF Open
<1>5. (occupied[t] = Duties(t))'
  <2>1. RepliesFor(t)' = RepliesFor(t)
    <3>1. One(m \in Replies) = 0 /\ RepliesFor(t) \in Nat
      BY CountsAreNat DEF One, Replies
    <3>. QED
      BY <3>1 DEF MailComes
  <2>. QED
    BY <1>4, <2>1 DEF ThreadInv, Duties
<1>6. OneMessage(t)'
  <2>1. InFlight(t)' = 1
    BY <1>3 DEF MailComes
  <2>2. \A x \in Mail : OnItsWay(t, x)' => x = m
    BY <1>3, NothingOnItsWay DEF MailComes
  <2>3. Fits(t, m)'
    BY <1>1, <1>2, <1>3 DEF Fits, Linked, Asked
  <2>. QED
    BY <2>1, <2>2, <2>3 DEF OneMessage
<1>7. FramesFit(t)'
  <2>1. ASSUME NEW f, FrameFits(t, f) PROVE FrameFits(t, f)'
    BY <2>1 DEF FrameFits, Linked, Asked
  <2>. QED
    BY <2>1 DEF ThreadInv, FramesFit
<1>8. PeersTurn(t)'
  BY <1>3, <1>4 DEF PeersTurn
<1>9. Unused(t)' /\ OccupiedInWait(t)'
  <2>1. stack[t] = << >> => t \in done
    BY <1>2 DEF ThreadInv, Unused
  <2>2. stack[t] = << >> => t \in done'
    BY <1>2 DEF ThreadInv, Unused
  <2>. QED
    BY <1>1, <2>2 DEF ThreadInv, Unused, OccupiedInWait
<1>10. ASSUME NEW u \in B!Threads \ {t}, NEW b \in Open(u)
       PROVE  b.seq \in calling' <=> b.seq \in calling
  <2>1. b \in asked /\ b # a
    BY <1>10 DEF Open
  <2>2. b.seq # a.seq
    BY <2>1 DEF ReqInv
  <2>. QED
    BY <2>2
<1>. QED
  BY <1>4, <1>5, <1>6, <1>7, <1>8, <1>9, <1>10 DEF ThreadInv, SameCalls

(* A request for nobody is put in the queue of a thread of the pool that   *)
(* is not occupied; of a temporary thread that starts with it.             *)
LEMMA RoutedOn ==
  ASSUME BoundTypes, BoundTypes', NEW t \in B!Threads, ThreadInv(t), B!Unbound \notin B!Threads,
         occupied[t] = 0, deque[t] = << >>,
         stack[t] # << >> => B!At(t) \in Resting, stack[t] = << >> => t \in done,
         stack'[t] = stack[t], occupied'[t] = occupied[t], done' = done, SameCalls(t),
         NEW m \in Mail, m.of = 0, MailComes(t, m)
  PROVE  ThreadInv(t)'
<1>1. B!At(t)' = B!At(t) /\ B!Top(t)' = B!Top(t)
  BY SameStack
<1>2. /\ Open(t) = {} /\ Len(stack[t]) \in {0, 1} /\ (B!At(t) \in Resting => B!Top(t).req = 0)
      /\ \A x \in Mail : ~OnItsWay(t, x)
  <2>1. /\ Open(t) = {} /\ Len(stack[t]) \in {0, 1} /\ (B!At(t) \in Resting => B!Top(t).req = 0)
        /\ \A x \in Mail : OnItsWay(t, x) => x.of = 0
    BY FreeHasNothing
  <2>2. \A x \in Mail : OnItsWay(t, x) => x.to # t
    BY <2>1 DEF Mail
  <2>. QED
    BY <2>1, <2>2 DEF OnItsWay
<1>3. InFlight(t) = 0
  BY <1>2, NothingOnItsWay
<1>4. m.kind = "request" /\ RepliesFor(t)' = RepliesFor(t)
  <2>1. m.kind = "request" /\ One(m \in Replies) = 0 /\ RepliesFor(t) \in Nat
    BY CountsAreNat DEF One, Replies, Mail
  <2>. QED
    BY <2>1 DEF MailComes
<1>5. (occupied[t] = Duties(t))'
  BY <1>4 DEF SameCalls, ThreadInv, Duties
<1>6. OneMessage(t)'
  <2>1. InFlight(t)' = 1
    BY <1>3 DEF MailComes
  <2>2. \A x \in Mail : OnItsWay(t, x)' => x = m
    BY <1>2 DEF MailComes
  <2>3. Fits(t, m)'
    BY <1>1, <1>2, <1>4 DEF Fits, Linked
  <2>. QED
    BY <2>1, <2>2, <2>3 DEF OneMessage
<1>7. FramesFit(t)'
  <2>1. ASSUME NEW f, FrameFits(t, f) PROVE FrameFits(t, f)'
    BY <2>1, SameLinks DEF FrameFits
  <2>. QED
    BY <2>1 DEF ThreadInv, FramesFit
<1>8. PeersTurn(t)'
  BY <1>2 DEF SameCalls, PeersTurn
<1>9. Unused(t)' /\ OccupiedInWait(t)'
  BY <1>1 DEF ThreadInv, Unused, OccupiedInWait
<1>. QED
  BY <1>5, <1>6, <1>7, <1>8, <1>9 DEF ThreadInv

(* A thread at rest that gets a request of the peer begins a stack.        *)
LEMMA StartsOn ==
  ASSUME BoundTypes, BoundTypes', NEW t \in B!Threads, ThreadInv(t),
         stack[t] = << >>, t \notin done,
         stack' = [stack EXCEPT ![t] = <<B!Waiting(0)>>],
         occupied'[t] = occupied[t], SameCalls(t),
         NEW m \in Mail, m.of = 0, MailComes(t, m)
  PROVE  ThreadInv(t)'
<1>1. PICK f : f = B!Waiting(0)
  OBVIOUS
<1>2. f \in BoundFrame /\ f.at = "loop" /\ f.req = 0 /\ f \notin Busy
  BY <1>1 DEF BoundFrame, BoundPlaces, B!Waiting, Busy
<1>3. stack'[t] = <<f>>
  BY <1>1 DEF BoundTypes
<1>4. /\ B!At(t)' = "loop" /\ B!Top(t)' = f /\ stack'[t] # << >> /\ Len(stack'[t]) = 1
      /\ stack'[t][1] = f
  BY <1>2, <1>3 DEF B!At, B!Top, B!Depth
<1>5. CountIn(stack'[t], Busy) = 0 /\ CountIn(stack[t], Busy) = 0
  <2>1. \A i \in 1..Len(<<f>>) : <<f>>[i] \notin Busy
    BY <1>2
  <2>2. <<f>> \in Seq(BoundFrame)
    BY <1>2
  <2>3. CountIn(<<f>>, Busy) = 0
    BY <2>1, <2>2, CountInNat
  <2>4. CountIn(stack[t], Busy) = 0
    BY CountInEmpty
  <2>. QED
    BY <1>3, <2>3, <2>4
<1>6. Open(t) = {} /\ InFlight(t) = 0 /\ \A x \in Mail : ~OnItsWay(t, x)
  BY NothingOnItsWay DEF ThreadInv, Unused
<1>7. m.kind = "request" /\ RepliesFor(t)' = RepliesFor(t)
  <2>1. m.kind = "request" /\ One(m \in Replies) = 0 /\ RepliesFor(t) \in Nat
    BY CountsAreNat DEF One, Replies, Mail
  <2>. QED
    BY <2>1 DEF MailComes
<1>8. (occupied[t] = Duties(t))'
  BY <1>5, <1>7 DEF SameCalls, ThreadInv, Duties
<1>9. OneMessage(t)'
  <2>1. InFlight(t)' = 1
    BY <1>6 DEF MailComes
  <2>2. \A x \in Mail : OnItsWay(t, x)' => x = m
    BY <1>6 DEF MailComes
  <2>3. Fits(t, m)'
    BY <1>2, <1>4, <1>7 DEF Fits, Linked, Resting
  <2>. QED
    BY <2>1, <2>2, <2>3 DEF OneMessage
<1>10. FramesFit(t)'
  <2>1. f.at \notin Engaged
    BY <1>2 DEF Engaged
  <2>2. \A i \in 1..1 : i = 1
    OBVIOUS
  <2>3. \A i \in 1..(1 - 1) : FALSE
    OBVIOUS
  <2>. QED
    BY <1>4, <2>1, <2>2, <2>3 DEF FramesFit, FrameFits
<1>11. PeersTurn(t)'
  BY <1>6 DEF SameCalls, PeersTurn
<1>12. Unused(t)' /\ OccupiedInWait(t)'
  BY <1>2, <1>4 DEF Unused, OccupiedInWait
<1>. QED
  BY <1>8, <1>9, <1>10, <1>11, <1>12 DEF ThreadInv

-----------------------------------------------------------------------------
(* What a step does to the requests, to the pool and to the receiver.      *)

(* No frame waits for a request that it, or any, did not wait for.         *)
NoNewRequest ==
  \A u \in B!Threads : \A i \in 1..Len(stack'[u]) :
    \/ stack'[u][i].req = 0
    \/ i \in 1..Len(stack[u]) /\ stack'[u][i].req = stack[u][i].req

(* Steps that make no new request.                                         *)
LEMMA RequestsKept ==
  ASSUME BoundTypes, NoNewRequest
  PROVE  \A u \in B!Threads : \A i \in 1..Len(stack'[u]) : stack'[u][i].req <= seq
<1>1. seq \in Nat /\ \A u \in B!Threads : \A i \in 1..Len(stack[u]) : stack[u][i].req <= seq
  BY DEF BoundTypes
<1>2. ASSUME NEW u \in B!Threads, NEW i \in 1..Len(stack'[u]) PROVE stack'[u][i].req <= seq
  <2>1. CASE stack'[u][i].req = 0
    BY <1>1, <2>1
  <2>2. CASE i \in 1..Len(stack[u]) /\ stack'[u][i].req = stack[u][i].req
    BY <1>1, <2>2
  <2>. QED
    BY <2>1, <2>2 DEF NoNewRequest
<1>. QED
  BY <1>2

LEMMA ReqStays ==
  ASSUME BoundTypes, ReqInv, NoNewRequest, late' = late, asked' \subseteq asked
  PROVE  ReqInv'
<1>1. \A a, b \in asked' : a.seq = b.seq => a = b
  BY DEF ReqInv
<1>2. 0 \notin late
  BY DEF BoundTypes
<1>3. ASSUME NEW t \in B!Threads, NEW u \in B!Threads,
             NEW i \in 1..Len(stack'[t]), NEW j \in 1..Len(stack'[u]),
             stack'[t][i].req # 0, stack'[t][i].req = stack'[u][j].req
      PROVE  t = u /\ i = j
  <2>1. /\ i \in 1..Len(stack[t]) /\ stack'[t][i].req = stack[t][i].req
        /\ j \in 1..Len(stack[u]) /\ stack'[u][j].req = stack[u][j].req
    BY <1>3 DEF NoNewRequest
  <2>2. stack[t][i].req # 0 /\ stack[t][i].req = stack[u][j].req
    BY <1>3, <2>1
  <2>3. i \in 1..Len(stack[t]) /\ j \in 1..Len(stack[u])
    BY <2>1
  <2>. QED
    BY <2>2, <2>3 DEF ReqInv
<1>4. ASSUME NEW t \in B!Threads, NEW i \in 1..Len(stack'[t]), stack'[t][i].req \in late
      PROVE  i = 1 /\ t \in Callers
  <2>1. i \in 1..Len(stack[t]) /\ stack'[t][i].req = stack[t][i].req
    BY <1>2, <1>4 DEF NoNewRequest
  <2>. QED
    BY <1>4, <2>1 DEF ReqInv
<1>5. \A t, u \in B!Threads : \A i \in 1..Len(stack'[t]), j \in 1..Len(stack'[u]) :
        stack'[t][i].req # 0 /\ stack'[t][i].req = stack'[u][j].req => t = u /\ i = j
  BY <1>3
<1>6. \A t \in B!Threads : \A i \in 1..Len(stack'[t]) :
        stack'[t][i].req \in late' => i = 1 /\ t \in Callers
  BY <1>4
<1>. QED
  BY <1>1, <1>5, <1>6 DEF ReqInv

LEMMA TopKeepsRequests ==
  ASSUME BoundTypes, NEW t \in B!Threads, stack[t] # << >>,
         NEW f \in BoundFrame, TopIs(t, f), f.req \in {0, B!Top(t).req}
  PROVE  NoNewRequest
<1>1. Len(stack[t]) \in Nat \ {0} /\ B!Top(t) = stack[t][Len(stack[t])]
  BY BoundTopOf
<1>2. /\ \A u \in B!Threads \ {t} : stack'[u] = stack[u]
      /\ Len(stack'[t]) = Len(stack[t])
      /\ \A i \in 1..Len(stack[t]) : stack'[t][i] = IF i = Len(stack[t]) THEN f ELSE stack[t][i]
  BY DEF TopIs
<1>3. \A i \in 1..Len(stack'[t]) :
        \/ stack'[t][i].req = 0
        \/ i \in 1..Len(stack[t]) /\ stack'[t][i].req = stack[t][i].req
  BY <1>1, <1>2
<1>. QED
  BY <1>2, <1>3 DEF NoNewRequest

LEMMA PopKeepsRequests ==
  ASSUME BoundTypes, NEW t \in B!Threads, stack[t] # << >>, Popped(t)
  PROVE  NoNewRequest
<1>1. PICK n \in Nat \ {0} : n = Len(stack[t])
  BY BoundTopOf
<1>2. ASSUME NEW i \in 1..Len(stack'[t])
      PROVE  i \in 1..n /\ stack'[t][i].req = stack[t][i].req
  <2>1. Len(stack'[t]) = n - 1 /\ n # 1
    BY <1>1, <1>2 DEF Popped
  <2>2. i \in 1..n /\ (i \in 1..(n - 2) \/ i = n - 1)
    BY <2>1
  <2>3. CASE i \in 1..(n - 2)
    BY <1>1, <2>1, <2>2, <2>3 DEF Popped
  <2>4. CASE i = n - 1
    <3>1. n - 1 \in 1..Len(stack[t])
      BY <1>1, <2>1
    <3>2. stack[t][n - 1] \in BoundFrame
      BY <3>1, ElementOfSeq DEF BoundTypes
    <3>3. stack'[t][n - 1] = [stack[t][n - 1] EXCEPT !.at = "reply"]
      BY <1>1, <2>1 DEF Popped
    <3>. QED
      BY <2>2, <2>4, <3>2, <3>3 DEF BoundFrame
  <2>. QED
    BY <2>2, <2>3, <2>4
<1>. QED
  BY <1>1, <1>2 DEF NoNewRequest, Popped

(* Who waits in the pool or receives goes on to.                           *)
Calm ==
  \A u \in B!Threads :
    /\ B!At(u) \in {"pooled", "recv"} \/ B!At(u)' \in {"pooled", "recv"} => B!At(u)' = B!At(u)
    /\ B!At(u)' \notin {"closing", "fail"}
    /\ Abandoned(u) => Abandoned(u)'

(* Routing stays when nobody enters or leaves the pool, and whoever gets   *)
(* a message is woken.                                                     *)
LEMMA CalmStep ==
  ASSUME BoundTypes, Routing, Calm, pool' = pool, receiving' = receiving, late \subseteq late',
         \A u \in B!Threads : deque'[u] # << >> => u \in event',
         \A u \in B!Threads : B!At(u) = "recv" => deque'[u] = deque[u],
         receiving \/ \A u \in B!Threads : B!At(u) = "pooled" =>
                         deque'[u] = deque[u] /\ (u \in event => u \in event')
  PROVE  Routing'
<1>1. \A i \in 1..Len(pool) : pool[i] \in B!Threads
  BY ElementOfSeq DEF BoundTypes
<1>2. PoolInv'
  <2>1. \A i \in 1..Len(pool') : B!At(pool[i])' = "pooled" \/ Abandoned(pool[i])'
    BY <1>1 DEF Routing, PoolInv, Calm
  <2>2. \A t \in B!Threads : B!At(t)' = "pooled" => \E i \in 1..Len(pool') : pool'[i] = t
    BY DEF Routing, PoolInv, Calm
  <2>. QED
    BY <2>1, <2>2 DEF Routing, PoolInv
<1>3. Served'
  <2>. SUFFICES ASSUME late' = {}, ~receiving
                PROVE  \/ \E i \in 1..Len(pool) : pool[i] \in event' /\ deque'[pool[i]] = << >>
                       \/ \A i \in 1..Len(pool) : pool[i] \in event'
    BY DEF Served
  <2>1. late = {} /\ \A i \in 1..Len(pool) : B!At(pool[i]) = "pooled"
    BY DEF Routing, PoolInv, Abandoned
  <2>. QED
    BY <1>1, <2>1 DEF Routing, Served
<1>4. RecvInv'
  BY DEF Routing, RecvInv, Calm
<1>. QED
  BY <1>2, <1>3, <1>4 DEF Routing

(* Only t goes elsewhere, neither from nor to the pool or the socket.      *)
LEMMA OneMoves ==
  ASSUME NEW t \in B!Threads, RecvInv, \A u \in B!Threads \ {t} : stack'[u] = stack[u],
         B!At(t) \notin {"pooled", "recv"}, B!At(t)' \notin {"pooled", "recv", "closing", "fail"},
         Abandoned(t) => Abandoned(t)', late \subseteq late', done \subseteq done'
  PROVE  Calm
<1>1. ASSUME NEW u \in B!Threads \ {t}
      PROVE  /\ B!At(u)' = B!At(u) /\ B!At(u)' \notin {"closing", "fail"}
             /\ Abandoned(u) => Abandoned(u)'
  <2>1. B!At(u)' = B!At(u) /\ B!Top(u)' = B!Top(u) /\ stack'[u] = stack[u]
    BY SameStack
  <2>. QED
    BY <2>1 DEF RecvInv, Abandoned
<1>. QED
  BY <1>1 DEF Calm

(* Stacks that stay are calm.                                              *)
LEMMA NobodyMoves ==
  ASSUME RecvInv, stack' = stack, late \subseteq late', done \subseteq done'
  PROVE  Calm
<1>1. \A u : B!At(u)' = B!At(u) /\ B!Top(u)' = B!Top(u)
  BY SameStack
<1>. QED
  BY <1>1 DEF Calm, RecvInv, Abandoned

(* The thread that is woken: of the pool, and nobody has woken it.         *)
LEMMA SuccessorOf ==
  ASSUME BoundTypes
  PROVE  /\ \A u \in B!Successor : u \in B!Threads /\ u \notin event
         /\ \A u \in B!Successor : \E i \in 1..Len(pool) : pool[i] = u
         /\ B!Successor = {} => \A i \in 1..Len(pool) : pool[i] \in event
<1>1. Len(pool) \in Nat /\ \A i \in 1..Len(pool) : pool[i] \in B!Threads
  BY LenProperties, ElementOfSeq DEF BoundTypes
<1>2. CASE \A i \in 1..Len(pool) : pool[i] \in event
  BY <1>2 DEF B!Successor, B!FirstIn, B!Unwoken
<1>3. CASE \E i \in 1..Len(pool) : pool[i] \notin event
  <2>1. PICK I : I = {i \in 1..Len(pool) : pool[i] \notin event}
    OBVIOUS
  <2>2. I \subseteq Nat /\ I # {}
    BY <1>1, <1>3, <2>1
  <2>3. PICK k \in I : \A j \in I : k <= j
    BY <2>2, LeastIndex
  <2>4. k \in 1..Len(pool) /\ pool[k] \notin event
        /\ \A j \in 1..Len(pool) : pool[j] \notin event => k <= j
    BY <2>1, <2>3
  <2>5. \A j \in 1..(k - 1) : j \in 1..Len(pool) /\ ~(k <= j)
    BY <1>1, <2>4
  <2>6. k \in 1..Len(pool) /\ B!Unwoken(pool[k]) /\ \A j \in 1..(k - 1) : ~B!Unwoken(pool[j])
    BY <2>4, <2>5 DEF B!Unwoken
  <2>7. PICK c : c = CHOOSE i \in 1..Len(pool) :
                       B!Unwoken(pool[i]) /\ \A j \in 1..(i - 1) : ~B!Unwoken(pool[j])
    OBVIOUS
  <2>8. c \in 1..Len(pool) /\ B!Unwoken(pool[c])
    BY <2>6, <2>7
  <2>9. B!Successor = {pool[c]}
    BY <2>7, <2>8 DEF B!Successor, B!FirstIn
  <2>. QED
    BY <1>1, <2>8, <2>9 DEF B!Unwoken
<1>. QED
  BY <1>2, <1>3

(* The receiver stops: it has a message, or its time is over.              *)
LEMMA StopsReceiving ==
  ASSUME BoundTypes, Routing, NEW t \in B!Threads, B!At(t) = "recv",
         NEW f \in BoundFrame, TopIs(t, f), f.at \in {"loop", "dispatch"},
         B!StopReceiving, UNCHANGED <<pool, deque, late, done>>
  PROVE  Routing'
<1>1. B!At(t)' = f.at
  BY DEF TopIs
<1>2. ASSUME NEW u \in B!Threads \ {t}
      PROVE  B!At(u)' = B!At(u) /\ (Abandoned(u) => Abandoned(u)')
  <2>1. B!At(u)' = B!At(u) /\ B!Top(u)' = B!Top(u) /\ stack'[u] = stack[u]
    BY SameStack DEF TopIs
  <2>. QED
    BY <2>1 DEF Abandoned
<1>3. ~Abandoned(t)
  BY DEF Abandoned, B!At
<1>4. \A i \in 1..Len(pool) : pool[i] \in B!Threads
  BY ElementOfSeq DEF BoundTypes
<1>5. event' = event \cup B!Successor /\ receiving' = FALSE
  BY DEF B!StopReceiving
<1>6. PoolInv'
  <2>1. \A i \in 1..Len(pool) : B!At(pool[i])' = "pooled" \/ Abandoned(pool[i])'
    BY <1>2, <1>3, <1>4 DEF Routing, PoolInv
  <2>2. \A u \in B!Threads : B!At(u)' = "pooled" => \E i \in 1..Len(pool) : pool[i] = u
    BY <1>1, <1>2 DEF Routing, PoolInv
  <2>. QED
    BY <1>5, <2>1, <2>2 DEF Routing, PoolInv
<1>7. Served'
  <2>1. CASE B!Successor = {}
    BY <1>5, <2>1, SuccessorOf DEF Served
  <2>2. CASE B!Successor # {}
    <3>1. PICK u \in B!Successor : u \notin event /\ u \in B!Threads
      BY <2>2, SuccessorOf
    <3>2. PICK i \in 1..Len(pool) : pool[i] = u
      BY <3>1, SuccessorOf
    <3>3. deque[u] = << >>
      BY <3>1 DEF Routing, PoolInv
    <3>. QED
      BY <1>5, <3>1, <3>2, <3>3 DEF Served
  <2>. QED
    BY <2>1, <2>2
<1>8. RecvInv'
  <2>1. \A u \in B!Threads : B!At(u)' # "recv" /\ B!At(u)' \notin {"closing", "fail"}
    BY <1>1, <1>2 DEF Routing, RecvInv
  <2>. QED
    BY <1>5, <2>1 DEF RecvInv
<1>. QED
  BY <1>6, <1>7, <1>8 DEF Routing

(* It waits in the pool, in which it was not.                              *)
LEMMA JoinsPool ==
  ASSUME BoundTypes, Routing, NEW t \in B!Threads, B!At(t) = "loop", ~Abandoned(t), receiving,
         NEW f \in BoundFrame, TopIs(t, f), f.at = "pooled",
         pool' = Append(pool, t), UNCHANGED <<event, deque, receiving, late, done>>
  PROVE  Routing'
<1>1. B!At(t)' = "pooled"
  BY DEF TopIs
<1>2. ASSUME NEW u \in B!Threads \ {t}
      PROVE  B!At(u)' = B!At(u) /\ (Abandoned(u) => Abandoned(u)')
  <2>1. B!At(u)' = B!At(u) /\ B!Top(u)' = B!Top(u) /\ stack'[u] = stack[u]
    BY SameStack DEF TopIs
  <2>. QED
    BY <2>1 DEF Abandoned
<1>3. /\ Len(pool) \in Nat /\ Len(pool') = Len(pool) + 1
      /\ \A i \in 1..Len(pool) : pool[i] \in B!Threads /\ pool'[i] = pool[i] /\ pool[i] # t
      /\ pool'[Len(pool) + 1] = t
  <2>1. pool \in Seq(B!Threads)
    BY DEF BoundTypes
  <2>2. \A i \in 1..Len(pool) : pool[i] # t
    BY DEF Routing, PoolInv
  <2>. QED
    BY <2>1, <2>2, AppendProperties, LenProperties, ElementOfSeq
<1>4. \A i \in 1..Len(pool') : i \in 1..Len(pool) \/ i = Len(pool) + 1
  BY <1>3
<1>5. \A i \in 1..Len(pool) : i \in 1..Len(pool')
  BY <1>3
<1>6. PoolInv'
  <2>1. \A i, j \in 1..Len(pool') : pool'[i] = pool'[j] => i = j
    BY <1>3, <1>4 DEF Routing, PoolInv
  <2>2. \A i \in 1..Len(pool) : B!At(pool[i])' = "pooled" \/ Abandoned(pool[i])'
    BY <1>2, <1>3 DEF Routing, PoolInv
  <2>3. ASSUME NEW i \in 1..Len(pool')
        PROVE  \E u \in B!Threads : pool'[i] = u /\ (B!At(u)' = "pooled" \/ Abandoned(u)')
    <3>1. CASE i \in 1..Len(pool)
      <4>1. PICK u \in B!Threads \ {t} : u = pool[i] /\ (B!At(u) = "pooled" \/ Abandoned(u))
        BY <1>3, <3>1 DEF Routing, PoolInv
      <4>2. B!At(u)' = "pooled" \/ Abandoned(u)'
        BY <1>2, <4>1
      <4>. QED
        BY <1>3, <3>1, <4>1, <4>2
    <3>2. CASE i = Len(pool) + 1
      <4>1. pool'[i] = t
        BY <1>3, <3>2
      <4>. QED
        BY <1>1, <4>1
    <3>. QED
      BY <1>4, <3>1, <3>2
  <2>4. \A i \in 1..Len(pool') : B!At(pool[i])' = "pooled" \/ Abandoned(pool[i])'
    <3>. SUFFICES ASSUME NEW i \in 1..Len(pool')
                  PROVE  B!At(pool[i])' = "pooled" \/ Abandoned(pool[i])'
      OBVIOUS
    <3>1. PICK u \in B!Threads : pool'[i] = u /\ (B!At(u)' = "pooled" \/ Abandoned(u)')
      BY <2>3
    <3>. QED
      BY <3>1 DEF Abandoned, B!At, B!Top, B!Depth
  <2>5. \A u \in B!Threads : B!At(u)' = "pooled" => \E i \in 1..Len(pool') : pool'[i] = u
    <3>. SUFFICES ASSUME NEW u \in B!Threads, B!At(u)' = "pooled"
                  PROVE  \E i \in 1..Len(pool') : pool'[i] = u
      OBVIOUS
    <3>1. CASE u = t
      <4>1. Len(pool) + 1 \in 1..Len(pool')
        BY <1>3
      <4>. QED
        BY <1>3, <3>1, <4>1
    <3>2. CASE u # t
      <4>1. PICK i \in 1..Len(pool) : pool[i] = u
        BY <1>2, <3>2 DEF Routing, PoolInv
      <4>. QED
        BY <1>3, <1>5, <4>1
    <3>. QED
      BY <3>1, <3>2
  <2>6. \A u \in B!Threads : deque'[u] # << >> => u \in event'
    BY DEF Routing, PoolInv
  <2>. QED
    BY <2>1, <2>4, <2>5, <2>6 DEF PoolInv
<1>7. Served'
  BY DEF Served
<1>8. RecvInv'
  BY <1>1, <1>2 DEF Routing, RecvInv
<1>. QED
  BY <1>6, <1>7, <1>8 DEF Routing

(* It receives: nobody else does.                                          *)
LEMMA StartsReceiving ==
  ASSUME BoundTypes, Routing, NEW t \in B!Threads, B!At(t) = "loop", ~Abandoned(t), ~receiving,
         deque[t] = << >>, NEW f \in BoundFrame, TopIs(t, f), f.at = "recv",
         receiving' = TRUE, UNCHANGED <<pool, event, deque, late, done>>
  PROVE  Routing'
<1>1. B!At(t)' = "recv"
  BY DEF TopIs
<1>2. ASSUME NEW u \in B!Threads \ {t}
      PROVE  B!At(u)' = B!At(u) /\ (Abandoned(u) => Abandoned(u)')
  <2>1. B!At(u)' = B!At(u) /\ B!Top(u)' = B!Top(u) /\ stack'[u] = stack[u]
    BY SameStack DEF TopIs
  <2>. QED
    BY <2>1 DEF Abandoned
<1>3. \A i \in 1..Len(pool) : pool[i] \in B!Threads \ {t}
  <2>1. \A i \in 1..Len(pool) : pool[i] \in B!Threads
    BY ElementOfSeq DEF BoundTypes
  <2>. QED
    BY <2>1 DEF Routing, PoolInv
<1>4. PoolInv'
  <2>1. \A i \in 1..Len(pool) : B!At(pool[i])' = "pooled" \/ Abandoned(pool[i])'
    BY <1>2, <1>3 DEF Routing, PoolInv
  <2>2. \A u \in B!Threads : B!At(u)' = "pooled" => \E i \in 1..Len(pool) : pool[i] = u
    BY <1>1, <1>2 DEF Routing, PoolInv
  <2>. QED
    BY <2>1, <2>2 DEF Routing, PoolInv
<1>5. Served' /\ RecvInv'
  BY <1>1, <1>2 DEF Served, Routing, RecvInv
<1>. QED
  BY <1>4, <1>5 DEF Routing

(* It leaves, as its time is over, and is still in the pool.               *)
LEMMA LeavesUnseen ==
  ASSUME BoundTypes, Routing, NEW t \in B!Threads, B!At(t) = "pooled", late # {},
         NEW f \in BoundFrame, TopIs(t, f), f.at = "loop", Abandoned(t)',
         UNCHANGED <<pool, event, deque, receiving, late, done>>
  PROVE  Routing'
<1>1. B!At(t)' = "loop"
  BY DEF TopIs
<1>2. ASSUME NEW u \in B!Threads \ {t}
      PROVE  B!At(u)' = B!At(u) /\ (Abandoned(u) => Abandoned(u)')
  <2>1. B!At(u)' = B!At(u) /\ B!Top(u)' = B!Top(u) /\ stack'[u] = stack[u]
    BY SameStack DEF TopIs
  <2>. QED
    BY <2>1 DEF Abandoned
<1>3. \A i \in 1..Len(pool) : pool[i] \in B!Threads
  BY ElementOfSeq DEF BoundTypes
<1>4. PoolInv'
  <2>1. \A i \in 1..Len(pool) : B!At(pool[i])' = "pooled" \/ Abandoned(pool[i])'
    BY <1>2, <1>3 DEF Routing, PoolInv
  <2>2. \A u \in B!Threads : B!At(u)' = "pooled" => \E i \in 1..Len(pool) : pool[i] = u
    BY <1>1, <1>2 DEF Routing, PoolInv
  <2>. QED
    BY <2>1, <2>2 DEF Routing, PoolInv
<1>5. Served' /\ RecvInv'
  BY <1>1, <1>2 DEF Served, Routing, RecvInv
<1>. QED
  BY <1>4, <1>5 DEF Routing

(* The pool without one of its threads.                                    *)
LEMMA WithoutOf ==
  ASSUME BoundTypes, NEW t \in B!Threads, \E i \in 1..Len(pool) : pool[i] = t
  PROVE  \E i \in 1..Len(pool) : pool[i] = t /\ B!Without(pool, t) = CutAt(pool, i)
<1>1. Len(pool) \in Nat
  BY LenProperties DEF BoundTypes
<1>2. PICK I : I = {i \in 1..Len(pool) : pool[i] = t}
  OBVIOUS
<1>3. I \subseteq Nat /\ I # {}
  BY <1>1, <1>2
<1>4. PICK k \in I : \A j \in I : k <= j
  BY <1>3, LeastIndex
<1>5. k \in 1..Len(pool) /\ pool[k] = t /\ \A j \in 1..Len(pool) : pool[j] = t => k <= j
  BY <1>2, <1>4
<1>6. \A j \in 1..(k - 1) : j \in 1..Len(pool) /\ ~(k <= j)
  BY <1>1, <1>5
<1>7. \A j \in 1..(k - 1) : pool[j] # t
  BY <1>5, <1>6
<1>8. PICK c : c = CHOOSE i \in 1..Len(pool) : pool[i] = t /\ \A j \in 1..(i - 1) : pool[j] # t
  OBVIOUS
<1>9. c \in 1..Len(pool) /\ pool[c] = t
  BY <1>5, <1>7, <1>8
<1>10. B!Without(pool, t) = CutAt(pool, c)
  BY <1>8 DEF B!Without, CutAt
<1>. QED
  BY <1>9, <1>10

(* _thread_pool without one of its threads.                                *)
LEMMA PoolWithout ==
  ASSUME BoundTypes, NEW t \in B!Threads, \E i \in 1..Len(pool) : pool[i] = t,
         NEW w, w = B!Without(pool, t)
  PROVE  /\ w \in Seq(B!Threads)
         /\ \A j \in 1..Len(pool) : pool[j] # t => \E k \in 1..Len(w) : w[k] = pool[j]
         /\ (\A i, j \in 1..Len(pool) : pool[i] = pool[j] => i = j) =>
              /\ \A k \in 1..Len(w) : w[k] # t /\ \E j \in 1..Len(pool) : w[k] = pool[j]
              /\ \A k, l \in 1..Len(w) : w[k] = w[l] => k = l
<1>1. PICK c \in 1..Len(pool) : pool[c] = t /\ w = CutAt(pool, c)
  BY WithoutOf
<1>2. PICK n \in Nat : n = Len(pool)
  BY LenProperties DEF BoundTypes
<1>3. /\ w \in Seq(B!Threads) /\ Len(w) = n - 1
      /\ \A k \in 1..(n - 1) : w[k] = IF k < c THEN pool[k] ELSE pool[k + 1]
  <2>1. pool \in Seq(B!Threads)
    BY DEF BoundTypes
  <2>. QED
    BY <1>1, <1>2, <2>1, WithoutAt
<1>4. /\ \A k : k \in 1..Len(w) <=> k \in 1..(n - 1)
      /\ \A k : k \in 1..Len(pool) <=> k \in 1..n
  BY <1>2, <1>3
<1>5. ASSUME NEW j \in 1..n, pool[j] # t PROVE \E k \in 1..(n - 1) : w[k] = pool[j]
  <2>1. c \in 1..n /\ j # c
    BY <1>1, <1>2, <1>5
  <2>2. CASE j < c
    <3>1. j \in 1..(n - 1) /\ w[j] = pool[j]
      BY <1>3, <2>1, <2>2
    <3>. QED
      BY <3>1
  <2>3. CASE j > c
    <3>1. j - 1 \in 1..(n - 1) /\ ~(j - 1 < c) /\ (j - 1) + 1 = j
      BY <2>1, <2>3
    <3>2. w[j - 1] = pool[j]
      BY <1>3, <3>1
    <3>. QED
      BY <3>1, <3>2
  <2>. QED
    BY <2>1, <2>2, <2>3
<1>6. ASSUME \A i, j \in 1..Len(pool) : pool[i] = pool[j] => i = j
      PROVE  /\ \A k \in 1..Len(w) : w[k] # t /\ \E j \in 1..Len(pool) : w[k] = pool[j]
             /\ \A k, l \in 1..Len(w) : w[k] = w[l] => k = l
  <2>1. c \in 1..n /\ \A i, j \in 1..n : pool[i] = pool[j] => i = j
    BY <1>2, <1>6
  <2>2. ASSUME NEW k \in 1..(n - 1)
        PROVE  \E j \in 1..n : j # c /\ w[k] = pool[j] /\ (k < c => j = k) /\ (k >= c => j = k + 1)
    <3>1. CASE k < c
      <4>1. k \in 1..n /\ k # c /\ w[k] = pool[k]
        BY <1>3, <2>1, <3>1
      <4>. QED
        BY <2>1, <3>1, <4>1
    <3>2. CASE k >= c
      <4>1. k + 1 \in 1..n /\ k + 1 # c /\ w[k] = pool[k + 1]
        BY <1>3, <2>1, <3>2
      <4>. QED
        BY <2>1, <3>2, <4>1
    <3>. QED
      BY <2>1, <3>1, <3>2
  <2>3. ASSUME NEW k \in 1..(n - 1) PROVE w[k] # t /\ \E j \in 1..n : w[k] = pool[j]
    <3>1. PICK j \in 1..n : j # c /\ w[k] = pool[j]
      BY <2>2
    <3>. QED
      BY <1>1, <2>1, <3>1
  <2>4. ASSUME NEW k \in 1..(n - 1), NEW l \in 1..(n - 1), w[k] = w[l] PROVE k = l
    <3>1. PICK i \in 1..n : i # c /\ w[k] = pool[i] /\ (k < c => i = k) /\ (k >= c => i = k + 1)
      BY <2>2
    <3>2. PICK j \in 1..n : j # c /\ w[l] = pool[j] /\ (l < c => j = l) /\ (l >= c => j = l + 1)
      BY <2>2
    <3>3. i = j
      BY <2>1, <2>4, <3>1, <3>2
    <3>. QED
      BY <2>1, <3>1, <3>2, <3>3
  <2>5. \A k \in 1..Len(w) : w[k] # t /\ \E j \in 1..Len(pool) : w[k] = pool[j]
    BY <1>4, <2>3, Zenon
  <2>6. \A k, l \in 1..Len(w) : w[k] = w[l] => k = l
    BY <1>4, <2>4, Zenon
  <2>. QED
    BY <2>5, <2>6
<1>7. \A j \in 1..Len(pool) : pool[j] # t => \E k \in 1..Len(w) : w[k] = pool[j]
  BY <1>4, <1>5, Zenon
<1>. QED
  BY <1>3, <1>6, <1>7

(* It leaves the pool, with a message or to receive.                       *)
LEMMA LeavesPool ==
  ASSUME BoundTypes, Routing, NEW t \in B!Threads, B!At(t) = "pooled",
         NEW f \in BoundFrame, TopIs(t, f), pool' = B!Without(pool, t),
         \/ f.at = "recv" /\ ~receiving /\ receiving' = TRUE /\ deque'[t] = << >>
         \/ f.at = "dispatch" /\ receiving' = receiving /\ deque[t] # << >>,
         \A u \in B!Threads \ {t} : deque'[u] = deque[u] /\ (u \in event' <=> u \in event),
         deque'[t] # << >> => t \in event', late' = late, done' = done
  PROVE  Routing'
<1>1. B!At(t)' = f.at /\ f.at # "pooled"
  BY DEF TopIs
<1>2. ASSUME NEW u \in B!Threads \ {t}
      PROVE  B!At(u)' = B!At(u) /\ (Abandoned(u) => Abandoned(u)')
  <2>1. B!At(u)' = B!At(u) /\ B!Top(u)' = B!Top(u) /\ stack'[u] = stack[u]
    BY SameStack DEF TopIs
  <2>. QED
    BY <2>1 DEF Abandoned
<1>3. /\ pool' \in Seq(B!Threads)
      /\ \A k \in 1..Len(pool') : pool'[k] # t /\ \E j \in 1..Len(pool) : pool'[k] = pool[j]
      /\ \A j \in 1..Len(pool) : pool[j] # t => \E k \in 1..Len(pool') : pool'[k] = pool[j]
      /\ \A k, l \in 1..Len(pool') : pool'[k] = pool'[l] => k = l
  <2>1. \E i \in 1..Len(pool) : pool[i] = t
    BY DEF Routing, PoolInv
  <2>2. \A i, j \in 1..Len(pool) : pool[i] = pool[j] => i = j
    BY DEF Routing, PoolInv
  <2>. QED
    BY <2>1, <2>2, PoolWithout
<1>4. \A i \in 1..Len(pool) : pool[i] \in B!Threads
  BY ElementOfSeq DEF BoundTypes
<1>5. PoolInv'
  <2>1. ASSUME NEW k \in 1..Len(pool')
        PROVE  \E u \in B!Threads : pool'[k] = u /\ (B!At(u)' = "pooled" \/ Abandoned(u)')
    <3>1. PICK j \in 1..Len(pool) : pool'[k] = pool[j] /\ pool[j] # t
      BY <1>3
    <3>2. PICK u \in B!Threads \ {t} : u = pool[j] /\ (B!At(u) = "pooled" \/ Abandoned(u))
      BY <1>4, <3>1 DEF Routing, PoolInv
    <3>. QED
      BY <1>2, <3>1, <3>2
  <2>2. \A k \in 1..Len(pool') : B!At(pool[k])' = "pooled" \/ Abandoned(pool[k])'
    <3>. SUFFICES ASSUME NEW k \in 1..Len(pool')
                  PROVE  B!At(pool[k])' = "pooled" \/ Abandoned(pool[k])'
      OBVIOUS
    <3>1. PICK u \in B!Threads : pool'[k] = u /\ (B!At(u)' = "pooled" \/ Abandoned(u)')
      BY <2>1
    <3>. QED
      BY <3>1 DEF Abandoned, B!At, B!Top, B!Depth
  <2>3. ASSUME NEW u \in B!Threads, B!At(u)' = "pooled"
        PROVE  \E k \in 1..Len(pool') : pool'[k] = u
    <3>1. u # t
      BY <1>1, <2>3
    <3>2. PICK j \in 1..Len(pool) : pool[j] = u
      BY <1>2, <2>3, <3>1 DEF Routing, PoolInv
    <3>. QED
      BY <1>3, <3>1, <3>2
  <2>4. \A u \in B!Threads : deque'[u] # << >> => u \in event'
    BY DEF Routing, PoolInv
  <2>. QED
    BY <1>3, <2>2, <2>3, <2>4 DEF PoolInv
<1>6. Served'
  <2>. SUFFICES ASSUME late = {}, ~receiving, receiving' = receiving, deque[t] # << >>
                PROVE  \/ \E k \in 1..Len(pool') : pool'[k] \in event' /\ deque'[pool'[k]] = << >>
                       \/ \A k \in 1..Len(pool') : pool'[k] \in event'
    BY DEF Served
  <2>1. CASE \A i \in 1..Len(pool) : pool[i] \in event
    <3>1. \A k \in 1..Len(pool') : pool'[k] \in B!Threads \ {t} /\ pool'[k] \in event
      BY <1>3, <1>4, <2>1
    <3>. QED
      BY <3>1
  <2>2. CASE \E i \in 1..Len(pool) : pool[i] \in event /\ deque[pool[i]] = << >>
    <3>1. PICK i \in 1..Len(pool) : pool[i] \in event /\ deque[pool[i]] = << >>
      BY <2>2
    <3>2. pool[i] \in B!Threads \ {t}
      BY <1>4, <3>1
    <3>3. PICK k \in 1..Len(pool') : pool'[k] = pool[i]
      BY <1>3, <3>2
    <3>. QED
      BY <3>1, <3>2, <3>3
  <2>. QED
    BY <2>1, <2>2 DEF Routing, Served
<1>7. RecvInv'
  BY <1>1, <1>2 DEF Routing, RecvInv
<1>. QED
  BY <1>5, <1>6, <1>7 DEF Routing

-----------------------------------------------------------------------------
(* The steps of _serve_bound.                                              *)

(* The sets of threads are disjoint.                                       *)
LEMMA BoundNames ==
  /\ B!Unbound \notin B!Threads /\ Callers \cap Servers = {}
  /\ Workers \cap (Callers \cup Servers) = {}
  /\ B!Threads = Callers \cup Servers \cup Workers
  /\ BoundTypes => setup.impatient \subseteq Callers
BY ServingAssumption DEF B!BoundAssumption, B!Unbound, B!Threads, BoundTypes

(* The types that a step of a thread has to show.                          *)
LEMMA TypesOn ==
  ASSUME BoundTypes, stack' \in [B!Threads -> Seq(BoundFrame)], NoNewRequest,
         UNCHANGED <<setup, seq, asked, late>>, calling' \subseteq calling,
         inbox' \in Seq(Mail), deque' \in [B!Threads -> Seq(Mail)],
         pool' \in Seq(B!Threads), event' \subseteq B!Threads,
         occupied' \in [B!Threads -> Int], done' \subseteq Callers,
         receiving' \in BOOLEAN, closed' \in BOOLEAN
  PROVE  BoundTypes'
<1>1. \A u \in B!Threads : \A i \in 1..Len(stack'[u]) : stack'[u][i].req <= seq'
  BY RequestsKept
<1>. QED
  BY <1>1 DEF BoundTypes

(* While the connection lasts a queue holds one message at most, of the    *)
(* request that its thread waits for.                                      *)
LEMMA AllSettled ==
  ASSUME BoundInv, NEW t \in B!Threads
  PROVE  Settled(t)
<1>. SUFFICES ASSUME ~closed PROVE Settled(t)
  BY DEF BoundInv, BoundTypes
<1>1. BoundTypes /\ ThreadInv(t)
  BY DEF BoundInv, Flow
<1>2. deque[t] \in Seq(Mail) /\ Len(deque[t]) \in Nat
      /\ \A i \in 1..Len(deque[t]) : deque[t][i] \in Mail
  BY <1>1, ElementOfSeq, LenProperties DEF BoundTypes
<1>3. Len(deque[t]) \in {0, 1}
  <2>1. CountIn(deque[t], Mail) = Len(deque[t])
    <3>1. {i \in 1..Len(deque[t]) : deque[t][i] \in Mail} = 1..Len(deque[t])
      BY <1>2
    <3>2. Cardinality(1..Len(deque[t])) = Len(deque[t])
      BY <1>2, FS_Interval
    <3>. QED
      BY <3>1, <3>2 DEF CountIn
  <2>2. CountIn(inbox, To(t)) \in Nat
    BY <1>1, CountsAreNat
  <2>3. CountIn(inbox, To(t)) + Len(deque[t]) \in {0, 1}
    BY <1>1, <2>1 DEF ThreadInv, OneMessage, InFlight
  <2>4. \A x, y \in Nat : x + y \in {0, 1} => y \in {0, 1}
    OBVIOUS
  <2>. QED
    BY <1>2, <2>2, <2>3, <2>4
<1>4. ASSUME NEW i \in 1..Len(deque[t]), stack[t] # << >>
      PROVE  /\ B!At(t) \notin {"dispatch", "handle"}
             /\ B!At(t) \in Resting => deque[t][i].of = B!Top(t).req
  <2>1. PICK m \in Mail : m = deque[t][i]
    BY <1>2
  <2>2. Fits(t, m)
    BY <1>1, <2>1 DEF OnItsWay, ThreadInv, OneMessage
  <2>. QED
    BY <1>4, <2>1, <2>2 DEF Fits, Resting
<1>5. ASSUME B!At(t) = "dispatch" PROVE B!Top(t).msg.of = B!Top(t).req
  <2>1. stack[t] # << >>
    BY <1>5 DEF B!At
  <2>2. FrameFits(t, B!Top(t)) /\ B!Top(t).at = "dispatch"
    BY <1>1, <1>5, <2>1, BoundTopOf DEF ThreadInv, FramesFit
  <2>. QED
    BY <2>2 DEF FrameFits, Engaged
<1>6. B!At(t) = "pooled" => InPool(t)
  BY DEF BoundInv, Flow, Routing, PoolInv, InPool
<1>. QED
  BY <1>3, <1>4, <1>5, <1>6 DEF Settled

(* A thread stays settled when its stack and its queue stay, or when it    *)
(* moves on.                                                               *)
LEMMA SettledStays ==
  ASSUME NEW t \in B!Threads, Settled(t), stack'[t] = stack[t], deque'[t] = deque[t],
         InPool(t) => InPool(t)'
  PROVE  Settled(t)'
BY SameStack DEF Settled

LEMMA SettledOn ==
  ASSUME NEW t \in B!Threads, Settled(t), deque'[t] = deque[t],
         B!At(t)' = "pooled" => InPool(t)',
         \/ stack'[t] = << >>
         \/ B!At(t)' \in {"reply", "closing", "fail"}
         \/ /\ B!At(t) \in Resting /\ B!At(t)' \in Resting
            /\ B!Top(t)'.req = B!Top(t).req
         \/ B!At(t) = "dispatch" /\ B!At(t)' # "dispatch"
  PROVE  Settled(t)'
<1>1. B!At(t) \in Resting \cup {"dispatch"} => stack[t] # << >>
  BY DEF B!At, Resting
<1>2. B!At(t)' # "dispatch"
  BY DEF B!At, Resting
<1>3. ASSUME NEW i \in 1..Len(deque[t]), stack'[t] # << >>
      PROVE  /\ B!At(t)' \notin {"dispatch", "handle"}
             /\ B!At(t)' \in Resting => deque[t][i].of = B!Top(t)'.req
  BY <1>1, <1>3 DEF Settled, Resting
<1>. QED
  BY <1>2, <1>3 DEF Settled

(* A thread that waits goes elsewhere and waits on.                        *)
LEMMA RestStep ==
  ASSUME BoundInv, NEW t \in B!Threads, B!At(t) \in Resting, NEW place \in Resting,
         B!Goes(t, place),
         UNCHANGED <<setup, done, deque, occupied, seq, late, asked, calling, inbox, closed>>,
         pool' \in Seq(B!Threads), event' \subseteq B!Threads, receiving' \in BOOLEAN,
         \A u \in B!Threads \ {t} : InPool(u) => InPool(u)', place = "pooled" => InPool(t)'
  PROVE  /\ BoundTypes'
         /\ closed' => \A u \in B!Threads : Settled(u)'
         /\ ~closed' => (\A u \in B!Threads : ThreadInv(u)') /\ ReqInv'
         /\ \E f \in BoundFrame : TopIs(t, f) /\ f.at = place /\ f.req = B!Top(t).req
<1>1. BoundTypes /\ stack[t] # << >> /\ place \in BoundPlaces
  BY DEF BoundInv, B!At, Resting, BoundPlaces
<1>2. PICK f \in BoundFrame : TopIs(t, f) /\ f.at = place /\ f.req = B!Top(t).req
  BY <1>1, BoundGoes
<1>3. NoNewRequest
  BY <1>1, <1>2, TopKeepsRequests
<1>4. stack' \in [B!Threads -> Seq(BoundFrame)] /\ B!At(t)' = place /\ B!Top(t)' = f
      /\ \A u \in B!Threads \ {t} : stack'[u] = stack[u]
  BY <1>2 DEF TopIs
<1>5. BoundTypes'
  <2>1. /\ deque' \in [B!Threads -> Seq(Mail)] /\ inbox' \in Seq(Mail) /\ done' \subseteq Callers
        /\ occupied' \in [B!Threads -> Int] /\ closed' \in BOOLEAN
    BY <1>1 DEF BoundTypes
  <2>. QED
    BY <1>1, <1>3, <1>4, <2>1, TypesOn
<1>6. ASSUME NEW u \in B!Threads PROVE Settled(u)'
  <2>1. Settled(u) /\ deque'[u] = deque[u]
    BY AllSettled
  <2>2. CASE u = t
    BY <1>2, <1>4, <2>1, <2>2, SettledOn
  <2>3. CASE u # t
    BY <1>4, <2>1, <2>3, SettledStays
  <2>. QED
    BY <2>2, <2>3
<1>7. ASSUME ~closed'
      PROVE  (\A u \in B!Threads : ThreadInv(u)') /\ ReqInv'
  <2>1. Flow
    BY <1>7 DEF BoundInv
  <2>2. \A u \in B!Threads : MailStays(u) /\ SameCalls(u)
    BY NoMail DEF SameCalls, Open
  <2>3. ThreadInv(t)'
    BY <1>1, <1>2, <2>1, <2>2, RestsOn DEF Flow
  <2>4. ASSUME NEW u \in B!Threads \ {t} PROVE ThreadInv(u)'
    <3>1. Still(u)
      BY <1>4, <2>2 DEF Still, SameCalls
    <3>. QED
      BY <2>1, <3>1, StillThread DEF Flow
  <2>5. ReqInv'
    BY <1>1, <1>3, <2>1, ReqStays DEF Flow
  <2>. QED
    BY <2>3, <2>4, <2>5
<1>. QED
  BY <1>2, <1>5, <1>6, <1>7

(* It takes the message of its queue.                                      *)
LEMMA PopStep ==
  ASSUME BoundInv, NEW t \in B!Threads, B!At(t) \in Resting, deque[t] # << >>, B!PopMessage(t),
         UNCHANGED <<setup, done, occupied, seq, late, asked, calling, inbox, closed>>,
         pool' \in Seq(B!Threads), receiving' \in BOOLEAN,
         \A u \in B!Threads \ {t} : InPool(u) => InPool(u)'
  PROVE  /\ BoundTypes'
         /\ closed' => \A u \in B!Threads : Settled(u)'
         /\ ~closed' => (\A u \in B!Threads : ThreadInv(u)') /\ ReqInv'
         /\ \E f \in BoundFrame : TopIs(t, f) /\ f.at = "dispatch"
         /\ \A u \in B!Threads \ {t} : deque'[u] = deque[u] /\ (u \in event' <=> u \in event)
         /\ t \in event => (deque'[t] # << >> => t \in event')
<1>1. BoundTypes /\ stack[t] # << >>
  BY DEF BoundInv, B!At, Resting
<1>2. PICK m : m = Head(deque[t])
  OBVIOUS
<1>3. /\ deque' = [deque EXCEPT ![t] = Tail(@)] /\ B!Takes(t, m)
      /\ event' = IF Len(deque[t]) = 1 THEN event \ {t} ELSE event
  BY <1>2 DEF B!PopMessage
<1>4. /\ m \in Mail /\ MailGone(t, m) /\ \A u \in B!Threads \ {t} : MailStays(u)
      /\ deque' \in [B!Threads -> Seq(Mail)]
  BY <1>1, <1>2, <1>3, MailPopped
<1>5. PICK f \in BoundFrame : TopIs(t, f) /\ f.at = "dispatch" /\ f.req = B!Top(t).req /\ f.msg = m
  BY <1>1, <1>3, <1>4, BoundTakes
<1>6. NoNewRequest
  BY <1>1, <1>5, TopKeepsRequests
<1>7. stack' \in [B!Threads -> Seq(BoundFrame)] /\ B!At(t)' = "dispatch" /\ B!Top(t)' = f
      /\ \A u \in B!Threads \ {t} : stack'[u] = stack[u]
  BY <1>5 DEF TopIs
<1>8. deque[t] \in Seq(Mail) /\ deque'[t] = Tail(deque[t])
      /\ \A u \in B!Threads \ {t} : deque'[u] = deque[u]
  BY <1>1, <1>3 DEF BoundTypes
<1>9. BoundTypes'
  <2>1. /\ inbox' \in Seq(Mail) /\ done' \subseteq Callers /\ event' \subseteq B!Threads
        /\ occupied' \in [B!Threads -> Int] /\ closed' \in BOOLEAN
    BY <1>1, <1>3 DEF BoundTypes
  <2>. QED
    BY <1>1, <1>4, <1>6, <1>7, <2>1, TypesOn
<1>10. Len(deque[t]) = 1 => deque'[t] = << >>
  <2>1. Len(deque[t]) = 1 => Len(Tail(deque[t])) = 0 /\ Tail(deque[t]) \in Seq(Mail)
    BY <1>8, HeadTailProperties
  <2>. QED
    BY <1>8, <2>1, EmptySeq
<1>11. ASSUME NEW u \in B!Threads PROVE Settled(u)'
  <2>1. Settled(u)
    BY AllSettled
  <2>2. CASE u = t
    <3>1. Len(deque[t]) \in Nat \ {0} /\ 1 \in 1..Len(deque[t]) /\ m = deque[t][1]
      BY <1>2, <1>8, FrontAndLast, HeadTailProperties
    <3>2. Len(deque[t]) = 1 /\ m.of = B!Top(t).req
      BY <1>1, <2>1, <2>2, <3>1 DEF Settled
    <3>3. deque'[t] = << >> /\ f.msg.of = f.req
      BY <1>5, <1>10, <3>2
    <3>. QED
      BY <1>7, <2>2, <3>3 DEF Settled
  <2>3. CASE u # t
    BY <1>7, <1>8, <2>1, <2>3, SettledStays
  <2>. QED
    BY <2>2, <2>3
<1>12. ASSUME ~closed'
       PROVE  (\A u \in B!Threads : ThreadInv(u)') /\ ReqInv'
  <2>1. Flow
    BY <1>12 DEF BoundInv
  <2>2. \A u \in B!Threads : SameCalls(u)
    BY DEF SameCalls, Open
  <2>3. ThreadInv(t)'
    BY <1>1, <1>4, <1>5, <1>9, <2>1, <2>2, TakesOn DEF Flow
  <2>4. ASSUME NEW u \in B!Threads \ {t} PROVE ThreadInv(u)'
    <3>1. Still(u)
      BY <1>4, <1>7, <2>2 DEF Still, SameCalls
    <3>. QED
      BY <2>1, <3>1, StillThread DEF Flow
  <2>5. ReqInv'
    BY <1>1, <1>6, <2>1, ReqStays DEF Flow
  <2>. QED
    BY <2>3, <2>4, <2>5
<1>13. \A u \in B!Threads \ {t} : u \in event' <=> u \in event
  BY <1>3
<1>. QED
  BY <1>3, <1>5, <1>8, <1>9, <1>10, <1>11, <1>12, <1>13

(* A thread that goes on waiting has not been abandoned.                   *)
LEMMA NotAbandonedLoop ==
  ASSUME BoundTypes, ReqInv, NEW t \in B!Threads, B!At(t) = "loop", B!Loops(t)
  PROVE  ~Abandoned(t)
<1>. SUFFICES ASSUME Len(stack[t]) = 1, B!Top(t).req \in late PROVE FALSE
  BY DEF Abandoned, B!At
<1>1. stack[t] # << >>
  BY DEF B!At
<1>2. B!Top(t) = stack[t][1] /\ 1 \in 1..Len(stack[t])
  BY <1>1, BoundTopOf
<1>3. t \in Callers
  BY <1>2 DEF ReqInv
<1>. QED
  BY <1>3, BoundNames DEF B!Loops

(* Who is in _thread_pool after an append and a removal.                   *)
LEMMA PoolGrows ==
  ASSUME BoundTypes, NEW t \in B!Threads, pool' = Append(pool, t)
  PROVE  pool' \in Seq(B!Threads) /\ \A u : InPool(u) \/ u = t => InPool(u)'
<1>1. pool \in Seq(B!Threads) /\ Len(pool) \in Nat
  BY LenProperties DEF BoundTypes
<1>2. /\ pool' \in Seq(B!Threads) /\ Len(pool') = Len(pool) + 1
      /\ \A i \in 1..Len(pool) : pool'[i] = pool[i] /\ i \in 1..Len(pool')
      /\ pool'[Len(pool) + 1] = t /\ Len(pool) + 1 \in 1..Len(pool')
  BY <1>1, AppendProperties
<1>. QED
  BY <1>2 DEF InPool

LEMMA PoolShrinks ==
  ASSUME BoundTypes, NEW t \in B!Threads, InPool(t), pool' = B!Without(pool, t)
  PROVE  pool' \in Seq(B!Threads) /\ \A u : InPool(u) /\ u # t => InPool(u)'
BY PoolWithout DEF InPool

(* The steps of _serve_bound.                                              *)
LEMMA BoundEnter ==
  ASSUME BoundInv, NEW t \in B!Threads, B!Enter(t)
  PROVE  BoundInv'
<1>1. /\ B!At(t) = "loop" /\ B!Loops(t) /\ BoundTypes /\ B!At(t) \in Resting
      /\ UNCHANGED <<setup, done, occupied, seq, late, asked, calling, inbox, closed>>
  BY DEF B!Enter, B!peerVars, BoundInv, Resting
<1>2. CASE t \in event /\ deque[t] # << >> /\ B!PopMessage(t) /\ UNCHANGED <<pool, receiving>>
  <2>1. /\ pool' \in Seq(B!Threads) /\ receiving' \in BOOLEAN
        /\ \A u \in B!Threads \ {t} : InPool(u) => InPool(u)'
    BY <1>1, <1>2 DEF BoundTypes, InPool
  <2>2. /\ BoundTypes' /\ (closed' => \A u \in B!Threads : Settled(u)')
        /\ ~closed' => (\A u \in B!Threads : ThreadInv(u)') /\ ReqInv'
        /\ \A u \in B!Threads \ {t} : deque'[u] = deque[u] /\ (u \in event' <=> u \in event)
        /\ deque'[t] # << >> => t \in event'
    BY <1>1, <1>2, <2>1, PopStep
  <2>3. PICK f \in BoundFrame : TopIs(t, f) /\ f.at = "dispatch"
    BY <1>1, <1>2, <2>1, PopStep
  <2>4. ASSUME ~closed' PROVE Routing'
    <3>1. Flow /\ ~closed
      BY <1>1, <2>4 DEF BoundInv
    <3>2. ~Abandoned(t)
      BY <1>1, <3>1, NotAbandonedLoop DEF Flow
    <3>3. Calm
      <4>1. B!At(t)' = "dispatch" /\ \A u \in B!Threads \ {t} : stack'[u] = stack[u]
        BY <2>3 DEF TopIs
      <4>. QED
        BY <1>1, <3>1, <3>2, <4>1, OneMoves DEF Flow, Routing
    <3>4. \A u \in B!Threads : deque'[u] # << >> => u \in event'
      BY <2>2, <3>1 DEF Flow, Routing, PoolInv
    <3>. QED
      BY <1>1, <1>2, <2>2, <3>1, <3>3, <3>4, CalmStep DEF Flow
  <2>. QED
    BY <2>2, <2>4 DEF BoundInv, Flow
<1>3. CASE /\ ~(t \in event /\ deque[t] # << >>) /\ receiving
           /\ pool' = Append(pool, t) /\ B!Goes(t, "pooled")
           /\ UNCHANGED <<event, deque, receiving>>
  <2>1. pool' \in Seq(B!Threads) /\ receiving' \in BOOLEAN /\ event' \subseteq B!Threads
        /\ "pooled" \in Resting
        /\ (\A u \in B!Threads \ {t} : InPool(u) => InPool(u)') /\ InPool(t)'
    BY <1>1, <1>3, PoolGrows DEF BoundTypes, Resting
  <2>2. /\ BoundTypes' /\ (closed' => \A u \in B!Threads : Settled(u)')
        /\ ~closed' => (\A u \in B!Threads : ThreadInv(u)') /\ ReqInv'
        /\ \E f \in BoundFrame : TopIs(t, f) /\ f.at = "pooled" /\ f.req = B!Top(t).req
    BY <1>1, <1>3, <2>1, RestStep
  <2>3. PICK f \in BoundFrame : TopIs(t, f) /\ f.at = "pooled"
    BY <2>2
  <2>4. ASSUME ~closed' PROVE Routing'
    <3>1. Flow /\ ~closed
      BY <1>1, <2>4 DEF BoundInv
    <3>2. ~Abandoned(t)
      BY <1>1, <3>1, NotAbandonedLoop DEF Flow
    <3>. QED
      BY <1>1, <1>3, <2>3, <3>1, <3>2, JoinsPool DEF Flow
  <2>. QED
    BY <2>2, <2>4 DEF BoundInv, Flow
<1>4. CASE /\ ~(t \in event /\ deque[t] # << >>) /\ ~receiving
           /\ receiving' = TRUE /\ B!Goes(t, "recv")
           /\ UNCHANGED <<event, deque, pool>>
  <2>1. pool' \in Seq(B!Threads) /\ receiving' \in BOOLEAN /\ event' \subseteq B!Threads
        /\ "recv" \in Resting /\ "recv" # "pooled"
        /\ \A u \in B!Threads \ {t} : InPool(u) => InPool(u)'
    BY <1>1, <1>4 DEF BoundTypes, Resting, InPool
  <2>2. /\ BoundTypes' /\ (closed' => \A u \in B!Threads : Settled(u)')
        /\ ~closed' => (\A u \in B!Threads : ThreadInv(u)') /\ ReqInv'
        /\ \E f \in BoundFrame : TopIs(t, f) /\ f.at = "recv" /\ f.req = B!Top(t).req
    BY <1>1, <1>4, <2>1, RestStep
  <2>3. PICK f \in BoundFrame : TopIs(t, f) /\ f.at = "recv"
    BY <2>2
  <2>4. ASSUME ~closed' PROVE Routing'
    <3>1. Flow /\ ~closed
      BY <1>1, <2>4 DEF BoundInv
    <3>2. ~Abandoned(t)
      BY <1>1, <3>1, NotAbandonedLoop DEF Flow
    <3>3. deque[t] = << >>
      BY <1>4, <3>1 DEF Flow, Routing, PoolInv
    <3>. QED
      BY <1>1, <1>4, <2>3, <3>1, <3>2, <3>3, StartsReceiving DEF Flow
  <2>. QED
    BY <2>2, <2>4 DEF BoundInv, Flow
<1>. QED
  BY <1>1, <1>2, <1>3, <1>4 DEF B!Enter

LEMMA BoundWakeUp ==
  ASSUME BoundInv, NEW t \in B!Threads, B!WakeUp(t)
  PROVE  BoundInv'
<1>1. /\ B!At(t) = "pooled" /\ t \in event /\ BoundTypes /\ B!At(t) \in Resting
      /\ UNCHANGED <<setup, done, occupied, seq, late, asked, calling, inbox, closed>>
  BY DEF B!WakeUp, B!peerVars, BoundInv, Resting
<1>2. InPool(t)
  BY <1>1, AllSettled DEF Settled
<1>3. CASE deque[t] # << >> /\ B!PopMessage(t) /\ pool' = B!Without(pool, t) /\ UNCHANGED receiving
  <2>1. /\ pool' \in Seq(B!Threads) /\ receiving' \in BOOLEAN
        /\ \A u \in B!Threads \ {t} : InPool(u) => InPool(u)'
    BY <1>1, <1>2, <1>3, PoolShrinks DEF BoundTypes
  <2>2. /\ BoundTypes' /\ (closed' => \A u \in B!Threads : Settled(u)')
        /\ ~closed' => (\A u \in B!Threads : ThreadInv(u)') /\ ReqInv'
        /\ \A u \in B!Threads \ {t} : deque'[u] = deque[u] /\ (u \in event' <=> u \in event)
        /\ deque'[t] # << >> => t \in event'
    BY <1>1, <1>3, <2>1, PopStep
  <2>3. PICK f \in BoundFrame : TopIs(t, f) /\ f.at = "dispatch"
    BY <1>1, <1>3, <2>1, PopStep
  <2>4. ASSUME ~closed' PROVE Routing'
    <3>1. Flow /\ ~closed
      BY <1>1, <2>4 DEF BoundInv
    <3>. QED
      BY <1>1, <1>3, <2>2, <2>3, <3>1, LeavesPool DEF Flow
  <2>. QED
    BY <2>2, <2>4 DEF BoundInv, Flow
<1>4. CASE /\ deque[t] = << >> /\ event' = event \ {t} /\ UNCHANGED deque
           /\ receiving /\ UNCHANGED <<stack, pool, receiving>>
  <2>1. BoundTypes'
    <3>1. NoNewRequest
      BY <1>4 DEF NoNewRequest
    <3>2. /\ stack' \in [B!Threads -> Seq(BoundFrame)]
          /\ inbox' \in Seq(Mail) /\ deque' \in [B!Threads -> Seq(Mail)]
          /\ pool' \in Seq(B!Threads) /\ event' \subseteq B!Threads
          /\ occupied' \in [B!Threads -> Int] /\ done' \subseteq Callers
          /\ receiving' \in BOOLEAN /\ closed' \in BOOLEAN
      BY <1>1, <1>4 DEF BoundTypes
    <3>. QED
      BY <1>1, <3>1, <3>2, TypesOn
  <2>2. \A u \in B!Threads : Settled(u)'
    BY <1>4, AllSettled, SettledStays DEF InPool
  <2>3. ASSUME ~closed' PROVE Flow'
    <3>1. Flow
      BY <1>1, <2>3 DEF BoundInv
    <3>2. \A u \in B!Threads : Still(u)
      <4>1. \A u : MailStays(u)
        BY <1>1, <1>4, NoMail
      <4>. QED
        BY <1>1, <1>4, <4>1 DEF Still, Open
    <3>3. \A u \in B!Threads : ThreadInv(u)'
      BY <3>1, <3>2, StillThread DEF Flow
    <3>4. ReqInv'
      <4>1. NoNewRequest
        BY <1>4 DEF NoNewRequest
      <4>. QED
        BY <1>1, <3>1, <4>1, ReqStays DEF Flow
    <3>5. Routing'
      <4>1. Calm
        BY <1>1, <1>4, <3>1, NobodyMoves DEF Flow, Routing
      <4>2. \A u \in B!Threads : deque'[u] # << >> => u \in event'
        BY <1>4, <3>1 DEF Flow, Routing, PoolInv
      <4>. QED
        BY <1>1, <1>4, <3>1, <4>1, <4>2, CalmStep DEF Flow
    <3>. QED
      BY <3>3, <3>4, <3>5 DEF Flow
  <2>. QED
    BY <2>1, <2>2, <2>3 DEF BoundInv
<1>5. CASE /\ deque[t] = << >> /\ event' = event \ {t} /\ UNCHANGED deque
           /\ ~receiving /\ receiving' = TRUE /\ B!Goes(t, "recv") /\ pool' = B!Without(pool, t)
  <2>1. /\ pool' \in Seq(B!Threads) /\ receiving' \in BOOLEAN /\ event' \subseteq B!Threads
        /\ "recv" \in Resting /\ "recv" # "pooled"
        /\ \A u \in B!Threads \ {t} : InPool(u) => InPool(u)'
    BY <1>1, <1>2, <1>5, PoolShrinks DEF BoundTypes, Resting
  <2>2. /\ BoundTypes' /\ (closed' => \A u \in B!Threads : Settled(u)')
        /\ ~closed' => (\A u \in B!Threads : ThreadInv(u)') /\ ReqInv'
        /\ \E f \in BoundFrame : TopIs(t, f) /\ f.at = "recv" /\ f.req = B!Top(t).req
    BY <1>1, <1>5, <2>1, RestStep
  <2>3. PICK f \in BoundFrame : TopIs(t, f) /\ f.at = "recv"
    BY <2>2
  <2>4. ASSUME ~closed' PROVE Routing'
    <3>1. Flow /\ ~closed
      BY <1>1, <2>4 DEF BoundInv
    <3>2. /\ \A u \in B!Threads \ {t} : deque'[u] = deque[u] /\ (u \in event' <=> u \in event)
          /\ deque'[t] = << >>
      BY <1>5
    <3>. QED
      BY <1>1, <1>5, <2>3, <3>1, <3>2, LeavesPool DEF Flow
  <2>. QED
    BY <2>2, <2>4 DEF BoundInv, Flow
<1>. QED
  BY <1>3, <1>4, <1>5 DEF B!WakeUp

(* Only a caller outside of any handler waits for a request that expired.  *)
LEMMA LateTop ==
  ASSUME BoundTypes, ReqInv, NEW t \in B!Threads, stack[t] # << >>, B!Top(t).req \in late
  PROVE  Len(stack[t]) = 1 /\ t \in Callers /\ late # {}
<1>1. B!Top(t) = stack[t][Len(stack[t])] /\ Len(stack[t]) \in 1..Len(stack[t])
  BY BoundTopOf
<1>. QED
  BY <1>1 DEF ReqInv

LEMMA BoundPoolTimesOut ==
  ASSUME BoundInv, NEW t \in B!Threads, B!PoolTimesOut(t)
  PROVE  BoundInv'
<1>1. /\ B!At(t) = "pooled" /\ BoundTypes /\ B!At(t) \in Resting /\ stack[t] # << >>
      /\ B!Goes(t, "loop") /\ B!Top(t).req \in late
      /\ UNCHANGED <<setup, done, event, deque, pool, receiving, occupied, seq, late, asked,
                     calling, inbox, closed>>
  BY DEF B!PoolTimesOut, B!TimesOut, B!peerVars, B!routeVars, BoundInv, Resting, B!At
<1>2. /\ pool' \in Seq(B!Threads) /\ receiving' \in BOOLEAN /\ event' \subseteq B!Threads
      /\ "loop" \in Resting /\ "loop" # "pooled"
      /\ \A u \in B!Threads \ {t} : InPool(u) => InPool(u)'
  BY <1>1 DEF BoundTypes, Resting, InPool
<1>3. /\ BoundTypes' /\ (closed' => \A u \in B!Threads : Settled(u)')
      /\ ~closed' => (\A u \in B!Threads : ThreadInv(u)') /\ ReqInv'
      /\ \E f \in BoundFrame : TopIs(t, f) /\ f.at = "loop" /\ f.req = B!Top(t).req
  BY <1>1, <1>2, RestStep
<1>4. PICK f \in BoundFrame : TopIs(t, f) /\ f.at = "loop" /\ f.req = B!Top(t).req
  BY <1>3
<1>5. ASSUME ~closed' PROVE Routing'
  <2>1. Flow
    BY <1>1, <1>5 DEF BoundInv
  <2>2. Len(stack[t]) = 1 /\ late # {}
    BY <1>1, <2>1, LateTop DEF Flow
  <2>3. Abandoned(t)'
    BY <1>1, <1>4, <2>2 DEF TopIs, Abandoned
  <2>. QED
    BY <1>1, <1>4, <2>1, <2>2, <2>3, LeavesUnseen DEF Flow
<1>. QED
  BY <1>3, <1>5 DEF BoundInv, Flow

LEMMA BoundReceiveNothing ==
  ASSUME BoundInv, NEW t \in B!Threads, B!ReceiveNothing(t)
  PROVE  BoundInv'
<1>1. /\ B!At(t) = "recv" /\ BoundTypes /\ B!At(t) \in Resting
      /\ B!Goes(t, "loop") /\ B!StopReceiving
      /\ UNCHANGED <<setup, done, deque, pool, occupied, seq, late, asked, calling, inbox, closed>>
  BY DEF B!ReceiveNothing, B!peerVars, BoundInv, Resting
<1>2. /\ pool' \in Seq(B!Threads) /\ receiving' \in BOOLEAN /\ event' \subseteq B!Threads
      /\ "loop" \in Resting /\ "loop" # "pooled"
      /\ \A u \in B!Threads \ {t} : InPool(u) => InPool(u)'
  BY <1>1, SuccessorOf DEF BoundTypes, Resting, InPool, B!StopReceiving
<1>3. /\ BoundTypes' /\ (closed' => \A u \in B!Threads : Settled(u)')
      /\ ~closed' => (\A u \in B!Threads : ThreadInv(u)') /\ ReqInv'
      /\ \E f \in BoundFrame : TopIs(t, f) /\ f.at = "loop" /\ f.req = B!Top(t).req
  BY <1>1, <1>2, RestStep
<1>4. ASSUME ~closed' PROVE Routing'
  <2>1. Flow
    BY <1>1, <1>4 DEF BoundInv
  <2>. QED
    BY <1>1, <1>3, <2>1, StopsReceiving DEF Flow
<1>. QED
  BY <1>3, <1>4 DEF BoundInv, Flow

(* A step of a thread that is neither in the pool nor receives.            *)
LEMMA QuietMove ==
  ASSUME BoundTypes, Routing, NEW t \in B!Threads,
         \A u \in B!Threads \ {t} : stack'[u] = stack[u],
         B!At(t) \notin {"pooled", "recv"}, B!At(t)' \notin {"pooled", "recv", "closing", "fail"},
         Abandoned(t) => Abandoned(t)', done \subseteq done',
         UNCHANGED <<event, deque, pool, receiving, late>>
  PROVE  Routing'
<1>1. Calm
  BY OneMoves DEF Routing
<1>2. \A u \in B!Threads : deque'[u] # << >> => u \in event'
  BY DEF Routing, PoolInv
<1>. QED
  BY <1>1, <1>2, CalmStep

(* All threads stay settled when one ends a frame or a message.            *)
LEMMA SettledAll ==
  ASSUME BoundInv, NEW t \in B!Threads, \A u \in B!Threads \ {t} : stack'[u] = stack[u],
         UNCHANGED <<deque, pool>>,
         \/ stack'[t] = << >> \/ B!At(t)' \in {"reply", "closing", "fail"}
         \/ B!At(t) = "dispatch" /\ B!At(t)' \notin {"dispatch", "pooled"}
  PROVE  \A u \in B!Threads : Settled(u)'
<1>1. B!At(t)' # "pooled"
  BY DEF B!At
<1>2. ASSUME NEW u \in B!Threads PROVE Settled(u)'
  <2>1. Settled(u)
    BY AllSettled
  <2>2. CASE u = t
    BY <1>1, <2>1, <2>2, SettledOn
  <2>3. CASE u # t
    BY <2>1, <2>3, SettledStays DEF InPool
  <2>. QED
    BY <2>2, <2>3
<1>. QED
  BY <1>2

LEMMA BoundDispatch ==
  ASSUME BoundInv, NEW t \in B!Threads, B!Dispatch(t)
  PROVE  BoundInv'
<1>1. /\ B!At(t) = "dispatch" /\ BoundTypes /\ stack[t] # << >>
      /\ UNCHANGED <<setup, done, event, deque, pool, receiving, seq, late, asked, calling,
                     inbox, closed>>
  BY DEF B!Dispatch, B!peerVars, B!routeVars, BoundInv, B!At
<1>2. B!Top(t) \in BoundFrame /\ B!Top(t).at = "dispatch" /\ B!Top(t).req \in Nat
  BY <1>1, BoundTopOf DEF BoundFrame
<1>3. CASE /\ B!Top(t).msg.kind = "request"
           /\ occupied' = [occupied EXCEPT ![t] = @ + 1] /\ B!Goes(t, "handle")
  <2>1. PICK f \in BoundFrame : /\ TopIs(t, f) /\ f.at = "handle"
                                /\ f.req = B!Top(t).req /\ f.msg = B!Top(t).msg
    BY <1>1, <1>3, BoundGoes DEF BoundPlaces
  <2>2. NoNewRequest
    BY <1>1, <2>1, TopKeepsRequests
  <2>3. stack' \in [B!Threads -> Seq(BoundFrame)] /\ B!At(t)' = "handle"
        /\ \A u \in B!Threads \ {t} : stack'[u] = stack[u]
    BY <2>1 DEF TopIs
  <2>4. /\ occupied' \in [B!Threads -> Int] /\ occupied'[t] = occupied[t] + 1
        /\ \A u \in B!Threads \ {t} : occupied'[u] = occupied[u]
    BY <1>1, <1>3 DEF BoundTypes
  <2>5. BoundTypes'
    <3>1. /\ inbox' \in Seq(Mail) /\ deque' \in [B!Threads -> Seq(Mail)]
          /\ pool' \in Seq(B!Threads) /\ event' \subseteq B!Threads /\ done' \subseteq Callers
          /\ receiving' \in BOOLEAN /\ closed' \in BOOLEAN
      BY <1>1 DEF BoundTypes
    <3>. QED
      BY <1>1, <2>2, <2>3, <2>4, <3>1, TypesOn
  <2>6. \A u \in B!Threads : Settled(u)'
    BY <1>1, <2>3, SettledAll
  <2>7. ASSUME ~closed' PROVE Flow'
    <3>1. Flow
      BY <1>1, <2>7 DEF BoundInv
    <3>2. \A u \in B!Threads : MailStays(u) /\ SameCalls(u)
      BY <1>1, NoMail DEF SameCalls, Open
    <3>3. ThreadInv(t)'
      BY <1>1, <1>3, <2>1, <2>4, <2>5, <3>1, <3>2, HandlesOn DEF Flow
    <3>4. ASSUME NEW u \in B!Threads \ {t} PROVE ThreadInv(u)'
      <4>1. Still(u)
        BY <1>1, <2>3, <2>4, <3>2 DEF Still, SameCalls
      <4>. QED
        BY <3>1, <4>1, StillThread DEF Flow
    <3>5. ReqInv'
      BY <1>1, <2>2, <3>1, ReqStays DEF Flow
    <3>6. Routing'
      BY <1>1, <2>3, <3>1, QuietMove DEF Flow, Abandoned
    <3>. QED
      BY <3>3, <3>4, <3>5, <3>6 DEF Flow
  <2>. QED
    BY <2>5, <2>6, <2>7 DEF BoundInv
<1>4. CASE /\ B!Top(t).msg.kind # "request" /\ occupied' = B!Freed(t)
           /\ stack' = [stack EXCEPT ![t][B!Depth(t)] =
                IF B!Top(t).msg.of = B!Top(t).req THEN B!Waiting(0) ELSE B!Waiting(B!Top(t).req)]
  <2>1. PICK r \in Nat : r = IF B!Top(t).msg.of = B!Top(t).req THEN 0 ELSE B!Top(t).req
    BY <1>2
  <2>2. stack' = [stack EXCEPT ![t][B!Depth(t)] = B!Waiting(r)]
    BY <1>4, <2>1
  <2>3. PICK f \in BoundFrame : TopIs(t, f) /\ f.at = "loop" /\ f.req = r
    BY <1>1, <2>2, BoundWaits
  <2>4. NoNewRequest
    BY <1>1, <2>1, <2>3, TopKeepsRequests
  <2>5. stack' \in [B!Threads -> Seq(BoundFrame)] /\ B!At(t)' = "loop"
        /\ \A u \in B!Threads \ {t} : stack'[u] = stack[u]
    BY <2>3 DEF TopIs
  <2>6. /\ occupied' \in [B!Threads -> Int] /\ occupied'[t] = occupied[t] - 1
        /\ \A u \in B!Threads \ {t} : occupied'[u] = occupied[u]
    BY <1>1, <1>4 DEF BoundTypes, B!Freed
  <2>7. BoundTypes'
    <3>1. /\ inbox' \in Seq(Mail) /\ deque' \in [B!Threads -> Seq(Mail)]
          /\ pool' \in Seq(B!Threads) /\ event' \subseteq B!Threads /\ done' \subseteq Callers
          /\ receiving' \in BOOLEAN /\ closed' \in BOOLEAN
      BY <1>1 DEF BoundTypes
    <3>. QED
      BY <1>1, <2>4, <2>5, <2>6, <3>1, TypesOn
  <2>8. \A u \in B!Threads : Settled(u)'
    BY <1>1, <2>5, SettledAll
  <2>9. ASSUME ~closed' PROVE Flow'
    <3>1. Flow
      BY <1>1, <2>9 DEF BoundInv
    <3>2. \A u \in B!Threads : MailStays(u) /\ SameCalls(u)
      BY <1>1, NoMail DEF SameCalls, Open
    <3>3. B!Top(t).msg.kind = "reply" /\ r = 0
      <4>1. FrameFits(t, B!Top(t))
        BY <1>1, <3>1, BoundTopOf DEF Flow, ThreadInv, FramesFit
      <4>. QED
        BY <1>2, <1>4, <2>1, <4>1 DEF FrameFits, Engaged, Mail
    <3>4. ThreadInv(t)'
      BY <1>1, <2>3, <2>6, <2>7, <3>1, <3>2, <3>3, RepliedOn DEF Flow
    <3>5. ASSUME NEW u \in B!Threads \ {t} PROVE ThreadInv(u)'
      <4>1. Still(u)
        BY <1>1, <2>5, <2>6, <3>2 DEF Still, SameCalls
      <4>. QED
        BY <3>1, <4>1, StillThread DEF Flow
    <3>6. ReqInv'
      BY <1>1, <2>4, <3>1, ReqStays DEF Flow
    <3>7. Routing'
      BY <1>1, <2>5, <3>1, QuietMove DEF Flow, Abandoned
    <3>. QED
      BY <3>4, <3>5, <3>6, <3>7 DEF Flow
  <2>. QED
    BY <2>7, <2>8, <2>9 DEF BoundInv
<1>. QED
  BY <1>3, <1>4 DEF B!Dispatch

LEMMA BoundReply ==
  ASSUME BoundInv, NEW t \in B!Threads, B!Reply(t)
  PROVE  BoundInv'
<1>1. /\ B!At(t) \in {"handle", "reply"} /\ BoundTypes /\ stack[t] # << >> /\ Flow
      /\ ~closed /\ occupied' = B!Freed(t) /\ calling' = calling \ {B!Top(t).msg.of}
      /\ stack' = [stack EXCEPT ![t][B!Depth(t)] = B!Waiting(B!Top(t).req)]
      /\ UNCHANGED <<setup, done, event, deque, pool, receiving, seq, late, asked, inbox, closed>>
  BY DEF B!Reply, B!routeVars, BoundInv, B!At
<1>2. PICK r \in Nat : r = B!Top(t).req
  BY <1>1, BoundTopOf DEF BoundFrame
<1>3. PICK f \in BoundFrame : TopIs(t, f) /\ f.at = "loop" /\ f.req = r
  BY <1>1, <1>2, BoundWaits
<1>4. NoNewRequest
  BY <1>1, <1>2, <1>3, TopKeepsRequests
<1>5. stack' \in [B!Threads -> Seq(BoundFrame)] /\ B!At(t)' = "loop"
      /\ \A u \in B!Threads \ {t} : stack'[u] = stack[u]
  BY <1>3 DEF TopIs
<1>6. /\ occupied' \in [B!Threads -> Int] /\ occupied'[t] = occupied[t] - 1
      /\ \A u \in B!Threads \ {t} : occupied'[u] = occupied[u]
  BY <1>1 DEF BoundTypes, B!Freed
<1>7. BoundTypes'
  <2>1. /\ inbox' \in Seq(Mail) /\ deque' \in [B!Threads -> Seq(Mail)]
        /\ pool' \in Seq(B!Threads) /\ event' \subseteq B!Threads /\ done' \subseteq Callers
        /\ receiving' \in BOOLEAN /\ closed' \in BOOLEAN /\ calling' \subseteq calling
    BY <1>1 DEF BoundTypes
  <2>. QED
    BY <1>1, <1>4, <1>5, <1>6, <2>1, TypesOn
<1>8. \A u \in B!Threads : MailStays(u)
  BY <1>1, NoMail
<1>9. ThreadInv(t)' /\ \A u \in B!Threads \ {t} : SameCalls(u)
  BY <1>1, <1>2, <1>3, <1>6, <1>7, <1>8, AnswersOn DEF Flow
<1>10. ASSUME NEW u \in B!Threads \ {t} PROVE ThreadInv(u)'
  <2>1. Still(u)
    BY <1>1, <1>5, <1>6, <1>8, <1>9 DEF Still, SameCalls
  <2>. QED
    BY <1>1, <2>1, StillThread DEF Flow
<1>11. ReqInv'
  BY <1>1, <1>4, ReqStays DEF Flow
<1>12. Routing'
  BY <1>1, <1>5, QuietMove DEF Flow, Abandoned
<1>. QED
  BY <1>1, <1>7, <1>9, <1>10, <1>11, <1>12 DEF BoundInv, Flow

LEMMA BoundReturn ==
  ASSUME BoundInv, NEW t \in B!Threads, B!Return(t)
  PROVE  BoundInv'
<1>1. /\ B!At(t) = "loop" /\ ~B!Loops(t) /\ BoundTypes /\ stack[t] # << >>
      /\ stack' = B!Unwound(t) /\ done \subseteq done' /\ done' \subseteq done \cup (Callers \cap {t})
      /\ Len(stack[t]) = 1 /\ t \in Callers => t \in done'
      /\ UNCHANGED <<setup, event, deque, pool, receiving, occupied, seq, late, asked, calling,
                     inbox, closed>>
  BY DEF B!Return, B!peerVars, B!routeVars, BoundInv, B!At, B!Depth
<1>2. Popped(t)
  BY <1>1, BoundUnwinds
<1>3. NoNewRequest
  BY <1>1, <1>2, PopKeepsRequests
<1>4. Len(stack[t]) \in Nat \ {0} /\ B!Top(t) = stack[t][Len(stack[t])]
  BY <1>1, BoundTopOf
<1>5. /\ stack' \in [B!Threads -> Seq(BoundFrame)] /\ \A u \in B!Threads \ {t} : stack'[u] = stack[u]
      /\ stack'[t] = << >> \/ B!At(t)' = "reply"
      /\ B!At(t)' \in {"idle", "reply"}
  BY <1>2 DEF Popped
<1>6. BoundTypes'
  <2>1. /\ inbox' \in Seq(Mail) /\ deque' \in [B!Threads -> Seq(Mail)]
        /\ pool' \in Seq(B!Threads) /\ event' \subseteq B!Threads /\ done' \subseteq Callers
        /\ occupied' \in [B!Threads -> Int] /\ receiving' \in BOOLEAN /\ closed' \in BOOLEAN
    BY <1>1 DEF BoundTypes
  <2>. QED
    BY <1>1, <1>3, <1>5, <2>1, TypesOn
<1>7. \A u \in B!Threads : Settled(u)'
  BY <1>1, <1>5, SettledAll
<1>8. ASSUME ~closed' PROVE Flow'
  <2>1. Flow /\ ~closed
    BY <1>1, <1>8 DEF BoundInv
  <2>2. \A u \in B!Threads : MailStays(u) /\ SameCalls(u)
    BY <1>1, NoMail DEF SameCalls, Open
  <2>3. ThreadInv(t)'
    <3>1. CASE Len(stack[t]) = 1
      <4>1. t \in done' \/ (occupied[t] = 0 /\ deque[t] = << >>)
        <5>1. CASE t \in Workers
          BY <1>1, <2>1, <3>1, <5>1 DEF B!Loops, B!Depth
        <5>2. CASE t \in Servers
          BY <1>1, <2>1, <3>1, <5>2, BoundNames DEF B!Loops, B!Depth
        <5>3. CASE t \in Callers
          BY <1>1, <3>1, <5>3
        <5>. QED
          BY <5>1, <5>2, <5>3, BoundNames
      <4>. QED
        BY <1>1, <1>2, <1>6, <2>1, <2>2, <3>1, <4>1, EndsOn, BoundNames DEF Flow
    <3>2. CASE Len(stack[t]) # 1
      <4>1. B!Top(t).req \in {0} \cup late
        BY <1>1, <3>2 DEF B!Loops, B!Depth
      <4>2. B!Top(t).req = 0
        BY <1>1, <2>1, <3>2, <4>1, LateTop DEF Flow
      <4>. QED
        BY <1>1, <1>2, <1>6, <2>1, <2>2, <3>2, <4>2, GoesBack DEF Flow
    <3>. QED
      BY <3>1, <3>2
  <2>4. ASSUME NEW u \in B!Threads \ {t} PROVE ThreadInv(u)'
    <3>1. Still(u)
      BY <1>1, <1>5, <2>2 DEF Still, SameCalls
    <3>. QED
      BY <2>1, <3>1, StillThread DEF Flow
  <2>5. ReqInv'
    BY <1>1, <1>3, <2>1, ReqStays DEF Flow
  <2>6. Abandoned(t) => Abandoned(t)'
    <3>. SUFFICES ASSUME Abandoned(t) PROVE Abandoned(t)'
      OBVIOUS
    <3>1. Len(stack[t]) = 1 /\ B!Top(t).req \in late /\ late # {}
      BY <1>1 DEF Abandoned
    <3>2. t \in Callers
      BY <1>1, <2>1, <3>1, LateTop DEF Flow
    <3>. QED
      BY <1>1, <1>2, <3>1, <3>2 DEF Popped, Abandoned
  <2>7. Routing'
    BY <1>1, <1>5, <2>1, <2>6, QuietMove DEF Flow
  <2>. QED
    BY <2>3, <2>4, <2>5, <2>7 DEF Flow
<1>. QED
  BY <1>6, <1>7, <1>8 DEF BoundInv

(* The calls that fail, and those whose time is over.                      *)
LEMMA BoundStartFails ==
  ASSUME BoundInv, NEW t \in B!Threads, B!StartFails(t)
  PROVE  BoundInv'
<1>1. /\ t \in Callers /\ closed /\ done' = done \cup {t} /\ BoundTypes
      /\ UNCHANGED <<setup, stack, event, deque, pool, receiving, occupied, seq, late, asked,
                     calling, inbox, closed>>
  BY DEF B!StartFails, B!peerVars, B!routeVars, BoundInv
<1>2. BoundTypes'
  BY <1>1 DEF BoundTypes
<1>3. ASSUME NEW u \in B!Threads PROVE Settled(u)'
  BY <1>1, SettledStays DEF BoundInv, InPool
<1>. QED
  BY <1>1, <1>2, <1>3 DEF BoundInv

LEMMA BoundExpire ==
  ASSUME BoundInv, NEW t \in B!Threads, B!Expire(t)
  PROVE  BoundInv'
<1>1. /\ t \in setup.impatient /\ Len(stack[t]) = 1 /\ stack[t][1].req \notin late \cup {0}
      /\ late' = late \cup {stack[t][1].req} /\ BoundTypes
      /\ UNCHANGED <<setup, stack, done, event, deque, pool, receiving, occupied, seq, asked,
                     calling, inbox, closed>>
  BY DEF B!Expire, B!peerVars, B!routeVars, BoundInv, B!Depth
<1>2. t \in Callers
  BY <1>1, BoundNames
<1>3. 1 \in 1..Len(stack[t])
  BY <1>1
<1>4. BoundTypes'
  <2>1. stack[t][1] \in BoundFrame /\ stack[t][1].req <= seq
    BY <1>1, <1>3, ElementOfSeq DEF BoundTypes
  <2>2. stack[t][1].req \in 1..seq
    BY <1>1, <2>1 DEF BoundTypes, BoundFrame
  <2>3. late' \subseteq 1..seq
    BY <1>1, <2>2 DEF BoundTypes
  <2>. QED
    BY <1>1, <2>3 DEF BoundTypes
<1>5. ASSUME NEW u \in B!Threads PROVE Settled(u)'
  BY <1>1, AllSettled, SettledStays DEF InPool
<1>6. ASSUME ~closed' PROVE Flow'
  <2>1. Flow
    BY <1>1, <1>6 DEF BoundInv
  <2>2. ASSUME NEW u \in B!Threads PROVE ThreadInv(u)'
    <3>1. Still(u)
      BY <1>1, NoMail DEF Still, Open
    <3>. QED
      BY <2>1, <3>1, StillThread DEF Flow
  <2>3. ReqInv'
    <3>1. ASSUME NEW u \in B!Threads, NEW i \in 1..Len(stack[u]), stack[u][i].req = stack[t][1].req
          PROVE  i = 1 /\ u \in Callers
      BY <1>1, <1>2, <1>3, <2>1, <3>1 DEF Flow, ReqInv
    <3>2. \A u \in B!Threads : \A i \in 1..Len(stack[u]) :
            stack[u][i].req \in late' => i = 1 /\ u \in Callers
      BY <1>1, <2>1, <3>1 DEF Flow, ReqInv
    <3>. QED
      BY <1>1, <2>1, <3>2 DEF Flow, ReqInv
  <2>4. Routing'
    <3>1. Calm
      BY <1>1, <2>1, NobodyMoves DEF Flow, Routing
    <3>2. \A u \in B!Threads : deque'[u] # << >> => u \in event'
      BY <1>1, <2>1 DEF Flow, Routing, PoolInv
    <3>. QED
      BY <1>1, <2>1, <3>1, <3>2, CalmStep DEF Flow
  <2>. QED
    BY <2>2, <2>3, <2>4 DEF Flow
<1>. QED
  BY <1>4, <1>5, <1>6 DEF BoundInv

(* The end of the connection: EOF, close() that returns, and the threads   *)
(* that raise.  Nothing is routed any more.                                *)
LEMMA BoundReceiveEOF ==
  ASSUME BoundInv, NEW t \in B!Threads, B!ReceiveEOF(t)
  PROVE  BoundInv'
<1>1. /\ B!At(t) = "recv" /\ stack[t] # << >> /\ closed' = TRUE /\ BoundTypes
      /\ UNCHANGED <<setup, done, event, deque, pool, receiving, occupied, seq, late, asked,
                     calling, inbox>>
  BY DEF B!ReceiveEOF, B!peerVars, B!routeVars, BoundInv, B!At
<1>2. PICK place \in {"fail", "closing"} : B!Goes(t, place)
  BY DEF B!ReceiveEOF
<1>3. place \in BoundPlaces
  BY DEF BoundPlaces
<1>4. PICK f \in BoundFrame : TopIs(t, f) /\ f.at = place /\ f.req = B!Top(t).req
  BY <1>1, <1>2, <1>3, BoundGoes
<1>5. NoNewRequest
  BY <1>1, <1>4, TopKeepsRequests
<1>6. stack' \in [B!Threads -> Seq(BoundFrame)] /\ B!At(t)' = place
      /\ \A u \in B!Threads \ {t} : stack'[u] = stack[u]
  BY <1>4 DEF TopIs
<1>7. BoundTypes'
  <2>1. /\ inbox' \in Seq(Mail) /\ deque' \in [B!Threads -> Seq(Mail)]
        /\ pool' \in Seq(B!Threads) /\ event' \subseteq B!Threads /\ done' \subseteq Callers
        /\ occupied' \in [B!Threads -> Int] /\ receiving' \in BOOLEAN /\ closed' \in BOOLEAN
    BY <1>1 DEF BoundTypes
  <2>. QED
    BY <1>1, <1>5, <1>6, <2>1, TypesOn
<1>8. \A u \in B!Threads : Settled(u)'
  BY <1>1, <1>6, SettledAll
<1>. QED
  BY <1>1, <1>7, <1>8 DEF BoundInv

LEMMA BoundCloseReturns ==
  ASSUME BoundInv, NEW t \in B!Threads, B!CloseReturns(t)
  PROVE  BoundInv'
<1>1. /\ B!At(t) = "closing" /\ stack[t] # << >> /\ BoundTypes /\ receiving' = FALSE
      /\ event' = event \cup B!FirstIn(pool, LAMBDA u : TRUE) /\ B!Goes(t, "fail")
      /\ UNCHANGED <<setup, done, deque, pool, occupied, seq, late, asked, calling, inbox, closed>>
  BY DEF B!CloseReturns, B!peerVars, BoundInv, B!At
<1>2. closed
  BY <1>1 DEF BoundInv, Flow, Routing, RecvInv
<1>3. event' \subseteq B!Threads
  <2>1. \A i \in 1..Len(pool) : pool[i] \in B!Threads
    BY <1>1, ElementOfSeq DEF BoundTypes
  <2>2. Len(pool) \in Nat
    BY <1>1, LenProperties DEF BoundTypes
  <2>3. B!FirstIn(pool, LAMBDA u : TRUE) \subseteq B!Threads
    <3>1. CASE Len(pool) = 0
      BY <3>1 DEF B!FirstIn
    <3>2. CASE Len(pool) # 0
      <4>1. \E i \in 1..Len(pool) : TRUE /\ \A j \in 1..(i - 1) : ~TRUE
        BY <2>2, <3>2
      <4>. QED
        BY <2>1, <4>1 DEF B!FirstIn
    <3>. QED
      BY <3>1, <3>2
  <2>. QED
    BY <1>1, <2>3 DEF BoundTypes
<1>4. PICK f \in BoundFrame : TopIs(t, f) /\ f.at = "fail" /\ f.req = B!Top(t).req
  BY <1>1, BoundGoes DEF BoundPlaces
<1>5. NoNewRequest
  BY <1>1, <1>4, TopKeepsRequests
<1>6. stack' \in [B!Threads -> Seq(BoundFrame)] /\ B!At(t)' = "fail"
      /\ \A u \in B!Threads \ {t} : stack'[u] = stack[u]
  BY <1>4 DEF TopIs
<1>7. BoundTypes'
  <2>1. /\ inbox' \in Seq(Mail) /\ deque' \in [B!Threads -> Seq(Mail)]
        /\ pool' \in Seq(B!Threads) /\ done' \subseteq Callers
        /\ occupied' \in [B!Threads -> Int] /\ receiving' \in BOOLEAN /\ closed' \in BOOLEAN
    BY <1>1 DEF BoundTypes
  <2>. QED
    BY <1>1, <1>3, <1>5, <1>6, <2>1, TypesOn
<1>8. \A u \in B!Threads : Settled(u)'
  BY <1>1, <1>6, SettledAll
<1>. QED
  BY <1>1, <1>2, <1>7, <1>8 DEF BoundInv

LEMMA BoundRaise ==
  ASSUME BoundInv, NEW t \in B!Threads, B!Raise(t)
  PROVE  BoundInv'
<1>1. /\ B!At(t) = "fail" \/ closed
      /\ stack' = [stack EXCEPT ![t] = << >>] /\ BoundTypes /\ done' \subseteq done \cup (Callers \cap {t})
      /\ UNCHANGED <<setup, event, deque, pool, receiving, occupied, seq, late, asked, calling,
                     inbox, closed>>
  BY DEF B!Raise, B!peerVars, B!routeVars, BoundInv
<1>2. closed
  BY <1>1 DEF BoundInv, Flow, Routing, RecvInv
<1>3. /\ stack' \in [B!Threads -> Seq(BoundFrame)] /\ stack'[t] = << >>
      /\ \A u \in B!Threads \ {t} : stack'[u] = stack[u]
  <2>1. << >> \in Seq(BoundFrame)
    BY EmptySeq
  <2>. QED
    BY <1>1, <2>1 DEF BoundTypes
<1>4. NoNewRequest
  <2>1. Len(<< >>) = 0
    BY EmptySeq
  <2>2. \A u \in B!Threads : \A i \in 1..Len(stack'[u]) : u # t
    BY <1>3, <2>1
  <2>. QED
    BY <1>3, <2>2 DEF NoNewRequest
<1>5. BoundTypes'
  <2>1. /\ inbox' \in Seq(Mail) /\ deque' \in [B!Threads -> Seq(Mail)]
        /\ pool' \in Seq(B!Threads) /\ event' \subseteq B!Threads /\ done' \subseteq Callers
        /\ occupied' \in [B!Threads -> Int] /\ receiving' \in BOOLEAN /\ closed' \in BOOLEAN
    BY <1>1 DEF BoundTypes
  <2>. QED
    BY <1>1, <1>3, <1>4, <2>1, TypesOn
<1>6. \A u \in B!Threads : Settled(u)'
  BY <1>1, <1>3, SettledAll
<1>. QED
  BY <1>1, <1>2, <1>5, <1>6 DEF BoundInv

(* A request is sent: it has a number of its own.                          *)
LEMMA BoundSends ==
  ASSUME BoundInv, NEW t \in B!Threads, B!SendRequest(t),
         \/ t \in Callers \ done /\ stack[t] = << >>
         \/ B!At(t) = "handle"
  PROVE  BoundInv'
<1>1. /\ ~closed /\ Flow /\ BoundTypes /\ seq \in Nat
      /\ seq' = seq + 1 /\ asked' = asked \cup {[seq |-> seq + 1, by |-> t]}
      /\ occupied' = [occupied EXCEPT ![t] = @ + 1]
      /\ stack' = [stack EXCEPT ![t] = Append(@, B!Waiting(seq + 1))]
      /\ UNCHANGED <<setup, done, event, deque, pool, receiving, late, calling, inbox, closed>>
  BY DEF B!SendRequest, B!routeVars, BoundInv, BoundTypes
<1>2. PICK f \in BoundFrame : f = B!Waiting(seq + 1) /\ f.at = "loop" /\ f.req = seq + 1
  BY <1>1 DEF B!Waiting, BoundFrame, BoundPlaces
<1>3. /\ stack' \in [B!Threads -> Seq(BoundFrame)]
      /\ \A u \in B!Threads \ {t} : stack'[u] = stack[u]
      /\ Len(stack[t]) \in Nat /\ Len(stack'[t]) = Len(stack[t]) + 1
      /\ \A i \in 1..Len(stack[t]) : stack'[t][i] = stack[t][i]
      /\ stack'[t][Len(stack[t]) + 1] = f
  <2>1. stack[t] \in Seq(BoundFrame) /\ Len(stack[t]) \in Nat
    BY <1>1, LenProperties DEF BoundTypes
  <2>2. /\ Append(stack[t], f) \in Seq(BoundFrame)
        /\ Len(Append(stack[t], f)) = Len(stack[t]) + 1
        /\ \A i \in 1..Len(stack[t]) : Append(stack[t], f)[i] = stack[t][i]
        /\ Append(stack[t], f)[Len(stack[t]) + 1] = f
    BY <1>2, <2>1, AppendProperties
  <2>3. stack' = [stack EXCEPT ![t] = Append(stack[t], f)]
    BY <1>1, <1>2
  <2>. QED
    BY <1>1, <2>1, <2>2, <2>3 DEF BoundTypes
<1>4. PICK n \in Nat : n = Len(stack[t])
  BY <1>3
<1>5. ASSUME NEW u \in B!Threads, NEW i \in 1..Len(stack'[u])
      PROVE  \/ i \in 1..Len(stack[u]) /\ stack'[u][i] = stack[u][i]
             \/ u = t /\ i = n + 1 /\ stack'[u][i].req = seq + 1
  <2>1. CASE u = t
    <3>1. i \in 1..n \/ i = n + 1
      BY <1>3, <1>4, <2>1
    <3>. QED
      BY <1>2, <1>3, <1>4, <2>1, <3>1
  <2>2. CASE u # t
    BY <1>3, <2>2
  <2>. QED
    BY <2>1, <2>2
<1>6. \A u \in B!Threads : \A i \in 1..Len(stack[u]) :
        stack[u][i].req \in Nat /\ stack[u][i].req <= seq
  <2>1. \A u \in B!Threads : \A i \in 1..Len(stack[u]) : stack[u][i].req <= seq
    BY <1>1 DEF BoundTypes
  <2>2. ASSUME NEW u \in B!Threads, NEW i \in 1..Len(stack[u]) PROVE stack[u][i].req \in Nat
    <3>1. stack[u][i] \in BoundFrame
      BY <1>1, ElementOfSeq DEF BoundTypes
    <3>. QED
      BY <3>1 DEF BoundFrame
  <2>. QED
    BY <2>1, <2>2
<1>7. BoundTypes'
  <2>1. occupied' \in [B!Threads -> Int]
    BY <1>1 DEF BoundTypes
  <2>2. asked' \subseteq [seq : 1..seq', by : B!Threads]
    BY <1>1 DEF BoundTypes
  <2>3. IsFiniteSet(asked')
    BY <1>1, FS_AddElement DEF BoundTypes
  <2>4. calling' \subseteq 1..seq' /\ late' \subseteq 1..seq' /\ seq' \in Nat
    BY <1>1 DEF BoundTypes
  <2>5. ASSUME NEW u \in B!Threads, NEW i \in 1..Len(stack'[u]) PROVE stack'[u][i].req <= seq'
    <3>1. \A r \in Nat : r <= seq => r <= seq + 1
      BY <1>1
    <3>2. CASE i \in 1..Len(stack[u]) /\ stack'[u][i] = stack[u][i]
      BY <1>1, <1>6, <3>1, <3>2
    <3>3. CASE stack'[u][i].req = seq + 1
      BY <1>1, <3>3
    <3>. QED
      BY <1>5, <3>2, <3>3
  <2>. QED
    BY <1>1, <1>3, <2>1, <2>2, <2>3, <2>4, <2>5 DEF BoundTypes
<1>8. InFlight(t) = 0 /\ \A a \in Open(t) : a.seq \in calling
  <2>1. CASE t \in Callers \ done /\ stack[t] = << >>
    BY <1>1, <2>1 DEF Flow, ThreadInv, Unused
  <2>2. CASE B!At(t) = "handle"
    <3>1. stack[t] # << >> /\ B!At(t) \notin Resting
      BY <2>2 DEF B!At, Resting
    <3>. QED
      BY <1>1, <3>1, AllCalled DEF Flow
  <2>. QED
    BY <2>1, <2>2
<1>9. /\ occupied'[t] = occupied[t] + 1 /\ \A u \in B!Threads \ {t} : occupied'[u] = occupied[u]
      /\ \A u \in B!Threads : MailStays(u)
  BY <1>1, NoMail DEF BoundTypes
<1>10. stack[t] = << >> \/ B!At(t) = "handle"
  OBVIOUS
<1>11. ThreadInv(t)' /\ \A u \in B!Threads \ {t} : SameCalls(u)
  BY <1>1, <1>7, <1>8, <1>9, <1>10, AsksOn DEF Flow
<1>12. ASSUME NEW u \in B!Threads \ {t} PROVE ThreadInv(u)'
  <2>1. Still(u)
    BY <1>1, <1>3, <1>9, <1>11 DEF Still, SameCalls
  <2>. QED
    BY <1>1, <2>1, StillThread DEF Flow
<1>13. ReqInv'
  <2>1. \A v, u \in B!Threads : \A i \in 1..Len(stack[v]), j \in 1..Len(stack[u]) :
          stack[v][i].req # 0 /\ stack[v][i].req = stack[u][j].req => v = u /\ i = j
    BY <1>1 DEF Flow, ReqInv
  <2>2. \A a \in asked : a.seq \in Nat /\ a.seq <= seq
    BY <1>1 DEF BoundTypes
  <2>3. \A a, b \in asked' : a.seq = b.seq => a = b
    BY <1>1, <2>2 DEF Flow, ReqInv
  <2>4. ASSUME NEW v \in B!Threads, NEW u \in B!Threads,
               NEW i \in 1..Len(stack'[v]), NEW j \in 1..Len(stack'[u]),
               stack'[v][i].req # 0, stack'[v][i].req = stack'[u][j].req
        PROVE  v = u /\ i = j
    <3>1. CASE i \in 1..Len(stack[v]) /\ stack'[v][i] = stack[v][i]
      <4>1. CASE j \in 1..Len(stack[u]) /\ stack'[u][j] = stack[u][j]
        <5>1. stack[v][i].req # 0 /\ stack[v][i].req = stack[u][j].req
          BY <2>4, <3>1, <4>1
        <5>2. i \in 1..Len(stack[v]) /\ j \in 1..Len(stack[u])
          BY <3>1, <4>1
        <5>. QED
          BY <2>1, <5>1, <5>2
      <4>2. CASE stack'[u][j].req = seq + 1
        <5>1. stack[v][i].req \in Nat /\ stack[v][i].req <= seq /\ stack[v][i].req = seq + 1
          BY <1>6, <2>4, <3>1, <4>2
        <5>. QED
          BY <1>1, <5>1
      <4>. QED
        BY <1>5, <4>1, <4>2
    <3>2. CASE v = t /\ i = n + 1 /\ stack'[v][i].req = seq + 1
      <4>1. CASE j \in 1..Len(stack[u]) /\ stack'[u][j] = stack[u][j]
        <5>1. stack[u][j].req \in Nat /\ stack[u][j].req <= seq /\ stack[u][j].req = seq + 1
          BY <1>6, <2>4, <3>2, <4>1
        <5>. QED
          BY <1>1, <5>1
      <4>2. CASE u = t /\ j = n + 1
        BY <3>2, <4>2
      <4>. QED
        BY <1>5, <4>1, <4>2
    <3>. QED
      BY <1>5, <3>1, <3>2
  <2>5. ASSUME NEW u \in B!Threads, NEW i \in 1..Len(stack'[u]), stack'[u][i].req \in late
        PROVE  i = 1 /\ u \in Callers
    <3>1. stack'[u][i].req # seq + 1
      BY <1>1, <2>5 DEF BoundTypes
    <3>2. i \in 1..Len(stack[u]) /\ stack'[u][i] = stack[u][i]
      BY <1>5, <3>1
    <3>. QED
      BY <1>1, <2>5, <3>2 DEF Flow, ReqInv
  <2>6. \A v, u \in B!Threads : \A i \in 1..Len(stack'[v]), j \in 1..Len(stack'[u]) :
          stack'[v][i].req # 0 /\ stack'[v][i].req = stack'[u][j].req => v = u /\ i = j
    BY <2>4
  <2>7. \A u \in B!Threads : \A i \in 1..Len(stack'[u]) :
          stack'[u][i].req \in late' => i = 1 /\ u \in Callers
    BY <1>1, <2>5
  <2>. QED
    BY <2>3, <2>6, <2>7 DEF ReqInv
<1>14. Routing'
  <2>1. B!At(t)' = "loop"
    BY <1>2, <1>3, EmptySeq DEF B!At, B!Top, B!Depth
  <2>2. B!At(t) \notin {"pooled", "recv"}
    BY DEF B!At
  <2>3. ~Abandoned(t)
    BY DEF Abandoned, B!At
  <2>. QED
    BY <1>1, <1>3, <2>1, <2>2, <2>3, QuietMove DEF Flow
<1>. QED
  BY <1>1, <1>7, <1>11, <1>12, <1>13, <1>14 DEF BoundInv, Flow

-----------------------------------------------------------------------------
(* The steps of the peer.                                                  *)

(* A step of the peer changes only what is on the way.                     *)
LEMMA PeerKeepsRouting ==
  ASSUME BoundTypes, Flow, UNCHANGED <<stack, done, event, deque, pool, receiving, late>>
  PROVE  Routing'
<1>1. Calm
  BY NobodyMoves DEF Flow, Routing
<1>2. \A u \in B!Threads : deque'[u] # << >> => u \in event'
  BY DEF Flow, Routing, PoolInv
<1>. QED
  BY <1>1, <1>2, CalmStep DEF Flow

LEMMA PeerKeepsReqs ==
  ASSUME BoundTypes, ReqInv, UNCHANGED <<stack, late>>, asked' \subseteq asked
  PROVE  ReqInv'
<1>1. NoNewRequest
  BY DEF NoNewRequest
<1>. QED
  BY <1>1, ReqStays

LEMMA BoundPeerAnswers ==
  ASSUME BoundInv, NEW a \in asked, B!PeerAnswers(a)
  PROVE  BoundInv'
<1>1. PICK m : m = [kind |-> "reply", of |-> a.seq, to |-> a.by]
  OBVIOUS
<1>2. /\ BoundTypes /\ Flow /\ ~closed /\ a.seq \notin calling /\ asked' = asked \ {a}
      /\ inbox' = Append(inbox, m)
      /\ UNCHANGED <<setup, stack, done, event, deque, pool, receiving, occupied, seq, late,
                     closed, calling>>
  BY <1>1 DEF B!PeerAnswers, B!PeerSends, B!routeVars, BoundInv
<1>3. a.seq \in Nat \ {0} /\ a.by \in B!Threads
  BY <1>2 DEF BoundTypes
<1>4. m \in Mail /\ m.kind = "reply" /\ m.of = a.seq /\ m.to = a.by
  BY <1>1, <1>3, BoundNames DEF Mail
<1>5. /\ inbox' \in Seq(Mail) /\ MailComes(a.by, m)
      /\ \A u \in B!Threads : u # a.by => MailStays(u)
  BY <1>2, <1>3, <1>4, MailSent
<1>6. BoundTypes'
  <2>1. IsFiniteSet(asked')
    BY <1>2, FS_Subset DEF BoundTypes
  <2>2. asked' \subseteq [seq : 1..seq', by : B!Threads]
    BY <1>2 DEF BoundTypes
  <2>. QED
    BY <1>2, <1>5, <2>1, <2>2 DEF BoundTypes
<1>7. ThreadInv(a.by)' /\ \A u \in B!Threads \ {a.by} : SameCalls(u)
  <2>1. ThreadInv(a.by)
    BY <1>2, <1>3 DEF Flow
  <2>. QED
    BY <1>2, <1>3, <1>4, <1>5, <1>6, <2>1, AnswerComes
<1>8. ASSUME NEW u \in B!Threads \ {a.by} PROVE ThreadInv(u)'
  <2>1. Still(u)
    BY <1>2, <1>5, <1>7 DEF Still, SameCalls
  <2>. QED
    BY <1>2, <2>1, StillThread DEF Flow
<1>9. ReqInv' /\ Routing'
  BY <1>2, PeerKeepsReqs, PeerKeepsRouting DEF Flow
<1>. QED
  BY <1>2, <1>6, <1>7, <1>8, <1>9 DEF BoundInv, Flow

LEMMA BoundPeerCallsBack ==
  ASSUME BoundInv, NEW a \in asked, B!PeerCallsBack(a)
  PROVE  BoundInv'
<1>1. PICK m : m = [kind |-> "request", of |-> a.seq, to |-> a.by]
  OBVIOUS
<1>2. /\ BoundTypes /\ Flow /\ ~closed /\ a.seq \notin calling /\ calling' = calling \cup {a.seq}
      /\ inbox' = Append(inbox, m)
      /\ UNCHANGED <<setup, stack, done, event, deque, pool, receiving, occupied, seq, late,
                     closed, asked>>
  BY <1>1 DEF B!PeerCallsBack, B!PeerSends, B!routeVars, BoundInv
<1>3. a.seq \in Nat \ {0} /\ a.seq \in 1..seq /\ a.by \in B!Threads
  BY <1>2 DEF BoundTypes
<1>4. m \in Mail /\ m.kind = "request" /\ m.of = a.seq /\ m.to = a.by
  BY <1>1, <1>3, BoundNames DEF Mail
<1>5. /\ inbox' \in Seq(Mail) /\ MailComes(a.by, m)
      /\ \A u \in B!Threads : u # a.by => MailStays(u)
  BY <1>2, <1>3, <1>4, MailSent
<1>6. BoundTypes'
  BY <1>2, <1>3, <1>5 DEF BoundTypes
<1>7. ThreadInv(a.by)' /\ \A u \in B!Threads \ {a.by} : SameCalls(u)
  <2>1. ThreadInv(a.by) /\ ReqInv
    BY <1>2, <1>3 DEF Flow
  <2>. QED
    BY <1>2, <1>3, <1>4, <1>5, <1>6, <2>1, CallComes
<1>8. ASSUME NEW u \in B!Threads \ {a.by} PROVE ThreadInv(u)'
  <2>1. Still(u)
    BY <1>2, <1>5, <1>7 DEF Still, SameCalls
  <2>. QED
    BY <1>2, <2>1, StillThread DEF Flow
<1>9. ReqInv' /\ Routing'
  BY <1>2, PeerKeepsReqs, PeerKeepsRouting DEF Flow
<1>. QED
  BY <1>2, <1>6, <1>7, <1>8, <1>9 DEF BoundInv, Flow

LEMMA BoundPeerRequests ==
  ASSUME BoundInv, B!PeerRequests
  PROVE  BoundInv'
<1>1. PICK m : m = [kind |-> "request", of |-> 0, to |-> B!Unbound]
  OBVIOUS
<1>2. /\ BoundTypes /\ Flow /\ ~closed /\ inbox' = Append(inbox, m)
      /\ UNCHANGED <<setup, stack, done, event, deque, pool, receiving, occupied, seq, late,
                     closed, asked, calling>>
  BY <1>1 DEF B!PeerRequests, B!PeerSends, B!routeVars, BoundInv
<1>3. m \in Mail /\ m.to = B!Unbound
  BY <1>1 DEF Mail
<1>4. inbox' \in Seq(Mail) /\ \A u \in B!Threads : MailStays(u)
  BY <1>2, <1>3, MailSent, BoundNames
<1>5. BoundTypes'
  BY <1>2, <1>4 DEF BoundTypes
<1>6. ASSUME NEW u \in B!Threads PROVE ThreadInv(u)'
  <2>1. Still(u)
    BY <1>2, <1>4 DEF Still, Open
  <2>. QED
    BY <1>2, <2>1, StillThread DEF Flow
<1>7. ReqInv' /\ Routing'
  BY <1>2, PeerKeepsReqs, PeerKeepsRouting DEF Flow
<1>. QED
  BY <1>2, <1>5, <1>6, <1>7 DEF BoundInv, Flow

(* A step that changes nothing that the invariant is about.                *)
LEMMA BoundStays ==
  ASSUME BoundInv,
         UNCHANGED <<setup, stack, done, event, deque, pool, receiving, occupied, seq, late,
                     asked, calling, inbox, closed>>
  PROVE  BoundInv'
<1>1. BoundTypes'
  BY DEF BoundInv, BoundTypes
<1>2. ASSUME NEW u \in B!Threads PROVE Settled(u)'
  BY AllSettled, SettledStays DEF InPool
<1>3. ASSUME ~closed' PROVE Flow'
  <2>1. Flow /\ BoundTypes
    BY <1>3 DEF BoundInv
  <2>2. ASSUME NEW u \in B!Threads PROVE ThreadInv(u)'
    <3>1. Still(u)
      BY NoMail DEF Still, Open
    <3>. QED
      BY <2>1, <3>1, StillThread DEF Flow
  <2>3. ReqInv' /\ Routing'
    BY <2>1, PeerKeepsReqs, PeerKeepsRouting DEF Flow
  <2>. QED
    BY <2>2, <2>3 DEF Flow
<1>. QED
  BY <1>1, <1>2, <1>3 DEF BoundInv

-----------------------------------------------------------------------------
(* A message comes out of the socket.                                      *)

(* The thread that the receiver hands a request of nobody to.              *)
LEMMA FreeOf ==
  ASSUME BoundTypes, NEW u \in B!FirstIn(pool, B!IsFree)
  PROVE  /\ u \in B!Threads /\ occupied[u] = 0 /\ u \notin event
         /\ \E i \in 1..Len(pool) : pool[i] = u
<1>1. \A i \in 1..Len(pool) : pool[i] \in B!Threads
  BY ElementOfSeq DEF BoundTypes
<1>2. Len(pool) \in Nat
  BY LenProperties DEF BoundTypes
<1>3. \E i \in 1..Len(pool) : B!IsFree(pool[i])
  BY DEF B!FirstIn
<1>4. \E i \in 1..Len(pool) : B!IsFree(pool[i]) /\ \A j \in 1..(i - 1) : ~B!IsFree(pool[j])
  <2>1. PICK S : S = {i \in 1..Len(pool) : B!IsFree(pool[i])}
    OBVIOUS
  <2>2. S \subseteq Nat /\ S # {}
    BY <1>2, <1>3, <2>1
  <2>3. PICK i \in S : \A j \in S : i <= j
    BY <2>2, LeastIndex
  <2>4. i \in 1..Len(pool) /\ B!IsFree(pool[i])
    BY <2>1, <2>3
  <2>5. ASSUME NEW j \in 1..(i - 1) PROVE ~B!IsFree(pool[j])
    <3>1. j \in 1..Len(pool) /\ ~(i <= j)
      BY <1>2, <2>4
    <3>. QED
      BY <2>1, <2>3, <3>1
  <2>. QED
    BY <2>4, <2>5
<1>5. \E i \in 1..Len(pool) : u = pool[i] /\ B!IsFree(pool[i])
  BY <1>3, <1>4 DEF B!FirstIn
<1>. QED
  BY <1>1, <1>5 DEF B!IsFree

(* It is for any thread: one of the pool gets it, or a temporary one.      *)
LEMMA ForFreeRouted ==
  ASSUME BoundInv, NEW t \in B!Threads, B!At(t) = "recv", ~closed, inbox # << >>,
         inbox' = Tail(inbox), Head(inbox).to = B!Unbound,
         NEW u \in B!FirstIn(pool, B!IsFree), B!Routed(u, Head(inbox)),
         UNCHANGED <<stack, pool, receiving, setup, done, occupied, seq, late, asked, calling, closed>>
  PROVE  BoundInv'
<1>1. PICK m : m = Head(inbox)
  OBVIOUS
<1>2. BoundTypes /\ Flow
  BY DEF BoundInv
<1>3. u \in B!Threads /\ occupied[u] = 0 /\ u \notin event /\ \E i \in 1..Len(pool) : pool[i] = u
  BY <1>2, FreeOf
<1>4. deque' = [deque EXCEPT ![u] = Append(@, m)] /\ event' = event \cup {u}
  BY <1>1 DEF B!Routed
<1>5. B!At(u) = "pooled" \/ Abandoned(u)
  BY <1>2, <1>3 DEF Flow, Routing, PoolInv
<1>6. /\ deque[u] = << >> /\ u # t
      /\ stack[u] # << >> => B!At(u) \in Resting
      /\ stack[u] = << >> => u \in done
  <2>1. deque[u] = << >>
    BY <1>2, <1>3 DEF Flow, Routing, PoolInv
  <2>2. B!At(u) \in {"pooled", "loop"} \/ (stack[u] = << >> /\ u \in done)
    BY <1>5 DEF Abandoned
  <2>. QED
    BY <2>1, <2>2 DEF B!At, Resting
<1>7. /\ inbox' \in Seq(Mail) /\ deque' \in [B!Threads -> Seq(Mail)]
      /\ \A x \in B!Threads \ {u} : deque'[x] = deque[x]
      /\ m \in Mail /\ MailComes(u, m) /\ \A x \in B!Threads \ {u} : MailStays(x)
  BY <1>1, <1>2, <1>3, <1>4, MailRouted, BoundNames
<1>8. m.of = 0
  BY <1>1, <1>7 DEF Mail
<1>9. BoundTypes'
  BY <1>2, <1>3, <1>4, <1>7 DEF BoundTypes
<1>10. ThreadInv(u)'
  <2>1. ThreadInv(u) /\ SameCalls(u)
    BY <1>2, <1>3 DEF Flow, SameCalls, Open
  <2>. QED
    BY <1>2, <1>3, <1>6, <1>7, <1>8, <1>9, <2>1, RoutedOn, BoundNames
<1>11. ASSUME NEW x \in B!Threads \ {u} PROVE ThreadInv(x)'
  <2>1. Still(x)
    BY <1>7 DEF Still, Open
  <2>. QED
    BY <1>2, <2>1, StillThread DEF Flow
<1>12. ReqInv'
  BY <1>2, PeerKeepsReqs DEF Flow
<1>13. Routing'
  <2>1. Calm
    BY <1>2, NobodyMoves DEF Flow, Routing
  <2>2. \A x \in B!Threads : deque'[x] # << >> => x \in event'
    BY <1>2, <1>4, <1>7 DEF Flow, Routing, PoolInv
  <2>3. receiving /\ \A x \in B!Threads : B!At(x) = "recv" => x = t
    BY <1>2 DEF Flow, Routing, RecvInv
  <2>4. \A x \in B!Threads : B!At(x) = "recv" => deque'[x] = deque[x]
    BY <1>6, <1>7, <2>3
  <2>. QED
    BY <1>2, <2>1, <2>2, <2>3, <2>4, CalmStep DEF Flow
<1>. QED
  BY <1>9, <1>10, <1>11, <1>12, <1>13 DEF BoundInv, Flow

(* A request of nobody that starts a worker of the executor.               *)
LEMMA ForFreeStarts ==
  ASSUME BoundInv, NEW t \in B!Threads, B!At(t) = "recv", ~closed, inbox # << >>,
         inbox' = Tail(inbox), Head(inbox).to = B!Unbound,
         NEW w \in B!IdleWorkers, B!StartWorker(w, Head(inbox)),
         UNCHANGED <<pool, receiving, setup, done, occupied, seq, late, asked, calling, closed>>
  PROVE  BoundInv'
<1>1. PICK m : m = Head(inbox)
  OBVIOUS
<1>2. BoundTypes /\ Flow
  BY DEF BoundInv
<1>3. w \in B!Threads /\ stack[w] = << >> /\ w \notin done /\ w # t
  <2>1. w \in Workers /\ stack[w] = << >>
    BY DEF B!IdleWorkers
  <2>. QED
    BY <1>2, <2>1, BoundNames DEF BoundTypes, B!At
<1>4. /\ deque' = [deque EXCEPT ![w] = Append(@, m)] /\ event' = event \cup {w}
      /\ stack' = [stack EXCEPT ![w] = <<B!Waiting(0)>>]
  BY <1>1 DEF B!StartWorker
<1>5. /\ inbox' \in Seq(Mail) /\ deque' \in [B!Threads -> Seq(Mail)]
      /\ \A x \in B!Threads \ {w} : deque'[x] = deque[x]
      /\ m \in Mail /\ MailComes(w, m) /\ \A x \in B!Threads \ {w} : MailStays(x)
  BY <1>1, <1>2, <1>3, <1>4, MailRouted, BoundNames
<1>6. m.of = 0
  BY <1>1, <1>5 DEF Mail
<1>7. PICK f \in BoundFrame : f = B!Waiting(0) /\ f.at = "loop" /\ f.req = 0
  <2>1. PICK f : f = B!Waiting(0)
    OBVIOUS
  <2>2. f \in BoundFrame /\ f.at = "loop" /\ f.req = 0
    BY <2>1 DEF B!Waiting, BoundFrame, BoundPlaces
  <2>. QED
    BY <2>1, <2>2
<1>8. /\ stack' \in [B!Threads -> Seq(BoundFrame)] /\ stack'[w] = <<f>>
      /\ \A x \in B!Threads \ {w} : stack'[x] = stack[x]
  BY <1>2, <1>3, <1>4, <1>7 DEF BoundTypes
<1>9. NoNewRequest
  <2>1. \A i \in 1..Len(stack'[w]) : stack'[w][i].req = 0
    BY <1>7, <1>8
  <2>. QED
    BY <1>8, <2>1 DEF NoNewRequest
<1>10. BoundTypes'
  <2>1. /\ pool' \in Seq(B!Threads) /\ event' \subseteq B!Threads /\ done' \subseteq Callers
        /\ occupied' \in [B!Threads -> Int] /\ receiving' \in BOOLEAN /\ closed' \in BOOLEAN
    BY <1>2, <1>3, <1>4 DEF BoundTypes
  <2>. QED
    BY <1>2, <1>5, <1>8, <1>9, <2>1, TypesOn
<1>11. ThreadInv(w)'
  <2>1. ThreadInv(w) /\ SameCalls(w)
    BY <1>2, <1>3 DEF Flow, SameCalls, Open
  <2>2. occupied'[w] = occupied[w]
    OBVIOUS
  <2>. QED
    BY <1>2, <1>3, <1>4, <1>5, <1>6, <1>10, <2>1, <2>2, StartsOn
<1>12. ASSUME NEW x \in B!Threads \ {w} PROVE ThreadInv(x)'
  <2>1. Still(x)
    BY <1>5, <1>8 DEF Still, Open
  <2>. QED
    BY <1>2, <2>1, StillThread DEF Flow
<1>13. ReqInv'
  BY <1>2, <1>9, ReqStays DEF Flow
<1>14. Routing'
  <2>1. Calm
    <3>1. B!At(w) = "idle" /\ B!At(w)' = "loop"
      BY <1>3, <1>7, <1>8 DEF B!At, B!Top, B!Depth
    <3>2. ~Abandoned(w)
      BY <1>3, <3>1 DEF Abandoned
    <3>. QED
      BY <1>2, <1>3, <1>8, <3>1, <3>2, OneMoves DEF Flow, Routing
  <2>2. \A x \in B!Threads : deque'[x] # << >> => x \in event'
    BY <1>2, <1>4, <1>5 DEF Flow, Routing, PoolInv
  <2>3. receiving /\ \A x \in B!Threads : B!At(x) = "recv" => x = t
    BY <1>2 DEF Flow, Routing, RecvInv
  <2>4. \A x \in B!Threads : B!At(x) = "recv" => deque'[x] = deque[x]
    BY <1>3, <1>5, <2>3
  <2>. QED
    BY <1>2, <2>1, <2>2, <2>3, <2>4, CalmStep DEF Flow
<1>. QED
  BY <1>10, <1>11, <1>12, <1>13, <1>14 DEF BoundInv, Flow

(* It is for the receiver, which dispatches it.                            *)
LEMMA MineTaken ==
  ASSUME BoundInv, NEW t \in B!Threads, B!At(t) = "recv", ~closed, inbox # << >>,
         inbox' = Tail(inbox), Head(inbox).to \in {B!Unbound, t},
         Head(inbox).to = B!Unbound => occupied[t] = 0,
         B!StopReceiving, B!Takes(t, Head(inbox)),
         UNCHANGED <<deque, pool, setup, done, occupied, seq, late, asked, calling, closed>>
  PROVE  BoundInv'
<1>1. PICK m : m = Head(inbox)
  OBVIOUS
<1>2. BoundTypes /\ Flow /\ stack[t] # << >> /\ B!At(t) \in Resting /\ ThreadInv(t)
  BY DEF BoundInv, Flow, B!At, Resting
<1>3. /\ m \in Mail /\ inbox' \in Seq(Mail) /\ (m.to = t => MailGone(t, m))
      /\ \A u \in B!Threads : u # m.to => MailStays(u)
  BY <1>1, <1>2, MailTaken
<1>4. m.to \in {B!Unbound, t} /\ (m.to = B!Unbound => occupied[t] = 0) /\ B!Takes(t, m)
  BY <1>1
<1>5. PICK f \in BoundFrame : /\ TopIs(t, f) /\ f.at = "dispatch"
                              /\ f.req = B!Top(t).req /\ f.msg = m
  BY <1>2, <1>3, <1>4, BoundTakes
<1>6. NoNewRequest
  BY <1>2, <1>5, TopKeepsRequests
<1>7. stack' \in [B!Threads -> Seq(BoundFrame)] /\ \A u \in B!Threads \ {t} : stack'[u] = stack[u]
  BY <1>5 DEF TopIs
<1>8. event' \subseteq B!Threads /\ receiving' \in BOOLEAN
  BY <1>2, SuccessorOf DEF BoundTypes, B!StopReceiving
<1>9. BoundTypes'
  <2>1. /\ deque' \in [B!Threads -> Seq(Mail)] /\ pool' \in Seq(B!Threads)
        /\ done' \subseteq Callers /\ occupied' \in [B!Threads -> Int] /\ closed' \in BOOLEAN
    BY <1>2 DEF BoundTypes
  <2>. QED
    BY <1>2, <1>3, <1>6, <1>7, <1>8, <2>1, TypesOn
<1>10. ThreadInv(t)'
  <2>1. SameCalls(t) /\ occupied'[t] = occupied[t]
    BY DEF SameCalls, Open
  <2>2. CASE m.to = t
    BY <1>2, <1>3, <1>5, <1>9, <2>1, <2>2, TakesOn
  <2>3. CASE m.to = B!Unbound
    <3>1. m.of = 0 /\ MailStays(t) /\ occupied[t] = 0
      BY <1>3, <1>4, <2>3, BoundNames DEF Mail
    <3>2. deque[t] = << >>
      BY <1>2 DEF Flow, Routing, RecvInv
    <3>3. InFlight(t) = 0
      <4>1. ASSUME NEW x \in Mail, OnItsWay(t, x) PROVE FALSE
        <5>1. x.of = 0
          BY <1>2, <3>1, <4>1, FreeHasNothing
        <5>2. x.to = t
          BY <3>2, <4>1, EmptySeq DEF OnItsWay
        <5>. QED
          BY <5>1, <5>2, BoundNames DEF Mail
      <4>. QED
        BY <1>2, <4>1, NothingOnItsWay
    <3>. QED
      BY <1>2, <1>3, <1>5, <1>9, <2>1, <3>1, <3>3, TakesOn
  <2>. QED
    BY <1>4, <2>2, <2>3
<1>11. ASSUME NEW u \in B!Threads \ {t} PROVE ThreadInv(u)'
  <2>1. Still(u)
    BY <1>3, <1>4, <1>7, BoundNames DEF Still, Open
  <2>. QED
    BY <1>2, <2>1, StillThread DEF Flow
<1>12. ReqInv'
  BY <1>2, <1>6, ReqStays DEF Flow
<1>13. Routing'
  BY <1>2, <1>5, StopsReceiving DEF Flow
<1>. QED
  BY <1>9, <1>10, <1>11, <1>12, <1>13 DEF BoundInv, Flow

(* It is for another thread.                                               *)
LEMMA OthersRouted ==
  ASSUME BoundInv, NEW t \in B!Threads, B!At(t) = "recv", ~closed, inbox # << >>,
         inbox' = Tail(inbox), Head(inbox).to \notin {B!Unbound, t},
         B!Routed(Head(inbox).to, Head(inbox)),
         UNCHANGED <<stack, pool, receiving, setup, done, occupied, seq, late, asked, calling, closed>>
  PROVE  BoundInv'
<1>1. BoundTypes /\ Flow
  BY DEF BoundInv
<1>2. PICK v \in B!Threads : v = Head(inbox).to
  <2>1. Head(inbox) \in Mail
    BY <1>1, HeadTailProperties DEF BoundTypes
  <2>. QED
    BY <2>1 DEF Mail
<1>3. /\ deque' = [deque EXCEPT ![v] = Append(@, Head(inbox))] /\ event' = event \cup {v}
      /\ v # t
  BY <1>2 DEF B!Routed
<1>4. /\ inbox' \in Seq(Mail) /\ deque' \in [B!Threads -> Seq(Mail)]
      /\ \A u \in B!Threads \ {v} : deque'[u] = deque[u]
      /\ \A u \in B!Threads : MailStays(u)
  BY <1>1, <1>2, <1>3, MailRouted, BoundNames
<1>5. BoundTypes'
  BY <1>1, <1>3, <1>4 DEF BoundTypes
<1>6. ASSUME NEW u \in B!Threads PROVE ThreadInv(u)'
  <2>1. Still(u)
    BY <1>4 DEF Still, Open
  <2>. QED
    BY <1>1, <2>1, StillThread DEF Flow
<1>7. ReqInv'
  BY <1>1, PeerKeepsReqs DEF Flow
<1>8. Routing'
  <2>1. Calm
    BY <1>1, NobodyMoves DEF Flow, Routing
  <2>2. \A x \in B!Threads : deque'[x] # << >> => x \in event'
    BY <1>1, <1>3, <1>4 DEF Flow, Routing, PoolInv
  <2>3. receiving /\ \A x \in B!Threads : B!At(x) = "recv" => x = t
    BY <1>1 DEF Flow, Routing, RecvInv
  <2>4. \A x \in B!Threads : B!At(x) = "recv" => deque'[x] = deque[x]
    BY <1>3, <1>4, <2>3
  <2>. QED
    BY <1>1, <2>1, <2>2, <2>3, <2>4, CalmStep DEF Flow
<1>. QED
  BY <1>5, <1>6, <1>7, <1>8 DEF BoundInv, Flow

(* The receiver takes a message and routes it: the end of the connection,  *)
(* its own message, one for another thread, a request for a free thread    *)
(* or a new worker.                                                        *)
LEMMA BoundReceive ==
  ASSUME BoundInv, NEW t \in B!Threads, B!Receive(t)
  PROVE  BoundInv'
<1>1. /\ B!At(t) = "recv" /\ ~closed /\ inbox # << >> /\ inbox' = Tail(inbox)
      /\ UNCHANGED <<setup, done, occupied, seq, late, asked, calling, closed>>
  BY DEF B!Receive
<1>2. CASE /\ Head(inbox).to = B!Unbound /\ B!FirstIn(pool, B!IsFree) # {}
           /\ \E u \in B!FirstIn(pool, B!IsFree) : B!Routed(u, Head(inbox))
           /\ UNCHANGED <<stack, pool, receiving>>
  BY <1>1, <1>2, ForFreeRouted
<1>3. CASE /\ Head(inbox).to = B!Unbound /\ \E w \in B!IdleWorkers : B!StartWorker(w, Head(inbox))
           /\ UNCHANGED <<pool, receiving>>
  BY <1>1, <1>3, ForFreeStarts
<1>4. CASE /\ ~(Head(inbox).to = B!Unbound /\ occupied[t] # 0) /\ B!Mine(t, Head(inbox))
           /\ B!StopReceiving /\ B!Takes(t, Head(inbox)) /\ UNCHANGED <<deque, pool>>
  BY <1>1, <1>4, MineTaken DEF B!Mine
<1>5. CASE /\ ~B!Mine(t, Head(inbox)) /\ B!Routed(Head(inbox).to, Head(inbox))
           /\ UNCHANGED <<stack, pool, receiving>>
  BY <1>1, <1>5, OthersRouted DEF B!Mine
<1>. QED
  BY <1>2, <1>3, <1>4, <1>5 DEF B!Receive

-----------------------------------------------------------------------------
(* The invariant holds at first, and every step keeps it.                  *)
LEMMA BoundInit ==
  ASSUME B!Init
  PROVE  BoundInv
<1>1. PICK f : f = B!Waiting(0)
  OBVIOUS
<1>2. f \in BoundFrame /\ f.at = "loop" /\ f.req = 0 /\ f \notin Busy
  BY <1>1 DEF B!Waiting, BoundFrame, BoundPlaces, Busy
<1>3. /\ setup \in BoundSetups /\ done = Callers \ setup.threads
      /\ stack = [t \in B!Threads |-> IF t \in setup.threads \cap Servers THEN <<f>> ELSE << >>]
      /\ event = {} /\ deque = [t \in B!Threads |-> << >>]
      /\ occupied = [t \in B!Threads |-> 0] /\ pool = << >> /\ receiving = FALSE
      /\ seq = 0 /\ late = {} /\ asked = {} /\ calling = {} /\ inbox = << >> /\ closed = FALSE
  BY <1>1 DEF B!Init
<1>4. ASSUME NEW t \in B!Threads
      PROVE  /\ stack[t] \in Seq(BoundFrame) /\ Len(stack[t]) \in {0, 1}
             /\ \A i \in 1..Len(stack[t]) : i = 1 /\ stack[t][i] = f
             /\ B!At(t) \in {"idle", "loop"} /\ (stack[t] # << >> => B!Top(t).req = 0)
             /\ CountIn(stack[t], Busy) = 0
  <2>1. CASE stack[t] = << >>
    <3>1. Len(<< >>) = 0 /\ << >> \in Seq(BoundFrame)
      BY EmptySeq
    <3>. QED
      BY <2>1, <3>1, CountInEmpty DEF B!At
  <2>2. CASE stack[t] = <<f>>
    <3>1. <<f>> \in Seq(BoundFrame) /\ Len(<<f>>) = 1 /\ <<f>>[1] = f
      BY <1>2
    <3>2. \A i \in 1..Len(<<f>>) : <<f>>[i] \notin Busy
      BY <1>2, <3>1
    <3>3. CountIn(<<f>>, Busy) = 0
      BY <3>1, <3>2, CountInNat
    <3>4. B!Top(t) = f
      BY <2>2, <3>1 DEF B!Top, B!Depth
    <3>5. B!At(t) = "loop"
      BY <1>2, <2>2, <3>4 DEF B!At
    <3>. QED
      BY <1>2, <2>2, <3>1, <3>3, <3>4, <3>5
  <2>. QED
    BY <1>3, <2>1, <2>2
<1>5. BoundTypes
  <2>1. stack \in [B!Threads -> Seq(BoundFrame)]
    BY <1>3, <1>4
  <2>2. \A t \in B!Threads : \A i \in 1..Len(stack[t]) : stack[t][i].req <= seq
    BY <1>2, <1>3, <1>4
  <2>3. << >> \in Seq(Mail) /\ << >> \in Seq(B!Threads)
    BY EmptySeq
  <2>4. /\ deque \in [B!Threads -> Seq(Mail)] /\ inbox \in Seq(Mail) /\ pool \in Seq(B!Threads)
        /\ occupied \in [B!Threads -> Int]
    BY <1>3, <2>3
  <2>5. IsFiniteSet(asked)
    BY <1>3, FS_EmptySet
  <2>. QED
    BY <1>3, <2>1, <2>2, <2>4, <2>5 DEF BoundTypes
<1>6. Len(inbox) = 0 /\ Len(pool) = 0 /\ \A t \in B!Threads : Len(deque[t]) = 0
  BY <1>3, EmptySeq
<1>7. ASSUME NEW t \in B!Threads
      PROVE  ThreadInv(t)
  <2>1. \A m \in Mail : ~OnItsWay(t, m)
    BY <1>6 DEF OnItsWay
  <2>2. InFlight(t) = 0 /\ RepliesFor(t) = 0
    BY <1>5, <2>1, NothingOnItsWay DEF Replies
  <2>3. Open(t) = {} /\ Cardinality(Open(t)) = 0
    BY <1>3, FS_EmptySet DEF Open
  <2>4. occupied[t] = Duties(t)
    BY <1>3, <1>4, <2>2, <2>3 DEF Duties
  <2>5. OneMessage(t) /\ PeersTurn(t) /\ Unused(t)
    BY <2>1, <2>2, <2>3 DEF OneMessage, PeersTurn, Unused
  <2>6. FramesFit(t)
    <3>1. \A i \in 1..Len(stack[t]) : FrameFits(t, stack[t][i])
      BY <1>2, <1>4 DEF FrameFits, Engaged
    <3>2. \A n \in {0, 1} : \A i \in 1..(n - 1) : FALSE
      OBVIOUS
    <3>. QED
      BY <1>4, <3>1, <3>2 DEF FramesFit
  <2>7. OccupiedInWait(t)
    BY <1>4 DEF OccupiedInWait, B!At, Resting
  <2>. QED
    BY <2>4, <2>5, <2>6, <2>7 DEF ThreadInv
<1>8. ReqInv
  BY <1>2, <1>3, <1>4 DEF ReqInv
<1>9. Routing
  <2>1. \A i \in 1..Len(pool) : FALSE
    BY <1>6
  <2>2. PoolInv
    BY <1>3, <1>4, <2>1 DEF PoolInv
  <2>3. Served
    BY <2>1 DEF Served
  <2>4. RecvInv
    BY <1>3, <1>4 DEF RecvInv
  <2>. QED
    BY <2>2, <2>3, <2>4 DEF Routing
<1>. QED
  BY <1>3, <1>5, <1>7, <1>8, <1>9 DEF BoundInv, Flow

LEMMA BoundStep ==
  ASSUME BoundInv, B!Next
  PROVE  BoundInv'
<1>1. ASSUME NEW t \in B!Threads, B!Serve(t) \/ B!Expire(t)
      PROVE  BoundInv'
  <2>1. CASE B!Start(t) \/ B!HandlerAsks(t)
    BY <2>1, BoundSends DEF B!Start, B!HandlerAsks
  <2>2. CASE B!StartFails(t)
    BY <2>2, BoundStartFails
  <2>3. CASE B!Return(t)
    BY <2>3, BoundReturn
  <2>4. CASE B!Enter(t)
    BY <2>4, BoundEnter
  <2>5. CASE B!WakeUp(t)
    BY <2>5, BoundWakeUp
  <2>6. CASE B!PoolTimesOut(t)
    BY <2>6, BoundPoolTimesOut
  <2>7. CASE B!Receive(t)
    BY <2>7, BoundReceive
  <2>8. CASE B!ReceiveNothing(t)
    BY <2>8, BoundReceiveNothing
  <2>9. CASE B!ReceiveEOF(t)
    BY <2>9, BoundReceiveEOF
  <2>10. CASE B!CloseReturns(t)
    BY <2>10, BoundCloseReturns
  <2>11. CASE B!Raise(t)
    BY <2>11, BoundRaise
  <2>12. CASE B!Dispatch(t)
    BY <2>12, BoundDispatch
  <2>13. CASE B!Reply(t)
    BY <2>13, BoundReply
  <2>14. CASE B!Expire(t)
    BY <2>14, BoundExpire
  <2>. QED
    BY <1>1, <2>1, <2>2, <2>3, <2>4, <2>5, <2>6, <2>7, <2>8, <2>9, <2>10, <2>11, <2>12,
       <2>13, <2>14 DEF B!Serve
<1>2. CASE B!Peer
  <2>1. ASSUME NEW a \in asked, B!PeerAnswers(a) \/ B!PeerCallsBack(a)
        PROVE  BoundInv'
    BY <2>1, BoundPeerAnswers, BoundPeerCallsBack
  <2>2. CASE B!PeerGone
    BY <2>2, BoundStays DEF B!PeerGone, B!routeVars
  <2>. QED
    BY <1>2, <2>1, <2>2, BoundPeerRequests DEF B!Peer
<1>. QED
  BY <1>1, <1>2 DEF B!Next

(* The invariant of Serving's runs with bind_threads.                      *)
THEOREM BoundInvariant == Spec => [](bind_threads => BoundInv)
<1>. DEFINE Inv == bind_threads => BoundInv
<1>1. Init => Inv
  BY BoundInit DEF Init
<1>2. Inv /\ [Next]_vars => Inv'
  <2>. SUFFICES ASSUME Inv, [Next]_vars PROVE Inv'
    OBVIOUS
  <2>1. CASE Locking /\ L!Next
    BY <2>1 DEF Locking
  <2>2. CASE Binding /\ B!Next
    BY <2>2, BoundStep DEF Binding
  <2>3. CASE UNCHANGED vars
    <3>1. UNCHANGED <<bind_threads, setup, stack, done, event, deque, pool, receiving, occupied,
                      seq, late, asked, calling, inbox, closed>>
      BY <2>3 DEF vars, boundOnly
    <3>. QED
      BY <3>1, BoundStays
  <2>. QED
    BY <2>1, <2>2, <2>3 DEF Next
<1>. QED
  BY <1>1, <1>2, PTL DEF Spec

(* A reply is dispatched by the thread that made the request, while it     *)
(* waits for just that request - also those replies that were still in the *)
(* queues when the connection ended.                                       *)
THEOREM RepliesGoToTheirAsker == Spec => []ReplyAtAsker
<1>1. (bind_threads => BoundInv) => ReplyAtAsker
  <2>. SUFFICES ASSUME BoundInv, NEW t \in B!Threads, B!At(t) = "dispatch",
                       B!Top(t).msg.kind = "reply"
                PROVE  B!Top(t).msg.of \in {B!Top(t).req} \cup late
    BY DEF ReplyAtAsker, B!ReplyAtAsker
  <2>. QED
    BY AllSettled DEF Settled
<1>. QED
  BY <1>1, BoundInvariant, PTL

(* _occupation_count is the number of the requests that the thread is      *)
(* involved in, of which the routing of requests for any thread decides.   *)
THEOREM OccupationIsExact == Spec => []OccupationExact
<1>1. (bind_threads => BoundInv) => OccupationExact
  <2>. SUFFICES ASSUME BoundInv, ~closed, NEW t \in B!Threads
                PROVE  occupied[t] = B!Involved(t)
    BY DEF OccupationExact, B!OccupationExact
  <2>1. BoundTypes /\ ThreadInv(t)
    BY DEF BoundInv, Flow
  <2>. QED
    BY <2>1, InvolvedIsDuties DEF ThreadInv
<1>. QED
  BY <1>1, BoundInvariant, PTL

(* As long as a thread waits in _thread_pool, somebody receives or has     *)
(* been woken to do it.                                                    *)
THEOREM PoolIsServed == Spec => []PoolServed
<1>1. (bind_threads => BoundInv) => PoolServed
  <2>. SUFFICES ASSUME BoundInv, late = {}, ~closed, ~receiving,
                       NEW t \in B!Threads, B!At(t) = "pooled"
                PROVE  \E u \in event : B!At(u) # "idle"
    BY DEF PoolServed, B!PoolServed
  <2>1. PoolInv /\ Served
    BY DEF BoundInv, Flow, Routing
  <2>2. PICK i \in 1..Len(pool) : pool[i] \in event
    BY <2>1 DEF PoolInv, Served
  <2>3. B!At(pool[i]) = "pooled"
    BY <2>1 DEF PoolInv, Abandoned
  <2>. QED
    BY <2>2, <2>3
<1>. QED
  BY <1>1, BoundInvariant, PTL

-----------------------------------------------------------------------------
(* One thread at a time reads the socket: without bind_threads the one     *)
(* that has the receive lock, with it the one that has set _receiving, and *)
(* while that is set there is one.                                         *)
THEOREM OneReceives == Spec => []OneReceiver
<1>1. (~bind_threads => LockInv) /\ (bind_threads => BoundInv) => OneReceiver
  <2>. SUFFICES ASSUME ~bind_threads => LockInv, bind_threads => BoundInv PROVE OneReceiver
    OBVIOUS
  <2>1. ASSUME LockInv, NEW t \in L!Threads, L!At(t) \in {"check", "recv"}
        PROVE  owner = t
    <3>1. L!At(t) \in L!Holding
      BY <2>1 DEF L!Holding
    <3>. QED
      BY <2>1, <3>1, HolderHasLock DEF LockInv, HasLock
  <2>2. ASSUME BoundInv PROVE B!OneReceiver
    <3>. SUFFICES ASSUME ~closed
                  PROVE  Cardinality(B!Receivers) <= 1 /\ (receiving => B!Receivers # {})
      BY SameCardinality DEF B!OneReceiver
    <3>1. RecvInv
      BY <2>2 DEF BoundInv, Flow, Routing
    <3>2. receiving => B!Receivers # {}
      BY <3>1 DEF RecvInv, B!Receivers
    <3>3. CASE B!Receivers = {}
      BY <3>2, <3>3, FS_EmptySet
    <3>4. CASE B!Receivers # {}
      <4>1. PICK t : B!Receivers = {t}
        BY <3>1, <3>4 DEF RecvInv, B!Receivers
      <4>. QED
        BY <3>2, <4>1, FS_Singleton
    <3>. QED
      BY <3>3, <3>4
  <2>. QED
    BY <2>1, <2>2 DEF OneReceiver, L!OneReceiver
<1>. QED
  BY <1>1, LockInvariant, BoundInvariant, PTL

=============================================================================
