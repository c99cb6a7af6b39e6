----------------------- MODULE InterpreterRefinement -----------------------
(***************************************************************************)
(* What the interpreter's single environment shows each call: every step   *)
(* of Interpreter, seen through the scopes of its open calls, is a step of *)
(* CallScopes or none.  The steps of InterpreterProofs say that the scopes *)
(* belong to the open frames; here they are cut where the calls begin, and *)
(* a name is found where the latest call that has it has it.               *)
(***************************************************************************)
EXTENDS InterpreterProofs

-----------------------------------------------------------------------------
(* The k-th smallest of a set of numbers *)

UpTo(S, i) == {j \in S : j <= i}

LEMMA UpToCounts ==
    ASSUME NEW S \in SUBSET Nat, IsFiniteSet(S), NEW i \in S
    PROVE  /\ IsFiniteSet(UpTo(S, i)) /\ Cardinality(UpTo(S, i)) \in 1 .. Cardinality(S)
           /\ \A j \in S : i < j => Cardinality(UpTo(S, i)) < Cardinality(UpTo(S, j))
<1>1. \A j \in S : IsFiniteSet(UpTo(S, j)) /\ Cardinality(UpTo(S, j)) \in Nat
                   /\ Cardinality(UpTo(S, j)) <= Cardinality(S)
  BY FS_Subset, FS_CardinalityType DEF UpTo
<1>2. Cardinality(S) \in Nat
  BY FS_CardinalityType
<1>3. Cardinality(UpTo(S, i)) # 0
  <2>1. i \in UpTo(S, i)
    BY DEF UpTo
  <2> QED
    BY <1>1, <2>1, FS_EmptySet
<1>4. ASSUME NEW j \in S, i < j
      PROVE  Cardinality(UpTo(S, i)) < Cardinality(UpTo(S, j))
  <2>0. i \in Nat /\ j \in Nat
    OBVIOUS
  <2>1. UpTo(S, i) \subseteq UpTo(S, j)
    <3> SUFFICES ASSUME NEW k \in UpTo(S, i) PROVE k \in UpTo(S, j)
      OBVIOUS
    <3>1. k \in S /\ k \in Nat /\ k <= i
      BY DEF UpTo
    <3> QED
      BY <1>4, <2>0, <3>1 DEF UpTo
  <2>2. j \in UpTo(S, j) /\ j \notin UpTo(S, i)
    BY <1>4, <2>0 DEF UpTo
  <2>3. /\ Cardinality(UpTo(S, i)) <= Cardinality(UpTo(S, j))
        /\ Cardinality(UpTo(S, i)) = Cardinality(UpTo(S, j)) => UpTo(S, i) = UpTo(S, j)
    BY <1>1, <2>1, FS_Subset
  <2> QED
    BY <1>1, <2>2, <2>3
<1> QED
  BY <1>1, <1>2, <1>3, <1>4

(* There is one, and only one. *)
LEMMA KthExists ==
    ASSUME NEW S \in SUBSET Nat, IsFiniteSet(S), NEW k \in 1 .. Cardinality(S)
    PROVE  Kth(S, k) \in S /\ Cardinality(UpTo(S, Kth(S, k))) = k
<1> DEFINE n == Cardinality(S)
           f == [i \in S |-> Cardinality(UpTo(S, i))]
<1>1. n \in Nat /\ IsFiniteSet(1 .. n) /\ Cardinality(1 .. n) = n
  <2>1. n \in Nat
    BY FS_CardinalityType
  <2> HIDE DEF n
  <2> QED
    BY <2>1, FS_Interval
<1>2. \A i \in S : f[i] \in 1 .. n
  BY UpToCounts
<1>3. f \in Injection(S, 1 .. n)
  <2>1. f \in [S -> 1 .. n]
    BY <1>2
  <2>2. ASSUME NEW i \in S, NEW j \in S, f[i] = f[j] PROVE i = j
    <3>1. i \in Nat /\ j \in Nat
      OBVIOUS
    <3>2. ~(i < j) /\ ~(j < i)
      <4>1. i < j => Cardinality(UpTo(S, i)) < Cardinality(UpTo(S, j))
        BY UpToCounts
      <4>2. j < i => Cardinality(UpTo(S, j)) < Cardinality(UpTo(S, i))
        BY UpToCounts
      <4>3. f[i] \in Nat /\ f[j] \in Nat
        BY <1>2
      <4> QED
        BY <2>2, <4>1, <4>2, <4>3
    <3> QED
      BY <3>1, <3>2
  <2> QED
    BY <2>1, <2>2 DEF Injection, IsInjective
<1>4. f \in Surjection(S, 1 .. n)
  <2> HIDE DEF f
  <2> QED
    BY <1>1, <1>3, FS_Injection
<1>5. \E i \in S : f[i] = k
  BY <1>4 DEF Surjection
<1>6. \E i \in S : Cardinality({j \in S : j <= i}) = k
  BY <1>5 DEF UpTo
<1> QED
  BY <1>6 DEF Kth, UpTo

LEMMA KthUnique ==
    ASSUME NEW S \in SUBSET Nat, IsFiniteSet(S), NEW i \in S
    PROVE  Kth(S, Cardinality(UpTo(S, i))) = i
<1> DEFINE k == Cardinality(UpTo(S, i))
           j == Kth(S, k)
<1>1. k \in 1 .. Cardinality(S)
  BY UpToCounts
<1>2. j \in S /\ Cardinality(UpTo(S, j)) = k
  <2> HIDE DEF k
  <2> QED
    BY <1>1, KthExists
<1> HIDE DEF j
<1>3. i \in Nat /\ j \in Nat /\ k \in Nat
  BY <1>1, <1>2, FS_CardinalityType
<1>4. ~(i < j) /\ ~(j < i)
  <2>1. i < j => k < Cardinality(UpTo(S, j))
    BY <1>2, UpToCounts
  <2>2. j < i => Cardinality(UpTo(S, j)) < k
    BY <1>2, UpToCounts
  <2> QED
    BY <1>2, <1>3, <2>1, <2>2
<1> QED
  BY <1>3, <1>4 DEF j

LEMMA KthLast ==
    ASSUME NEW S \in SUBSET Nat, IsFiniteSet(S), S # {}
    PROVE  /\ Cardinality(S) \in Nat \ {0}
           /\ Kth(S, Cardinality(S)) \in S
           /\ \A j \in S : j <= Kth(S, Cardinality(S))
<1>1. Cardinality(S) \in Nat \ {0}
  BY FS_CardinalityType, FS_EmptySet
<1>2. PICK n : n = Cardinality(S)
  OBVIOUS
<1>3. n \in 1 .. Cardinality(S)
  BY <1>1, <1>2
<1>4. Kth(S, n) \in S /\ Cardinality(UpTo(S, Kth(S, n))) = n
  BY <1>3, KthExists
<1>5. PICK i \in S : i = Kth(S, n)
  BY <1>4
<1>6. ASSUME NEW j \in S PROVE j <= i
  <2>1. i < j => n < Cardinality(UpTo(S, j))
    BY <1>4, <1>5, UpToCounts
  <2>2. Cardinality(UpTo(S, j)) \in 1 .. n
    BY <1>2, UpToCounts
  <2>3. i \in Nat /\ j \in Nat /\ n \in Nat
    BY <1>1, <1>2
  <2> QED
    BY <2>1, <2>2, <2>3
<1> QED
  BY <1>1, <1>2, <1>5, <1>6

(* A number above all others is the last, and moves none of them. *)
LEMMA KthAdd ==
    ASSUME NEW S \in SUBSET Nat, IsFiniteSet(S), NEW m \in Nat, \A i \in S : i < m
    PROVE  /\ Kth(S \cup {m}, Cardinality(S) + 1) = m
           /\ \A k \in 1 .. Cardinality(S) : Kth(S \cup {m}, k) = Kth(S, k)
           /\ IsFiniteSet(S \cup {m}) /\ Cardinality(S \cup {m}) = Cardinality(S) + 1
<1> DEFINE T == S \cup {m}
<1>1. m \notin S
  OBVIOUS
<1>2. IsFiniteSet(T) /\ Cardinality(T) = Cardinality(S) + 1 /\ T \in SUBSET Nat
  BY <1>1, FS_AddElement
<1>3. UpTo(T, m) = T
  <2>1. \A i \in T : i <= m
    <3> SUFFICES ASSUME NEW i \in T PROVE i <= m
      OBVIOUS
    <3>1. i \in Nat /\ (i = m \/ i < m)
      OBVIOUS
    <3> QED
      BY <3>1
  <2> QED
    BY <2>1 DEF UpTo
<1>4. Kth(T, Cardinality(S) + 1) = m
  <2>1. Kth(T, Cardinality(UpTo(T, m))) = m
    BY <1>2, KthUnique
  <2> QED
    BY <1>2, <1>3, <2>1
<1>5. ASSUME NEW k \in 1 .. Cardinality(S) PROVE Kth(T, k) = Kth(S, k)
  <2>1. Kth(S, k) \in S /\ Cardinality(UpTo(S, Kth(S, k))) = k
    BY KthExists
  <2>2. PICK i \in S : i = Kth(S, k)
    BY <2>1
  <2>3. UpTo(T, i) = UpTo(S, i)
    <3>1. ~(m <= i)
      <4>1. i \in Nat /\ i < m
        OBVIOUS
      <4> QED
        BY <4>1
    <3> QED
      BY <3>1 DEF UpTo
  <2>4. Kth(T, Cardinality(UpTo(T, i))) = i
    BY <1>2, KthUnique
  <2> QED
    BY <2>1, <2>2, <2>3, <2>4
<1> QED
  BY <1>2, <1>4, <1>5

-----------------------------------------------------------------------------
(* Where the open calls of the frames fs begin *)

BasesOf(fs) == [k \in 1 .. Cardinality(CallsIn(fs)) |-> fs[Kth(CallsIn(fs), k)].base]

LEMMA BasesType ==
    ASSUME NEW fs \in Seq(Frames)
    PROVE  /\ IsFiniteSet(CallsIn(fs)) /\ CallsIn(fs) \in SUBSET Nat
           /\ Cardinality(CallsIn(fs)) \in Nat
           /\ \A k \in 1 .. Cardinality(CallsIn(fs)) : Kth(CallsIn(fs), k) \in 1 .. Len(fs)
           /\ BasesOf(fs) \in Seq(Nat) /\ Len(BasesOf(fs)) = Cardinality(CallsIn(fs))
<1> DEFINE n == Cardinality(CallsIn(fs))
<1>1. /\ IsFiniteSet(CallsIn(fs)) /\ CallsIn(fs) \in SUBSET Nat /\ n \in Nat
      /\ CallsIn(fs) \subseteq 1 .. Len(fs)
  <2>1. DOMAIN fs = 1 .. Len(fs) /\ Len(fs) \in Nat
    BY LenProperties
  <2>2. CallsIn(fs) \subseteq 1 .. Len(fs)
    BY <2>1 DEF CallsIn
  <2>3. IsFiniteSet(CallsIn(fs)) /\ n \in Nat
    <3>1. IsFiniteSet(1 .. Len(fs))
      BY <2>1, FS_Interval
    <3> QED
      BY <2>2, <3>1, FS_Subset, FS_CardinalityType
  <2>4. \A i \in 1 .. Len(fs) : i \in Nat
    OBVIOUS
  <2> QED
    BY <2>2, <2>3, <2>4
<1>2. \A k \in 1 .. n : Kth(CallsIn(fs), k) \in 1 .. Len(fs)
  BY <1>1, KthExists
<1>3. \A i \in 1 .. Len(fs) : fs[i].base \in Nat
  BY ElementOfSeq DEF Frames
<1>4. BasesOf(fs) \in Seq(Nat) /\ Len(BasesOf(fs)) = n
  <2>1. \A k \in 1 .. n : fs[Kth(CallsIn(fs), k)].base \in Nat
    BY <1>2, <1>3
  <2> QED
    BY <1>1, <2>1 DEF BasesOf
<1> QED
  BY <1>1, <1>2, <1>4

(* A call that is entered begins at its base; no other frame counts. *)
LEMMA BasesAppend ==
    ASSUME NEW fs \in Seq(Frames), NEW f \in Frames
    PROVE  BasesOf(Append(fs, f)) =
               IF f.kind = "call" THEN Append(BasesOf(fs), f.base) ELSE BasesOf(fs)
<1> DEFINE gs == Append(fs, f)
           C == CallsIn(fs)
<1>1. /\ gs \in Seq(Frames) /\ Len(gs) = Len(fs) + 1 /\ Len(fs) \in Nat
      /\ \A i \in 1 .. Len(fs) : gs[i] = fs[i]
      /\ gs[Len(fs) + 1] = f
  BY AppendProperties, LenProperties
<1>2. /\ IsFiniteSet(C) /\ C \in SUBSET Nat /\ Cardinality(C) \in Nat
      /\ BasesOf(fs) \in Seq(Nat) /\ Len(BasesOf(fs)) = Cardinality(C)
      /\ \A k \in 1 .. Cardinality(C) : Kth(C, k) \in 1 .. Len(fs)
  BY BasesType
<1>3. /\ BasesOf(gs) \in Seq(Nat) /\ Len(BasesOf(gs)) = Cardinality(CallsIn(gs))
      /\ Cardinality(CallsIn(gs)) \in Nat
  BY <1>1, BasesType
<1>4. /\ \A k \in 1 .. Cardinality(C) : BasesOf(fs)[k] = fs[Kth(C, k)].base
      /\ \A k \in 1 .. Cardinality(CallsIn(gs)) : BasesOf(gs)[k] = gs[Kth(CallsIn(gs), k)].base
  BY DEF BasesOf
<1>5. CASE f.kind = "call"
  <2>1. CallsIn(gs) = C \cup {Len(fs) + 1}
    BY <1>5, CallsOfLonger
  <2>2. Len(fs) + 1 \in Nat /\ \A i \in C : i < Len(fs) + 1
    <3>1. \A i \in C : i \in 1 .. Len(fs)
      BY CallsOfLonger
    <3> QED
      BY <1>1, <3>1
  <2>3. /\ Kth(CallsIn(gs), Cardinality(C) + 1) = Len(fs) + 1
        /\ \A k \in 1 .. Cardinality(C) : Kth(CallsIn(gs), k) = Kth(C, k)
        /\ Cardinality(CallsIn(gs)) = Cardinality(C) + 1
    <3> DEFINE m == Len(fs) + 1
    <3>1. C \in SUBSET Nat /\ IsFiniteSet(C) /\ m \in Nat /\ \A i \in C : i < m
      BY <1>2, <2>2
    <3>2. CallsIn(gs) = C \cup {m}
      BY <2>1
    <3> HIDE DEF C, m, gs
    <3>3. /\ Kth(C \cup {m}, Cardinality(C) + 1) = m
          /\ \A k \in 1 .. Cardinality(C) : Kth(C \cup {m}, k) = Kth(C, k)
          /\ Cardinality(C \cup {m}) = Cardinality(C) + 1
      BY <3>1, KthAdd
    <3> QED
      BY <3>2, <3>3 DEF m
  <2>4. f.base \in Nat
    BY DEF Frames
  <2> DEFINE b == Append(BasesOf(fs), f.base)
  <2>5. /\ b \in Seq(Nat) /\ Len(b) = Cardinality(C) + 1 /\ b[Cardinality(C) + 1] = f.base
        /\ \A k \in 1 .. Cardinality(C) : b[k] = BasesOf(fs)[k]
    BY <1>2, <2>4, AppendProperties
  <2> HIDE DEF b, C, gs
  <2>6. \A k \in 1 .. Cardinality(C) : BasesOf(gs)[k] = b[k]
    <3> TAKE k \in 1 .. Cardinality(C)
    <3>1. k \in 1 .. Cardinality(CallsIn(gs))
      BY <1>2, <2>3
    <3>2. BasesOf(gs)[k] = gs[Kth(C, k)].base
      BY <1>4, <2>3, <3>1
    <3>3. gs[Kth(C, k)] = fs[Kth(C, k)]
      BY <1>1, <1>2
    <3> QED
      BY <1>4, <2>5, <3>2, <3>3
  <2>7. BasesOf(gs)[Cardinality(C) + 1] = b[Cardinality(C) + 1]
    BY <1>1, <1>2, <1>4, <2>3, <2>5, SMTT(30)
  <2>8. BasesOf(gs) = b
    <3>1. \A k \in 1 .. Len(b) : BasesOf(gs)[k] = b[k]
      <4>1. \A k \in 1 .. Cardinality(C) + 1 : k = Cardinality(C) + 1 \/ k \in 1 .. Cardinality(C)
        BY <1>2 DEF C
      <4> QED
        BY <2>5, <2>6, <2>7, <4>1
    <3> QED
      BY <1>3, <2>3, <2>5, <3>1, SeqEqual
  <2> QED
    BY <1>5, <2>8 DEF b, gs
<1>6. CASE f.kind # "call"
  <2>1. CallsIn(gs) = C
    BY <1>6, CallsOfLonger
  <2>2. \A k \in 1 .. Cardinality(C) : BasesOf(gs)[k] = BasesOf(fs)[k]
    <3> TAKE k \in 1 .. Cardinality(C)
    <3>1. BasesOf(gs)[k] = gs[Kth(C, k)].base
      BY <1>4, <2>1
    <3>2. gs[Kth(C, k)] = fs[Kth(C, k)]
      BY <1>1, <1>2
    <3> QED
      BY <1>4, <3>1, <3>2
  <2>3. BasesOf(gs) = BasesOf(fs)
    <3> HIDE DEF gs, C
    <3> QED
      BY <1>2, <1>3, <2>1, <2>2, SeqEqual
  <2> QED
    BY <1>6, <2>3
<1> QED
  BY <1>5, <1>6

-----------------------------------------------------------------------------
(* The scopes e, cut where the calls b begin *)

Cut(e, b) == [k \in DOMAIN b |-> SubSeq(e, b[k] + 1, IF k = Len(b) THEN Len(e) ELSE b[k + 1])]

LEMMA SubSeqAgrees ==
    ASSUME NEW S, NEW s, NEW t, NEW m \in Nat, NEW n \in Nat,
           \A i \in m .. n : s[i] \in S /\ s[i] = t[i]
    PROVE  SubSeq(s, m, n) = SubSeq(t, m, n)
<1>1. /\ SubSeq(s, m, n) \in Seq(S) /\ SubSeq(t, m, n) \in Seq(S)
      /\ Len(SubSeq(s, m, n)) = IF m <= n THEN n - m + 1 ELSE 0
      /\ Len(SubSeq(t, m, n)) = IF m <= n THEN n - m + 1 ELSE 0
      /\ \A i \in 1 .. n - m + 1 : SubSeq(s, m, n)[i] = s[m + i - 1]
      /\ \A i \in 1 .. n - m + 1 : SubSeq(t, m, n)[i] = t[m + i - 1]
  BY SubSeqProperties
<1>2. ASSUME NEW i \in 1 .. Len(SubSeq(s, m, n))
      PROVE  SubSeq(s, m, n)[i] = SubSeq(t, m, n)[i]
  <2>1. i \in 1 .. n - m + 1 /\ m + i - 1 \in m .. n
    BY <1>1
  <2> QED
    BY <1>1, <2>1
<1> QED
  BY <1>1, <1>2, SeqEqual

LEMMA FrontOfAppend ==
    ASSUME NEW S, NEW s \in Seq(S), NEW x \in S
    PROVE  Front(Append(s, x)) = s /\ Last(Append(s, x)) = x
<1> DEFINE t == Append(s, x)
<1>1. /\ t \in Seq(S) /\ t # <<>> /\ Len(t) = Len(s) + 1 /\ Len(s) \in Nat
      /\ t[Len(s) + 1] = x /\ \A i \in 1 .. Len(s) : t[i] = s[i]
  BY AppendProperties, LenProperties
<1> HIDE DEF t
<1>2. /\ Front(t) \in Seq(S) /\ Len(Front(t)) = Len(t) - 1 /\ Last(t) = t[Len(t)]
      /\ \A i \in 1 .. Len(t) - 1 : Front(t)[i] = t[i]
  BY <1>1, FrontLast
<1>3. Len(Front(t)) = Len(s) /\ \A i \in 1 .. Len(s) : Front(t)[i] = s[i]
  BY <1>1, <1>2
<1>4. Front(t) = s
  BY <1>2, <1>3, SeqEqual
<1> QED
  BY <1>1, <1>2, <1>4 DEF t

LEMMA CutType ==
    ASSUME NEW S, NEW e \in Seq(S), NEW b \in Seq(Nat), \A k \in 1 .. Len(b) : b[k] <= Len(e)
    PROVE  /\ Cut(e, b) \in Seq(Seq(S)) /\ Len(Cut(e, b)) = Len(b)
           /\ \A k \in 1 .. Len(b) :
                Cut(e, b)[k] = SubSeq(e, b[k] + 1, IF k = Len(b) THEN Len(e) ELSE b[k + 1])
<1>1. Len(b) \in Nat /\ DOMAIN b = 1 .. Len(b) /\ Len(e) \in Nat
  BY LenProperties
<1>2. ASSUME NEW k \in 1 .. Len(b)
      PROVE  SubSeq(e, b[k] + 1, IF k = Len(b) THEN Len(e) ELSE b[k + 1]) \in Seq(S)
  <2> DEFINE n == IF k = Len(b) THEN Len(e) ELSE b[k + 1]
  <2>1. b[k] \in Nat
    BY ElementOfSeq
  <2>2. n \in Nat /\ n <= Len(e)
    <3>1. CASE k = Len(b)
      BY <1>1, <3>1
    <3>2. CASE k # Len(b)
      <4>1. k + 1 \in 1 .. Len(b)
        <5>1. Len(b) \in Nat
          BY <1>1
        <5> QED
          BY <3>2, <5>1
      <4>2. b[k + 1] \in Nat
        BY <4>1, ElementOfSeq
      <4> QED
        BY <3>2, <4>1, <4>2
    <3> QED
      BY <3>1, <3>2
  <2> HIDE DEF n
  <2>3. \A i \in b[k] + 1 .. n : i \in 1 .. Len(e)
    BY <1>1, <2>1, <2>2
  <2>4. \A i \in b[k] + 1 .. n : e[i] \in S
    BY <2>3, ElementOfSeq
  <2>5. SubSeq(e, b[k] + 1, n) \in Seq(S)
    BY <2>1, <2>2, <2>4, SubSeqProperties
  <2> QED
    BY <2>5 DEF n
<1> DEFINE f == Cut(e, b)
<1>3. /\ DOMAIN f = 1 .. Len(b)
      /\ \A k \in 1 .. Len(b) : f[k] = SubSeq(e, b[k] + 1, IF k = Len(b) THEN Len(e) ELSE b[k + 1])
  BY <1>1 DEF Cut
<1>4. f = [k \in 1 .. Len(b) |-> f[k]]
  BY <1>1 DEF Cut
<1>5. \A k \in 1 .. Len(b) : f[k] \in Seq(S)
  BY <1>2, <1>3
<1> HIDE DEF f
<1>6. f \in Seq(Seq(S)) /\ Len(f) = Len(b)
  BY <1>1, <1>4, <1>5
<1> QED
  BY <1>3, <1>6 DEF f

(* One more call: what is above c is its own, what is below is as it was. *)
LEMMA CutAppend ==
    ASSUME NEW S, NEW e \in Seq(S), NEW e2 \in Seq(S), NEW b \in Seq(Nat),
           \A k \in 1 .. Len(b) : b[k] <= Len(e),
           Len(e) <= Len(e2), \A i \in 1 .. Len(e) : e[i] = e2[i]
    PROVE  Cut(e2, Append(b, Len(e))) = Append(Cut(e, b), SubSeq(e2, Len(e) + 1, Len(e2)))
<1> DEFINE c == Append(b, Len(e))
           own == SubSeq(e2, Len(e) + 1, Len(e2))
<1>1. Len(b) \in Nat /\ Len(e) \in Nat /\ Len(e2) \in Nat
  BY LenProperties
<1>2. /\ c \in Seq(Nat) /\ Len(c) = Len(b) + 1 /\ c[Len(b) + 1] = Len(e)
      /\ \A k \in 1 .. Len(b) : c[k] = b[k]
  BY <1>1, AppendProperties
<1> HIDE DEF c
<1>3. \A k \in 1 .. Len(c) : c[k] <= Len(e2)
  <2> TAKE k \in 1 .. Len(c)
  <2>1. CASE k = Len(b) + 1
    BY <1>1, <1>2, <2>1
  <2>2. CASE k \in 1 .. Len(b)
    <3>1. b[k] \in Nat /\ b[k] <= Len(e)
      BY <2>2, ElementOfSeq
    <3> QED
      BY <1>1, <1>2, <2>2, <3>1
  <2> QED
    BY <1>1, <1>2, <2>1, <2>2
<1>4. /\ Cut(e2, c) \in Seq(Seq(S)) /\ Len(Cut(e2, c)) = Len(c)
      /\ \A k \in 1 .. Len(c) :
            Cut(e2, c)[k] = SubSeq(e2, c[k] + 1, IF k = Len(c) THEN Len(e2) ELSE c[k + 1])
  BY <1>2, <1>3, CutType
<1>5. /\ Cut(e, b) \in Seq(Seq(S)) /\ Len(Cut(e, b)) = Len(b)
      /\ \A k \in 1 .. Len(b) :
            Cut(e, b)[k] = SubSeq(e, b[k] + 1, IF k = Len(b) THEN Len(e) ELSE b[k + 1])
  BY CutType
<1>6. own \in Seq(S)
  <2>1. \A i \in Len(e) + 1 .. Len(e2) : e2[i] \in S
    <3>1. \A i \in Len(e) + 1 .. Len(e2) : i \in 1 .. Len(e2)
      BY <1>1
    <3> QED
      BY <3>1, ElementOfSeq
  <2> QED
    BY <1>1, <2>1, SubSeqProperties
<1> DEFINE d == Append(Cut(e, b), own)
<1>7. /\ d \in Seq(Seq(S)) /\ Len(d) = Len(b) + 1 /\ d[Len(b) + 1] = own
      /\ \A k \in 1 .. Len(b) : d[k] = Cut(e, b)[k]
  <2> HIDE DEF own
  <2> QED
    BY <1>5, <1>6, AppendProperties
<1> HIDE DEF d
<1>8. Cut(e2, c)[Len(b) + 1] = own
  <2>1. Len(b) + 1 \in 1 .. Len(c)
    BY <1>1, <1>2
  <2> QED
    BY <1>2, <1>4, <2>1
<1>9. ASSUME NEW k \in 1 .. Len(b) PROVE Cut(e2, c)[k] = d[k]
  <2> DEFINE n == c[k + 1]
  <2>0. k \in 1 .. Len(c) /\ k # Len(c) /\ (k # Len(b) => k + 1 \in 1 .. Len(b))
    BY <1>1, <1>2
  <2>1. Cut(e2, c)[k] = SubSeq(e2, b[k] + 1, n)
    BY <1>2, <1>4, <2>0
  <2>2. n = IF k = Len(b) THEN Len(e) ELSE b[k + 1]
    BY <1>2, <2>0
  <2>3. n \in Nat /\ n <= Len(e) /\ b[k] \in Nat
    <3>1. CASE k = Len(b)
      BY <1>1, <2>2, <3>1, ElementOfSeq
    <3>2. CASE k # Len(b)
      <4>1. k + 1 \in 1 .. Len(b)
        BY <1>1, <3>2
      <4>2. b[k + 1] \in Nat /\ b[k] \in Nat
        BY <4>1, ElementOfSeq
      <4> QED
        BY <2>2, <3>2, <4>1, <4>2
    <3> QED
      BY <3>1, <3>2
  <2> HIDE DEF n
  <2>4. \A i \in b[k] + 1 .. n : i \in 1 .. Len(e)
    BY <1>1, <2>3
  <2>5. \A i \in b[k] + 1 .. n : e[i] \in S /\ e[i] = e2[i]
    BY <2>4, ElementOfSeq
  <2>6. SubSeq(e, b[k] + 1, n) = SubSeq(e2, b[k] + 1, n)
    <3>1. PICK m \in Nat : m = b[k] + 1
      BY <2>3
    <3>2. \A i \in m .. n : e[i] \in S /\ e[i] = e2[i]
      BY <2>5, <3>1
    <3>3. SubSeq(e, m, n) = SubSeq(e2, m, n)
      BY <2>3, <3>2, SubSeqAgrees
    <3> QED
      BY <3>1, <3>3
  <2> QED
    BY <1>5, <1>7, <2>1, <2>2, <2>6
<1>10. Cut(e2, c) = d
  <2>1. \A k \in 1 .. Len(c) : k = Len(b) + 1 \/ k \in 1 .. Len(b)
    BY <1>1, <1>2
  <2>2. \A k \in 1 .. Len(c) : Cut(e2, c)[k] = d[k]
    BY <1>7, <1>8, <1>9, <2>1
  <2> QED
    BY <1>2, <1>4, <1>7, <2>2, SeqEqual
<1> QED
  BY <1>10 DEF c, d

-----------------------------------------------------------------------------
(* The open calls of the environment e and the frames fs *)

Base(fs) == Last(BasesOf(fs))
CallsOf(e, fs) == Cut(e, BasesOf(fs))
CurrentOf(e, fs) == SubSeq(e, Base(fs) + 1, Len(e))

(* The last call begins last, and has two scopes of its own; what was      *)
(* entered since begins above them.                                        *)
LEMMA LastCall ==
    ASSUME NEW fs \in Seq(Frames), NEW n \in Nat, Stacked(fs, n)
    PROVE  /\ BasesOf(fs) \in Seq(Nat) /\ BasesOf(fs) # <<>>
           /\ Len(BasesOf(fs)) \in Nat \ {0} /\ Base(fs) \in Nat \ {0}
           /\ \A k \in 1 .. Len(BasesOf(fs)) : BasesOf(fs)[k] <= Base(fs)
           /\ Base(fs) + 2 <= n
           /\ Last(fs).kind # "call" => Base(fs) + 2 <= Last(fs).base
<1> DEFINE C == CallsIn(fs)
           b == BasesOf(fs)
<1>1. /\ Len(fs) \in Nat \ {0} /\ DOMAIN fs = 1 .. Len(fs)
      /\ Last(fs) = fs[Len(fs)]
  BY FrontLast, LenProperties DEF Stacked
<1>2. /\ IsFiniteSet(C) /\ C \in SUBSET Nat /\ b \in Seq(Nat) /\ Len(b) = Cardinality(C)
      /\ \A k \in 1 .. Cardinality(C) : Kth(C, k) \in 1 .. Len(fs)
  BY BasesType
<1>3. 1 \in C /\ \A i \in C : i \in DOMAIN fs /\ fs[i].kind = "call"
  BY <1>1 DEF CallsIn, Stacked
<1>4. PICK c : c = Kth(C, Cardinality(C))
  OBVIOUS
<1>5. /\ Cardinality(C) \in Nat \ {0} /\ c \in C /\ \A j \in C : j <= c
  <2> HIDE DEF C
  <2>1. C # {}
    BY <1>3
  <2> QED
    BY <1>2, <1>4, <2>1, KthLast
<1>6. b # <<>> /\ Base(fs) = fs[c].base
  <2>1. b[Cardinality(C)] = fs[c].base
    BY <1>4, <1>5 DEF BasesOf
  <2>2. b # <<>>
    BY <1>2, <1>5, EmptySeq
  <2> QED
    BY <1>2, <2>1, <2>2 DEF Base, Last
<1>7. \A i \in 1 .. Len(fs) : fs[i].base \in Nat /\ fs[i] \in Frames
  BY ElementOfSeq DEF Frames
<1>8. c \in 1 .. Len(fs) /\ fs[c].kind = "call" /\ ScopesOf(fs[c]) = 2
  BY <1>1, <1>3, <1>5 DEF ScopesOf
<1>9. fs[c].base \in Nat \ {0}
  BY <1>1, <1>8, StackedTop
<1>10. ASSUME NEW k \in 1 .. Len(b) PROVE b[k] <= fs[c].base
  <2>1. Kth(C, k) \in C
    <3> HIDE DEF C
    <3> QED
      BY <1>2, KthExists
  <2>2. PICK i \in C : i = Kth(C, k)
    BY <2>1
  <2>3. b[k] = fs[i].base
    BY <1>2, <2>2 DEF BasesOf
  <2>4. i \in DOMAIN fs /\ c \in DOMAIN fs /\ i <= c
    BY <1>3, <1>5
  <2> QED
    BY <2>3, <2>4 DEF Stacked
<1>11. fs[c].base + 2 = IF c = Len(fs) THEN n ELSE fs[c + 1].base
  BY <1>1, <1>8 DEF Stacked
<1>12. c # Len(fs) => fs[c].base + 2 <= Last(fs).base /\ Last(fs).base \in Nat /\ Last(fs).base <= n
  <2> SUFFICES ASSUME c # Len(fs)
               PROVE  fs[c].base + 2 <= Last(fs).base /\ Last(fs).base \in Nat /\ Last(fs).base <= n
    OBVIOUS
  <2>1. c + 1 \in 1 .. Len(fs) /\ Len(fs) \in 1 .. Len(fs) /\ c + 1 <= Len(fs)
    <3>1. Len(fs) \in Nat \ {0} /\ c \in 1 .. Len(fs)
      BY <1>1, <1>8
    <3> QED
      BY <3>1
  <2>2. fs[c + 1].base <= fs[Len(fs)].base
    BY <1>1, <2>1 DEF Stacked
  <2>3. Last(fs).base \in 1 .. n
    BY StackedTop
  <2> QED
    BY <1>1, <1>11, <2>2, <2>3
<1>13. fs[c].base + 2 <= n
  BY <1>9, <1>11, <1>12
<1>14. Last(fs).kind # "call" => c # Len(fs)
  BY <1>1, <1>8
<1> HIDE DEF b
<1> QED
  BY <1>2, <1>5, <1>6, <1>9, <1>10, <1>12, <1>13, <1>14 DEF b

LEMMA CallsSplit ==
    ASSUME NEW e \in Seq(Scopes), NEW fs \in Seq(Frames), Stacked(fs, Len(e))
    PROVE  /\ CallsOf(e, fs) \in Seq(Seq(Scopes)) /\ CallsOf(e, fs) # <<>>
           /\ Len(CallsOf(e, fs)) = Len(BasesOf(fs))
           /\ Last(CallsOf(e, fs)) = CurrentOf(e, fs)
           /\ CallsOf(e, fs) = Append(Cut(SubSeq(e, 1, Base(fs)), Front(BasesOf(fs))), CurrentOf(e, fs))
           /\ CurrentOf(e, fs) \in Seq(Scopes) /\ Len(CurrentOf(e, fs)) = Len(e) - Base(fs)
           /\ \A i \in 1 .. Len(e) - Base(fs) : CurrentOf(e, fs)[i] = e[Base(fs) + i]
           /\ Cut(SubSeq(e, 1, Base(fs)), Front(BasesOf(fs))) \in Seq(Seq(Scopes))
<1> DEFINE b == BasesOf(fs)
           m == Base(fs)
           low == SubSeq(e, 1, m)
<1>1. Len(e) \in Nat
  BY LenProperties
<1>2. /\ b \in Seq(Nat) /\ b # <<>> /\ Len(b) \in Nat \ {0} /\ m \in Nat \ {0}
      /\ \A k \in 1 .. Len(b) : b[k] <= m
      /\ m + 2 <= Len(e)
  BY <1>1, LastCall
<1>3. /\ low \in Seq(Scopes) /\ Len(low) = m /\ \A i \in 1 .. m : low[i] = e[i]
  <2> HIDE DEF m
  <2>1. \A i \in 1 .. m : e[i] \in Scopes
    <3>1. \A i \in 1 .. m : i \in 1 .. Len(e)
      BY <1>1, <1>2
    <3> QED
      BY <3>1, ElementOfSeq
  <2>2. /\ low \in Seq(Scopes) /\ Len(low) = IF 1 <= m THEN m - 1 + 1 ELSE 0
        /\ \A i \in 1 .. m - 1 + 1 : low[i] = e[1 + i - 1]
    BY <1>2, <2>1, SubSeqProperties
  <2>3. m - 1 + 1 = m /\ 1 <= m /\ \A i \in 1 .. m : 1 + i - 1 = i
    BY <1>2
  <2> QED
    BY <2>2, <2>3
<1>4. /\ Front(b) \in Seq(Nat) /\ b = Append(Front(b), m)
      /\ \A k \in 1 .. Len(Front(b)) : Front(b)[k] <= m
  <2>1. b = Append(Front(b), Last(b))
    BY <1>2, FrontAndLast
  <2>2. /\ Front(b) \in Seq(Nat) /\ Len(Front(b)) = Len(b) - 1
        /\ \A i \in 1 .. Len(b) - 1 : Front(b)[i] = b[i]
    BY <1>2, FrontLast
  <2>3. \A i \in 1 .. Len(b) - 1 : i \in 1 .. Len(b)
    BY <1>2
  <2> HIDE DEF b
  <2> QED
    BY <1>2, <2>1, <2>2, <2>3 DEF Base, b
<1> HIDE DEF b, m, low
<1>5. Cut(e, Append(Front(b), Len(low))) = Append(Cut(low, Front(b)), SubSeq(e, Len(low) + 1, Len(e)))
  <2>1. /\ \A k \in 1 .. Len(Front(b)) : Front(b)[k] <= Len(low)
        /\ Len(low) <= Len(e) /\ \A i \in 1 .. Len(low) : low[i] = e[i]
    BY <1>1, <1>2, <1>3, <1>4
  <2> QED
    BY <1>3, <1>4, <2>1, CutAppend
<1>6. Cut(low, Front(b)) \in Seq(Seq(Scopes))
  BY <1>3, <1>4, CutType
<1>7. /\ CurrentOf(e, fs) = SubSeq(e, m + 1, Len(e))
      /\ CurrentOf(e, fs) \in Seq(Scopes) /\ Len(CurrentOf(e, fs)) = Len(e) - m
      /\ \A i \in 1 .. Len(e) - m : CurrentOf(e, fs)[i] = e[m + i]
  <2>1. \A i \in m + 1 .. Len(e) : e[i] \in Scopes
    <3>1. \A i \in m + 1 .. Len(e) : i \in 1 .. Len(e)
      BY <1>1, <1>2
    <3> QED
      BY <3>1, ElementOfSeq
  <2>2. PICK a \in Nat : a = m + 1
    BY <1>2
  <2>3. /\ SubSeq(e, a, Len(e)) \in Seq(Scopes)
        /\ Len(SubSeq(e, a, Len(e))) = IF a <= Len(e) THEN Len(e) - a + 1 ELSE 0
        /\ \A i \in 1 .. Len(e) - a + 1 : SubSeq(e, a, Len(e))[i] = e[a + i - 1]
    BY <1>1, <2>1, <2>2, SubSeqProperties
  <2>4. Len(e) - a + 1 = Len(e) - m /\ a <= Len(e) /\ \A i \in 1 .. Len(e) - m : a + i - 1 = m + i
    BY <1>1, <1>2, <2>2
  <2> QED
    BY <2>2, <2>3, <2>4 DEF CurrentOf, m
<1>8. CallsOf(e, fs) = Append(Cut(low, Front(b)), CurrentOf(e, fs))
  BY <1>3, <1>4, <1>5, <1>7 DEF CallsOf, b
<1>9. /\ CallsOf(e, fs) \in Seq(Seq(Scopes)) /\ CallsOf(e, fs) # <<>>
      /\ Last(CallsOf(e, fs)) = CurrentOf(e, fs)
  <2>1. PICK below \in Seq(Seq(Scopes)) : below = Cut(low, Front(b))
    BY <1>6
  <2>2. PICK own \in Seq(Scopes) : own = CurrentOf(e, fs)
    BY <1>7
  <2>3. Append(below, own) \in Seq(Seq(Scopes)) /\ Append(below, own) # <<>>
    BY AppendProperties, SMTT(30)
  <2>4. Last(Append(below, own)) = own
    BY FrontOfAppend
  <2> QED
    BY <1>8, <2>1, <2>2, <2>3, <2>4
<1>10. Len(CallsOf(e, fs)) = Len(b)
  <2>1. Len(Cut(low, Front(b))) = Len(Front(b))
    BY <1>3, <1>4, CutType
  <2>2. Len(CallsOf(e, fs)) = Len(Cut(low, Front(b))) + 1
    BY <1>6, <1>7, <1>8, AppendProperties
  <2>3. Len(Front(b)) = Len(b) - 1
    BY <1>2, FrontLast
  <2> QED
    BY <1>2, <2>1, <2>2, <2>3
<1> QED
  BY <1>6, <1>7, <1>8, <1>9, <1>10 DEF b, m, low

(* A step of the current call leaves the others alone. *)
LEMMA CallsChange ==
    ASSUME NEW e \in Seq(Scopes), NEW fs \in Seq(Frames), Stacked(fs, Len(e)),
           NEW e2 \in Seq(Scopes), NEW fs2 \in Seq(Frames), Stacked(fs2, Len(e2)),
           BasesOf(fs2) = BasesOf(fs), \A i \in 1 .. Base(fs) : e2[i] = e[i]
    PROVE  CallsOf(e2, fs2) = Append(Front(CallsOf(e, fs)), CurrentOf(e2, fs))
<1> DEFINE m == Base(fs)
<1>1. Len(e) \in Nat /\ Len(e2) \in Nat
  BY LenProperties
<1>2. m \in Nat \ {0} /\ m + 2 <= Len(e)
  BY <1>1, LastCall
<1>3. Base(fs2) = m /\ CurrentOf(e2, fs2) = CurrentOf(e2, fs)
  BY DEF Base, CurrentOf
<1>4. SubSeq(e, 1, m) = SubSeq(e2, 1, m)
  <2> HIDE DEF m
  <2>1. \A i \in 1 .. m : i \in 1 .. Len(e)
    BY <1>1, <1>2
  <2>2. \A i \in 1 .. m : e[i] \in Scopes /\ e[i] = e2[i]
    BY <2>1, ElementOfSeq DEF m
  <2>3. PICK a \in Nat : a = 1
    OBVIOUS
  <2>4. SubSeq(e, a, m) = SubSeq(e2, a, m)
    BY <1>2, <2>2, <2>3, SubSeqAgrees
  <2> QED
    BY <2>3, <2>4
<1> DEFINE below == Cut(SubSeq(e, 1, m), Front(BasesOf(fs)))
<1>5. /\ CallsOf(e, fs) = Append(below, CurrentOf(e, fs))
      /\ below \in Seq(Seq(Scopes)) /\ CurrentOf(e, fs) \in Seq(Scopes)
  BY CallsSplit
<1>6. CallsOf(e2, fs2) = Append(below, CurrentOf(e2, fs))
  <2>1. CallsOf(e2, fs2) = Append(Cut(SubSeq(e2, 1, Base(fs2)), Front(BasesOf(fs2))), CurrentOf(e2, fs2))
    BY CallsSplit
  <2> QED
    BY <1>3, <1>4, <2>1
<1> HIDE DEF below
<1>7. Front(CallsOf(e, fs)) = below
  BY <1>5, FrontOfAppend
<1> QED
  BY <1>6, <1>7

LEMMA CallsEnter ==
    ASSUME NEW e \in Seq(Scopes), NEW fs \in Seq(Frames), Stacked(fs, Len(e)),
           NEW f \in Frames, f.kind = "call", f.base = Len(e),
           NEW e2 \in Seq(Scopes), Len(e) <= Len(e2), \A i \in 1 .. Len(e) : e[i] = e2[i]
    PROVE  CallsOf(e2, Append(fs, f)) = Append(CallsOf(e, fs), SubSeq(e2, Len(e) + 1, Len(e2)))
<1>1. Len(e) \in Nat
  BY LenProperties
<1>2. /\ BasesOf(fs) \in Seq(Nat) /\ Base(fs) \in Nat /\ Base(fs) + 2 <= Len(e)
      /\ \A k \in 1 .. Len(BasesOf(fs)) : BasesOf(fs)[k] <= Base(fs)
  BY <1>1, LastCall
<1>3. \A k \in 1 .. Len(BasesOf(fs)) : BasesOf(fs)[k] <= Len(e)
  <2> TAKE k \in 1 .. Len(BasesOf(fs))
  <2>1. BasesOf(fs)[k] \in Nat
    BY <1>2, ElementOfSeq
  <2> QED
    BY <1>1, <1>2, <2>1
<1>4. BasesOf(Append(fs, f)) = Append(BasesOf(fs), Len(e))
  BY BasesAppend
<1> QED
  BY <1>2, <1>3, <1>4, CutAppend DEF CallsOf

LEMMA CallsLeave ==
    ASSUME NEW e \in Seq(Scopes), NEW fs \in Seq(Frames), Stacked(fs, Len(e)),
           Last(fs).kind = "call", Len(fs) # 1,
           NEW e2 \in Seq(Scopes), Len(e2) = Last(fs).base, \A i \in 1 .. Len(e2) : e2[i] = e[i]
    PROVE  CallsOf(e2, Front(fs)) = Front(CallsOf(e, fs))
<1>1. Len(e) \in Nat /\ Len(e2) \in Nat /\ fs # <<>>
  BY LenProperties DEF Stacked
<1>2. /\ Front(fs) \in Seq(Frames) /\ Last(fs) \in Frames /\ fs = Append(Front(fs), Last(fs))
      /\ Stacked(Front(fs), Len(e2)) /\ Last(fs).base \in 1 .. Len(e)
  BY <1>1, FrontLast, FrontAndLast, StackedFront, StackedTop
<1>3. Len(e2) <= Len(e)
  BY <1>1, <1>2
<1>4. CallsOf(e, Append(Front(fs), Last(fs))) =
          Append(CallsOf(e2, Front(fs)), SubSeq(e, Len(e2) + 1, Len(e)))
  BY <1>2, <1>3, CallsEnter
<1>5. SubSeq(e, Len(e2) + 1, Len(e)) \in Seq(Scopes)
  <2>1. \A i \in Len(e2) + 1 .. Len(e) : i \in 1 .. Len(e)
    BY <1>1
  <2>2. \A i \in Len(e2) + 1 .. Len(e) : e[i] \in Scopes
    BY <2>1, ElementOfSeq
  <2> QED
    BY <1>1, <2>2, SubSeqProperties
<1>6. CallsOf(e2, Front(fs)) \in Seq(Seq(Scopes))
  BY <1>2, CallsSplit
<1>7. PICK own \in Seq(Scopes) : own = SubSeq(e, Len(e2) + 1, Len(e))
  BY <1>5
<1>8. Front(Append(CallsOf(e2, Front(fs)), own)) = CallsOf(e2, Front(fs))
  BY <1>6, FrontOfAppend
<1> QED
  BY <1>2, <1>4, <1>7, <1>8

(* Frames other than calls begin no call. *)
LEMMA SameBases ==
    ASSUME NEW fs \in Seq(Frames), fs # <<>>
    PROVE  /\ \A f \in Frames : f.kind # "call" => BasesOf(Append(fs, f)) = BasesOf(fs)
           /\ Last(fs).kind # "call" => BasesOf(Front(fs)) = BasesOf(fs)
           /\ \A f \in Frames : f.kind # "call" /\ Last(fs).kind # "call"
                                 => BasesOf(Append(Front(fs), f)) = BasesOf(fs)
<1>1. Front(fs) \in Seq(Frames) /\ Last(fs) \in Frames /\ fs = Append(Front(fs), Last(fs))
  BY FrontLast, FrontAndLast
<1>2. Last(fs).kind # "call" => BasesOf(Append(Front(fs), Last(fs))) = BasesOf(Front(fs))
  BY <1>1, BasesAppend
<1>3. \A f \in Frames : f.kind # "call" => /\ BasesOf(Append(fs, f)) = BasesOf(fs)
                                            /\ BasesOf(Append(Front(fs), f)) = BasesOf(Front(fs))
  BY <1>1, BasesAppend
<1> QED
  BY <1>1, <1>2, <1>3

-----------------------------------------------------------------------------
(* What is above m in the environment e *)

LEMMA AboveIs ==
    ASSUME NEW S, NEW e \in Seq(S), NEW m \in Nat, m <= Len(e), NEW c \in Seq(S),
           Len(c) = Len(e) - m, \A i \in 1 .. Len(e) - m : c[i] = e[m + i]
    PROVE  SubSeq(e, m + 1, Len(e)) = c
<1>1. Len(e) \in Nat
  BY LenProperties
<1>2. PICK a \in Nat : a = m + 1
  OBVIOUS
<1>3. \A i \in a .. Len(e) : e[i] \in S
  <2>1. \A i \in a .. Len(e) : i \in 1 .. Len(e)
    BY <1>1, <1>2
  <2> QED
    BY <2>1, ElementOfSeq
<1>4. /\ SubSeq(e, a, Len(e)) \in Seq(S)
      /\ Len(SubSeq(e, a, Len(e))) = IF a <= Len(e) THEN Len(e) - a + 1 ELSE 0
      /\ \A i \in 1 .. Len(e) - a + 1 : SubSeq(e, a, Len(e))[i] = e[a + i - 1]
  BY <1>1, <1>3, SubSeqProperties
<1>5. /\ Len(e) - a + 1 = Len(e) - m /\ (a <= Len(e) \/ Len(e) - m = 0)
      /\ \A i \in 1 .. Len(e) - m : a + i - 1 = m + i
  BY <1>1, <1>2
<1>6. SubSeq(e, a, Len(e)) = c
  <2>1. Len(SubSeq(e, a, Len(e))) = Len(c)
    BY <1>1, <1>2, <1>4
  <2>2. \A i \in 1 .. Len(c) : SubSeq(e, a, Len(e))[i] = c[i]
    BY <1>4, <1>5
  <2> QED
    BY <1>4, <2>1, <2>2, SeqEqual
<1> QED
  BY <1>2, <1>6

(* The root holds the constants, the other scopes hold locals. *)
Rooted(e) ==
    /\ e[1] = [n \in Consts |-> ConstValue]
    /\ \A i \in 2 .. Len(e) : DOMAIN e[i] \subseteq Locals

LEMMA PushScopes ==
    ASSUME NEW e \in Environments
    PROVE  /\ Push(e) \in Environments /\ Len(Push(e)) = Len(e) + 1 /\ Len(e) \in Nat \ {0}
           /\ \A i \in 1 .. Len(e) : Push(e)[i] = e[i]
           /\ Push(e)[Len(e) + 1] = NoNames /\ NoNames \in Scopes
           /\ Rooted(e) => Rooted(Push(e))
<1>1. NoNames \in Scopes /\ DOMAIN NoNames = {}
  <2>1. NoNames \in [{} -> Values] /\ {} \in SUBSET (Consts \cup Locals)
    BY DEF NoNames
  <2> QED
    BY <2>1 DEF Scopes
<1>2. e \in Seq(Scopes) /\ Len(e) \in Nat \ {0}
  BY EmptySeq, LenProperties DEF Environments
<1>3. Push(e) \in Environments /\ Len(Push(e)) = Len(e) + 1
  BY PushType
<1>4. (\A i \in 1 .. Len(e) : Push(e)[i] = e[i]) /\ Push(e)[Len(e) + 1] = NoNames
  BY <1>1, <1>2, AppendProperties DEF Push
<1>5. ASSUME Rooted(e) PROVE Rooted(Push(e))
  <2>1. Push(e)[1] = e[1]
    BY <1>2, <1>4
  <2>2. ASSUME NEW i \in 2 .. Len(Push(e)) PROVE DOMAIN Push(e)[i] \subseteq Locals
    <3>1. i = Len(e) + 1 \/ i \in 2 .. Len(e)
      BY <1>2, <1>3
    <3>2. i \in 2 .. Len(e) => i \in 1 .. Len(e)
      BY <1>2
    <3> QED
      BY <1>1, <1>4, <1>5, <3>1, <3>2 DEF Rooted
  <2> QED
    BY <1>5, <2>1, <2>2 DEF Rooted
<1> QED
  BY <1>1, <1>2, <1>3, <1>4, <1>5

LEMMA PopScopes ==
    ASSUME NEW e \in Environments, Len(e) > 1
    PROVE  /\ Pop(e) \in Environments /\ Len(Pop(e)) = Len(e) - 1 /\ Len(e) \in Nat
           /\ \A i \in 1 .. Len(e) - 1 : Pop(e)[i] = e[i]
           /\ Rooted(e) => Rooted(Pop(e))
<1>1. e \in Seq(Scopes) /\ Len(e) \in Nat /\ e # <<>>
  BY LenProperties DEF Environments
<1>2. Pop(e) \in Environments /\ Len(Pop(e)) = Len(e) - 1
  BY PopType
<1>3. \A i \in 1 .. Len(e) - 1 : Pop(e)[i] = e[i]
  BY <1>1, FrontLast DEF Pop
<1>4. ASSUME Rooted(e) PROVE Rooted(Pop(e))
  <2>1. 1 \in 1 .. Len(e) - 1 /\ \A i \in 2 .. Len(e) - 1 : i \in 1 .. Len(e) - 1 /\ i \in 2 .. Len(e)
    BY <1>1
  <2> QED
    BY <1>2, <1>3, <1>4, <2>1 DEF Rooted
<1> QED
  BY <1>1, <1>2, <1>3, <1>4

(* A scope other than the root is written. *)
LEMMA WriteScope ==
    ASSUME NEW e \in Environments, NEW i \in 2 .. Len(e), NEW s \in Scopes,
           DOMAIN e[i] \subseteq DOMAIN s
    PROVE  /\ [e EXCEPT ![i] = s] \in Environments /\ Len([e EXCEPT ![i] = s]) = Len(e)
           /\ Len(e) \in Nat
           /\ \A j \in 1 .. Len(e) : [e EXCEPT ![i] = s][j] = IF j = i THEN s ELSE e[j]
           /\ Rooted(e) /\ DOMAIN s \subseteq Locals => Rooted([e EXCEPT ![i] = s])
<1>1. e \in Seq(Scopes) /\ Len(e) \in Nat
  BY LenProperties DEF Environments
<1>2. i \in 1 .. Len(e) /\ i # 1
  BY <1>1
<1>3. PICK w : w = [e EXCEPT ![i] = s]
  OBVIOUS
<1>4. w \in Environments /\ Len(w) = Len(e) /\ \A j \in 1 .. Len(e) : w[j] = IF j = i THEN s ELSE e[j]
  <2>1. [e EXCEPT ![i] = s] \in Environments /\ Len([e EXCEPT ![i] = s]) = Len(e)
    BY <1>2, WriteType
  <2>2. \A j \in 1 .. Len(e) : [e EXCEPT ![i] = s][j] = IF j = i THEN s ELSE e[j]
    BY <1>1, <1>2, ExceptSeq
  <2> QED
    BY <1>3, <2>1, <2>2
<1>5. ASSUME Rooted(e), DOMAIN s \subseteq Locals PROVE Rooted(w)
  <2>1. 1 \in 1 .. Len(e) /\ \A j \in 2 .. Len(e) : j \in 1 .. Len(e)
    BY <1>1, <1>2
  <2> QED
    BY <1>2, <1>4, <1>5, <2>1 DEF Rooted
<1> QED
  BY <1>1, <1>3, <1>4, <1>5

-----------------------------------------------------------------------------
(* The state of a running program *)

LEMMA CallsAre ==
    /\ Calls = CallsOf(env, frames)
    /\ Calls' = CallsOf(env', frames')
<1>1. Bases = BasesOf(frames)
  BY DEF Bases, BasesOf, OpenCalls, CallsIn
<1>2. Bases' = BasesOf(frames')
  BY DEF Bases, BasesOf, OpenCalls, CallsIn
<1> QED
  BY <1>1, <1>2 DEF Calls, CallsOf, Cut

LEMMA Here ==
    ASSUME IInv, Running
    PROVE  /\ env \in Environments /\ env \in Seq(Scopes) /\ Len(env) \in Nat
           /\ frames \in Seq(Frames) /\ frames # <<>> /\ Stacked(frames, Len(env))
           /\ Base(frames) \in Nat \ {0} /\ Base(frames) + 2 <= Len(env)
           /\ Calls # <<>> /\ Calls \in Seq(Seq(Scopes))
           /\ Last(Calls) = CurrentOf(env, frames)
<1>1. OpenFrames(env, frames, call_depth) /\ Len(env) \in Nat
  BY RunningFrames
<1>2. env \in Environments /\ env \in Seq(Scopes) /\ frames \in Seq(Frames) /\ Stacked(frames, Len(env))
  BY <1>1 DEF OpenFrames, Environments
<1> QED
  BY <1>1, <1>2, LastCall, CallsSplit, CallsAre DEF Stacked

(* A step that leaves everything up to the base of the current call alone  *)
(* changes that call, and only it.                                         *)
LEMMA ChangesCurrent ==
    ASSUME IInv, Running, IInv', Running', BasesOf(frames') = BasesOf(frames),
           \A i \in 1 .. Base(frames) : env'[i] = env[i],
           NEW c \in Seq(Scopes), Len(c) = Len(env') - Base(frames),
           \A i \in 1 .. Len(env') - Base(frames) : c[i] = env'[Base(frames) + i]
    PROVE  Calls # <<>> /\ Dynamic!Change(c)
<1>1. /\ env \in Seq(Scopes) /\ frames \in Seq(Frames) /\ Stacked(frames, Len(env))
      /\ Calls = CallsOf(env, frames) /\ Calls # <<>>
  BY Here, CallsAre
<1>2. OpenFrames(env', frames', call_depth')
  BY DEF IInv
<1>3. /\ env' \in Seq(Scopes) /\ frames' \in Seq(Frames) /\ Stacked(frames', Len(env'))
      /\ Len(env') \in Nat
  BY <1>2, LenProperties DEF OpenFrames, Environments
<1>4. Base(frames') = Base(frames)
  BY DEF Base
<1>5. Base(frames) \in Nat /\ Base(frames) <= Len(env')
  <2>1. Base(frames') \in Nat /\ Base(frames') + 2 <= Len(env')
    BY <1>3, LastCall
  <2> QED
    BY <1>3, <1>4, <2>1
<1>6. PICK e2 : e2 = env'
  OBVIOUS
<1>7. PICK fs2 : fs2 = frames'
  OBVIOUS
<1>8. CallsOf(e2, fs2) = Append(Front(CallsOf(env, frames)), CurrentOf(e2, frames))
  BY <1>1, <1>3, <1>6, <1>7, CallsChange
<1>9. PICK m \in Nat : m = Base(frames)
  BY <1>5
<1>10. CurrentOf(e2, frames) = c
  <2>1. SubSeq(e2, m + 1, Len(e2)) = c
    BY <1>3, <1>5, <1>6, <1>9, AboveIs
  <2> QED
    BY <1>9, <2>1 DEF CurrentOf
<1>11. Calls' = Append(Front(Calls), c)
  BY <1>1, <1>6, <1>7, <1>8, <1>10, CallsAre
<1> QED
  BY <1>1, <1>11 DEF Dynamic!Change, Dynamic!Front, Front

LEMMA OpensBlock ==
    ASSUME IInv, Running, IInv', Running', BasesOf(frames') = BasesOf(frames),
           env' = Push(env), UNCHANGED stdout
    PROVE  Dynamic!OpenBlocks
<1> DEFINE c == Append(CurrentOf(env, frames), NoNames)
<1>1. /\ env \in Environments /\ Len(env) \in Nat /\ Base(frames) \in Nat \ {0}
      /\ Base(frames) + 2 <= Len(env) /\ Calls # <<>> /\ Last(Calls) = CurrentOf(env, frames)
  BY Here
<1>2. PICK m \in Nat : m = Base(frames)
  BY <1>1
<1>3. /\ Len(env') = Len(env) + 1 /\ env'[Len(env) + 1] = NoNames /\ NoNames \in Scopes
      /\ \A i \in 1 .. Len(env) : env'[i] = env[i]
  BY <1>1, PushScopes
<1>4. PICK own : own = CurrentOf(env, frames)
  OBVIOUS
<1>5. /\ own \in Seq(Scopes) /\ Len(own) = Len(env) - m
      /\ \A i \in 1 .. Len(env) - m : own[i] = env[m + i]
  BY Here, CallsSplit, <1>2, <1>4
<1>6. PICK d : d = Append(own, NoNames)
  OBVIOUS
<1>7. /\ d \in Seq(Scopes) /\ Len(d) = Len(env) - m + 1 /\ d[Len(env) - m + 1] = NoNames
      /\ \A i \in 1 .. Len(env) - m : d[i] = env[m + i]
  BY <1>3, <1>5, <1>6, AppendProperties
<1>8. Dynamic!Change(d)
  <2>1. Len(d) = Len(env') - m
    BY <1>1, <1>2, <1>3, <1>7
  <2>2. ASSUME NEW i \in 1 .. Len(env') - m PROVE d[i] = env'[m + i]
    <3>0. Len(env') - m = Len(env) - m + 1 /\ Len(env) - m \in Nat
      BY <1>1, <1>2, <1>3
    <3>1. i \in 1 .. Len(env) - m \/ (i = Len(env) - m + 1 /\ m + i = Len(env) + 1)
      BY <1>1, <3>0
    <3>2. i \in 1 .. Len(env) - m => m + i \in 1 .. Len(env)
      BY <1>1
    <3> QED
      BY <1>3, <1>7, <3>1, <3>2
  <2>3. \A i \in 1 .. m : i \in 1 .. Len(env)
    BY <1>1, <1>2
  <2>4. \A i \in 1 .. m : env'[i] = env[i]
    BY <1>3, <2>3
  <2> QED
    BY <1>2, <1>7, <2>1, <2>2, <2>4, ChangesCurrent
<1>9. d = Append(Last(Calls), [n \in {} |-> ConstValue])
  BY <1>1, <1>4, <1>6 DEF NoNames
<1> QED
  BY <1>1, <1>8, <1>9
     DEF Dynamic!OpenBlocks, Dynamic!Current, Dynamic!NoNames, Dynamic!Last, Last, Running

LEMMA ClosesBlocks ==
    ASSUME IInv, Running, IInv', Running', BasesOf(frames') = BasesOf(frames),
           Base(frames) + 2 <= Len(env'), Len(env') < Len(env),
           \A i \in 1 .. Len(env') : env'[i] = env[i], UNCHANGED stdout
    PROVE  Dynamic!CloseBlocks
<1>1. /\ env \in Seq(Scopes) /\ Len(env) \in Nat /\ Base(frames) \in Nat \ {0}
      /\ Calls # <<>> /\ Last(Calls) = CurrentOf(env, frames)
  BY Here
<1>2. Len(env') \in Nat
  BY LenProperties DEF IInv
<1>3. PICK m \in Nat : m = Base(frames)
  BY <1>1
<1>4. PICK own : own = CurrentOf(env, frames)
  OBVIOUS
<1>5. /\ own \in Seq(Scopes) /\ Len(own) = Len(env) - m
      /\ \A i \in 1 .. Len(env) - m : own[i] = env[m + i]
  BY Here, CallsSplit, <1>3, <1>4
<1>6. PICK n \in Nat : n = Len(env') - m
  BY <1>2, <1>3
<1>7. n \in 2 .. Len(own) - 1 /\ n \in 2 .. Len(Last(Calls)) - 1
  BY <1>1, <1>2, <1>3, <1>4, <1>5, <1>6
<1>8. PICK d : d = SubSeq(own, 1, n)
  OBVIOUS
<1>9. d \in Seq(Scopes) /\ Len(d) = n /\ \A i \in 1 .. n : d[i] = own[i]
  <2>1. \A i \in 1 .. n : own[i] \in Scopes
    <3>1. \A i \in 1 .. n : i \in 1 .. Len(own)
      BY <1>1, <1>3, <1>5, <1>7
    <3> QED
      BY <1>5, <3>1, ElementOfSeq
  <2>2. PICK a \in Nat : a = 1
    OBVIOUS
  <2>3. /\ SubSeq(own, a, n) \in Seq(Scopes) /\ Len(SubSeq(own, a, n)) = IF a <= n THEN n - a + 1 ELSE 0
        /\ \A i \in 1 .. n - a + 1 : SubSeq(own, a, n)[i] = own[a + i - 1]
    BY <2>1, <2>2, SubSeqProperties
  <2>4. n - a + 1 = n /\ a <= n /\ \A i \in 1 .. n : a + i - 1 = i
    BY <1>7, <2>2
  <2> QED
    BY <1>8, <2>2, <2>3, <2>4
<1>10. Dynamic!Change(d)
  <2>1. ASSUME NEW i \in 1 .. Len(env') - m PROVE d[i] = env'[m + i]
    <3>1. i \in 1 .. n /\ i \in 1 .. Len(env) - m /\ m + i \in 1 .. Len(env')
      BY <1>1, <1>2, <1>6
    <3> QED
      BY <1>5, <1>9, <3>1
  <2>2. \A i \in 1 .. m : i \in 1 .. Len(env')
    BY <1>2, <1>3
  <2>3. \A i \in 1 .. m : env'[i] = env[i]
    BY <2>2
  <2>4. Len(d) = Len(env') - m
    BY <1>6, <1>9
  <2> QED
    BY <1>3, <1>9, <2>1, <2>3, <2>4, ChangesCurrent
<1> QED
  BY <1>1, <1>4, <1>7, <1>8, <1>10 DEF Dynamic!CloseBlocks, Dynamic!Current, Dynamic!Last, Last, Running

(* A step that moves neither scopes nor calls is none to the program. *)
LEMMA ChangesNothing ==
    ASSUME UNCHANGED <<env, stdout>>, BasesOf(frames') = BasesOf(frames), Running, Running'
    PROVE  UNCHANGED Dynamic!vars
BY CallsAre DEF CallsOf, Dynamic!vars, Running

(* One scope of the current call is written. *)
LEMMA WritesScope ==
    ASSUME IInv, Running, IInv', Running', UNCHANGED frames,
           NEW i \in Base(frames) + 1 .. Len(env), NEW s \in Scopes, DOMAIN env[i] \subseteq DOMAIN s,
           env' = [env EXCEPT ![i] = s]
    PROVE  /\ Dynamic!Change([Last(Calls) EXCEPT ![i - Base(frames)] = s])
           /\ Rooted(env) /\ DOMAIN s \subseteq Locals => Rooted(env')
<1>1. /\ env \in Environments /\ env \in Seq(Scopes) /\ Len(env) \in Nat /\ Base(frames) \in Nat \ {0}
      /\ Calls # <<>> /\ Last(Calls) = CurrentOf(env, frames)
  BY Here
<1>2. PICK m \in Nat : m = Base(frames) /\ m # 0
  BY <1>1
<1>3. PICK own : own = CurrentOf(env, frames)
  OBVIOUS
<1>4. /\ own \in Seq(Scopes) /\ Len(own) = Len(env) - m
      /\ \A j \in 1 .. Len(env) - m : own[j] = env[m + j]
  BY Here, CallsSplit, <1>2, <1>3
<1>5. i \in 2 .. Len(env) /\ i - m \in 1 .. Len(own) /\ i \in m + 1 .. Len(env)
  BY <1>1, <1>2, <1>4
<1>6. /\ Len(env') = Len(env)
      /\ \A j \in 1 .. Len(env) : env'[j] = IF j = i THEN s ELSE env[j]
      /\ Rooted(env) /\ DOMAIN s \subseteq Locals => Rooted(env')
  <2>1. PICK e \in Environments : e = env
    BY <1>1
  <2>2. i \in 2 .. Len(e) /\ DOMAIN e[i] \subseteq DOMAIN s
    BY <1>5, <2>1
  <2>3. /\ Len([e EXCEPT ![i] = s]) = Len(e)
        /\ \A j \in 1 .. Len(e) : [e EXCEPT ![i] = s][j] = IF j = i THEN s ELSE e[j]
        /\ Rooted(e) /\ DOMAIN s \subseteq Locals => Rooted([e EXCEPT ![i] = s])
    BY <2>2, WriteScope
  <2>4. env' = [e EXCEPT ![i] = s]
    BY <2>1
  <2> QED
    BY <2>1, <2>3, <2>4
<1>7. PICK d : d = [own EXCEPT ![i - m] = s]
  OBVIOUS
<1>8. d \in Seq(Scopes) /\ Len(d) = Len(own) /\ \A j \in 1 .. Len(own) : d[j] = IF j = i - m THEN s ELSE own[j]
  BY <1>4, <1>5, <1>7, ExceptSeq
<1>9. Dynamic!Change(d)
  <2>1. ASSUME NEW j \in 1 .. Len(env') - m PROVE d[j] = env'[m + j]
    <3>1. j \in 1 .. Len(env) - m /\ j \in 1 .. Len(own) /\ m + j \in 1 .. Len(env) /\ (j = i - m <=> m + j = i)
      BY <1>1, <1>4, <1>5, <1>6
    <3> QED
      BY <1>4, <1>6, <1>8, <3>1
  <2>2. \A j \in 1 .. m : j \in 1 .. Len(env) /\ j # i
    BY <1>1, <1>5
  <2>3. \A j \in 1 .. m : env'[j] = env[j]
    BY <1>6, <2>2
  <2>4. Len(d) = Len(env') - m
    BY <1>4, <1>6, <1>8
  <2> QED
    BY <1>2, <1>8, <2>1, <2>3, <2>4, ChangesCurrent
<1> QED
  BY <1>1, <1>2, <1>3, <1>6, <1>7, <1>9

-----------------------------------------------------------------------------
(* Names *)

LEMMA CurrentBase ==
    ASSUME IInv, Running
    PROVE  frames[CurrentCall].base = Base(frames)
<1> DEFINE C == CallsIn(frames)
           n == Cardinality(C)
<1>1. frames \in Seq(Frames) /\ Stacked(frames, Len(env)) /\ Len(env) \in Nat
  BY Here
<1>2. /\ IsFiniteSet(C) /\ C \in SUBSET Nat /\ n \in Nat
      /\ BasesOf(frames) \in Seq(Nat) /\ Len(BasesOf(frames)) = n
      /\ BasesOf(frames) # <<>>
  BY <1>1, BasesType, LastCall
<1>3. C # {}
  <2>1. 1 \in DOMAIN frames
    BY <1>1, LenProperties, EmptySeq DEF Stacked
  <2>2. 1 \in C
    BY <1>1, <2>1 DEF CallsIn, Stacked
  <2> QED
    BY <2>2
<1>4. n \in Nat \ {0} /\ Kth(C, n) \in C /\ \A j \in C : j <= Kth(C, n)
  <2> HIDE DEF C
  <2> QED
    BY <1>2, <1>3, KthLast
<1>5. Base(frames) = frames[Kth(C, n)].base
  <2>1. n \in 1 .. Cardinality(CallsIn(frames))
    BY <1>4
  <2>2. BasesOf(frames)[n] = frames[Kth(C, n)].base
    BY <2>1 DEF BasesOf
  <2> QED
    BY <1>2, <2>2 DEF Base, Last
<1>6. CurrentCall = Kth(C, n)
  <2>1. C = OpenCalls
    BY DEF CallsIn, OpenCalls
  <2>2. PICK k : k = Kth(C, n)
    OBVIOUS
  <2>3. CurrentCall \in C /\ \A j \in C : j <= CurrentCall
    <3>1. \E i \in OpenCalls : \A j \in OpenCalls : j <= i
      BY <1>4, <2>1
    <3> QED
      BY <2>1, <3>1 DEF CurrentCall
  <2>4. PICK c : c = CurrentCall
    OBVIOUS
  <2>5. c \in Nat /\ k \in Nat /\ c <= k /\ k <= c
    BY <1>2, <1>4, <2>2, <2>3, <2>4
  <2> QED
    BY <2>2, <2>4, <2>5
<1> QED
  BY <1>5, <1>6

(* The greatest of a set is the one that is chosen. *)
LEMMA GreatestIs ==
    ASSUME NEW S \in SUBSET Nat, NEW g \in S, \A j \in S : j <= g
    PROVE  (CHOOSE i \in S : \A j \in S : j <= i) = g
<1>1. PICK c : c = CHOOSE i \in S : \A j \in S : j <= i
  OBVIOUS
<1>2. c \in S /\ \A j \in S : j <= c
  BY <1>1
<1>3. c \in Nat /\ g \in Nat /\ c <= g /\ g <= c
  BY <1>2
<1> QED
  BY <1>1, <1>3

(* A name the call declares is found where the innermost block has it. *)
LEMMA NearestIsInnermost ==
    ASSUME IInv, Running, NEW name, Declared(name)
    PROVE  /\ Dynamic!Declaring(Last(Calls), name) # {}
           /\ Nearest(env, name) \in Base(frames) + 1 .. Len(env)
           /\ Dynamic!Innermost(Last(Calls), name) = Nearest(env, name) - Base(frames)
           /\ Last(Calls)[Dynamic!Innermost(Last(Calls), name)] = env[Nearest(env, name)]
           /\ name \in DOMAIN env[Nearest(env, name)]
<1>1. /\ env \in Environments /\ env \in Seq(Scopes) /\ Len(env) \in Nat /\ Base(frames) \in Nat \ {0}
      /\ Last(Calls) = CurrentOf(env, frames)
  BY Here
<1>2. PICK m \in Nat : m = Base(frames)
  BY <1>1
<1>3. PICK own : own = Last(Calls)
  OBVIOUS
<1>4. /\ own \in Seq(Scopes) /\ Len(own) = Len(env) - m
      /\ \A j \in 1 .. Len(env) - m : own[j] = env[m + j]
  BY Here, CallsSplit, <1>1, <1>2, <1>3
<1>5. PICK d \in m + 1 .. Len(env) : name \in DOMAIN env[d]
  BY <1>2, CurrentBase DEF Declared
<1>6. /\ DOMAIN env = 1 .. Len(env) /\ DOMAIN own = 1 .. Len(own)
  BY <1>1, <1>4, LenProperties
<1>7. PICK B : B = Binding(env, name)
  OBVIOUS
<1>8. PICK g : g = Nearest(env, name)
  OBVIOUS
<1>9. B \in SUBSET Nat /\ g \in B /\ \A j \in B : j <= g
  <2>1. B \subseteq 1 .. Len(env) /\ d \in B
    BY <1>1, <1>2, <1>5, <1>6, <1>7 DEF Binding
  <2>2. B \in SUBSET Nat
    <3>1. \A i \in 1 .. Len(env) : i \in Nat
      OBVIOUS
    <3> QED
      BY <2>1, <3>1
  <2>3. IsFiniteSet(B)
    <3>1. IsFiniteSet(1 .. Len(env))
      BY <1>1, FS_Interval
    <3> QED
      BY <2>1, <3>1, FS_Subset
  <2>4. \E i \in B : \A j \in B : j <= i
    BY <2>1, <2>2, <2>3, GreatestExists
  <2> QED
    BY <1>7, <1>8, <2>2, <2>4 DEF Nearest
<1>10. g \in m + 1 .. Len(env) /\ name \in DOMAIN env[g]
  <2>1. d \in B /\ g \in 1 .. Len(env) /\ name \in DOMAIN env[g]
    BY <1>1, <1>2, <1>5, <1>6, <1>7, <1>9 DEF Binding
  <2>2. d <= g
    BY <1>9, <2>1
  <2> QED
    BY <1>1, <1>5, <2>1, <2>2
<1>11. PICK J : J = {j \in DOMAIN own : name \in DOMAIN own[j]}
  OBVIOUS
<1>12. PICK h : h = g - m
  OBVIOUS
<1>13. h \in 1 .. Len(own) /\ h \in 1 .. Len(env) - m /\ h \in Nat /\ m + h = g
  BY <1>1, <1>4, <1>10, <1>12
<1>14. h \in J /\ own[h] = env[g]
  BY <1>4, <1>6, <1>10, <1>11, <1>13
<1>15. ASSUME NEW j \in J PROVE j <= h
  <2>1. j \in 1 .. Len(env) - m /\ name \in DOMAIN env[m + j]
    BY <1>4, <1>6, <1>11
  <2>2. m + j \in 1 .. Len(env)
    BY <1>1, <2>1
  <2>3. m + j \in B
    BY <1>6, <1>7, <2>1, <2>2 DEF Binding
  <2>4. m + j <= g
    BY <1>9, <2>3
  <2> QED
    BY <1>13, <2>1, <2>4
<1>16. J \in SUBSET Nat
  <2>1. \A i \in 1 .. Len(own) : i \in Nat
    OBVIOUS
  <2> QED
    BY <1>6, <1>11, <2>1
<1>17. (CHOOSE i \in J : \A j \in J : j <= i) = h
  BY <1>14, <1>15, <1>16, GreatestIs
<1>18. Dynamic!Declaring(own, name) = J
  BY <1>11 DEF Dynamic!Declaring
<1>19. Dynamic!Innermost(own, name) = h
  BY <1>17, <1>18 DEF Dynamic!Innermost, Dynamic!Greatest
<1> QED
  BY <1>2, <1>3, <1>8, <1>10, <1>12, <1>14, <1>18, <1>19

(* The top of the k-th call: the base of the next call, or the whole       *)
(* environment for the last one.                                           *)
TopOf(e, b, k) == IF k = Len(b) THEN Len(e) ELSE b[k + 1]

LEMMA TopType ==
    ASSUME NEW e, Len(e) \in Nat, NEW b, Len(b) \in Nat,
           \A k \in 1 .. Len(b) : b[k] \in 1 .. Len(e),
           \A j, k \in 1 .. Len(b) : j <= k => b[j] <= b[k],
           NEW k \in 1 .. Len(b)
    PROVE  TopOf(e, b, k) \in Nat /\ b[k] <= TopOf(e, b, k) /\ TopOf(e, b, k) <= Len(e)
<1>1. b[k] \in 1 .. Len(e)
  OBVIOUS
<1>2. CASE k = Len(b)
  BY <1>1, <1>2 DEF TopOf
<1>3. CASE k # Len(b)
  <2>1. k + 1 \in 1 .. Len(b) /\ k <= k + 1
    BY <1>3
  <2>2. b[k + 1] \in 1 .. Len(e) /\ b[k] <= b[k + 1]
    BY <2>1
  <2>3. TopOf(e, b, k) = b[k + 1]
    BY <1>3 DEF TopOf
  <2> QED
    BY <2>2, <2>3
<1> QED
  BY <1>2, <1>3

(* The scopes of the k-th call are those of the environment above its      *)
(* base, up to its top.                                                    *)
LEMMA CutIs ==
    ASSUME NEW S, NEW e \in Seq(S), NEW b \in Seq(Nat),
           \A k \in 1 .. Len(b) : b[k] \in 1 .. Len(e),
           \A j, k \in 1 .. Len(b) : j <= k => b[j] <= b[k],
           NEW k \in 1 .. Len(b)
    PROVE  /\ DOMAIN Cut(e, b)[k] = 1 .. TopOf(e, b, k) - b[k]
           /\ \A j \in 1 .. TopOf(e, b, k) - b[k] : Cut(e, b)[k][j] = e[b[k] + j]
<1>1. Len(b) \in Nat /\ Len(e) \in Nat /\ DOMAIN b = 1 .. Len(b) /\ DOMAIN e = 1 .. Len(e)
  BY LenProperties
<1>2. b[k] \in 1 .. Len(e)
  OBVIOUS
<1>3. PICK m \in Nat : m = TopOf(e, b, k) /\ b[k] <= m /\ m <= Len(e)
  BY <1>1, TopType
<1>4. Cut(e, b)[k] = SubSeq(e, b[k] + 1, m)
  BY <1>1, <1>3 DEF Cut, TopOf
<1>5. \A i \in b[k] + 1 .. m : e[i] \in S
  <2>1. \A i \in b[k] + 1 .. m : i \in 1 .. Len(e)
    BY <1>1, <1>2, <1>3
  <2> QED
    BY <2>1, ElementOfSeq
<1>6. PICK a \in Nat : a = b[k] + 1 /\ a # 0
  BY <1>2
<1>7. /\ SubSeq(e, a, m) \in Seq(S) /\ Len(SubSeq(e, a, m)) = IF a <= m THEN m - a + 1 ELSE 0
      /\ \A j \in 1 .. m - a + 1 : SubSeq(e, a, m)[j] = e[a + j - 1]
  BY <1>3, <1>5, <1>6, SubSeqProperties
<1>8. m - a + 1 = m - b[k] /\ \A j \in Nat : a + j - 1 = b[k] + j
  <2>1. PICK c \in Nat : c = b[k]
    BY <1>2
  <2>2. m - a + 1 = m - c /\ \A j \in Nat : a + j - 1 = c + j
    <3>1. a = c + 1
      BY <1>6, <2>1
    <3> QED
      BY <3>1
  <2> QED
    BY <2>1, <2>2
<1>9. (IF a <= m THEN m - a + 1 ELSE 0) = m - b[k]
  BY <1>2, <1>3, <1>6
<1>10. DOMAIN SubSeq(e, a, m) = 1 .. m - b[k]
  <2>1. Len(SubSeq(e, a, m)) = m - b[k]
    BY <1>7, <1>9
  <2> QED
    BY <1>7, <2>1, LenProperties
<1>11. \A j \in 1 .. m - b[k] : SubSeq(e, a, m)[j] = e[b[k] + j]
  <2>1. \A j \in 1 .. m - b[k] : j \in Nat /\ j \in 1 .. m - a + 1
    BY <1>8
  <2> QED
    BY <1>7, <1>8, <2>1
<1> QED
  BY <1>3, <1>4, <1>6, <1>10, <1>11

(* The calls begin one above the other, the first above the root. *)
LEMMA BasesAscend ==
    ASSUME NEW fs \in Seq(Frames), NEW n \in Nat, Stacked(fs, n)
    PROVE  /\ BasesOf(fs) \in Seq(Nat) /\ Len(BasesOf(fs)) \in Nat \ {0} /\ BasesOf(fs)[1] = 1
           /\ \A k \in 1 .. Len(BasesOf(fs)) : BasesOf(fs)[k] \in 1 .. n
           /\ \A j, k \in 1 .. Len(BasesOf(fs)) : j <= k => BasesOf(fs)[j] <= BasesOf(fs)[k]
<1> DEFINE C == CallsIn(fs)
           b == BasesOf(fs)
<1>1. /\ Len(fs) \in Nat \ {0} /\ DOMAIN fs = 1 .. Len(fs)
  BY FrontLast, LenProperties DEF Stacked
<1>2. /\ IsFiniteSet(C) /\ C \in SUBSET Nat /\ b \in Seq(Nat) /\ Len(b) = Cardinality(C)
      /\ Len(b) \in Nat \ {0}
      /\ \A k \in 1 .. Cardinality(C) : Kth(C, k) \in 1 .. Len(fs)
  BY BasesType, LastCall
<1>3. \A k \in 1 .. Len(b) : b[k] = fs[Kth(C, k)].base
  BY <1>2 DEF BasesOf
<1>4. 1 \in C /\ fs[1].base = 1
  BY <1>1 DEF CallsIn, Stacked
<1>5. 1 \in 1 .. Len(b) /\ Kth(C, 1) = 1
  <2>0. \A i \in C : i \in 1 .. Len(fs)
    BY <1>1 DEF CallsIn
  <2> HIDE DEF C
  <2>1. UpTo(C, 1) = {1}
    <3>1. \A i \in C : i <= 1 <=> i = 1
      BY <1>1, <2>0
    <3> QED
      BY <1>4, <3>1 DEF UpTo
  <2>2. Cardinality(UpTo(C, 1)) = 1
    BY <2>1, FS_Singleton
  <2>3. Kth(C, Cardinality(UpTo(C, 1))) = 1
    BY <1>2, <1>4, KthUnique
  <2> QED
    BY <1>2, <2>2, <2>3
<1>6. \A k \in 1 .. Len(b) : b[k] \in 1 .. n
  BY <1>1, <1>2, <1>3, StackedTop
<1>7. ASSUME NEW j \in 1 .. Len(b), NEW k \in 1 .. Len(b), j <= k PROVE b[j] <= b[k]
  <2>1. Kth(C, j) <= Kth(C, k)
    <3> HIDE DEF C
    <3>1. /\ Kth(C, j) \in C /\ Cardinality(UpTo(C, Kth(C, j))) = j
          /\ Kth(C, k) \in C /\ Cardinality(UpTo(C, Kth(C, k))) = k
      BY <1>2, <1>7, KthExists
    <3>2. PICK x \in C : x = Kth(C, j)
      BY <3>1
    <3>3. PICK y \in C : y = Kth(C, k)
      BY <3>1
    <3>4. y < x => k < j
      BY <1>2, <3>1, <3>2, <3>3, UpToCounts
    <3>5. x \in Nat /\ y \in Nat /\ j \in Nat /\ k \in Nat
      BY <1>2, <3>2, <3>3
    <3> QED
      BY <1>7, <3>2, <3>3, <3>4, <3>5
  <2>2. Kth(C, j) \in DOMAIN fs /\ Kth(C, k) \in DOMAIN fs
    BY <1>1, <1>2
  <2> QED
    BY <1>3, <2>1, <2>2 DEF Stacked
<1> QED
  BY <1>2, <1>3, <1>4, <1>5, <1>6, <1>7

(* Every scope but the root is a block of one call, and the blocks of      *)
(* later calls lie above it.                                               *)
LEMMA BlocksAreScopes ==
    ASSUME IInv, Running
    PROVE  LET b == BasesOf(frames)
           IN  /\ Len(b) \in Nat /\ DOMAIN Calls = 1 .. Len(b)
               /\ \A k \in 1 .. Len(b) : \A j \in DOMAIN Calls[k] :
                    /\ b[k] \in Nat /\ j \in Nat \ {0} /\ b[k] + j \in 2 .. Len(env)
                    /\ Calls[k][j] = env[b[k] + j]
                    /\ \A l \in 1 .. Len(b) : k < l => b[k] + j <= b[l]
               /\ \A i \in 2 .. Len(env) : \E k \in 1 .. Len(b) :
                    b[k] \in Nat /\ i - b[k] \in DOMAIN Calls[k]
<1>1. /\ env \in Seq(Scopes) /\ Len(env) \in Nat /\ frames \in Seq(Frames)
      /\ Stacked(frames, Len(env)) /\ Calls = Cut(env, BasesOf(frames))
  BY Here, CallsAre DEF CallsOf
<1>2. PICK b \in Seq(Nat) : b = BasesOf(frames)
  BY <1>1, BasesAscend
<1>3. /\ Len(b) \in Nat \ {0} /\ b[1] = 1
      /\ \A k \in 1 .. Len(b) : b[k] \in 1 .. Len(env)
      /\ \A j, k \in 1 .. Len(b) : j <= k => b[j] <= b[k]
  BY <1>1, <1>2, BasesAscend
<1> DEFINE m(k) == TopOf(env, b, k)
<1>4. ASSUME NEW k \in 1 .. Len(b)
      PROVE  /\ m(k) \in Nat /\ b[k] \in Nat \ {0} /\ b[k] <= m(k) /\ m(k) <= Len(env)
             /\ DOMAIN Calls[k] = 1 .. m(k) - b[k]
             /\ \A j \in 1 .. m(k) - b[k] : Calls[k][j] = env[b[k] + j]
  <2>1. m(k) \in Nat /\ b[k] <= m(k) /\ m(k) <= Len(env)
    BY <1>1, <1>3, TopType
  <2>2. b[k] \in Nat \ {0}
    BY <1>3
  <2>3. /\ DOMAIN Cut(env, b)[k] = 1 .. m(k) - b[k]
        /\ \A j \in 1 .. m(k) - b[k] : Cut(env, b)[k][j] = env[b[k] + j]
    BY <1>1, <1>3, CutIs
  <2> QED
    BY <1>1, <1>2, <2>1, <2>2, <2>3
<1>5. DOMAIN Calls = 1 .. Len(b)
  BY <1>1, <1>2, LenProperties DEF Cut
<1>6. ASSUME NEW k \in 1 .. Len(b), NEW l \in 1 .. Len(b), k < l PROVE m(k) <= b[l]
  <2>1. k # Len(b) /\ k + 1 \in 1 .. Len(b) /\ k + 1 <= l
    BY <1>3, <1>6
  <2> QED
    BY <1>3, <2>1 DEF TopOf
<1>7. ASSUME NEW i \in 2 .. Len(env)
      PROVE  \E k \in 1 .. Len(b) : b[k] \in Nat /\ i - b[k] \in DOMAIN Calls[k]
  <2> DEFINE K == {k \in 1 .. Len(b) : b[k] < i}
  <2>1. 1 \in K
    BY <1>3
  <2>2. K \in SUBSET Nat /\ IsFiniteSet(K)
    <3>1. IsFiniteSet(1 .. Len(b))
      BY <1>3, FS_Interval
    <3> QED
      BY <3>1, FS_Subset
  <2>3. PICK k \in K : \A j \in K : j <= k
    <3> HIDE DEF K
    <3> QED
      BY <2>1, <2>2, GreatestExists
  <2>4. k \in 1 .. Len(b) /\ b[k] < i
    BY <2>3
  <2>5. i <= m(k)
    <3>1. CASE k = Len(b)
      BY <3>1 DEF TopOf
    <3>2. CASE k # Len(b)
      <4>1. k + 1 \in 1 .. Len(b) /\ ~(k + 1 <= k)
        BY <1>3, <2>4, <3>2
      <4>2. ~(b[k + 1] < i)
        BY <2>3, <4>1
      <4>3. b[k + 1] \in 1 .. Len(env)
        BY <1>3, <4>1
      <4> QED
        BY <3>2, <4>2, <4>3 DEF TopOf
    <3> QED
      BY <3>1, <3>2
  <2>6. m(k) \in Nat /\ b[k] \in Nat /\ DOMAIN Calls[k] = 1 .. m(k) - b[k]
    BY <1>4, <2>4
  <2> HIDE DEF K, m
  <2>7. i - b[k] \in 1 .. m(k) - b[k]
    BY <2>4, <2>5, <2>6
  <2> QED
    BY <2>4, <2>6, <2>7
<1>8. ASSUME NEW k \in 1 .. Len(b), NEW j \in DOMAIN Calls[k]
      PROVE  /\ b[k] \in Nat /\ j \in Nat \ {0} /\ b[k] + j \in 2 .. Len(env)
             /\ Calls[k][j] = env[b[k] + j]
             /\ \A l \in 1 .. Len(b) : k < l => b[k] + j <= b[l]
  <2>1. /\ m(k) \in Nat /\ b[k] \in Nat \ {0} /\ b[k] <= m(k) /\ m(k) <= Len(env)
        /\ j \in 1 .. m(k) - b[k] /\ Calls[k][j] = env[b[k] + j]
    BY <1>4
  <2>2. \A l \in 1 .. Len(b) : k < l => m(k) <= b[l] /\ b[l] \in Nat
    BY <1>3, <1>6
  <2> HIDE DEF m
  <2>3. PICK c \in Nat, t \in Nat : c = b[k] /\ t = m(k)
    BY <2>1
  <2>4. c # 0 /\ t <= Len(env) /\ j \in 1 .. t - c
    BY <2>1, <2>3
  <2>5. c + j <= t /\ c + j \in 2 .. Len(env) /\ j \in Nat \ {0}
    BY <1>1, <2>4
  <2>6. ASSUME NEW l \in 1 .. Len(b), k < l PROVE c + j <= b[l]
    <3>1. t <= b[l] /\ b[l] \in Nat
      BY <2>2, <2>3, <2>6
    <3> QED
      BY <2>5, <3>1
  <2> QED
    BY <2>1, <2>3, <2>5, <2>6
<1> HIDE DEF m
<1> QED
  BY <1>2, <1>3, <1>5, <1>7, <1>8

(* A name has holders where a scope other than the root has it. *)
LEMMA HoldersAreFound ==
    ASSUME IInv, Running, NEW name
    PROVE  /\ Dynamic!Holders(name) =
                  {k \in DOMAIN Calls : \E j \in DOMAIN Calls[k] : name \in DOMAIN Calls[k][j]}
           /\ Dynamic!Holders(name) = {} <=> \A i \in 2 .. Len(env) : name \notin DOMAIN env[i]
           /\ Binding(env, name) = {} => Dynamic!Holders(name) = {}
           /\ Rooted(env) /\ name \notin Consts /\ Binding(env, name) # {}
                => Dynamic!Holders(name) # {}
<1>1. PICK b : b = BasesOf(frames)
  OBVIOUS
<1>2. /\ DOMAIN Calls = 1 .. Len(b)
      /\ \A k \in 1 .. Len(b) : \A j \in DOMAIN Calls[k] :
            b[k] + j \in 2 .. Len(env) /\ Calls[k][j] = env[b[k] + j]
      /\ \A i \in 2 .. Len(env) : \E k \in 1 .. Len(b) :
            b[k] \in Nat /\ i - b[k] \in DOMAIN Calls[k]
  BY <1>1, BlocksAreScopes
<1>3. PICK H : H = {k \in DOMAIN Calls : \E j \in DOMAIN Calls[k] : name \in DOMAIN Calls[k][j]}
  OBVIOUS
<1>4. Dynamic!Holders(name) = H
  BY <1>3 DEF Dynamic!Holders, Dynamic!Declaring
<1>5. ASSUME NEW k \in H PROVE \E i \in 2 .. Len(env) : name \in DOMAIN env[i]
  <2>1. PICK j \in DOMAIN Calls[k] : name \in DOMAIN Calls[k][j]
    BY <1>3
  <2> QED
    BY <1>2, <1>3, <2>1
<1>6. ASSUME NEW i \in 2 .. Len(env), name \in DOMAIN env[i] PROVE H # {}
  <2>1. PICK k \in 1 .. Len(b) : b[k] \in Nat /\ i - b[k] \in DOMAIN Calls[k]
    BY <1>2
  <2>2. b[k] + (i - b[k]) = i
    BY <2>1
  <2>3. Calls[k][i - b[k]] = env[i]
    BY <1>2, <2>1, <2>2
  <2> QED
    BY <1>2, <1>3, <1>6, <2>1, <2>3
<1>7. Len(env) \in Nat \ {0} /\ DOMAIN env = 1 .. Len(env)
  BY Here, LenProperties, EmptySeq DEF Environments
<1>8. \A i \in 2 .. Len(env) : i \in DOMAIN env
  BY <1>7
<1>9. ASSUME Rooted(env), name \notin Consts, NEW i \in DOMAIN env, name \in DOMAIN env[i]
      PROVE  i \in 2 .. Len(env)
  <2>1. i # 1
    BY <1>9 DEF Rooted
  <2> QED
    BY <1>7, <2>1
<1> QED
  BY <1>3, <1>4, <1>5, <1>6, <1>8, <1>9 DEF Binding

(* A name that is read is found in the latest call that has it, in the     *)
(* innermost of its blocks that has it, and a constant at the root.        *)
LEMMA ValueIsFound ==
    ASSUME IInv, Running, Rooted(env), NEW name, name \in Consts \/ Declared(name)
    PROVE  Dynamic!ValueOf(name) = Get(env, name)
<1>1. PICK b : b = BasesOf(frames)
  OBVIOUS
<1>2. /\ Len(b) \in Nat /\ DOMAIN Calls = 1 .. Len(b)
      /\ \A k \in 1 .. Len(b) : \A j \in DOMAIN Calls[k] :
            /\ b[k] \in Nat /\ j \in Nat \ {0} /\ b[k] + j \in 2 .. Len(env)
            /\ Calls[k][j] = env[b[k] + j]
            /\ \A l \in 1 .. Len(b) : k < l => b[k] + j <= b[l]
      /\ \A i \in 2 .. Len(env) : \E k \in 1 .. Len(b) :
            b[k] \in Nat /\ i - b[k] \in DOMAIN Calls[k]
  BY <1>1, BlocksAreScopes
<1>3. /\ Len(env) \in Nat \ {0} /\ DOMAIN env = 1 .. Len(env)
  BY Here, LenProperties, EmptySeq DEF Environments
<1>4. PICK H : H = {k \in DOMAIN Calls : \E j \in DOMAIN Calls[k] : name \in DOMAIN Calls[k][j]}
  OBVIOUS
<1>5. /\ Dynamic!Holders(name) = H
      /\ H = {} <=> \A i \in 2 .. Len(env) : name \notin DOMAIN env[i]
  BY <1>4, HoldersAreFound
<1>6. PICK B : B = Binding(env, name)
  OBVIOUS
<1>7. B \in SUBSET Nat /\ IsFiniteSet(B) /\ B = {i \in 1 .. Len(env) : name \in DOMAIN env[i]}
  <2>1. IsFiniteSet(1 .. Len(env))
    BY <1>3, FS_Interval
  <2> QED
    BY <1>3, <1>6, <2>1, FS_Subset DEF Binding
<1>8. CASE H = {}
  <2>1. name \in Consts
    <3>1. ASSUME Declared(name) PROVE FALSE
      <4>1. PICK d \in Base(frames) + 1 .. Len(env) : name \in DOMAIN env[d]
        BY <3>1, CurrentBase DEF Declared
      <4>2. Base(frames) \in Nat \ {0}
        BY Here
      <4>3. d \in 2 .. Len(env)
        BY <1>3, <4>2
      <4> QED
        BY <1>5, <1>8, <4>1, <4>3
    <3> QED
      BY <3>1
  <2>2. B = {1}
    <3>1. 1 \in B
      BY <1>3, <1>7, <2>1 DEF Rooted
    <3>2. \A i \in B : i = 1 \/ i \in 2 .. Len(env)
      BY <1>3, <1>7
    <3> QED
      BY <1>5, <1>7, <1>8, <3>1, <3>2
  <2>3. Nearest(env, name) = 1
    <3>1. (CHOOSE i \in {1} : \A j \in {1} : j <= i) = 1
      OBVIOUS
    <3> QED
      BY <1>6, <2>2, <3>1 DEF Nearest
  <2> QED
    BY <1>5, <1>8, <2>1, <2>3 DEF Dynamic!ValueOf, Get, Rooted
<1>9. CASE H # {}
  <2>1. PICK g : g = Nearest(env, name)
    OBVIOUS
  <2>2. PICK d \in 2 .. Len(env) : name \in DOMAIN env[d]
    BY <1>5, <1>9
  <2>3. g \in B /\ \A i \in B : i <= g
    <3>1. d \in B
      BY <1>3, <1>7, <2>2
    <3>2. \E i \in B : \A j \in B : j <= i
      BY <1>7, <3>1, GreatestExists
    <3> QED
      BY <1>6, <2>1, <3>2 DEF Nearest
  <2>4. g \in 2 .. Len(env) /\ name \in DOMAIN env[g]
    <3>1. d \in B
      BY <1>3, <1>7, <2>2
    <3>2. d <= g /\ g \in 1 .. Len(env)
      BY <1>7, <2>3, <3>1
    <3> QED
      BY <1>3, <1>7, <2>3, <3>2
  <2>5. PICK k \in 1 .. Len(b) : b[k] \in Nat /\ g - b[k] \in DOMAIN Calls[k]
    BY <1>2, <2>4
  <2>6. PICK h : h = g - b[k]
    OBVIOUS
  <2>7. h \in DOMAIN Calls[k] /\ h \in Nat \ {0} /\ b[k] + h = g
    BY <1>2, <2>4, <2>5, <2>6
  <2>8. Calls[k][h] = env[g]
    BY <1>2, <2>7
  <2>9. k \in H
    BY <1>2, <1>4, <2>4, <2>7, <2>8
  <2>10. ASSUME NEW l \in 1 .. Len(b), NEW j \in DOMAIN Calls[l], name \in DOMAIN Calls[l][j]
         PROVE  b[l] \in Nat /\ j \in Nat \ {0} /\ b[l] + j <= g
    <3>1. /\ b[l] \in Nat /\ j \in Nat \ {0} /\ b[l] + j \in 2 .. Len(env)
          /\ Calls[l][j] = env[b[l] + j]
      BY <1>2
    <3>2. b[l] + j \in B
      BY <1>3, <1>7, <2>10, <3>1
    <3> QED
      BY <2>3, <3>1, <3>2
  <2>11. ASSUME NEW l \in H PROVE l <= k
    <3>1. l \in 1 .. Len(b)
      BY <1>2, <1>4
    <3>2. PICK j \in DOMAIN Calls[l] : name \in DOMAIN Calls[l][j]
      BY <1>4
    <3>3. b[l] \in Nat /\ j \in Nat \ {0} /\ b[l] + j <= g
      BY <2>10, <3>1, <3>2
    <3>4. k < l => g <= b[l]
      BY <1>2, <2>7, <3>1
    <3>5. k \in Nat /\ l \in Nat /\ g \in Nat
      BY <1>2, <2>4, <3>1
    <3> QED
      BY <3>3, <3>4, <3>5
  <2>12. Dynamic!Greatest(H) = k
    <3>1. H \in SUBSET Nat
      BY <1>2, <1>4
    <3> QED
      BY <2>9, <2>11, <3>1, GreatestIs DEF Dynamic!Greatest
  <2>13. PICK J : J = {j \in DOMAIN Calls[k] : name \in DOMAIN Calls[k][j]}
    OBVIOUS
  <2>14. Dynamic!Greatest(J) = h
    <3>1. J \in SUBSET Nat
      BY <1>2, <2>13
    <3>2. h \in J
      BY <2>4, <2>7, <2>8, <2>13
    <3>3. \A j \in J : j <= h
      <4> TAKE j \in J
      <4>1. b[k] \in Nat /\ j \in Nat \ {0} /\ b[k] + j <= g
        BY <2>10, <2>13
      <4> QED
        BY <2>7, <4>1
    <3> QED
      BY <3>1, <3>2, <3>3, GreatestIs DEF Dynamic!Greatest
  <2>15. Dynamic!Innermost(Calls[k], name) = h
    BY <2>13, <2>14 DEF Dynamic!Innermost, Dynamic!Declaring
  <2>16. Dynamic!ValueOf(name) = Calls[k][h][name]
    BY <1>5, <1>9, <2>12, <2>15 DEF Dynamic!ValueOf
  <2> QED
    BY <2>1, <2>8, <2>16 DEF Get
<1> QED
  BY <1>8, <1>9

LEMMA LastExcept ==
    ASSUME NEW S, NEW c \in Seq(S), c # <<>>, NEW s \in S
    PROVE  [c EXCEPT ![Len(c)] = s] = Append(Front(c), s)
<1>1. /\ Len(c) \in Nat \ {0} /\ Front(c) \in Seq(S) /\ Len(Front(c)) = Len(c) - 1
      /\ \A i \in 1 .. Len(c) - 1 : Front(c)[i] = c[i]
  BY FrontLast
<1>2. Len(c) \in 1 .. Len(c)
  BY <1>1
<1>3. PICK d : d = [c EXCEPT ![Len(c)] = s]
  OBVIOUS
<1>4. d \in Seq(S) /\ Len(d) = Len(c) /\ \A j \in 1 .. Len(c) : d[j] = IF j = Len(c) THEN s ELSE c[j]
  <2>1. /\ [c EXCEPT ![Len(c)] = s] \in Seq(S) /\ Len([c EXCEPT ![Len(c)] = s]) = Len(c)
        /\ \A j \in 1 .. Len(c) : [c EXCEPT ![Len(c)] = s][j] = IF j = Len(c) THEN s ELSE c[j]
    BY <1>2, ExceptSeq
  <2> QED
    BY <1>3, <2>1
<1>5. PICK a : a = Append(Front(c), s)
  OBVIOUS
<1>6. /\ a \in Seq(S) /\ Len(a) = Len(c) /\ a[Len(c)] = s
      /\ \A i \in 1 .. Len(c) - 1 : a[i] = c[i]
  BY <1>1, <1>5, AppendProperties
<1>7. \A i \in 1 .. Len(d) : d[i] = a[i]
  <2> TAKE i \in 1 .. Len(d)
  <2>1. i \in 1 .. Len(c) /\ (i = Len(c) \/ i \in 1 .. Len(c) - 1)
    BY <1>1, <1>4
  <2>2. i # Len(c) => i \in 1 .. Len(c) - 1
    BY <2>1
  <2> QED
    BY <1>4, <1>6, <2>1, <2>2
<1> QED
  BY <1>3, <1>4, <1>5, <1>6, <1>7, SeqEqual

-----------------------------------------------------------------------------
(* Statements *)

Scoped == Running => Rooted(env)

LEMMA LetIsScoped ==
    ASSUME IInv, Scoped, IInv', NEW n \in Locals, NEW v \in Data, Let(n, v)
    PROVE  Dynamic!Next /\ Scoped'
<1>0. Running /\ Running' /\ UNCHANGED <<frames, stdout>> /\ v \in Values
  BY DEF Let, Executing, Running, Values
<1>1. /\ env \in Environments /\ env \in Seq(Scopes) /\ Len(env) \in Nat /\ Base(frames) \in Nat \ {0}
      /\ Base(frames) + 2 <= Len(env) /\ Calls # <<>> /\ Last(Calls) = CurrentOf(env, frames)
  BY <1>0, Here
<1>2. PICK own : own = Last(Calls)
  OBVIOUS
<1>3. /\ own \in Seq(Scopes) /\ Len(own) = Len(env) - Base(frames)
      /\ \A j \in 1 .. Len(env) - Base(frames) : own[j] = env[Base(frames) + j]
  BY <1>0, <1>1, <1>2, Here, CallsSplit
<1>4. own # <<>> /\ Len(own) \in 1 .. Len(own) /\ Len(env) \in Base(frames) + 1 .. Len(env)
  BY <1>1, <1>3
<1>5. Last(own) = env[Len(env)]
  <2>1. Last(own) = own[Len(own)]
    BY DEF Last
  <2>2. Base(frames) + Len(own) = Len(env)
    BY <1>1, <1>3
  <2> QED
    BY <1>3, <1>4, <2>1, <2>2
<1>6. PICK s : s = [x \in DOMAIN env[Len(env)] \cup {n} |-> IF x = n THEN v ELSE env[Len(env)][x]]
  OBVIOUS
<1>7. s \in Scopes /\ DOMAIN env[Len(env)] \subseteq DOMAIN s /\ DOMAIN s = DOMAIN env[Len(env)] \cup {n}
  <2>1. Len(env) \in 1 .. Len(env)
    BY <1>1
  <2>2. env[Len(env)] \in Scopes
    BY <1>1, <2>1, ElementOfSeq
  <2> QED
    BY <1>0, <1>6, <2>2, ScopeExtended
<1>8. env' = [env EXCEPT ![Len(env)] = s]
  BY <1>6 DEF Let, Define
<1>9. /\ Dynamic!Change([Last(Calls) EXCEPT ![Len(env) - Base(frames)] = s])
      /\ Rooted(env) /\ DOMAIN s \subseteq Locals => Rooted(env')
  BY <1>0, <1>4, <1>7, <1>8, WritesScope
<1>10. [own EXCEPT ![Len(own)] = s] = Append(Front(own), s)
  BY <1>3, <1>4, <1>7, LastExcept
<1>11. s = Dynamic!Declare(Last(own), n, v)
  BY <1>5, <1>6 DEF Dynamic!Declare
<1>12. Dynamic!Change(Append(Front(own), Dynamic!Declare(Last(own), n, v)))
  BY <1>2, <1>3, <1>9, <1>10, <1>11
<1>13. Dynamic!Let
  BY <1>0, <1>1, <1>2, <1>12
     DEF Dynamic!Let, Dynamic!Current, Dynamic!Last, Last, Dynamic!Front, Front, Running
<1>14. Rooted(env')
  <2>1. Len(env) \in 2 .. Len(env)
    BY <1>1
  <2>2. DOMAIN env[Len(env)] \subseteq Locals
    BY <1>0, <2>1 DEF Scoped, Rooted
  <2> QED
    BY <1>0, <1>7, <1>9, <2>2 DEF Scoped
<1> QED
  BY <1>13, <1>14 DEF Dynamic!Next, Scoped

LEMMA AssignIsScoped ==
    ASSUME IInv, Scoped, IInv', NEW n \in Locals, NEW v \in Data, Assign(n, v)
    PROVE  Dynamic!Next /\ Scoped'
<1>0. Running /\ Running' /\ UNCHANGED <<frames, stdout>> /\ v \in Values /\ Declared(n)
  BY DEF Assign, Evaluating, Running, Values
<1>1. /\ env \in Environments /\ env \in Seq(Scopes) /\ Len(env) \in Nat /\ Base(frames) \in Nat \ {0}
      /\ Calls # <<>>
  BY <1>0, Here
<1>2. /\ Dynamic!Declaring(Last(Calls), n) # {}
      /\ Nearest(env, n) \in Base(frames) + 1 .. Len(env)
      /\ Dynamic!Innermost(Last(Calls), n) = Nearest(env, n) - Base(frames)
      /\ Last(Calls)[Dynamic!Innermost(Last(Calls), n)] = env[Nearest(env, n)]
      /\ n \in DOMAIN env[Nearest(env, n)]
  BY <1>0, NearestIsInnermost
<1>3. PICK i : i = Nearest(env, n)
  OBVIOUS
<1>4. PICK s : s = [env[i] EXCEPT ![n] = v]
  OBVIOUS
<1>5. i \in Base(frames) + 1 .. Len(env) /\ i \in 1 .. Len(env) /\ i \in 2 .. Len(env)
  BY <1>1, <1>2, <1>3
<1>6. s \in Scopes /\ DOMAIN s = DOMAIN env[i]
  <2>1. env[i] \in Scopes
    BY <1>1, <1>5, ElementOfSeq
  <2> QED
    BY <1>0, <1>2, <1>3, <1>4, <2>1 DEF Scopes
<1>7. env' = [env EXCEPT ![i] = s]
  BY <1>3, <1>4 DEF Assign, AssignTo
<1>8. /\ Dynamic!Change([Last(Calls) EXCEPT ![i - Base(frames)] = s])
      /\ Rooted(env) /\ DOMAIN s \subseteq Locals => Rooted(env')
  BY <1>0, <1>5, <1>6, <1>7, WritesScope
<1>9. PICK own : own = Last(Calls)
  OBVIOUS
<1>10. PICK h : h = Dynamic!Innermost(own, n)
  OBVIOUS
<1>11. [own EXCEPT ![h] = s] = [own EXCEPT ![h][n] = v]
  BY <1>2, <1>3, <1>4, <1>9, <1>10
<1>12. Dynamic!Change([own EXCEPT ![h][n] = v])
  BY <1>2, <1>3, <1>8, <1>9, <1>10, <1>11
<1>13. Dynamic!Assign
  BY <1>0, <1>1, <1>2, <1>9, <1>10, <1>12
     DEF Dynamic!Assign, Dynamic!Current, Dynamic!Last, Last, Running
<1>14. Rooted(env')
  BY <1>0, <1>5, <1>6, <1>8 DEF Scoped, Rooted
<1> QED
  BY <1>13, <1>14 DEF Dynamic!Next, Scoped

(* Without frames there are no calls: a run that fails has stopped. *)
LEMMA NoCalls ==
    ASSUME NEW e
    PROVE  BasesOf(<<>>) = <<>> /\ Cut(e, <<>>) = <<>> /\ CallsOf(e, <<>>) = <<>>
<1>1. CallsIn(<<>>) = {}
  BY DEF CallsIn
<1>2. Cardinality(CallsIn(<<>>)) = 0
  BY <1>1, FS_EmptySet
<1>3. BasesOf(<<>>) = <<>>
  BY <1>2 DEF BasesOf
<1>4. Cut(e, <<>>) = <<>>
  BY DEF Cut
<1> QED
  BY <1>3, <1>4 DEF CallsOf

LEMMA StopsRun ==
    ASSUME frames' = <<>>, UNCHANGED stdout, ~Running',
           UNCHANGED (outcome = "not callable")
    PROVE  Dynamic!Next /\ Scoped'
<1>1. Calls' = <<>>
  <2>1. PICK e : e = env'
    OBVIOUS
  <2> QED
    BY <2>1, CallsAre, NoCalls
<1> QED
  BY <1>1 DEF Dynamic!Next, Dynamic!Stop, Scoped

LEMMA FailIsScoped ==
    ASSUME Running, NEW error \in Errors \ {"not callable"}, Fail(error)
    PROVE  Dynamic!Next /\ Scoped'
<1>1. error # "running" /\ error # "not callable"
  BY DEF Errors
<1> QED
  BY <1>1, StopsRun DEF Fail, Running

(* What is bound but is no constant is a local of a call that is open: the *)
(* run fails because that call has the name of the function.               *)
LEMMA NotCallableIsScoped ==
    ASSUME IInv, Scoped, Running, NEW f \in Functions \cup {"println"}, NotCallable(f)
    PROVE  Dynamic!Next /\ Scoped'
<1>1. outcome' = "not callable" /\ frames' = <<>> /\ UNCHANGED stdout /\ Calls # <<>>
  BY Here DEF NotCallable, Fail
<1>2. Calls' = <<>>
  <2>1. PICK e : e = env'
    OBVIOUS
  <2> QED
    BY <1>1, <2>1, CallsAre, NoCalls
<1>3. f \notin Consts /\ Binding(env, f) # {}
  BY InterpreterAssumption DEF NotCallable, IsFunction
<1>4. Dynamic!Holders(f) # {}
  BY <1>3, HoldersAreFound DEF Scoped
<1>5. Dynamic!Misread
  BY <1>1, <1>2, <1>4 DEF Dynamic!Misread
<1> QED
  BY <1>1, <1>5 DEF Dynamic!Next, Scoped, Running

LEMMA PrintlnIsScoped ==
    ASSUME IInv, Scoped, IInv', NEW n \in Locals \cup Consts, Println(n)
    PROVE  Dynamic!Next /\ Scoped'
<1>0. Running /\ InScope(n) /\ Rooted(env)
  BY DEF Println, Executing, Scoped
<1>1. CASE Fail("output too large")
  BY <1>0, <1>1, FailIsScoped DEF Errors
<1>2. CASE NotCallable("println")
  BY <1>0, <1>2, NotCallableIsScoped
<1>3. CASE ~Fail("output too large") /\ ~NotCallable("println")
  <2>1. /\ stdout' = Append(stdout, Get(env, n)) /\ UNCHANGED <<env, frames, outcome>>
        /\ Binding(env, "println") = {}
    BY <1>3 DEF Println, IsFunction
  <2>2. UNCHANGED Calls
    BY <2>1, CallsAre
  <2>3. Calls # <<>> /\ Dynamic!Holders("println") = {}
    BY <1>0, <2>1, Here, HoldersAreFound
  <2>4. n \in Consts \/ Dynamic!Declaring(Last(Calls), n) # {}
    BY <1>0, NearestIsInnermost DEF InScope
  <2>5. Dynamic!ValueOf(n) = Get(env, n)
    <3>1. n \in Consts \/ Declared(n)
      BY <1>0 DEF InScope
    <3> QED
      BY <1>0, <3>1, ValueIsFound
  <2>6. Dynamic!Println
    BY <2>1, <2>2, <2>3, <2>4, <2>5 DEF Dynamic!Println, Dynamic!Current, Dynamic!Last, Last
  <2> QED
    BY <1>0, <2>1, <2>6 DEF Dynamic!Next, Scoped
<1> QED
  BY <1>1, <1>2, <1>3

LEMMA QuietIsScoped ==
    ASSUME IInv, Scoped, Return \/ Break \/ Continue
    PROVE  UNCHANGED Dynamic!vars /\ Scoped'
<1>1. UNCHANGED <<env, frames, stdout, outcome>>
  BY DEF Return, Break, Continue, LeaveLoop
<1>2. UNCHANGED Calls
  BY <1>1, CallsAre
<1> QED
  BY <1>1, <1>2 DEF Dynamic!vars, Scoped, Running

-----------------------------------------------------------------------------
(* Blocks, loops and calls begin. *)

LEMMA BeginIsScoped ==
    ASSUME IInv, Scoped, IInv',
           \/ If \/ While
           \/ \E n \in Locals, k \in 0 .. MaxItems : For(n, k)
    PROVE  [Dynamic!Next]_Dynamic!vars /\ Scoped'
<1>0. Running /\ Running' /\ UNCHANGED stdout
  BY DEF If, While, For, Executing, Running
<1>1. /\ frames \in Seq(Frames) /\ frames # <<>> /\ env \in Environments /\ Len(env) \in Nat
      /\ 0 \in 0 .. MaxItems
  <2>1. 0 \in 0 .. MaxItems
    BY InterpreterAssumption
  <2> QED
    BY <1>0, <2>1, Here
<1>2. ASSUME NEW f \in Frames, f.kind # "call", frames' = Append(frames, f)
      PROVE  BasesOf(frames') = BasesOf(frames)
  BY <1>1, <1>2, SameBases
<1>3. CASE If
  <2>1. PICK f \in Frames : f = Frame("if", NoName, 0) /\ f.kind # "call"
    BY <1>1, FrameType DEF Kinds
  <2>2. frames' = Append(frames, f) /\ env' = Push(env)
    BY <1>3, <2>1 DEF If, Enter
  <2>3. BasesOf(frames') = BasesOf(frames)
    BY <1>2, <2>1, <2>2
  <2>4. Dynamic!OpenBlocks
    BY <1>0, <2>2, <2>3, OpensBlock
  <2>5. Rooted(env) => Rooted(env')
    BY <1>1, <2>2, PushScopes
  <2> QED
    BY <1>0, <2>4, <2>5 DEF Dynamic!Next, Scoped
<1>4. CASE While
  <2>1. PICK f \in Frames : f = Frame("while", NoName, 0) /\ f.kind # "call"
    BY <1>1, FrameType DEF Kinds
  <2>2. frames' = Append(frames, f) /\ UNCHANGED env
    BY <1>4, <2>1 DEF While, Enter
  <2>3. BasesOf(frames') = BasesOf(frames)
    BY <1>2, <2>1, <2>2
  <2> QED
    BY <1>0, <2>2, <2>3, ChangesNothing DEF Scoped
<1>5. ASSUME NEW n \in Locals, NEW k \in 0 .. MaxItems, For(n, k)
      PROVE  [Dynamic!Next]_Dynamic!vars /\ Scoped'
  <2>1. PICK f \in Frames : f = Frame("for", n, k) /\ f.kind # "call"
    BY <1>1, FrameType DEF Kinds
  <2>2. frames' = Append(frames, f) /\ UNCHANGED env
    BY <1>5, <2>1 DEF For, Enter
  <2>3. BasesOf(frames') = BasesOf(frames)
    BY <1>2, <2>1, <2>2
  <2> QED
    BY <1>0, <2>2, <2>3, ChangesNothing DEF Scoped
<1> QED
  BY <1>3, <1>4, <1>5

LEMMA DefineScopes ==
    ASSUME NEW e \in Environments, Len(e) > 1, NEW name \in Locals, NEW value \in Values
    PROVE  /\ Define(e, name, value) \in Environments /\ Len(Define(e, name, value)) = Len(e)
           /\ Len(e) \in Nat
           /\ \A j \in 1 .. Len(e) - 1 : Define(e, name, value)[j] = e[j]
           /\ Define(e, name, value)[Len(e)] = Dynamic!Declare(e[Len(e)], name, value)
           /\ Rooted(e) => Rooted(Define(e, name, value))
<1> DEFINE s == Dynamic!Declare(e[Len(e)], name, value)
<1>1. e \in Seq(Scopes) /\ Len(e) \in Nat /\ Len(e) \in 1 .. Len(e) /\ Len(e) \in 2 .. Len(e)
  BY LenProperties DEF Environments
<1>2. s \in Scopes /\ DOMAIN e[Len(e)] \subseteq DOMAIN s /\ DOMAIN s = DOMAIN e[Len(e)] \cup {name}
  <2>1. e[Len(e)] \in Scopes
    BY <1>1, ElementOfSeq
  <2> QED
    BY <2>1, ScopeExtended DEF Dynamic!Declare
<1>3. Define(e, name, value) = [e EXCEPT ![Len(e)] = s]
  BY DEF Define, Dynamic!Declare
<1>4. Rooted(e) => DOMAIN s \subseteq Locals
  BY <1>1, <1>2 DEF Rooted
<1> HIDE DEF s
<1>5. PICK i : i = Len(e)
  OBVIOUS
<1>6. i \in 2 .. Len(e) /\ DOMAIN e[i] \subseteq DOMAIN s
  BY <1>1, <1>2, <1>5
<1>7. /\ [e EXCEPT ![i] = s] \in Environments /\ Len([e EXCEPT ![i] = s]) = Len(e)
      /\ \A j \in 1 .. Len(e) : [e EXCEPT ![i] = s][j] = IF j = i THEN s ELSE e[j]
      /\ Rooted(e) /\ DOMAIN s \subseteq Locals => Rooted([e EXCEPT ![i] = s])
  BY <1>2, <1>6, WriteScope
<1>8. PICK d : d = Define(e, name, value)
  OBVIOUS
<1>9. /\ d \in Environments /\ Len(d) = Len(e)
      /\ \A j \in 1 .. Len(e) : d[j] = IF j = i THEN s ELSE e[j]
      /\ Rooted(e) => Rooted(d)
  BY <1>3, <1>4, <1>5, <1>7, <1>8
<1>10. \A j \in 1 .. Len(e) - 1 : j \in 1 .. Len(e) /\ j # Len(e)
  BY <1>1
<1> QED
  BY <1>1, <1>5, <1>8, <1>9, <1>10 DEF s

(* A call and a round of a for loop have two scopes: one for what they     *)
(* bind and one for their body.                                            *)
LEMMA TwoScopes ==
    ASSUME NEW e \in Environments, NEW inner,
           \/ inner = Push(e)
           \/ \E name \in Locals, value \in Values : inner = Define(Push(e), name, value)
    PROVE  /\ Push(inner) \in Environments /\ Len(Push(inner)) = Len(e) + 2 /\ Len(e) \in Nat \ {0}
           /\ \A i \in 1 .. Len(e) : Push(inner)[i] = e[i]
           /\ Push(inner)[Len(e) + 1] \in Dynamic!Blocks /\ Push(inner)[Len(e) + 1] \in Scopes
           /\ Push(inner)[Len(e) + 2] = NoNames /\ NoNames \in Scopes
           /\ Rooted(e) => Rooted(Push(inner))
<1>1. /\ Push(e) \in Environments /\ Len(Push(e)) = Len(e) + 1 /\ Len(e) \in Nat \ {0}
      /\ \A i \in 1 .. Len(e) : Push(e)[i] = e[i]
      /\ Push(e)[Len(e) + 1] = NoNames /\ NoNames \in Scopes
      /\ Rooted(e) => Rooted(Push(e))
  BY PushScopes
<1>2. NoNames \in Dynamic!Blocks
  <2>1. NoNames \in [{} -> Values] /\ {} \in SUBSET Locals
    BY DEF NoNames
  <2> QED
    BY <2>1 DEF Dynamic!Blocks
<1>3. /\ inner \in Environments /\ Len(inner) = Len(e) + 1
      /\ \A i \in 1 .. Len(e) : inner[i] = e[i]
      /\ inner[Len(e) + 1] \in Dynamic!Blocks
      /\ Rooted(e) => Rooted(inner)
  <2>1. CASE inner = Push(e)
    BY <1>1, <1>2, <2>1
  <2>2. ASSUME NEW name \in Locals, NEW value \in Values, inner = Define(Push(e), name, value)
        PROVE  /\ inner \in Environments /\ Len(inner) = Len(e) + 1
               /\ \A i \in 1 .. Len(e) : inner[i] = e[i]
               /\ inner[Len(e) + 1] \in Dynamic!Blocks
               /\ Rooted(e) => Rooted(inner)
    <3>1. PICK p \in Environments : p = Push(e)
      BY <1>1
    <3>2. Len(p) > 1 /\ Len(p) = Len(e) + 1 /\ Len(p) - 1 = Len(e)
      BY <1>1, <3>1
    <3>3. /\ Define(p, name, value) \in Environments /\ Len(Define(p, name, value)) = Len(p)
          /\ \A j \in 1 .. Len(p) - 1 : Define(p, name, value)[j] = p[j]
          /\ Define(p, name, value)[Len(p)] = Dynamic!Declare(p[Len(p)], name, value)
          /\ Rooted(p) => Rooted(Define(p, name, value))
      BY <3>2, DefineScopes
    <3>4. Dynamic!Declare(NoNames, name, value) \in Dynamic!Blocks
      <4>1. Dynamic!Declare(NoNames, name, value) \in [{name} -> Values]
            /\ {name} \in SUBSET Locals
        BY DEF Dynamic!Declare, NoNames
      <4> QED
        BY <4>1 DEF Dynamic!Blocks
    <3> QED
      BY <1>1, <2>2, <3>1, <3>2, <3>3, <3>4
  <2> QED
    BY <2>1, <2>2
<1>4. /\ Push(inner) \in Environments /\ Len(Push(inner)) = Len(inner) + 1
      /\ \A i \in 1 .. Len(inner) : Push(inner)[i] = inner[i]
      /\ Push(inner)[Len(inner) + 1] = NoNames
      /\ Rooted(inner) => Rooted(Push(inner))
  BY <1>3, PushScopes
<1>5. /\ Len(e) + 1 \in 1 .. Len(inner) /\ Len(inner) + 1 = Len(e) + 2
      /\ \A i \in 1 .. Len(e) : i \in 1 .. Len(inner)
  BY <1>1, <1>3
<1>6. inner[Len(e) + 1] \in Scopes
  <2>1. inner \in Seq(Scopes)
    BY <1>3 DEF Environments
  <2> QED
    BY <1>5, <2>1, ElementOfSeq
<1> QED
  BY <1>1, <1>3, <1>4, <1>5, <1>6

LEMMA CallIsScoped ==
    ASSUME IInv, Scoped, IInv',
           NEW callee \in Functions, NEW parameter \in Locals \cup {NoName}, NEW v \in Data,
           Call(callee, parameter, v)
    PROVE  Dynamic!Next /\ Scoped'
<1>0. Running /\ v \in Values
  BY DEF Call, Evaluating, Values
<1>1. CASE Fail("stack overflow")
  BY <1>0, <1>1, FailIsScoped DEF Errors
<1>2. CASE NotCallable(callee)
  BY <1>0, <1>2, NotCallableIsScoped
<1>3. CASE ~Fail("stack overflow") /\ ~NotCallable(callee)
  <2> DEFINE inner == IF parameter = NoName THEN Push(env) ELSE Define(Push(env), parameter, v)
  <2>1. /\ frames' = Append(frames, Frame("call", NoName, 0)) /\ env' = Push(inner)
        /\ UNCHANGED <<stdout, outcome>> /\ Binding(env, callee) = {}
    BY <1>3 DEF Call, Enter, IsFunction
  <2>2. /\ env \in Environments /\ env \in Seq(Scopes) /\ Len(env) \in Nat
        /\ frames \in Seq(Frames) /\ Stacked(frames, Len(env)) /\ Calls # <<>>
        /\ Calls = CallsOf(env, frames)
    BY <1>0, Here, CallsAre
  <2>3. PICK f \in Frames : f = Frame("call", NoName, 0) /\ f.kind = "call" /\ f.base = Len(env)
    <3>1. 0 \in 0 .. MaxItems
      BY InterpreterAssumption
    <3> QED
      BY <2>2, <3>1, FrameType DEF Kinds
  <2>4. \/ inner = Push(env)
        \/ \E name \in Locals, value \in Values : inner = Define(Push(env), name, value)
    <3>1. CASE parameter = NoName
      BY <3>1
    <3>2. CASE parameter # NoName
      <4>1. parameter \in Locals /\ inner = Define(Push(env), parameter, v)
        BY <3>2
      <4> QED
        BY <1>0, <4>1
    <3> QED
      BY <3>1, <3>2
  <2>5. PICK e2 : e2 = Push(inner)
    OBVIOUS
  <2> HIDE DEF inner
  <2>6. /\ e2 \in Environments /\ Len(e2) = Len(env) + 2
        /\ \A i \in 1 .. Len(env) : e2[i] = env[i]
        /\ e2[Len(env) + 1] \in Dynamic!Blocks /\ e2[Len(env) + 1] \in Scopes
        /\ e2[Len(env) + 2] = NoNames /\ NoNames \in Scopes
        /\ Rooted(env) => Rooted(e2)
    BY <2>2, <2>4, <2>5, TwoScopes
  <2>7. e2 \in Seq(Scopes) /\ Len(env) <= Len(e2)
    BY <2>2, <2>6 DEF Environments
  <2>8. CallsOf(e2, Append(frames, f)) = Append(CallsOf(env, frames), SubSeq(e2, Len(env) + 1, Len(e2)))
    BY <2>2, <2>3, <2>6, <2>7, CallsEnter
  <2>9. PICK first \in Dynamic!Blocks : first = e2[Len(env) + 1] /\ first \in Scopes
    BY <2>6
  <2>10. PICK m \in Nat : m = Len(env)
    BY <2>2
  <2>11. SubSeq(e2, m + 1, Len(e2)) = <<first, NoNames>>
    <3>1. PICK c : c = <<first, NoNames>>
      OBVIOUS
    <3>2. c \in Seq(Scopes) /\ Len(c) = 2 /\ c[1] = first /\ c[2] = NoNames
      BY <2>6, <2>9, <3>1
    <3>3. Len(c) = Len(e2) - m /\ m <= Len(e2)
      BY <2>6, <2>10, <3>2
    <3>4. \A i \in 1 .. Len(e2) - m : c[i] = e2[m + i]
      <4>1. \A i \in 1 .. Len(e2) - m : i = 1 \/ i = 2
        BY <2>6, <2>10
      <4> QED
        BY <2>6, <2>9, <2>10, <3>2, <4>1
    <3>5. SubSeq(e2, m + 1, Len(e2)) = c
      BY <2>7, <3>2, <3>3, <3>4, AboveIs
    <3> QED
      BY <3>1, <3>5
  <2>12. Calls' = Append(Calls, <<first, [n \in {} |-> ConstValue]>>)
    <3>1. NoNames = [n \in {} |-> ConstValue]
      BY DEF NoNames
    <3>2. Calls' = CallsOf(e2, Append(frames, f))
      BY <2>1, <2>3, <2>5, CallsAre
    <3> QED
      BY <2>2, <2>8, <2>10, <2>11, <3>1, <3>2
  <2>13. Dynamic!Holders(callee) = {}
    BY <1>0, <2>1, HoldersAreFound DEF Scoped
  <2>14. Dynamic!Call
    BY <2>1, <2>2, <2>12, <2>13 DEF Dynamic!Call, Dynamic!NoNames
  <2> QED
    BY <1>0, <2>1, <2>5, <2>6, <2>14 DEF Dynamic!Next, Scoped
<1> QED
  BY <1>1, <1>2, <1>3

-----------------------------------------------------------------------------
(* Blocks and rounds of loops end. *)

LEMMA EndIsScoped ==
    ASSUME IInv, Scoped, IInv', EndIf \/ EndWhileBody \/ EndForBody
    PROVE  Dynamic!Next /\ Scoped'
<1>0. Running /\ Running' /\ UNCHANGED stdout /\ Top.kind # "call"
  BY DEF EndIf, EndWhileBody, EndForBody, Running
<1>1. /\ env \in Environments /\ Len(env) \in Nat
      /\ frames \in Seq(Frames) /\ frames # <<>> /\ Stacked(frames, Len(env))
      /\ Base(frames) \in Nat \ {0} /\ Base(frames) + 2 <= Top.base
  BY <1>0, Here, LastCall DEF Top
<1>2. Top \in Frames /\ Top.base \in Nat /\ Top.base + ScopesOf(Top) = Len(env)
  BY <1>0, RunningFrames DEF Frames
<1>3. BasesOf(frames') = BasesOf(frames)
  <2>1. CASE frames' = Front(frames)
    BY <1>0, <1>1, <2>1, SameBases DEF Top
  <2>2. CASE frames' = Append(Front(frames), [Top EXCEPT !.inside = FALSE])
    <3>1. PICK g : g = [Top EXCEPT !.inside = FALSE]
      OBVIOUS
    <3>2. g \in Frames /\ g.kind # "call"
      BY <1>0, <1>2, <3>1 DEF Frames
    <3> QED
      BY <1>0, <1>1, <2>2, <3>1, <3>2, SameBases DEF Top
  <2> QED
    BY <2>1, <2>2 DEF EndIf, EndWhileBody, EndForBody, AfterBody, SetTop, Leave
<1>4. /\ Len(env') = Top.base /\ Len(env') < Len(env) /\ Base(frames) + 2 <= Len(env')
      /\ \A i \in 1 .. Len(env') : env'[i] = env[i]
      /\ Rooted(env) => Rooted(env')
  <2>1. CASE EndIf \/ EndWhileBody
    <3>1. ScopesOf(Top) = 1 /\ env' = Pop(env)
      BY <2>1 DEF EndIf, EndWhileBody, ScopesOf
    <3>2. Len(env) > 1
      BY <1>1, <1>2, <3>1
    <3>3. /\ Len(env') = Len(env) - 1
          /\ \A i \in 1 .. Len(env) - 1 : env'[i] = env[i]
          /\ Rooted(env) => Rooted(env')
      BY <1>1, <3>1, <3>2, PopScopes
    <3>4. /\ Len(env') = Len(env) - 1 /\ Len(env') = Top.base /\ Len(env') < Len(env)
          /\ Base(frames) + 2 <= Len(env')
      <4>1. Top.base + 1 = Len(env)
        BY <1>2, <3>1
      <4>2. Len(env') = Len(env) - 1
        BY <3>3
      <4> QED
        BY <1>1, <1>2, <4>1, <4>2
    <3> QED
      BY <3>3, <3>4
  <2>2. CASE EndForBody
    <3>1. ScopesOf(Top) = 2 /\ env' = Pop(Pop(env))
      BY <2>2 DEF EndForBody, ScopesOf
    <3>2. Len(env) > 2
      BY <1>1, <1>2, <3>1
    <3>3. PICK p : p = Pop(env)
      OBVIOUS
    <3>4. /\ p \in Environments /\ Len(p) = Len(env) - 1
          /\ \A i \in 1 .. Len(env) - 1 : p[i] = env[i]
          /\ Rooted(env) => Rooted(p)
      BY <1>1, <3>2, <3>3, PopScopes
    <3>5. /\ Len(env') = Len(p) - 1
          /\ \A i \in 1 .. Len(p) - 1 : env'[i] = p[i]
          /\ Rooted(p) => Rooted(env')
      <4>1. Len(p) > 1
        BY <1>1, <3>2, <3>4
      <4>2. env' = Pop(p)
        BY <3>1, <3>3
      <4> QED
        BY <3>4, <4>1, <4>2, PopScopes
    <3>6. /\ Len(env') = Len(env) - 2 /\ Len(env') = Top.base /\ Len(env') < Len(env)
          /\ Base(frames) + 2 <= Len(env')
      BY <1>1, <1>2, <3>1, <3>2, <3>4, <3>5
    <3>7. ASSUME NEW i \in 1 .. Len(env') PROVE env'[i] = env[i]
      <4>1. i \in 1 .. Len(p) - 1 /\ i \in 1 .. Len(env) - 1
        BY <1>1, <3>2, <3>4, <3>6
      <4> QED
        BY <3>4, <3>5, <4>1
    <3> QED
      BY <3>4, <3>5, <3>6, <3>7
  <2> QED
    BY <2>1, <2>2
<1>5. Dynamic!CloseBlocks
  BY <1>0, <1>3, <1>4, ClosesBlocks
<1> QED
  BY <1>0, <1>4, <1>5 DEF Dynamic!Next, Scoped

LEMMA RoundIsScoped ==
    ASSUME IInv, Scoped, IInv', WhileTest \/ NextItem
    PROVE  [Dynamic!Next]_Dynamic!vars /\ Scoped'
<1>0. Running /\ Running' /\ UNCHANGED stdout /\ Top.kind # "call"
  BY DEF WhileTest, NextItem, Running
<1>1. /\ env \in Environments /\ Len(env) \in Nat /\ Base(frames) \in Nat \ {0}
      /\ Base(frames) + 2 <= Len(env)
      /\ frames \in Seq(Frames) /\ frames # <<>> /\ Top \in Frames
      /\ Calls # <<>> /\ Last(Calls) = CurrentOf(env, frames)
  BY <1>0, Here, RunningFrames
<1>2. BasesOf(frames') = BasesOf(frames)
  <2>1. CASE frames' = Front(frames)
    BY <1>0, <1>1, <2>1, SameBases DEF Top
  <2>2. ASSUME NEW g \in Frames, g.kind # "call", frames' = Append(Front(frames), g)
        PROVE  BasesOf(frames') = BasesOf(frames)
    BY <1>0, <1>1, <2>2, SameBases DEF Top
  <2>3. CASE WhileTest /\ frames' # Front(frames)
    <3>1. PICK g : g = [Top EXCEPT !.inside = TRUE]
      OBVIOUS
    <3>2. g \in Frames /\ g.kind # "call"
      BY <1>0, <1>1, <3>1 DEF Frames
    <3> QED
      BY <2>2, <2>3, <3>1, <3>2 DEF WhileTest, SetTop, Leave
  <2>4. CASE NextItem /\ frames' # Front(frames)
    <3>1. PICK g : g = [Top EXCEPT !.inside = TRUE, !.items = @ - 1]
      OBVIOUS
    <3>2. Top.items > 0 /\ frames' = Append(Front(frames), g)
      BY <2>4, <3>1 DEF NextItem, SetTop, Leave
    <3>3. Top.items - 1 \in 0 .. MaxItems
      BY <1>1, <3>2, InterpreterAssumption DEF Frames
    <3>4. g \in Frames /\ g.kind # "call"
      BY <1>0, <1>1, <3>1, <3>3 DEF Frames
    <3> QED
      BY <2>2, <3>2, <3>4
  <2> QED
    BY <2>1, <2>3, <2>4
<1>3. CASE UNCHANGED env
  BY <1>0, <1>2, <1>3, ChangesNothing DEF Scoped
<1>4. CASE env' = Push(env)
  <2>1. Dynamic!OpenBlocks
    BY <1>0, <1>2, <1>4, OpensBlock
  <2>2. Rooted(env) => Rooted(env')
    BY <1>1, <1>4, PushScopes
  <2> QED
    BY <1>0, <2>1, <2>2 DEF Dynamic!Next, Scoped
<1>5. ASSUME NEW value \in Data, Top.kind = "for", env' = Push(Define(Push(env), Top.name, value))
      PROVE  [Dynamic!Next]_Dynamic!vars /\ Scoped'
  <2>1. Top.name \in Locals /\ value \in Values
    BY <1>1, <1>5 DEF Frames, Values
  <2>2. PICK inner : inner = Define(Push(env), Top.name, value)
    OBVIOUS
  <2>3. /\ Len(env') = Len(env) + 2
        /\ \A i \in 1 .. Len(env) : env'[i] = env[i]
        /\ env'[Len(env) + 1] \in Dynamic!Blocks /\ env'[Len(env) + 1] \in Scopes
        /\ env'[Len(env) + 2] = NoNames /\ NoNames \in Scopes
        /\ Rooted(env) => Rooted(env')
    <3>1. \E name \in Locals, v \in Values : inner = Define(Push(env), name, v)
      BY <2>1, <2>2
    <3>2. env' = Push(inner)
      BY <1>5, <2>2
    <3> QED
      BY <1>1, <3>1, <3>2, TwoScopes
  <2>4. PICK m \in Nat : m = Base(frames)
    BY <1>1
  <2>5. PICK own : own = Last(Calls)
    OBVIOUS
  <2>6. /\ own \in Seq(Scopes) /\ Len(own) = Len(env) - m
        /\ \A i \in 1 .. Len(env) - m : own[i] = env[m + i]
    BY <1>0, <1>1, <2>4, <2>5, Here, CallsSplit, SMTT(30)
  <2>7. PICK first \in Dynamic!Blocks : first = env'[Len(env) + 1] /\ first \in Scopes
    BY <2>3
  <2>8. PICK two : two = <<first, NoNames>>
    OBVIOUS
  <2>9. two \in Seq(Scopes) /\ Len(two) = 2 /\ two[1] = first /\ two[2] = NoNames
    BY <2>3, <2>7, <2>8
  <2>10. PICK c : c = own \o two
    OBVIOUS
  <2>11. /\ c \in Seq(Scopes) /\ Len(c) = Len(own) + 2
         /\ \A i \in 1 .. Len(own) + 2 : c[i] = IF i <= Len(own) THEN own[i] ELSE two[i - Len(own)]
    <3>1. /\ own \o two \in Seq(Scopes) /\ Len(own \o two) = Len(own) + Len(two)
          /\ \A i \in 1 .. Len(own) + Len(two) :
                (own \o two)[i] = IF i <= Len(own) THEN own[i] ELSE two[i - Len(own)]
      BY <2>6, <2>9, ConcatProperties
    <3> QED
      BY <2>9, <2>10, <3>1
  <2>12. Dynamic!Change(c)
    <3>1. Len(c) = Len(env') - m
      BY <1>1, <2>3, <2>4, <2>6, <2>11
    <3>2. ASSUME NEW i \in 1 .. Len(env') - m PROVE c[i] = env'[m + i]
      <4>1. /\ Len(own) \in Nat /\ Len(own) = Len(env) - m /\ Len(env') - m = Len(own) + 2
        BY <1>1, <2>3, <2>4, <2>6
      <4>2. CASE i \in 1 .. Len(own)
        <5>1. i \in 1 .. Len(own) + 2 /\ i <= Len(own) /\ i \in 1 .. Len(env) - m /\ m + i \in 1 .. Len(env)
          BY <1>1, <4>1, <4>2
        <5> QED
          BY <2>3, <2>6, <2>11, <5>1
      <4>3. CASE i = Len(own) + 1
        <5>1. i \in 1 .. Len(own) + 2 /\ ~(i <= Len(own)) /\ i - Len(own) = 1 /\ m + i = Len(env) + 1
          BY <1>1, <4>1, <4>3
        <5> QED
          BY <2>7, <2>9, <2>11, <5>1
      <4>4. CASE i = Len(own) + 2
        <5>1. i \in 1 .. Len(own) + 2 /\ ~(i <= Len(own)) /\ i - Len(own) = 2 /\ m + i = Len(env) + 2
          BY <1>1, <4>1, <4>4
        <5> QED
          BY <2>3, <2>9, <2>11, <5>1
      <4>5. i \in 1 .. Len(own) \/ i = Len(own) + 1 \/ i = Len(own) + 2
        BY <4>1
      <4> QED
        BY <4>2, <4>3, <4>4, <4>5
    <3>3. \A i \in 1 .. m : i \in 1 .. Len(env)
      BY <1>1, <2>4
    <3>4. \A i \in 1 .. m : env'[i] = env[i]
      BY <2>3, <3>3
    <3> QED
      BY <1>0, <1>2, <2>4, <2>11, <3>1, <3>2, <3>4, ChangesCurrent
  <2>13. c = Last(Calls) \o <<first, [n \in {} |-> ConstValue]>>
    <3>1. NoNames = [n \in {} |-> ConstValue]
      BY DEF NoNames
    <3> QED
      BY <2>5, <2>8, <2>10, <3>1
  <2>14. Dynamic!OpenBlocks
    BY <1>0, <1>1, <2>12, <2>13
       DEF Dynamic!OpenBlocks, Dynamic!Current, Dynamic!NoNames, Dynamic!Last, Last, Running
  <2> QED
    BY <1>0, <2>3, <2>14 DEF Dynamic!Next, Scoped
<1> QED
  BY <1>3, <1>4, <1>5 DEF WhileTest, NextItem

-----------------------------------------------------------------------------
(* Calls end and runs start. *)

LEMMA EndCallIsScoped ==
    ASSUME IInv, Scoped, IInv', EndCall
    PROVE  Dynamic!Next /\ Scoped'
<1>0. Running /\ UNCHANGED stdout /\ Top.kind = "call" /\ frames' = Front(frames)
  BY DEF EndCall, Leave
<1>1. /\ env \in Environments /\ env \in Seq(Scopes) /\ Len(env) \in Nat
      /\ frames \in Seq(Frames) /\ frames # <<>> /\ Stacked(frames, Len(env))
      /\ Len(frames) \in Nat \ {0} /\ Top \in Frames /\ Top.base \in Nat \ {0}
      /\ Top.base + ScopesOf(Top) = Len(env) /\ Calls = CallsOf(env, frames)
  BY <1>0, Here, RunningFrames, CallsAre
<1>2. CASE Len(frames) = 1
  <2>1. frames' = <<>>
    <3>1. Front(frames) \in Seq(Frames) /\ Len(Front(frames)) = 0
      BY <1>1, <1>2, FrontLast
    <3> QED
      BY <1>0, <3>1, EmptySeq
  <2>2. ~Running' /\ UNCHANGED (outcome = "not callable")
    BY <1>0, <1>2 DEF EndCall, Running
  <2> QED
    BY <1>0, <2>1, <2>2, StopsRun
<1>3. CASE Len(frames) # 1
  <2>0. Running'
    BY <1>0, <1>3 DEF EndCall, Running
  <2>1. ScopesOf(Top) = 2 /\ Len(env) > 2
    <3>1. ScopesOf(Top) = 2
      BY <1>0 DEF ScopesOf
    <3> QED
      BY <1>1, <3>1
  <2>2. PICK below : below = Pop(Pop(env))
    OBVIOUS
  <2>3. /\ below \in Environments /\ below \in Seq(Scopes) /\ Len(below) = Top.base
        /\ \A i \in 1 .. Len(below) : below[i] = env[i]
        /\ Rooted(env) => Rooted(below)
    <3>1. PICK p : p = Pop(env)
      OBVIOUS
    <3>2. /\ p \in Environments /\ Len(p) = Len(env) - 1
          /\ \A i \in 1 .. Len(env) - 1 : p[i] = env[i]
          /\ Rooted(env) => Rooted(p)
      BY <1>1, <2>1, <3>1, PopScopes
    <3>3. Len(p) > 1 /\ below = Pop(p)
      BY <1>1, <2>1, <2>2, <3>1, <3>2
    <3>4. /\ below \in Environments /\ Len(below) = Len(p) - 1
          /\ \A i \in 1 .. Len(p) - 1 : below[i] = p[i]
          /\ Rooted(p) => Rooted(below)
      BY <3>2, <3>3, PopScopes
    <3>5. Len(below) = Top.base
      BY <1>1, <2>1, <3>2, <3>4
    <3>6. ASSUME NEW i \in 1 .. Len(below) PROVE below[i] = env[i]
      <4>1. i \in 1 .. Len(p) - 1 /\ i \in 1 .. Len(env) - 1
        BY <1>1, <2>1, <3>2, <3>4
      <4> QED
        BY <3>2, <3>4, <4>1
    <3> QED
      BY <3>2, <3>4, <3>5, <3>6 DEF Environments
  <2>4. CallsOf(below, Front(frames)) = Front(Calls)
    <3>1. Last(frames) = Top
      BY DEF Top
    <3> QED
      BY <1>0, <1>1, <1>3, <2>3, <3>1, CallsLeave
  <2>5. Stacked(Front(frames), Len(below)) /\ Front(frames) \in Seq(Frames)
    BY <1>1, <1>3, <2>3, StackedFront, FrontLast DEF Top
  <2>6. Len(Calls) > 1 /\ Calls \in Seq(Seq(Scopes)) /\ Len(Calls) \in Nat
    <3>1. Len(Calls) = Len(BasesOf(frames)) /\ Calls \in Seq(Seq(Scopes))
      BY <1>1, CallsSplit
    <3>2. Len(BasesOf(Front(frames))) \in Nat \ {0} /\ BasesOf(Front(frames)) \in Seq(Nat)
      BY <2>3, <2>5, LastCall
    <3>3. BasesOf(frames) = Append(BasesOf(Front(frames)), Top.base)
      <4>1. PICK f \in Frames : f = Top
        BY <1>1
      <4>2. frames = Append(Front(frames), f)
        BY <1>1, <4>1, FrontAndLast DEF Top
      <4>3. BasesOf(Append(Front(frames), f)) = Append(BasesOf(Front(frames)), f.base)
        BY <1>0, <2>5, <4>1, BasesAppend
      <4> QED
        BY <4>1, <4>2, <4>3
    <3>4. Len(BasesOf(frames)) = Len(BasesOf(Front(frames))) + 1
      BY <1>1, <3>2, <3>3, AppendProperties
    <3> QED
      BY <3>1, <3>2, <3>4
  <2>7. Calls' = Front(Calls) /\ env' = below
    <3>1. env' = below
      BY <2>2 DEF EndCall
    <3> QED
      BY <1>0, <2>4, <3>1, CallsAre
  <2>8. Dynamic!Leave
    BY <1>0, <2>0, <2>6, <2>7 DEF Dynamic!Leave, Dynamic!Front, Front, Running
  <2> QED
    BY <1>0, <2>3, <2>7, <2>8 DEF Dynamic!Next, Scoped
<1> QED
  BY <1>2, <1>3

LEMMA RunIsScoped ==
    ASSUME IInv, IInv', Run
    PROVE  Dynamic!Next /\ Scoped'
<1> DEFINE f == [Frame("call", NoName, 0) EXCEPT !.base = 1]
           root == [n \in Consts |-> ConstValue]
<1>1. /\ env' = <<root, NoNames, NoNames>> /\ frames' = <<f>> /\ stdout' = <<>>
      /\ ~Running /\ outcome' = "running"
  BY DEF Run
<1>2. f \in Frames /\ f.kind = "call" /\ f.base = 1
  <2>1. OpenFrames(env', frames', call_depth')
    BY DEF Run, IInv, Running
  <2>2. frames' \in Seq(Frames) /\ frames'[1] = f /\ Len(frames') = 1
    BY <1>1, <2>1 DEF OpenFrames
  <2>3. f \in Frames
    BY <2>2, ElementOfSeq
  <2>4. f.kind = "call" /\ f.base = 1
    BY DEF Frame
  <2> QED
    BY <2>3, <2>4
<1> HIDE DEF f
<1>3. /\ root \in Scopes /\ NoNames \in Scopes
  <2>1. root \in [Consts -> Values] /\ Consts \in SUBSET (Consts \cup Locals)
    BY DEF Values
  <2>2. NoNames \in [{} -> Values] /\ {} \in SUBSET (Consts \cup Locals)
    BY DEF NoNames
  <2> QED
    BY <2>1, <2>2 DEF Scopes
<1> HIDE DEF root
<1>4. PICK e : e = <<root>>
  OBVIOUS
<1>5. PICK e2 : e2 = <<root, NoNames, NoNames>>
  OBVIOUS
<1>6. /\ e \in Seq(Scopes) /\ Len(e) = 1 /\ e[1] = root
      /\ e2 \in Seq(Scopes) /\ Len(e2) = 3 /\ e2[1] = root /\ e2[2] = NoNames /\ e2[3] = NoNames
  BY <1>3, <1>4, <1>5
<1>7. BasesOf(<<f>>) = Append(<<>>, Len(e))
  <2>1. <<>> \in Seq(Frames) /\ <<f>> = Append(<<>>, f)
    BY <1>2, EmptySeq
  <2>2. BasesOf(Append(<<>>, f)) = Append(BasesOf(<<>>), f.base)
    BY <1>2, <2>1, BasesAppend
  <2> QED
    BY <1>2, <1>6, <2>1, <2>2, NoCalls
<1>8. Cut(e2, Append(<<>>, Len(e))) = Append(Cut(e, <<>>), SubSeq(e2, Len(e) + 1, Len(e2)))
  <2>1. PICK b \in Seq(Nat) : b = <<>> /\ Len(b) = 0
    BY EmptySeq
  <2>2. /\ \A k \in 1 .. Len(b) : b[k] <= Len(e)
        /\ Len(e) <= Len(e2) /\ \A i \in 1 .. Len(e) : e[i] = e2[i]
    BY <1>6, <2>1
  <2>3. Cut(e2, Append(b, Len(e))) = Append(Cut(e, b), SubSeq(e2, Len(e) + 1, Len(e2)))
    BY <1>6, <2>2, CutAppend
  <2> QED
    BY <2>1, <2>3
<1>9. SubSeq(e2, Len(e) + 1, Len(e2)) = <<NoNames, NoNames>>
  <2>1. PICK c : c = <<NoNames, NoNames>>
    OBVIOUS
  <2>2. c \in Seq(Scopes) /\ Len(c) = 2 /\ c[1] = NoNames /\ c[2] = NoNames
    BY <1>3, <2>1
  <2>3. PICK m \in Nat : m = 1
    OBVIOUS
  <2>4. m <= Len(e2) /\ Len(c) = Len(e2) - m /\ \A i \in 1 .. Len(e2) - m : i = 1 \/ i = 2
    BY <1>6, <2>2, <2>3
  <2>5. \A i \in 1 .. Len(e2) - m : c[i] = e2[m + i]
    BY <1>6, <2>2, <2>3, <2>4
  <2>6. SubSeq(e2, m + 1, Len(e2)) = c
    BY <1>6, <2>2, <2>4, <2>5, AboveIs
  <2> QED
    BY <1>6, <2>1, <2>3, <2>6
<1>10. Calls' = <<<<NoNames, NoNames>>>>
  <2>1. Calls' = CallsOf(e2, <<f>>)
    BY <1>1, <1>5, CallsAre
  <2>2. CallsOf(e2, <<f>>) = Append(<<>>, <<NoNames, NoNames>>)
    BY <1>7, <1>8, <1>9, NoCalls DEF CallsOf
  <2> QED
    BY <2>1, <2>2
<1>11. Calls = <<>>
  <2>1. frames = <<>>
    BY <1>1 DEF IInv
  <2> QED
    BY <2>1, CallsAre, NoCalls
<1>12. Dynamic!Start
  <2>1. NoNames = [n \in {} |-> ConstValue]
    BY DEF NoNames
  <2> QED
    BY <1>1, <1>10, <1>11, <2>1 DEF Dynamic!Start, Dynamic!NoNames
<1>13. Rooted(env')
  <2>1. \A i \in 2 .. Len(e2) : i = 2 \/ i = 3
    BY <1>6
  <2>2. DOMAIN NoNames = {}
    BY DEF NoNames
  <2>3. Rooted(e2)
    BY <1>6, <2>1, <2>2 DEF Rooted, root
  <2> QED
    BY <1>1, <1>5, <2>3
<1> QED
  BY <1>12, <1>13 DEF Dynamic!Next, Scoped

-----------------------------------------------------------------------------
LEMMA EveryStepIsScoped ==
    ASSUME IInv, Scoped, [Next]_vars
    PROVE  [Dynamic!Next]_Dynamic!vars /\ Scoped'
<1>0. IInv'
  BY IInvKept
<1>1. CASE Run
  BY <1>0, <1>1, RunIsScoped
<1>2. ASSUME NEW n \in Locals, NEW v \in Data, Let(n, v) \/ Assign(n, v)
      PROVE  Dynamic!Next /\ Scoped'
  BY <1>0, <1>2, LetIsScoped, AssignIsScoped
<1>3. ASSUME NEW n \in Locals \cup Consts, Println(n)
      PROVE  Dynamic!Next /\ Scoped'
  BY <1>0, <1>3, PrintlnIsScoped
<1>4. CASE Return \/ Break \/ Continue
  BY <1>4, QuietIsScoped
<1>5. CASE If \/ While \/ \E n \in Locals, k \in 0 .. MaxItems : For(n, k)
  BY <1>0, <1>5, BeginIsScoped
<1>6. ASSUME NEW f \in Functions, NEW parameter \in Locals \cup {NoName}, NEW v \in Data,
             Call(f, parameter, v)
      PROVE  Dynamic!Next /\ Scoped'
  BY <1>0, <1>6, CallIsScoped
<1>7. CASE Fault \/ TimeOut
  BY <1>7, FailIsScoped DEF Fault, TimeOut, Evaluating, Errors
<1>8. CASE EndIf \/ EndWhileBody \/ EndForBody
  BY <1>0, <1>8, EndIsScoped
<1>9. CASE WhileTest \/ NextItem
  BY <1>0, <1>9, RoundIsScoped
<1>10. CASE EndCall
  BY <1>0, <1>10, EndCallIsScoped
<1>11. CASE UNCHANGED vars
  <2>1. UNCHANGED <<env, frames, stdout, outcome>>
    BY <1>11 DEF vars
  <2>2. UNCHANGED Calls
    BY <2>1, CallsAre
  <2> QED
    BY <2>1, <2>2 DEF Dynamic!vars, Scoped, Running
<1> QED
  BY <1>1, <1>2, <1>3, <1>4, <1>5, <1>6, <1>7, <1>8, <1>9, <1>10, <1>11 DEF Next

(* For every program and all names, those of locals among the module's:    *)
(* on every path out of blocks, loops, calls and runs, declarations and    *)
(* assignments reach the innermost open block of the current call; what is *)
(* read is the current call's, or else the latest caller's, or else the    *)
(* constant; and a function is found where no open call has a local of its *)
(* name, and the run fails where one has (get_by_id, assign_by_id,         *)
(* eval_ident, eval_call, exec_block, exec_for, call_func).                *)
THEOREM ScopingIsByCall == Spec => KeepsScoping
<1>1. Init => IInv /\ Scoped /\ Dynamic!Init
  <2> SUFFICES ASSUME Init PROVE IInv /\ Scoped /\ Dynamic!Init
    OBVIOUS
  <2>1. Calls = <<>> /\ stdout = <<>>
    BY CallsAre, NoCalls DEF Init
  <2> QED
    BY <2>1, Initially DEF Init, Scoped, Running, Dynamic!Init
<1>2. IInv /\ Scoped /\ [Next]_vars => IInv' /\ Scoped' /\ [Dynamic!Next]_Dynamic!vars
  BY IInvKept, EveryStepIsScoped
<1> QED
  BY <1>1, <1>2, PTL DEF Spec, KeepsScoping, Dynamic!Spec
=============================================================================
