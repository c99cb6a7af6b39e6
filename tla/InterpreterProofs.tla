------------------------- MODULE InterpreterProofs -------------------------
(***************************************************************************)
(* Proofs about Interpreter: for every program, every set of names and     *)
(* every limit, the environment holds exactly the scopes of the open       *)
(* frames, the call depth is the number of open calls, and the limits are  *)
(* kept, whichever way blocks, loops and calls are left.                   *)
(***************************************************************************)
EXTENDS Interpreter, FiniteSetTheorems, WellFoundedInduction, SequenceTheorems, TLAPS

-----------------------------------------------------------------------------
(* Numbers and sequences *)

(* A finite set of numbers that is not empty has a greatest element: the   *)
(* elements above it are a smallest set of that kind.                      *)
LEMMA GreatestExists ==
    ASSUME NEW S \in SUBSET Nat, IsFiniteSet(S), S # {}
    PROVE  \E i \in S : \A j \in S : j <= i
<1> DEFINE Above(i) == {j \in S : j > i}
           T == {Above(i) : i \in S}
<1>1. IsWellFoundedOn(StrictSubsetOrdering(S), FiniteSubsetsOf(S))
  BY FS_StrictSubsetOrderingWellFounded
<1>2. T \subseteq FiniteSubsetsOf(S)
  BY FS_Subset DEF FiniteSubsetsOf
<1>3. PICK X \in T : \A Y \in T : <<Y, X>> \notin StrictSubsetOrdering(S)
  <2>1. T # {}
    OBVIOUS
  <2> QED
    BY <1>1, <1>2, <2>1, WFMin
<1>4. PICK i \in S : X = Above(i)
  OBVIOUS
<1>5. ASSUME NEW j \in S, j > i PROVE FALSE
  <2>1. Above(j) \in T
    OBVIOUS
  <2>4. Above(j) \subseteq Above(i)
    <3> SUFFICES ASSUME NEW k \in S, k > j PROVE k > i
      OBVIOUS
    <3>1. i \in Nat /\ j \in Nat /\ k \in Nat
      OBVIOUS
    <3> QED
      BY <1>5, <3>1
  <2>2. j \in Above(i) /\ j \notin Above(j)
    BY <1>5
  <2>3. <<Above(j), Above(i)>> \in StrictSubsetOrdering(S)
    BY <2>2, <2>4 DEF StrictSubsetOrdering
  <2> QED
    BY <1>3, <1>4, <2>1, <2>3
<1> QED
  BY <1>5

LEMMA FrontLast ==
    ASSUME NEW S, NEW s \in Seq(S), s # <<>>
    PROVE  /\ Len(s) \in Nat \ {0}
           /\ Front(s) \in Seq(S) /\ Len(Front(s)) = Len(s) - 1
           /\ \A i \in 1 .. Len(s) - 1 : Front(s)[i] = s[i]
           /\ Last(s) \in S /\ Last(s) = s[Len(s)]
<1>1. Len(s) \in Nat /\ Len(s) # 0
  BY LenProperties, EmptySeq
<1>2. Len(s) - 1 \in Nat /\ Len(s) - 1 <= Len(s)
  BY <1>1
<1>3. \A i \in 1 .. Len(s) : s[i] \in S
  BY <1>1, ElementOfSeq
<1>4. Last(s) \in S /\ Last(s) = s[Len(s)]
  BY <1>1, <1>3 DEF Last
<1>5. Front(s) = SubSeq(s, 1, Len(s) - 1)
  BY DEF Front
<1>6. \A i \in 1 .. Len(s) - 1 : s[i] \in S
  BY <1>1, <1>3
<1>7. Front(s) \in Seq(S)
  BY <1>1, <1>5, <1>6, SubSeqProperties
<1>8. Len(Front(s)) = Len(s) - 1 /\ \A i \in 1 .. Len(s) - 1 : Front(s)[i] = s[i]
  <2> DEFINE n == Len(s) - 1
  <2>1. n \in Int /\ 1 \in Int /\ \A i \in 1 .. n : s[i] \in S
    BY <1>1, <1>6
  <2>2. /\ Len(SubSeq(s, 1, n)) = IF 1 <= n THEN n - 1 + 1 ELSE 0
        /\ \A i \in 1 .. n - 1 + 1 : SubSeq(s, 1, n)[i] = s[1 + i - 1]
    <3> HIDE DEF n
    <3> QED
      BY <2>1, SubSeqProperties
  <2>3. n \in Nat
    BY <1>1
  <2>4. Len(SubSeq(s, 1, n)) = n /\ \A i \in 1 .. n : SubSeq(s, 1, n)[i] = s[i]
    <3> HIDE DEF n
    <3>1. n - 1 + 1 = n /\ \A i \in 1 .. n : 1 + i - 1 = i
      BY <2>3
    <3>2. n = 0 \/ 1 <= n
      BY <2>3
    <3> QED
      BY <2>2, <2>3, <3>1, <3>2
  <2> QED
    BY <1>5, <2>4
<1> QED
  BY <1>1, <1>4, <1>7, <1>8

-----------------------------------------------------------------------------
(* The stack of frames and the scopes below it *)

Kinds == {"call", "if", "while", "for"}
Frames ==
    {f \in [kind : Kinds, base : Nat, inside : BOOLEAN,
            name : Locals \cup {NoName}, items : 0 .. MaxItems] :
        f.kind = "for" => f.name \in Locals}

(* The frames fs account for n scopes: each begins where the one below it  *)
(* ends, and the call of main is at the bottom.                            *)
Stacked(fs, n) ==
    /\ fs # <<>> /\ fs[1].kind = "call" /\ fs[1].base = 1
    /\ \A i \in DOMAIN fs :
            fs[i].base + ScopesOf(fs[i]) = IF i = Len(fs) THEN n ELSE fs[i + 1].base
    /\ \A i, j \in DOMAIN fs : i <= j => fs[i].base <= fs[j].base

CallsIn(fs) == {i \in DOMAIN fs : fs[i].kind = "call"}

LEMMA ScopesOfType ==
    ASSUME NEW f \in Frames
    PROVE  ScopesOf(f) \in 0 .. 2
BY DEF Frames, Kinds, ScopesOf

(* What Stacked says about the last frame. *)
LEMMA StackedTop ==
    ASSUME NEW fs \in Seq(Frames), NEW n \in Nat, Stacked(fs, n)
    PROVE  /\ Last(fs) \in Frames
           /\ Last(fs).base + ScopesOf(Last(fs)) = n
           /\ Last(fs).base \in 1 .. n
           /\ \A i \in DOMAIN fs : fs[i].base \in 1 .. n
           /\ Len(fs) = 1 => Last(fs).kind = "call" /\ Last(fs).base = 1
<1>1. Len(fs) \in Nat \ {0} /\ Last(fs) \in Frames /\ Last(fs) = fs[Len(fs)]
  BY FrontLast DEF Stacked
<1>2. DOMAIN fs = 1 .. Len(fs)
  BY LenProperties
<1>3. 1 \in DOMAIN fs /\ Len(fs) \in DOMAIN fs
  BY <1>1, <1>2
<1>4. Last(fs).base + ScopesOf(Last(fs)) = n
  BY <1>1, <1>3 DEF Stacked
<1>5. \A i \in DOMAIN fs : fs[i].base \in Nat
  <2>1. \A i \in 1 .. Len(fs) : fs[i] \in Frames
    BY ElementOfSeq
  <2> QED
    BY <1>2, <2>1 DEF Frames
<1>6. \A i \in DOMAIN fs : 1 <= fs[i].base /\ fs[i].base <= Last(fs).base
  BY <1>1, <1>2, <1>3 DEF Stacked
<1>7. ScopesOf(Last(fs)) \in 0 .. 2
  BY <1>1, ScopesOfType
<1>8. Last(fs).base \in 1 .. n
  BY <1>1, <1>3, <1>4, <1>5, <1>6, <1>7
<1>9. \A i \in DOMAIN fs : fs[i].base \in 1 .. n
  BY <1>5, <1>6, <1>8
<1>10. Len(fs) = 1 => Last(fs).kind = "call" /\ Last(fs).base = 1
  BY <1>1 DEF Stacked
<1> QED
  BY <1>1, <1>4, <1>8, <1>9, <1>10

(* A frame is entered above the scopes there are. *)
LEMMA StackedAppend ==
    ASSUME NEW fs \in Seq(Frames), NEW n \in Nat, Stacked(fs, n),
           NEW f \in Frames, f.base = n
    PROVE  Stacked(Append(fs, f), n + ScopesOf(f))
<1> DEFINE gs == Append(fs, f)
<1>1. /\ gs \in Seq(Frames) /\ Len(gs) = Len(fs) + 1 /\ Len(fs) \in Nat \ {0}
      /\ \A i \in 1 .. Len(fs) : gs[i] = fs[i]
      /\ gs[Len(fs) + 1] = f
  BY AppendProperties, FrontLast DEF Stacked
<1>2. DOMAIN fs = 1 .. Len(fs) /\ DOMAIN gs = 1 .. Len(fs) + 1
  BY <1>1, LenProperties
<1>3. ScopesOf(f) \in 0 .. 2
  BY ScopesOfType
<1>4. \A i \in DOMAIN fs : fs[i].base \in 1 .. n
  BY StackedTop
<1>5. gs # <<>> /\ gs[1].kind = "call" /\ gs[1].base = 1
  BY <1>1, <1>2 DEF Stacked
<1>6. ASSUME NEW i \in DOMAIN gs
      PROVE  gs[i].base + ScopesOf(gs[i]) = IF i = Len(gs) THEN n + ScopesOf(f) ELSE gs[i + 1].base
  <2>1. CASE i = Len(fs) + 1
    BY <1>1, <1>3, <2>1
  <2>2. CASE i = Len(fs)
    <3>1. fs[i].base + ScopesOf(fs[i]) = n
      BY <1>1, <1>2, <2>2 DEF Stacked
    <3> QED
      BY <1>1, <2>2, <3>1
  <2>3. CASE i \in 1 .. Len(fs) - 1
    <3>1. fs[i].base + ScopesOf(fs[i]) = fs[i + 1].base
      BY <1>1, <1>2, <2>3 DEF Stacked
    <3> QED
      BY <1>1, <2>3, <3>1
  <2> QED
    BY <1>1, <1>2, <2>1, <2>2, <2>3
<1>7. ASSUME NEW i \in DOMAIN gs, NEW j \in DOMAIN gs, i <= j
      PROVE  gs[i].base <= gs[j].base
  <2>1. CASE j = Len(fs) + 1
    BY <1>1, <1>2, <1>4, <2>1
  <2>2. CASE j # Len(fs) + 1
    BY <1>1, <1>2, <1>7, <2>2 DEF Stacked
  <2> QED
    BY <2>1, <2>2
<1> QED
  BY <1>5, <1>6, <1>7 DEF Stacked

(* A frame is left, and its scopes with it. *)
LEMMA StackedFront ==
    ASSUME NEW fs \in Seq(Frames), NEW n \in Nat, Stacked(fs, n), Len(fs) # 1
    PROVE  Stacked(Front(fs), Last(fs).base)
<1> DEFINE gs == Front(fs)
<1>1. /\ gs \in Seq(Frames) /\ Len(gs) = Len(fs) - 1 /\ Len(fs) \in Nat \ {0, 1}
      /\ \A i \in 1 .. Len(fs) - 1 : gs[i] = fs[i]
      /\ Last(fs) = fs[Len(fs)]
  BY FrontLast DEF Stacked
<1>2. DOMAIN fs = 1 .. Len(fs) /\ DOMAIN gs = 1 .. Len(fs) - 1
  BY <1>1, LenProperties
<1>3. gs # <<>> /\ gs[1].kind = "call" /\ gs[1].base = 1
  BY <1>1, <1>2 DEF Stacked
<1>4. ASSUME NEW i \in DOMAIN gs
      PROVE  gs[i].base + ScopesOf(gs[i]) = IF i = Len(gs) THEN Last(fs).base ELSE gs[i + 1].base
  <2>1. fs[i].base + ScopesOf(fs[i]) = fs[i + 1].base
    BY <1>1, <1>2 DEF Stacked
  <2> QED
    BY <1>1, <1>2, <2>1
<1>5. \A i, j \in DOMAIN gs : i <= j => gs[i].base <= gs[j].base
  BY <1>1, <1>2 DEF Stacked
<1> QED
  BY <1>3, <1>4, <1>5 DEF Stacked

(* The calls of a longer and of a shorter stack. *)
LEMMA CallsOfLonger ==
    ASSUME NEW fs \in Seq(Frames), NEW f \in Frames
    PROVE  /\ IsFiniteSet(CallsIn(fs)) /\ CallsIn(fs) \in SUBSET Nat
           /\ \A i \in CallsIn(fs) : i \in 1 .. Len(fs)
           /\ CallsIn(Append(fs, f)) =
                  CallsIn(fs) \cup (IF f.kind = "call" THEN {Len(fs) + 1} ELSE {})
<1>1. /\ Len(fs) \in Nat /\ DOMAIN fs = 1 .. Len(fs)
      /\ DOMAIN Append(fs, f) = 1 .. Len(fs) + 1
      /\ \A i \in 1 .. Len(fs) : Append(fs, f)[i] = fs[i]
      /\ Append(fs, f)[Len(fs) + 1] = f
  BY AppendProperties, LenProperties
<1>2. CallsIn(fs) \subseteq 1 .. Len(fs)
  BY <1>1 DEF CallsIn
<1>3. IsFiniteSet(CallsIn(fs))
  <2>1. IsFiniteSet(1 .. Len(fs))
    BY <1>1, FS_Interval
  <2> QED
    BY <1>2, <2>1, FS_Subset
<1>4. CallsIn(Append(fs, f)) = CallsIn(fs) \cup (IF f.kind = "call" THEN {Len(fs) + 1} ELSE {})
  <2> DEFINE gs == Append(fs, f)
  <2>1. \A i : i \in CallsIn(gs) <=> i \in CallsIn(fs) \/ (i = Len(fs) + 1 /\ f.kind = "call")
    <3> SUFFICES ASSUME NEW i
                 PROVE  i \in CallsIn(gs) <=> i \in CallsIn(fs) \/ (i = Len(fs) + 1 /\ f.kind = "call")
      OBVIOUS
    <3>1. CASE i \in 1 .. Len(fs)
      BY <1>1, <3>1 DEF CallsIn
    <3>2. CASE i = Len(fs) + 1
      BY <1>1, <3>2 DEF CallsIn
    <3>3. CASE i \notin 1 .. Len(fs) + 1
      BY <1>1, <3>3 DEF CallsIn
    <3> QED
      BY <1>1, <3>1, <3>2, <3>3
  <2> QED
    BY <2>1
<1>5. \A i \in 1 .. Len(fs) : i \in Nat
  OBVIOUS
<1> QED
  BY <1>2, <1>3, <1>4, <1>5

LEMMA CallsAppend ==
    ASSUME NEW fs \in Seq(Frames), NEW f \in Frames
    PROVE  /\ IsFiniteSet(CallsIn(fs)) /\ Cardinality(CallsIn(fs)) \in Nat
           /\ Cardinality(CallsIn(Append(fs, f))) =
                  Cardinality(CallsIn(fs)) + (IF f.kind = "call" THEN 1 ELSE 0)
<1>1. /\ IsFiniteSet(CallsIn(fs)) /\ Cardinality(CallsIn(fs)) \in Nat
      /\ \A i \in CallsIn(fs) : i \in 1 .. Len(fs)
  BY CallsOfLonger, FS_CardinalityType
<1>2. Len(fs) + 1 \notin CallsIn(fs)
  BY <1>1, LenProperties
<1>3. CASE f.kind = "call"
  <2>1. Cardinality(CallsIn(fs) \cup {Len(fs) + 1}) = Cardinality(CallsIn(fs)) + 1
    BY <1>1, <1>2, FS_AddElement
  <2> QED
    BY <1>1, <1>3, <2>1, CallsOfLonger
<1>4. CASE f.kind # "call"
  <2>1. CallsIn(Append(fs, f)) = CallsIn(fs)
    BY <1>4, CallsOfLonger
  <2> QED
    BY <1>1, <1>4, <2>1
<1> QED
  BY <1>3, <1>4

LEMMA FrontAndLast ==
    ASSUME NEW S, NEW s \in Seq(S), s # <<>>
    PROVE  s = Append(Front(s), Last(s))
<1>1. /\ Front(s) \in Seq(S) /\ Last(s) \in S /\ Len(s) \in Nat \ {0}
      /\ Len(Front(s)) = Len(s) - 1 /\ Last(s) = s[Len(s)]
      /\ \A i \in 1 .. Len(s) - 1 : Front(s)[i] = s[i]
  BY FrontLast
<1> DEFINE t == Append(Front(s), Last(s))
<1>2. /\ t \in Seq(S) /\ Len(t) = Len(s) /\ t[Len(s)] = s[Len(s)]
      /\ \A i \in 1 .. Len(s) - 1 : t[i] = s[i]
  BY <1>1, AppendProperties
<1> HIDE DEF t
<1>3. \A i \in 1 .. Len(t) : t[i] = s[i]
  BY <1>1, <1>2
<1>4. t = s
  BY <1>2, <1>3, SeqEqual
<1> QED
  BY <1>4 DEF t

LEMMA CallsFront ==
    ASSUME NEW fs \in Seq(Frames), fs # <<>>
    PROVE  Cardinality(CallsIn(fs)) =
               Cardinality(CallsIn(Front(fs))) + (IF Last(fs).kind = "call" THEN 1 ELSE 0)
BY FrontLast, FrontAndLast, CallsAppend, ZenonT(30)

(* The frame on top goes on, or starts another round. *)
LEMMA StackedSetTop ==
    ASSUME NEW fs \in Seq(Frames), NEW n \in Nat, Stacked(fs, n), Last(fs).kind # "call",
           NEW f \in Frames, f.base = Last(fs).base, f.kind = Last(fs).kind
    PROVE  /\ Stacked(Append(Front(fs), f), f.base + ScopesOf(f))
           /\ Cardinality(CallsIn(Append(Front(fs), f))) = Cardinality(CallsIn(fs))
<1>1. Len(fs) # 1 /\ Last(fs).base \in 1 .. n /\ fs # <<>>
  BY StackedTop DEF Stacked
<1>2. Stacked(Front(fs), Last(fs).base) /\ Front(fs) \in Seq(Frames)
  BY <1>1, StackedFront, FrontLast
<1>3. Stacked(Append(Front(fs), f), f.base + ScopesOf(f))
  BY <1>1, <1>2, StackedAppend
<1>4. Cardinality(CallsIn(Append(Front(fs), f))) = Cardinality(CallsIn(Front(fs)))
                                                  /\ Cardinality(CallsIn(Front(fs))) \in Nat
  BY <1>2, CallsAppend
<1>5. Cardinality(CallsIn(fs)) = Cardinality(CallsIn(Front(fs)))
  BY <1>1, <1>4, CallsFront
<1> QED
  BY <1>3, <1>4, <1>5

-----------------------------------------------------------------------------
(* The environment *)

Environments == {e \in Seq(Scopes) : e # <<>> /\ Consts \subseteq DOMAIN e[1]}

LEMMA ScopeExtended ==
    ASSUME NEW s \in Scopes, NEW name \in Locals, NEW value \in Values
    PROVE  [n \in DOMAIN s \cup {name} |-> IF n = name THEN value ELSE s[n]] \in Scopes
<1>1. PICK names \in SUBSET (Consts \cup Locals) : s \in [names -> Values]
  BY DEF Scopes
<1>2. names \cup {name} \in SUBSET (Consts \cup Locals)
  OBVIOUS
<1>3. [n \in DOMAIN s \cup {name} |-> IF n = name THEN value ELSE s[n]]
          \in [names \cup {name} -> Values]
  BY <1>1
<1> QED
  BY <1>2, <1>3 DEF Scopes

LEMMA PushType ==
    ASSUME NEW e \in Environments
    PROVE  Push(e) \in Environments /\ Len(Push(e)) = Len(e) + 1
<1>1. NoNames \in [{} -> Values] /\ {} \in SUBSET (Consts \cup Locals)
  BY DEF NoNames
<1>2. NoNames \in Scopes
  BY <1>1 DEF Scopes
<1>3. e \in Seq(Scopes) /\ Len(e) \in Nat \ {0}
  BY EmptySeq, LenProperties DEF Environments
<1>4. Push(e) \in Seq(Scopes) /\ Len(Push(e)) = Len(e) + 1 /\ Push(e)[1] = e[1]
  BY <1>2, <1>3, AppendProperties DEF Push
<1> QED
  BY <1>3, <1>4, EmptySeq DEF Environments

LEMMA PopType ==
    ASSUME NEW e \in Environments
    PROVE  Pop(e) \in Environments /\ (Len(e) > 1 => Len(Pop(e)) = Len(e) - 1)
<1>1. e \in Seq(Scopes) /\ Len(e) \in Nat \ {0} /\ e # <<>>
  BY EmptySeq, LenProperties DEF Environments
<1>2. CASE Len(e) > 1
  <2>1. /\ Front(e) \in Seq(Scopes) /\ Len(Front(e)) = Len(e) - 1
        /\ \A i \in 1 .. Len(e) - 1 : Front(e)[i] = e[i]
    BY <1>1, FrontLast
  <2>2. Front(e) # <<>> /\ Front(e)[1] = e[1]
    BY <1>1, <1>2, <2>1, EmptySeq
  <2> QED
    BY <1>2, <2>1, <2>2 DEF Pop, Environments
<1>3. CASE ~(Len(e) > 1)
  BY <1>3 DEF Pop
<1> QED
  BY <1>2, <1>3

LEMMA WriteType ==
    ASSUME NEW e \in Environments, NEW i \in 1 .. Len(e), NEW s \in Scopes, DOMAIN e[i] \subseteq DOMAIN s
    PROVE  [e EXCEPT ![i] = s] \in Environments /\ Len([e EXCEPT ![i] = s]) = Len(e)
<1> DEFINE f == [e EXCEPT ![i] = s]
<1>1. e \in Seq(Scopes) /\ Len(e) \in Nat \ {0}
  BY EmptySeq, LenProperties DEF Environments
<1>2. f \in Seq(Scopes) /\ Len(f) = Len(e) /\ f[1] = IF i = 1 THEN s ELSE e[1]
  BY <1>1, ExceptSeq
<1>3. f # <<>>
  BY <1>1, <1>2, EmptySeq
<1>4. Consts \subseteq DOMAIN f[1]
  BY <1>2 DEF Environments
<1> QED
  BY <1>2, <1>3, <1>4 DEF Environments

LEMMA DefineType ==
    ASSUME NEW e \in Environments, NEW name \in Locals, NEW value \in Values
    PROVE  Define(e, name, value) \in Environments /\ Len(Define(e, name, value)) = Len(e)
<1> DEFINE s == [n \in DOMAIN e[Len(e)] \cup {name} |-> IF n = name THEN value ELSE e[Len(e)][n]]
<1>1. Len(e) \in Nat \ {0} /\ e \in Seq(Scopes)
  BY EmptySeq, LenProperties DEF Environments
<1>2. Len(e) \in 1 .. Len(e) /\ e[Len(e)] \in Scopes
  BY <1>1, ElementOfSeq
<1>3. s \in Scopes
  BY <1>2, ScopeExtended
<1>4. DOMAIN e[Len(e)] \subseteq DOMAIN s
  OBVIOUS
<1>5. Define(e, name, value) = [e EXCEPT ![Len(e)] = s]
  BY DEF Define
<1> HIDE DEF s
<1>6. [e EXCEPT ![Len(e)] = s] \in Environments /\ Len([e EXCEPT ![Len(e)] = s]) = Len(e)
  BY <1>2, <1>3, <1>4, WriteType
<1> QED
  BY <1>5, <1>6

(* What is bound is found, in the nearest scope that binds it. *)
LEMMA NearestType ==
    ASSUME NEW e \in Environments, NEW name, Binding(e, name) # {}
    PROVE  Nearest(e, name) \in 1 .. Len(e) /\ name \in DOMAIN e[Nearest(e, name)]
<1>1. Len(e) \in Nat /\ DOMAIN e = 1 .. Len(e)
  BY LenProperties DEF Environments
<1>2. Binding(e, name) \in SUBSET Nat /\ Binding(e, name) \subseteq 1 .. Len(e)
  BY <1>1 DEF Binding
<1>3. IsFiniteSet(Binding(e, name))
  <2>1. IsFiniteSet(1 .. Len(e))
    BY <1>1, FS_Interval
  <2> QED
    BY <1>2, <2>1, FS_Subset
<1>4. \E i \in Binding(e, name) : \A j \in Binding(e, name) : j <= i
  BY <1>2, <1>3, GreatestExists
<1>5. Nearest(e, name) \in Binding(e, name)
  BY <1>4 DEF Nearest
<1> QED
  BY <1>1, <1>2, <1>5 DEF Binding

LEMMA GetType ==
    ASSUME NEW e \in Environments, NEW name, Binding(e, name) # {}
    PROVE  Get(e, name) \in Values
<1>1. Nearest(e, name) \in 1 .. Len(e) /\ name \in DOMAIN e[Nearest(e, name)]
  BY NearestType
<1>2. e[Nearest(e, name)] \in Scopes
  BY <1>1, ElementOfSeq DEF Environments
<1> QED
  BY <1>1, <1>2 DEF Get, Scopes

LEMMA AssignType ==
    ASSUME NEW e \in Environments, NEW name, Binding(e, name) # {}, NEW value \in Values
    PROVE  AssignTo(e, name, value) \in Environments /\ Len(AssignTo(e, name, value)) = Len(e)
<1> DEFINE i == Nearest(e, name)
           s == [e[i] EXCEPT ![name] = value]
<1>1. i \in 1 .. Len(e) /\ name \in DOMAIN e[i]
  BY NearestType
<1>2. e[i] \in Scopes
  BY <1>1, ElementOfSeq DEF Environments
<1>3. s \in Scopes /\ DOMAIN e[i] \subseteq DOMAIN s
  BY <1>1, <1>2 DEF Scopes
<1>4. AssignTo(e, name, value) = [e EXCEPT ![i] = s]
  BY DEF AssignTo
<1> HIDE DEF i, s
<1>5. [e EXCEPT ![i] = s] \in Environments /\ Len([e EXCEPT ![i] = s]) = Len(e)
  BY <1>1, <1>3, WriteType
<1> QED
  BY <1>4, <1>5

-----------------------------------------------------------------------------
(* The inductive invariant *)

(* The environment e, the open frames fs and the depth d belong together. *)
OpenFrames(e, fs, d) ==
    /\ e \in Environments /\ fs \in Seq(Frames)
    /\ Stacked(fs, Len(e)) /\ d = Cardinality(CallsIn(fs))

Limits ==
    /\ signal \in Signals
    /\ call_depth \in 0 .. max_call_depth
    /\ step_count \in 0 .. max_steps + 1
    /\ stdout \in Seq(Values) /\ Len(stdout) <= max_output
    /\ outcome \in {"idle", "running", "done"} \cup Errors
    /\ runs \in 0 .. MaxRuns

(* BalancedInv is not inductive: that blocks and loops return to the frame *)
(* below them needs the order of the frames, that a name is found needs    *)
(* the constants in the first scope, and that a loop binds a name needs    *)
(* the name of every open `for` (Frames).                                  *)
IInv ==
    /\ Limits
    /\ env \in Seq(Scopes) /\ env # <<>>
    /\ Running => OpenFrames(env, frames, call_depth)
    /\ ~Running => frames = <<>>
    /\ outcome = "done" => Len(env) = 1 /\ call_depth = 0

LEMMA OpenTop ==
    ASSUME NEW e, NEW fs, NEW d, OpenFrames(e, fs, d)
    PROVE  /\ Last(fs) \in Frames /\ Last(fs).base \in 1 .. Len(e) /\ Len(e) \in Nat \ {0}
           /\ Last(fs).base + ScopesOf(Last(fs)) = Len(e)
           /\ Len(fs) = 1 => Last(fs).kind = "call"
<1>1. Len(e) \in Nat \ {0}
  BY EmptySeq, LenProperties DEF OpenFrames, Environments
<1> QED
  BY <1>1, StackedTop DEF OpenFrames

LEMMA Entered ==
    ASSUME NEW e, NEW fs, NEW d, OpenFrames(e, fs, d), NEW f \in Frames, f.base = Len(e),
           NEW e2 \in Environments, Len(e2) = Len(e) + ScopesOf(f)
    PROVE  OpenFrames(e2, Append(fs, f), d + (IF f.kind = "call" THEN 1 ELSE 0))
<1>1. Len(e) \in Nat
  BY LenProperties DEF OpenFrames, Environments
<1>2. Stacked(Append(fs, f), Len(e2))
  BY <1>1, StackedAppend DEF OpenFrames
<1>3. Append(fs, f) \in Seq(Frames)
  BY AppendProperties DEF OpenFrames
<1>4. Cardinality(CallsIn(Append(fs, f))) = d + (IF f.kind = "call" THEN 1 ELSE 0)
  BY CallsAppend DEF OpenFrames
<1> QED
  BY <1>2, <1>3, <1>4 DEF OpenFrames

LEMMA Left ==
    ASSUME NEW e, NEW fs, NEW d, OpenFrames(e, fs, d), Len(fs) # 1,
           NEW e2 \in Environments, Len(e2) = Len(e) - ScopesOf(Last(fs))
    PROVE  OpenFrames(e2, Front(fs), d - (IF Last(fs).kind = "call" THEN 1 ELSE 0))
<1>1. Len(e) \in Nat /\ fs \in Seq(Frames) /\ fs # <<>> /\ Front(fs) \in Seq(Frames)
  BY LenProperties, FrontLast DEF OpenFrames, Environments, Stacked
<1>2. Len(e2) = Last(fs).base
  <2>1. /\ Last(fs) \in Frames /\ Last(fs).base \in 1 .. Len(e)
        /\ Last(fs).base + ScopesOf(Last(fs)) = Len(e)
    BY OpenTop
  <2>2. ScopesOf(Last(fs)) \in 0 .. 2
    BY <2>1, ScopesOfType
  <2> QED
    BY <1>1, <2>1, <2>2
<1>3. Stacked(Front(fs), Len(e2))
  BY <1>1, <1>2, StackedFront DEF OpenFrames
<1>4. Cardinality(CallsIn(Front(fs))) \in Nat
  BY <1>1, OpenTop, CallsAppend
<1>5. d = Cardinality(CallsIn(Front(fs))) + (IF Last(fs).kind = "call" THEN 1 ELSE 0)
  BY <1>1, CallsFront DEF OpenFrames
<1>6. d - (IF Last(fs).kind = "call" THEN 1 ELSE 0) = Cardinality(CallsIn(Front(fs)))
  BY <1>4, <1>5
<1> QED
  BY <1>1, <1>3, <1>6 DEF OpenFrames

LEMMA Continued ==
    ASSUME NEW e, NEW fs, NEW d, OpenFrames(e, fs, d), Last(fs).kind # "call",
           NEW f \in Frames, f.base = Last(fs).base, f.kind = Last(fs).kind,
           NEW e2 \in Environments, Len(e2) = f.base + ScopesOf(f)
    PROVE  OpenFrames(e2, Append(Front(fs), f), d)
<1>1. Len(e) \in Nat /\ fs \in Seq(Frames) /\ fs # <<>> /\ Front(fs) \in Seq(Frames)
  BY LenProperties, FrontLast DEF OpenFrames, Environments, Stacked
<1>2. Append(Front(fs), f) \in Seq(Frames)
  BY <1>1, AppendProperties
<1>3. /\ Stacked(Append(Front(fs), f), Len(e2))
      /\ Cardinality(CallsIn(Append(Front(fs), f))) = Cardinality(CallsIn(fs))
  BY <1>1, StackedSetTop DEF OpenFrames
<1> QED
  BY <1>2, <1>3 DEF OpenFrames

LEMMA Written ==
    ASSUME NEW e, NEW fs, NEW d, OpenFrames(e, fs, d), NEW e2 \in Environments, Len(e2) = Len(e)
    PROVE  OpenFrames(e2, fs, d)
BY DEF OpenFrames

(* A name the checker let through is bound. *)
LEMMA DeclaredIsBound ==
    ASSUME NEW name, OpenFrames(env, frames, call_depth), InScope(name)
    PROVE  Binding(env, name) # {}
<1>1. /\ DOMAIN env = 1 .. Len(env) /\ Len(env) \in Nat \ {0}
      /\ DOMAIN frames = 1 .. Len(frames) /\ Len(frames) \in Nat \ {0}
  BY EmptySeq, LenProperties DEF OpenFrames, Environments, Stacked
<1>2. CASE name \in Consts
  BY <1>1, <1>2 DEF OpenFrames, Environments, Binding
<1>3. CASE Declared(name)
  <2>1. 1 \in OpenCalls /\ OpenCalls \subseteq 1 .. Len(frames)
    BY <1>1 DEF OpenCalls, OpenFrames, Stacked
  <2>2. IsFiniteSet(1 .. Len(frames))
    BY <1>1, FS_Interval
  <2>3. OpenCalls \in SUBSET Nat /\ IsFiniteSet(OpenCalls)
    <3>1. IsFiniteSet(OpenCalls)
      BY <2>1, <2>2, FS_Subset
    <3>2. \A i \in 1 .. Len(frames) : i \in Nat
      OBVIOUS
    <3> QED
      BY <2>1, <3>1, <3>2
  <2>4. \E i \in OpenCalls : \A j \in OpenCalls : j <= i
    BY <2>1, <2>3, GreatestExists
  <2>5. CurrentCall \in DOMAIN frames
    BY <1>1, <2>1, <2>4 DEF CurrentCall
  <2>6. frames[CurrentCall].base \in 1 .. Len(env)
    BY <1>1, <2>5, StackedTop DEF OpenFrames
  <2>7. PICK i \in frames[CurrentCall].base + 1 .. Len(env) : name \in DOMAIN env[i]
    BY <1>3 DEF Declared
  <2>8. i \in DOMAIN env
    BY <1>1, <2>6, <2>7
  <2> QED
    BY <2>7, <2>8 DEF Binding
<1> QED
  BY <1>2, <1>3 DEF InScope

-----------------------------------------------------------------------------
LEMMA Initially == Init => IInv
<1> SUFFICES ASSUME Init PROVE IInv
  OBVIOUS
<1> USE InterpreterAssumption
<1>1. NoNames \in Scopes
  <2>1. NoNames \in [{} -> Values] /\ {} \in SUBSET (Consts \cup Locals)
    BY DEF NoNames
  <2> QED
    BY <2>1 DEF Scopes
<1>2. env \in Seq(Scopes) /\ env # <<>> /\ Len(env) = 1
  BY <1>1 DEF Init
<1>3. Limits
  BY EmptySeq DEF Init, Limits, Signals
<1> QED
  BY <1>2, <1>3 DEF Init, IInv, Running

(* A run that goes on keeps the invariant if its parts belong together;    *)
(* one that failed has left every frame.                                   *)
LEMMA GoesOn ==
    ASSUME Limits', Running', OpenFrames(env', frames', call_depth')
    PROVE  IInv'
BY DEF IInv, OpenFrames, Environments, Running

LEMMA Fails ==
    ASSUME IInv, NEW error \in Errors, Fail(error), UNCHANGED call_depth,
           step_count' \in 0 .. max_steps + 1
    PROVE  IInv'
<1>1. error # "running" /\ error # "done"
  BY DEF Errors
<1>2. Limits'
  BY DEF IInv, Limits, Fail
<1> QED
  BY <1>1, <1>2 DEF IInv, Fail, Running

LEMMA TicksType ==
    ASSUME Limits, NEW n \in Nat, Ticks(n)
    PROVE  step_count' \in 0 .. max_steps + 1
BY InterpreterAssumption DEF Limits, Ticks

(* An expression counts one more where it is a statement. *)
LEMMA StatementTicks ==
    ASSUME Limits, NEW n \in Nat, Ticks(Statement + n)
    PROVE  step_count' \in 0 .. max_steps + 1
<1>1. Statement + n \in Nat
  BY DEF Statement
<1> QED
  BY <1>1, TicksType

(* What runs is in an open frame, and a new frame begins where the scopes  *)
(* end.                                                                    *)
LEMMA RunningFrames ==
    ASSUME IInv, Running
    PROVE  /\ OpenFrames(env, frames, call_depth) /\ env \in Environments /\ Limits
           /\ Top \in Frames /\ Len(env) \in Nat \ {0} /\ Len(frames) \in Nat \ {0}
           /\ Top.base + ScopesOf(Top) = Len(env) /\ Top.base \in 1 .. Len(env)
           /\ Len(frames) = 1 => Top.kind = "call"
<1>1. OpenFrames(env, frames, call_depth)
  BY DEF IInv
<1>2. Len(frames) \in Nat \ {0}
  BY <1>1, EmptySeq DEF OpenFrames, Stacked
<1> QED
  BY <1>1, <1>2, OpenTop DEF Top, IInv, OpenFrames

LEMMA FrameType ==
    ASSUME NEW kind \in Kinds, NEW name \in Locals \cup {NoName}, NEW items \in 0 .. MaxItems,
           kind = "for" => name \in Locals, Len(env) \in Nat
    PROVE  /\ Frame(kind, name, items) \in Frames /\ Frame(kind, name, items).base = Len(env)
           /\ Frame(kind, name, items).kind = kind
           /\ ScopesOf(Frame(kind, name, items)) =
                  IF kind = "call" THEN 2 ELSE IF kind = "if" THEN 1 ELSE 0
<1> DEFINE f == Frame(kind, name, items)
<1>1. /\ f.kind = kind /\ f.base = Len(env) /\ f.name = name /\ f.items = items
      /\ f.inside = (kind \in {"call", "if"})
  BY DEF Frame
<1>2. f \in Frames
  BY DEF Frame, Frames, Kinds
<1>3. (f.kind = "for" => ~f.inside) /\ (f.kind = "while" => ~f.inside)
  BY <1>1
<1> HIDE DEF f
<1>4. ScopesOf(f) = IF kind = "call" THEN 2 ELSE IF kind = "if" THEN 1 ELSE 0
  BY <1>1, <1>3 DEF ScopesOf
<1> QED
  BY <1>1, <1>2, <1>4 DEF f

-----------------------------------------------------------------------------
(* One lemma for the steps that start a run, write to the environment or   *)
(* only signal, one for those that enter a frame, one for those that end   *)
(* one.                                                                    *)

LEMMA RunKeeps == ASSUME IInv, Run PROVE IInv'
<1> USE InterpreterAssumption
<1> DEFINE f == [Frame("call", NoName, 0) EXCEPT !.base = 1]
           e == <<[n \in Consts |-> ConstValue], NoNames, NoNames>>
<1>1. /\ f.kind = "call" /\ f.base = 1 /\ f \in Frames
  <2> DEFINE g == Frame("call", NoName, 0)
  <2>1. Len(env) \in Nat /\ 0 \in 0 .. MaxItems
    BY LenProperties DEF IInv
  <2>2. g \in Frames /\ g.kind = "call"
    BY <2>1, FrameType DEF Kinds
  <2>3. f = [g EXCEPT !.base = 1]
    OBVIOUS
  <2> HIDE DEF f, g
  <2> QED
    BY <2>2, <2>3 DEF Frames
<1>2. e \in Environments /\ Len(e) = 3
  <2>1. [n \in Consts |-> ConstValue] \in [Consts -> Values] /\ Consts \in SUBSET (Consts \cup Locals)
    BY DEF Values
  <2>2. NoNames \in [{} -> Values] /\ {} \in SUBSET (Consts \cup Locals)
    BY DEF NoNames
  <2>3. [n \in Consts |-> ConstValue] \in Scopes /\ NoNames \in Scopes
    BY <2>1, <2>2 DEF Scopes
  <2>4. e \in Seq(Scopes) /\ Len(e) = 3 /\ e[1] = [n \in Consts |-> ConstValue] /\ e # <<>>
    BY <2>3
  <2> QED
    BY <2>4 DEF Environments
<1>3. Stacked(<<f>>, 3) /\ <<f>> \in Seq(Frames)
  <2> HIDE DEF f
  <2>1. ScopesOf(f) = 2
    BY <1>1 DEF ScopesOf
  <2> QED
    BY <1>1, <2>1 DEF Stacked
<1>4. Cardinality(CallsIn(<<f>>)) = 1
  <2> HIDE DEF f
  <2>1. CallsIn(<<f>>) = {1}
    BY <1>1 DEF CallsIn
  <2> QED
    BY <2>1, FS_Singleton
<1>5. OpenFrames(e, <<f>>, 1)
  BY <1>2, <1>3, <1>4 DEF OpenFrames
<1>6. env' = e /\ frames' = <<f>> /\ call_depth' = 1 /\ Running'
  BY DEF Run, Fresh, Running
<1>7. Cardinality(Consts) \in Nat
  BY FS_CardinalityType
<1>8. Limits'
  BY <1>7 DEF Run, Fresh, Limits, IInv, Signals
<1> HIDE DEF e, f
<1> QED
  BY <1>5, <1>6, <1>8, GoesOn

LEMMA WritingKeeps ==
    ASSUME IInv,
           \/ \E n \in Locals, v \in Data : Let(n, v) \/ Assign(n, v)
           \/ \E n \in Locals \cup Consts : Println(n)
           \/ Return \/ Break \/ Continue
    PROVE  IInv'
<1> USE InterpreterAssumption
<1>0. Running /\ OpenFrames(env, frames, call_depth) /\ env \in Environments /\ Limits
  BY RunningFrames DEF Let, Assign, Println, Return, Break, Continue, LeaveLoop,
                            Executing, Evaluating
<1>1. ASSUME NEW n \in Locals, NEW v \in Data, Let(n, v) PROVE IInv'
  <2>1. env' \in Environments /\ Len(env') = Len(env)
    BY <1>0, <1>1, DefineType DEF Let, Values
  <2>2. OpenFrames(env', frames', call_depth')
    BY <1>0, <1>1, <2>1, Written DEF Let
  <2>3. Limits'
    BY <1>0, <1>1, TicksType DEF Let, Limits
  <2> QED
    BY <1>0, <1>1, <2>2, <2>3, GoesOn DEF Let, Running
<1>2. ASSUME NEW n \in Locals, NEW v \in Data, Assign(n, v) PROVE IInv'
  <2>1. Binding(env, n) # {}
    BY <1>0, <1>2, DeclaredIsBound DEF Assign, InScope
  <2>2. env' \in Environments /\ Len(env') = Len(env)
    BY <1>0, <1>2, <2>1, AssignType DEF Assign, Values
  <2>3. OpenFrames(env', frames', call_depth')
    BY <1>0, <1>2, <2>2, Written DEF Assign
  <2>4. Limits'
    BY <1>0, <1>2, StatementTicks DEF Assign, Limits
  <2> QED
    BY <1>0, <1>2, <2>3, <2>4, GoesOn DEF Assign, Running
<1>3. ASSUME NEW n \in Locals \cup Consts, Println(n) PROVE IInv'
  <2>1. step_count' \in 0 .. max_steps + 1 /\ UNCHANGED call_depth
    BY <1>0, <1>3, TicksType, StatementTicks DEF Println, NotCallable
  <2>2. CASE Fail("output too large") \/ Fail("not callable")
    BY <2>1, <2>2, Fails DEF Errors
  <2>3. CASE ~(Fail("output too large") \/ Fail("not callable"))
    <3>1. /\ Len(stdout) < max_output /\ stdout' = Append(stdout, Get(env, n))
          /\ UNCHANGED <<env, frames, signal, outcome, runs>>
      BY <1>3, <2>3 DEF Println, NotCallable
    <3>2. Get(env, n) \in Values
      BY <1>0, <1>3, DeclaredIsBound, GetType DEF Println
    <3>3. stdout' \in Seq(Values) /\ Len(stdout') <= max_output
      <4>1. stdout \in Seq(Values) /\ Len(stdout) \in Nat
        BY <1>0, LenProperties DEF Limits
      <4>2. stdout' \in Seq(Values) /\ Len(stdout') = Len(stdout) + 1
        BY <3>1, <3>2, <4>1, AppendProperties
      <4> QED
        BY <3>1, <4>1, <4>2
    <3>4. Limits'
      BY <1>0, <2>1, <3>1, <3>3 DEF Limits
    <3> QED
      BY <1>0, <2>1, <3>1, <3>4, GoesOn DEF Running
  <2> QED
    BY <2>2, <2>3
<1>4. ASSUME Return PROVE IInv'
  <2>1. step_count' \in 0 .. max_steps + 1
    BY <1>0, <1>4, TicksType DEF Return
  <2>2. Limits'
    BY <1>0, <1>4, <2>1 DEF Return, Limits, Signals
  <2> QED
    BY <1>0, <1>4, <2>2, GoesOn DEF Return, Running
<1>5. ASSUME NEW result \in {BreakSignal, ContinueSignal}, LeaveLoop(result) PROVE IInv'
  <2>1. step_count' \in 0 .. max_steps + 1
    BY <1>0, <1>5, TicksType DEF LeaveLoop
  <2>2. Limits'
    BY <1>0, <1>5, <2>1 DEF LeaveLoop, Limits, Signals
  <2> QED
    BY <1>0, <1>5, <2>2, GoesOn DEF LeaveLoop, Running
<1> QED
  BY <1>1, <1>2, <1>3, <1>4, <1>5 DEF Break, Continue

LEMMA EnteringKeeps ==
    ASSUME IInv,
           \/ If \/ While
           \/ \E n \in Locals, k \in 0 .. MaxItems : For(n, k)
           \/ \E f \in Functions, parameter \in Locals \cup {NoName}, v \in Data :
                Call(f, parameter, v)
    PROVE  IInv'
<1> USE InterpreterAssumption
<1>0. /\ Running /\ OpenFrames(env, frames, call_depth) /\ env \in Environments /\ Limits
      /\ Len(env) \in Nat \ {0} /\ 0 \in 0 .. MaxItems
  <2>1. Running
    BY DEF If, While, For, Call, Executing, Evaluating
  <2>2. 0 \in 0 .. MaxItems
    OBVIOUS
  <2> QED
    BY <2>1, <2>2, RunningFrames
<1>1. ASSUME If PROVE IInv'
  <2>1. env' \in Environments /\ Len(env') = Len(env) + 1
    BY <1>0, <1>1, PushType DEF If
  <2>2. OpenFrames(env', frames', call_depth')
    <3> DEFINE f == Frame("if", NoName, 0)
    <3>1. frames' = Append(frames, f) /\ call_depth' = call_depth
      BY <1>1 DEF If, Enter
    <3>2. call_depth + 0 = call_depth
      BY <1>0 DEF Limits
    <3>3. f \in Frames /\ f.base = Len(env) /\ f.kind = "if" /\ ScopesOf(f) = 1
      BY <1>0, FrameType DEF Kinds
    <3> HIDE DEF f
    <3>4. OpenFrames(env', Append(frames, f), call_depth + (IF f.kind = "call" THEN 1 ELSE 0))
      BY <1>0, <2>1, <3>1, <3>2, <3>3, Entered
    <3> QED
      BY <3>1, <3>2, <3>3, <3>4
  <2>3. step_count' \in 0 .. max_steps + 1
    BY <1>0, <1>1, TicksType DEF If
  <2>4. Limits'
    BY <1>0, <1>1, <2>3 DEF If, Limits
  <2> QED
    BY <1>0, <1>1, <2>2, <2>4, GoesOn DEF If, Running
<1>2. ASSUME While PROVE IInv'
  <2>1. OpenFrames(env', frames', call_depth')
    <3> DEFINE kind == "while"
               f == Frame(kind, NoName, 0)
    <3>1. frames' = Append(frames, f) /\ UNCHANGED <<env, call_depth>>
      BY <1>2 DEF While, Enter
    <3>2. call_depth + 0 = call_depth /\ Len(env) + 0 = Len(env)
      BY <1>0 DEF Limits
    <3>3. f \in Frames /\ f.base = Len(env) /\ f.kind = kind /\ ScopesOf(f) = 0
      <4>1. /\ kind \in Kinds /\ kind # "for" /\ kind # "call" /\ kind # "if"
            /\ NoName \in Locals \cup {NoName} /\ 0 \in 0 .. MaxItems /\ Len(env) \in Nat
        BY <1>0, InterpreterAssumption DEF Kinds
      <4> HIDE DEF kind
      <4> QED
        BY <4>1, FrameType
    <3> HIDE DEF f
    <3>4. OpenFrames(env', Append(frames, f), call_depth + (IF f.kind = "call" THEN 1 ELSE 0))
      BY <1>0, <3>1, <3>2, <3>3, Entered
    <3> QED
      BY <3>1, <3>2, <3>3, <3>4
  <2>2. step_count' \in 0 .. max_steps + 1
    BY <1>0, <1>2, TicksType DEF While
  <2>3. Limits'
    BY <1>0, <1>2, <2>2 DEF While, Limits
  <2> QED
    BY <1>0, <1>2, <2>1, <2>3, GoesOn DEF While, Running
<1>3. ASSUME NEW n \in Locals, NEW k \in 0 .. MaxItems, For(n, k) PROVE IInv'
  <2>1. OpenFrames(env', frames', call_depth')
    <3> DEFINE f == Frame("for", n, k)
    <3>1. frames' = Append(frames, f) /\ UNCHANGED <<env, call_depth>>
      BY <1>3 DEF For, Enter
    <3>2. call_depth + 0 = call_depth /\ Len(env) + 0 = Len(env)
      BY <1>0 DEF Limits
    <3>3. f \in Frames /\ f.base = Len(env) /\ f.kind = "for" /\ ScopesOf(f) = 0
      BY <1>0, FrameType DEF Kinds
    <3> HIDE DEF f
    <3>4. OpenFrames(env', Append(frames, f), call_depth + (IF f.kind = "call" THEN 1 ELSE 0))
      BY <1>0, <3>1, <3>2, <3>3, Entered
    <3> QED
      BY <3>1, <3>2, <3>3, <3>4
  <2>2. step_count' \in 0 .. max_steps + 1
    BY <1>0, <1>3, TicksType DEF For
  <2>3. Limits'
    BY <1>0, <1>3, <2>2 DEF For, Limits
  <2> QED
    BY <1>0, <1>3, <2>1, <2>3, GoesOn DEF For, Running
<1>4. ASSUME NEW callee \in Functions, NEW parameter \in Locals \cup {NoName}, NEW v \in Data,
             Call(callee, parameter, v)
      PROVE  IInv'
  <2>1. step_count' \in 0 .. max_steps + 1
    BY <1>0, <1>4, StatementTicks DEF Call, NotCallable
  <2>2. CASE (Fail("stack overflow") \/ Fail("not callable")) /\ UNCHANGED call_depth
    BY <2>1, <2>2, Fails DEF Errors
  <2>3. CASE ~((Fail("stack overflow") \/ Fail("not callable")) /\ UNCHANGED call_depth)
    <3> DEFINE f == Frame("call", NoName, 0)
               inner == IF parameter = NoName THEN Push(env) ELSE Define(Push(env), parameter, v)
    <3>1. /\ call_depth < max_call_depth /\ call_depth' = call_depth + 1
          /\ frames' = Append(frames, f)
          /\ env' = Push(inner) /\ UNCHANGED <<signal, stdout, outcome, runs>>
      BY <1>4, <2>3 DEF Call, NotCallable, Enter
    <3>2. Push(env) \in Environments /\ Len(Push(env)) = Len(env) + 1
      BY <1>0, PushType
    <3>3. inner \in Environments /\ Len(inner) = Len(env) + 1
      <4>1. CASE parameter = NoName
        BY <3>2, <4>1
      <4>2. CASE parameter # NoName
        <5>1. parameter \in Locals /\ v \in Values
          BY <4>2 DEF Values
        <5> QED
          BY <3>2, <4>2, <5>1, DefineType
      <4> QED
        BY <4>1, <4>2
    <3> HIDE DEF inner
    <3>4. env' \in Environments /\ Len(env') = Len(env) + 2
      BY <1>0, <3>1, <3>3, PushType
    <3>5. OpenFrames(env', frames', call_depth')
      <4>1. f \in Frames /\ f.base = Len(env) /\ f.kind = "call" /\ ScopesOf(f) = 2
        BY <1>0, FrameType, ZenonT(30) DEF Kinds
      <4> HIDE DEF f
      <4>2. OpenFrames(env', Append(frames, f), call_depth + (IF f.kind = "call" THEN 1 ELSE 0))
        BY <1>0, <3>4, <4>1, Entered
      <4> QED
        BY <3>1, <4>1, <4>2
    <3>6. Limits'
      BY <1>0, <2>1, <3>1 DEF Limits
    <3> QED
      BY <1>0, <3>1, <3>5, <3>6, GoesOn DEF Running
  <2> QED
    BY <2>2, <2>3
<1> QED
  BY <1>1, <1>2, <1>3, <1>4

LEMMA FaultKeeps == ASSUME IInv, Fault \/ TimeOut PROVE IInv'
<1> USE InterpreterAssumption
<1>1. Running /\ Limits
  BY DEF Fault, TimeOut, Evaluating, IInv
<1>2. CASE Fault
  <2>1. step_count' \in 0 .. max_steps + 1
    BY <1>1, <1>2, StatementTicks DEF Fault
  <2> QED
    BY <1>2, <2>1, Fails DEF Fault, Errors
<1>3. CASE TimeOut
  <2>1. step_count' \in 0 .. max_steps + 1
    BY <1>3 DEF TimeOut
  <2> QED
    BY <1>3, <2>1, Fails DEF TimeOut, Errors
<1> QED
  BY <1>2, <1>3

(* After a body: the loop goes on with no scope of its own, or is left. *)
LEMMA BodyKeeps ==
    ASSUME IInv, Running, Top.kind \in {"while", "for"},
           env' \in Environments, Len(env') = Top.base,
           AfterBody([Top EXCEPT !.inside = FALSE]),
           UNCHANGED <<call_depth, step_count, stdout, outcome, runs>>
    PROVE  IInv'
<1> DEFINE g == [Top EXCEPT !.inside = FALSE]
<1>0. /\ OpenFrames(env, frames, call_depth) /\ Limits
      /\ Top \in Frames /\ Len(env) \in Nat \ {0} /\ Len(frames) # 1
      /\ Top.base + ScopesOf(Top) = Len(env) /\ Top.base \in 1 .. Len(env)
  BY RunningFrames
<1>1. g \in Frames /\ g.base = Top.base /\ g.kind = Top.kind /\ ~g.inside
  BY <1>0 DEF Frames
<1>2. ScopesOf(g) = 0
  <2> HIDE DEF g
  <2> QED
    BY <1>1 DEF ScopesOf
<1>3. signal' \in Signals
  BY <1>0 DEF AfterBody, Limits, Signals
<1>4. Limits' /\ Running'
  BY <1>0, <1>3 DEF Limits, Running
<1>5. ScopesOf(Top) \in 0 .. 2
  BY <1>0, ScopesOfType
<1>6. CASE frames' = Append(Front(frames), g)
  <2> HIDE DEF g
  <2>1. Len(env') = g.base + ScopesOf(g)
    BY <1>0, <1>1, <1>2
  <2>2. OpenFrames(env', frames', call_depth)
    BY <1>0, <1>1, <1>6, <2>1, Continued DEF Top
  <2> QED
    BY <1>4, <2>2, GoesOn
<1>7. CASE frames' = Front(frames)
  <2>1. Len(env') = Len(env) - ScopesOf(Last(frames))
    BY <1>0, <1>5 DEF Top
  <2>2. OpenFrames(env', Front(frames), call_depth - (IF Last(frames).kind = "call" THEN 1 ELSE 0))
    BY <1>0, <2>1, Left
  <2>3. call_depth - 0 = call_depth
    BY <1>0 DEF Limits
  <2>4. OpenFrames(env', frames', call_depth')
    BY <1>7, <2>2, <2>3 DEF Top
  <2> QED
    BY <1>4, <2>4, GoesOn
<1>8. frames' = Append(Front(frames), g) \/ frames' = Front(frames)
  BY DEF AfterBody, SetTop, Leave
<1> QED
  BY <1>6, <1>7, <1>8

LEMMA EndingKeeps ==
    ASSUME IInv, EndIf \/ WhileTest \/ EndWhileBody \/ NextItem \/ EndForBody
    PROVE  IInv'
<1> USE InterpreterAssumption
<1>0. Running
  BY DEF EndIf, WhileTest, EndWhileBody, NextItem, EndForBody
<1>1. /\ OpenFrames(env, frames, call_depth) /\ env \in Environments /\ Limits
      /\ Top \in Frames /\ Len(env) \in Nat \ {0}
      /\ Top.base + ScopesOf(Top) = Len(env) /\ Top.base \in 1 .. Len(env)
      /\ Len(frames) = 1 => Top.kind = "call"
  BY <1>0, RunningFrames
<1>2. call_depth - 0 = call_depth
  BY <1>1 DEF Limits
<1>3. ASSUME frames' = Front(frames), Top.kind # "call", env' \in Environments,
             Len(env') = Len(env) - ScopesOf(Top), call_depth' = call_depth
      PROVE  OpenFrames(env', frames', call_depth')
  <2>1. OpenFrames(env', Front(frames), call_depth - (IF Last(frames).kind = "call" THEN 1 ELSE 0))
    BY <1>1, <1>3, Left DEF Top
  <2> QED
    BY <1>2, <1>3, <2>1 DEF Top
<1>4. CASE EndIf
  <2>1. ScopesOf(Top) = 1
    BY <1>4 DEF EndIf, ScopesOf
  <2>2. env' \in Environments /\ Len(env') = Len(env) - ScopesOf(Top)
    BY <1>1, <1>4, <2>1, PopType DEF EndIf
  <2>3. OpenFrames(env', frames', call_depth')
    BY <1>3, <1>4, <2>2 DEF EndIf, Leave
  <2>4. Limits' /\ Running'
    BY <1>0, <1>1, <1>4 DEF EndIf, Limits, Running
  <2> QED
    BY <2>3, <2>4, GoesOn
<1>5. CASE WhileTest
  <2> DEFINE g == [Top EXCEPT !.inside = TRUE]
  <2>0. ScopesOf(Top) = 0
    BY <1>5 DEF WhileTest, ScopesOf
  <2>1. step_count' \in 0 .. max_steps + 1
    BY <1>1, <1>5, TicksType DEF WhileTest
  <2>2. Limits' /\ Running'
    BY <1>0, <1>1, <1>5, <2>1 DEF WhileTest, Limits, Running
  <2>3. CASE frames' = Append(Front(frames), g) /\ env' = Push(env)
    <3>1. g \in Frames /\ g.base = Top.base /\ g.kind = "while" /\ g.inside
      BY <1>1, <1>5 DEF Frames, WhileTest
    <3>2. Top.kind = "while" /\ call_depth' = call_depth
      BY <1>5 DEF WhileTest
    <3> HIDE DEF g
    <3>3. ScopesOf(g) = 1
      BY <3>1 DEF ScopesOf
    <3>4. env' \in Environments /\ Len(env') = g.base + ScopesOf(g)
      BY <1>1, <2>0, <2>3, <3>1, <3>3, PushType
    <3>5. OpenFrames(env', Append(Front(frames), g), call_depth)
      BY <1>1, <3>1, <3>2, <3>4, Continued DEF Top
    <3> QED
      BY <2>2, <2>3, <3>2, <3>5, GoesOn
  <2>4. CASE frames' = Front(frames) /\ env' = env
    <3>1. Len(env') = Len(env) - ScopesOf(Top)
      BY <1>1, <2>0, <2>4
    <3>2. OpenFrames(env', frames', call_depth')
      BY <1>1, <1>3, <1>5, <2>4, <3>1 DEF WhileTest
    <3> QED
      BY <2>2, <3>2, GoesOn
  <2> QED
    BY <1>5, <2>3, <2>4 DEF WhileTest, SetTop, Leave
<1>6. CASE EndWhileBody
  <2>1. ScopesOf(Top) = 1
    BY <1>6 DEF EndWhileBody, ScopesOf
  <2>2. env' \in Environments /\ Len(env') = Top.base
    BY <1>1, <1>6, <2>1, PopType DEF EndWhileBody
  <2> QED
    BY <1>0, <1>6, <2>2, BodyKeeps DEF EndWhileBody
<1>7. CASE NextItem
  <2> DEFINE g == [Top EXCEPT !.inside = TRUE, !.items = @ - 1]
  <2>0. ScopesOf(Top) = 0
    BY <1>7 DEF NextItem, ScopesOf
  <2>1. Limits' /\ Running'
    BY <1>0, <1>1, <1>7 DEF NextItem, Limits, Running
  <2>2. CASE Top.items > 0
    <3>1. /\ frames' = Append(Front(frames), g) /\ call_depth' = call_depth /\ Top.kind = "for"
          /\ \E value \in Data : env' = Push(Define(Push(env), Top.name, value))
      BY <1>7, <2>2 DEF NextItem, SetTop
    <3>2. g \in Frames /\ g.base = Top.base /\ g.kind = "for" /\ g.inside
      <4>1. Top.items - 1 \in 0 .. MaxItems
        BY <1>1, <2>2 DEF Frames
      <4> QED
        BY <1>1, <3>1, <4>1 DEF Frames
    <3> HIDE DEF g
    <3>3. ScopesOf(g) = 2
      BY <3>2 DEF ScopesOf
    <3>4. env' \in Environments /\ Len(env') = g.base + ScopesOf(g)
      <4>1. PICK value \in Data : env' = Push(Define(Push(env), Top.name, value))
        BY <3>1
      <4>2. Push(env) \in Environments /\ Len(Push(env)) = Len(env) + 1
        BY <1>1, PushType
      <4>3. Top.name \in Locals /\ value \in Values
        BY <1>1, <3>1 DEF Frames, Values
      <4>4. Define(Push(env), Top.name, value) \in Environments
            /\ Len(Define(Push(env), Top.name, value)) = Len(env) + 1
        BY <4>2, <4>3, DefineType
      <4> QED
        BY <1>1, <2>0, <3>2, <3>3, <4>1, <4>4, PushType
    <3>5. OpenFrames(env', Append(Front(frames), g), call_depth)
      BY <1>1, <3>1, <3>2, <3>4, Continued DEF Top
    <3> QED
      BY <2>1, <3>1, <3>5, GoesOn
  <2>3. CASE ~(Top.items > 0)
    <3>1. frames' = Front(frames) /\ env' = env /\ call_depth' = call_depth /\ Top.kind = "for"
      BY <1>7, <2>3 DEF NextItem, Leave
    <3>2. Len(env') = Len(env) - ScopesOf(Top)
      BY <1>1, <2>0, <3>1
    <3>3. OpenFrames(env', frames', call_depth')
      BY <1>1, <1>3, <3>1, <3>2
    <3> QED
      BY <2>1, <3>3, GoesOn
  <2> QED
    BY <2>2, <2>3
<1>8. CASE EndForBody
  <2>1. ScopesOf(Top) = 2
    BY <1>8 DEF EndForBody, ScopesOf
  <2>2. Pop(env) \in Environments /\ Len(Pop(env)) = Len(env) - 1
    BY <1>1, <2>1, PopType
  <2>3. env' \in Environments /\ Len(env') = Top.base
    BY <1>1, <1>8, <2>1, <2>2, PopType DEF EndForBody
  <2> QED
    BY <1>0, <1>8, <2>3, BodyKeeps DEF EndForBody
<1> QED
  BY <1>4, <1>5, <1>6, <1>7, <1>8

(* A call ends: its scopes go, and the run with it when the call is main's. *)
LEMMA EndCallKeeps == ASSUME IInv, EndCall PROVE IInv'
<1> USE InterpreterAssumption
<1>0. Running /\ Top.kind = "call"
  BY DEF EndCall
<1>1. /\ OpenFrames(env, frames, call_depth) /\ env \in Environments /\ Limits
      /\ Top \in Frames /\ Len(env) \in Nat \ {0} /\ Len(frames) \in Nat \ {0}
      /\ Top.base + ScopesOf(Top) = Len(env) /\ Top.base \in 1 .. Len(env)
  BY <1>0, RunningFrames
<1>2. ScopesOf(Top) = 2 /\ Len(env) > 2
  BY <1>0, <1>1 DEF ScopesOf
<1>5. env' \in Environments /\ Len(env') = Len(env) - 2
  <2>1. Pop(env) \in Environments /\ Len(Pop(env)) = Len(env) - 1
    BY <1>1, <1>2, PopType
  <2> QED
    BY <1>1, <1>2, <2>1, PopType DEF EndCall
<1>6. frames' = Front(frames) /\ call_depth' = call_depth - 1
  BY DEF EndCall, Leave
<1>7. signal' \in Signals /\ UNCHANGED <<step_count, stdout, runs>>
  BY DEF EndCall, Signals
<1>8. CASE Len(frames) = 1
  <2>1. Top.base = 1 /\ Len(env') = 1
    BY <1>1, <1>2, <1>5, <1>8, StackedTop DEF OpenFrames, Top
  <2>2. frames' = <<>>
    <3>1. Front(frames) \in Seq(Frames) /\ Len(Front(frames)) = 0
      BY <1>1, <1>8, FrontLast DEF OpenFrames, Stacked
    <3> QED
      BY <1>6, <3>1, EmptySeq
  <2>3. call_depth' = 0
    <3>1. CallsIn(frames) = {1}
      <4>1. DOMAIN frames = {1} /\ frames[1].kind = "call"
        BY <1>1, <1>8, LenProperties DEF OpenFrames, Stacked
      <4> QED
        BY <4>1 DEF CallsIn
    <3>2. call_depth = 1
      BY <1>1, <3>1, FS_Singleton DEF OpenFrames
    <3> QED
      BY <1>6, <3>2
  <2>4. outcome' = "done"
    BY <1>8 DEF EndCall
  <2>5. Limits' /\ ~Running'
    BY <1>1, <1>7, <2>3, <2>4 DEF Limits, Running
  <2> QED
    BY <1>5, <2>1, <2>2, <2>3, <2>5 DEF IInv, Environments
<1>9. CASE Len(frames) # 1
  <2>1. OpenFrames(env', Front(frames), call_depth - (IF Last(frames).kind = "call" THEN 1 ELSE 0))
    BY <1>1, <1>2, <1>5, <1>9, Left DEF Top
  <2>2. OpenFrames(env', frames', call_depth')
    BY <1>0, <1>6, <2>1 DEF Top
  <2>3. call_depth' \in 0 .. max_call_depth
    <3>1. Cardinality(CallsIn(Front(frames))) \in Nat
      BY <1>1, CallsFront, FrontLast, CallsAppend DEF OpenFrames, Stacked
    <3>2. call_depth' \in Nat
      BY <1>6, <2>2, <3>1 DEF OpenFrames
    <3> QED
      BY <1>1, <1>6, <3>2 DEF Limits
  <2>4. outcome' = outcome
    BY <1>9 DEF EndCall
  <2>5. Limits' /\ Running'
    BY <1>0, <1>1, <1>7, <2>3, <2>4 DEF Limits, Running
  <2> QED
    BY <2>2, <2>5, GoesOn
<1> QED
  BY <1>8, <1>9

-----------------------------------------------------------------------------
LEMMA IInvKept == IInv /\ [Next]_vars => IInv'
<1> SUFFICES ASSUME IInv, [Next]_vars PROVE IInv'
  OBVIOUS
<1>1. CASE Run
  BY <1>1, RunKeeps
<1>2. CASE \/ \E n \in Locals, v \in Data : Let(n, v) \/ Assign(n, v)
           \/ \E n \in Locals \cup Consts : Println(n)
           \/ Return \/ Break \/ Continue
  BY <1>2, WritingKeeps
<1>3. CASE \/ If \/ While
           \/ \E n \in Locals, k \in 0 .. MaxItems : For(n, k)
           \/ \E f \in Functions, parameter \in Locals \cup {NoName}, v \in Data :
                Call(f, parameter, v)
  BY <1>3, EnteringKeeps
<1>4. CASE Fault \/ TimeOut
  BY <1>4, FaultKeeps
<1>5. CASE EndIf \/ WhileTest \/ EndWhileBody \/ NextItem \/ EndForBody
  BY <1>5, EndingKeeps
<1>6. CASE EndCall
  BY <1>6, EndCallKeeps
<1>7. CASE UNCHANGED vars
  BY <1>7 DEF vars, IInv, Limits, OpenFrames, Environments, Running, Stacked, ScopesOf, CallsIn
<1> QED
  BY <1>1, <1>2, <1>3, <1>4, <1>5, <1>6, <1>7 DEF Next

LEMMA IInvIsStronger == IInv => BalancedInv
<1> SUFFICES ASSUME IInv PROVE TypeOK /\ Balanced
  BY DEF BalancedInv
<1>1. CASE Running
  <2>1. OpenFrames(env, frames, call_depth) /\ Len(env) \in Nat
    BY <1>1, RunningFrames
  <2>2. \A i \in DOMAIN frames : frames[i] \in Frames /\ frames[i].base \in 1 .. Len(env)
    <3>1. DOMAIN frames = 1 .. Len(frames)
      BY <2>1, LenProperties DEF OpenFrames
    <3> QED
      BY <2>1, <3>1, ElementOfSeq, StackedTop DEF OpenFrames
  <2>3. TypeOK
    BY <2>2 DEF TypeOK, IInv, Limits, Frames, Kinds
  <2>4. call_depth = Cardinality(OpenCalls)
    BY <2>1 DEF OpenFrames, CallsIn, OpenCalls
  <2>5. Balanced
    BY <1>1, <2>1, <2>4 DEF Balanced, OpenFrames, Stacked, IInv, Running
  <2> QED
    BY <2>3, <2>5
<1>2. CASE ~Running
  <2>1. frames = <<>> /\ DOMAIN frames = {}
    BY <1>2, EmptySeq DEF IInv
  <2>2. TypeOK
    BY <2>1 DEF TypeOK, IInv, Limits
  <2>3. Balanced
    BY <1>2 DEF Balanced, IInv
  <2> QED
    BY <2>2, <2>3
<1> QED
  BY <1>1, <1>2

(* Whatever the program does, and however often it is run: between two     *)
(* steps the environment holds exactly the scopes of the open frames, the  *)
(* call depth is the number of open calls, a run that succeeds leaves only *)
(* the root, and depth, steps and output keep their limits (exec_block,    *)
(* exec_while, exec_for, call_func, tick, check_output_growth).            *)
THEOREM ScopesAreBalanced == Spec => []BalancedInv
<1>1. Spec => []IInv
  BY Initially, IInvKept, PTL DEF Spec
<1> QED
  BY <1>1, IInvIsStronger, PTL
=============================================================================
