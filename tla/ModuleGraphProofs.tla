------------------------- MODULE ModuleGraphProofs -------------------------
(***************************************************************************)
(* Proofs about ModuleGraph: the types, and that for every set of files    *)
(* and every import structure discovery records the imports that are       *)
(* there, and Kahn's sort orders a module only after its imports, and      *)
(* gives up only when the modules left over import each other.  Last, that *)
(* ModuleGraph gives the answer ModuleGraphContract promises: the files    *)
(* reachable from the entry in a dependency-first order, a real cycle      *)
(* among them, or an import that does not resolve.                         *)
(***************************************************************************)
EXTENDS ModuleGraph, FiniteSetTheorems, SequenceTheorems, TLAPS

-----------------------------------------------------------------------------
(* Sequences and listings *)

(* A listing of a finite set is a sequence over it that holds each element *)
(* at exactly one position.                                                *)
LEMMA ListingProperties ==
    ASSUME NEW S, IsFiniteSet(S), NEW s \in Listings(S)
    PROVE  /\ s \in Seq(S)
           /\ Elems(s) = S
           /\ \A i, j \in 1 .. Len(s) : s[i] = s[j] => i = j
<1> DEFINE n == Cardinality(S)
<1>1. n \in Nat
  BY FS_CardinalityType
<1>2. s \in [1 .. n -> S] /\ Elems(s) = S
  BY DEF Listings
<1>3. s \in Seq(S) /\ Len(s) = n
  BY <1>1, <1>2
<1>4. s \in Surjection(1 .. n, S)
  BY <1>2, <1>3 DEF Surjection, Elems
<1>5. IsFiniteSet(1 .. n) /\ Cardinality(1 .. n) = n
  BY <1>1, FS_Interval
<1>6. s \in Injection(1 .. n, S)
  BY <1>4, <1>5, FS_SurjSameCardinalityImpliesInj
<1> QED
  BY <1>2, <1>3, <1>6 DEF Injection, IsInjective

(* Sequences stay sequences over a larger set. *)
LEMMA SeqWidens ==
    ASSUME NEW S, NEW T, S \subseteq T
    PROVE  Seq(S) \subseteq Seq(T)
BY SeqMonotonic

LEMMA IdsAreFinite ==
    ASSUME nodes \in Seq(Files), NEW S \in SUBSET Ids
    PROVE  IsFiniteSet(S)
<1>1. Len(nodes) \in Int
  BY LenProperties
<1>2. IsFiniteSet(Ids)
  BY <1>1, FS_Interval DEF Ids
<1> QED
  BY <1>2, FS_Subset

-----------------------------------------------------------------------------
(* Types *)

(* Steps that leave the modules and a phase's variables alone leave the    *)
(* types of that phase alone.                                              *)
LEMMA SortUntouched ==
    ASSUME TypeOK, UNCHANGED <<nodes, sortVars>>, phase' = "sort" => phase = "sort"
    PROVE  SortTypes'
BY DEF TypeOK, SortTypes, sortVars, Ids

LEMMA DetectUntouched ==
    ASSUME TypeOK, UNCHANGED <<nodes, detectVars>>, phase' = "detect" => phase = "detect"
    PROVE  DetectTypes'
BY DEF TypeOK, DetectTypes, detectVars, Ids

LEMMA DiscoverUntouched ==
    ASSUME TypeOK, UNCHANGED discoverVars
    PROVE  DiscoverTypes'
BY DEF TypeOK, DiscoverTypes, discoverVars, Ids

(* Every variable of ModuleGraph keeps its type. *)
THEOREM TypeCorrect == Spec => []TypeOK
<1>1. Init => TypeOK
  <2> SUFFICES ASSUME Init PROVE TypeOK
    OBVIOUS
  <2>1. imports \in [Files -> Seq(Files \cup {Unresolved})]
    BY FilesAssumption DEF Init
  <2>2. nodes \in Seq(Files) /\ Len(nodes) = 1 /\ Ids = {1}
    BY FilesAssumption DEF Init, Ids
  <2>3. edges \in Seq(Seq(Ids)) /\ Len(edges) = 1
    BY <2>2 DEF Init
  <2> QED
    BY <2>1, <2>2, <2>3 DEF Init, TypeOK, DiscoverTypes, SortTypes, DetectTypes
<1>2. TypeOK /\ [Next]_vars => TypeOK'
  <2> SUFFICES ASSUME TypeOK, [Next]_vars PROVE TypeOK'
    OBVIOUS
  <2>0. /\ imports \in [Files -> Seq(Files \cup {Unresolved})]
        /\ nodes \in Seq(Files) /\ Len(nodes) \in Nat
        /\ edges \in Seq(Seq(Ids)) /\ Len(edges) = Len(nodes)
    BY LenProperties DEF TypeOK, DiscoverTypes
  <2>1. CASE PopPending
    <3>1. Head(pending) \in Ids /\ Tail(pending) \in Seq(Ids)
      BY <2>1, HeadTailProperties DEF PopPending, TypeOK, DiscoverTypes
    <3>2. nodes[Head(pending)] \in Files
      BY <2>0, <3>1, ElementOfSeq DEF Ids
    <3>3. imports[nodes[Head(pending)]] \in Seq(Files \cup {Unresolved})
      BY <2>0, <3>2
    <3>4. Head(pending) \in 0 .. Len(nodes)
      BY <3>1 DEF Ids
    <3>5. DiscoverTypes'
      BY <2>0, <2>1, <3>1, <3>3, <3>4 DEF PopPending, DiscoverTypes, Ids
    <3> QED
      BY <2>1, <3>5, SortUntouched, DetectUntouched DEF PopPending, TypeOK
  <2>2. CASE ImportUnresolved
    <3>1. UNCHANGED <<nodes, discoverVars, sortVars, detectVars>>
      BY <2>2 DEF ImportUnresolved, discoverVars
    <3> QED
      BY <2>2, <3>1, DiscoverUntouched, SortUntouched, DetectUntouched
         DEF ImportUnresolved, TypeOK
  <2>3. CASE ImportKnown
    <3>1. IdOf(Head(todo)) \in Ids
      BY <2>3 DEF ImportKnown, IdOf, Elems, Ids
    <3>2. found' \in Seq(Ids)
      BY <2>3, <3>1, AppendProperties DEF ImportKnown, PushNew, TypeOK, DiscoverTypes
    <3>3. todo' \in Seq(Files \cup {Unresolved})
      BY <2>3, HeadTailProperties DEF ImportKnown, TypeOK, DiscoverTypes
    <3>4. DiscoverTypes'
      BY <2>3, <3>2, <3>3 DEF ImportKnown, TypeOK, DiscoverTypes, Ids
    <3> QED
      BY <2>3, <3>4, SortUntouched, DetectUntouched DEF ImportKnown, TypeOK
  <2>4. CASE ImportCreated
    <3>1. nodes' \in Seq(Files) /\ Len(nodes') = Len(nodes) + 1
      BY <2>0, <2>4, AppendProperties DEF ImportCreated
    <3>2. Ids \subseteq Ids' /\ Len(nodes) + 1 \in Ids'
      BY <2>0, <3>1 DEF Ids
    <3>3. Seq(Ids) \subseteq Seq(Ids')
      BY <3>2, SeqWidens
    <3>4. edges \in Seq(Seq(Ids'))
      BY <2>0, <3>3, SeqWidens
    <3>5. edges' \in Seq(Seq(Ids')) /\ Len(edges') = Len(edges) + 1
      <4>1. <<>> \in Seq(Ids')
        BY EmptySeq
      <4> QED
        BY <2>4, <3>4, <4>1, AppendProperties DEF ImportCreated
    <3>6. pending' \in Seq(Ids') /\ found' \in Seq(Ids')
      <4>1. pending \in Seq(Ids') /\ found \in Seq(Ids')
        BY <3>3 DEF TypeOK, DiscoverTypes
      <4> QED
        BY <2>4, <3>2, <4>1, AppendProperties DEF ImportCreated, PushNew
    <3>7. todo' \in Seq(Files \cup {Unresolved})
      BY <2>4, HeadTailProperties DEF ImportCreated, TypeOK, DiscoverTypes
    <3>8. current' \in 0 .. Len(nodes')
      BY <2>0, <2>4, <3>1 DEF ImportCreated, TypeOK, DiscoverTypes
    <3>9. DiscoverTypes'
      BY <2>0, <3>1, <3>5, <3>6, <3>7, <3>8 DEF DiscoverTypes, Ids
    <3>10. SortTypes'
      BY <2>4, <3>3 DEF ImportCreated, TypeOK, SortTypes, sortVars
    <3>11. DetectTypes'
      BY <2>4, <3>2, <3>3 DEF ImportCreated, TypeOK, DetectTypes, detectVars
    <3> QED
      BY <2>4, <3>9, <3>10, <3>11 DEF ImportCreated, TypeOK
  <2>5. CASE RecordEdges
    <3>1. current \in 1 .. Len(edges) /\ found \in Seq(Ids)
      BY <2>5, <2>0 DEF RecordEdges, TypeOK, DiscoverTypes
    <3>2. edges' \in Seq(Seq(Ids)) /\ Len(edges') = Len(edges)
      BY <2>0, <2>5, <3>1, ExceptSeq DEF RecordEdges
    <3>3. DiscoverTypes'
      BY <2>0, <2>5, <3>2 DEF RecordEdges, TypeOK, DiscoverTypes, Ids
    <3> QED
      BY <2>5, <3>3, SortUntouched, DetectUntouched DEF RecordEdges, TypeOK
  <2>6. CASE BeginSort
    <3>1. indegree' \in Seq(Nat) /\ Len(indegree') = Len(nodes)
      <4>1. \A id \in 1 .. Len(nodes) : Len(edges[id]) \in Nat
        BY <2>0, ElementOfSeq, LenProperties
      <4> QED
        BY <2>0, <2>6, <4>1 DEF BeginSort, Ids
    <3>2. ready' \in Seq(Ids)
      <4> DEFINE zero == {id \in Ids : edges[id] = <<>>}
      <4>1. IsFiniteSet(zero)
        BY <2>0, IdsAreFinite
      <4>2. ready' \in Listings(zero)
        BY <2>6 DEF BeginSort
      <4>3. ready' \in Seq(zero)
        BY <4>1, <4>2, ListingProperties
      <4> QED
        BY <4>3, SeqWidens
    <3>3. UNCHANGED <<nodes, discoverVars, order, detectVars>>
      BY <2>6 DEF BeginSort, discoverVars
    <3>4. SortTypes'
      BY <3>1, <3>2, <3>3 DEF SortTypes, TypeOK, Ids
    <3> QED
      BY <2>6, <3>3, <3>4, DiscoverUntouched, DetectUntouched DEF BeginSort, TypeOK
  <2>7. CASE PopReady
    <3>1. Head(ready) \in Ids /\ Tail(ready) \in Seq(Ids)
      BY <2>7, HeadTailProperties DEF PopReady, TypeOK, SortTypes
    <3>2. order' \in Seq(Ids)
      BY <2>7, <3>1, AppendProperties DEF PopReady, TypeOK, SortTypes
    <3> DEFINE lowered == [other \in Ids |-> IF other \in Importers(Head(ready))
                                             THEN Decrement(indegree[other])
                                             ELSE indegree[other]]
               freed == {other \in Importers(Head(ready)) : lowered[other] = 0}
    <3>3. PICK s \in Listings(freed) : ready' = Tail(ready) \o s
      BY <2>7 DEF PopReady
    <3>4. freed \subseteq Ids
      BY DEF Importers
    <3>5. IsFiniteSet(freed)
      BY <2>0, <3>4, IdsAreFinite
    <3>6. s \in Seq(Ids)
      BY <3>4, <3>5, ListingProperties, SeqWidens
    <3>7. ready' \in Seq(Ids)
      BY <3>1, <3>3, <3>6, ConcatProperties
    <3>8. indegree' \in Seq(Nat) /\ Len(indegree') = Len(nodes)
      <4>1. \A other \in Ids : indegree[other] \in Nat
        BY <2>7, ElementOfSeq DEF PopReady, TypeOK, SortTypes, Ids
      <4>2. \A other \in Ids : Decrement(indegree[other]) \in Nat
        BY <4>1 DEF Decrement
      <4>3. indegree' = [other \in 1 .. Len(nodes) |-> IF other \in Importers(Head(ready))
                                                      THEN Decrement(indegree[other])
                                                      ELSE indegree[other]]
        BY <2>7 DEF PopReady, Ids
      <4> HIDE DEF lowered, freed
      <4> QED
        BY <2>0, <4>1, <4>2, <4>3 DEF Ids
    <3>9. UNCHANGED <<nodes, discoverVars, detectVars>>
      BY <2>7 DEF PopReady, discoverVars
    <3>10. SortTypes'
      BY <3>2, <3>7, <3>8, <3>9 DEF SortTypes, Ids
    <3> QED
      BY <2>7, <3>9, <3>10, DiscoverUntouched, DetectUntouched DEF PopReady, TypeOK
  <2>8. CASE SortComplete
    <3>1. UNCHANGED <<nodes, discoverVars, sortVars, detectVars>>
      BY <2>8 DEF SortComplete, discoverVars
    <3> QED
      BY <2>8, <3>1, DiscoverUntouched, SortUntouched, DetectUntouched DEF SortComplete, TypeOK
  <2>9. CASE SortIncomplete
    <3>1. UNCHANGED <<nodes, discoverVars, sortVars>>
      BY <2>9 DEF SortIncomplete, discoverVars
    <3>2. next' \in Seq(Nat \ {0}) /\ Len(next') = Len(nodes)
      BY <2>0, <2>9 DEF SortIncomplete, Ids
    <3>3. DetectTypes'
      BY <2>9, <3>1, <3>2 DEF SortIncomplete, DetectTypes, TypeOK, Ids
    <3> QED
      BY <2>9, <3>1, <3>3, DiscoverUntouched, SortUntouched DEF SortIncomplete, TypeOK
  <2>10. CASE EnterRoot
    <3>1. UNCHANGED <<nodes, discoverVars, sortVars>>
      BY <2>10 DEF EnterRoot, discoverVars
    <3>2. stack' \in Seq(Ids)
      <4>1. stack \in Seq(Ids)
        BY DEF TypeOK, DetectTypes
      <4>2. CASE Ids = visited
        BY <2>10, <4>1, <4>2 DEF EnterRoot
      <4>3. CASE Ids # visited
        <5>1. PICK root \in Ids : stack' = <<root>>
          BY <2>10, <4>3 DEF EnterRoot
        <5> QED
          BY <5>1
      <4> QED
        BY <4>2, <4>3
    <3>3. DetectTypes'
      BY <2>10, <3>1, <3>2 DEF EnterRoot, DetectTypes, TypeOK, Ids
    <3> QED
      BY <2>10, <3>1, <3>3, DiscoverUntouched, SortUntouched DEF EnterRoot, TypeOK
  <2>11. phase = "detect" /\ stack # <<>> =>
           /\ Len(stack) \in Nat \ {0}
           /\ Top \in Ids
           /\ next[Top] \in Nat \ {0}
           /\ edges[Top] \in Seq(Ids)
           /\ ~Explored => NextDep \in Ids
    <3> SUFFICES ASSUME phase = "detect", stack # <<>>
                 PROVE  /\ Len(stack) \in Nat \ {0}
                        /\ Top \in Ids
                        /\ next[Top] \in Nat \ {0}
                        /\ edges[Top] \in Seq(Ids)
                        /\ ~Explored => NextDep \in Ids
      OBVIOUS
    <3>1. Len(stack) \in Nat \ {0} /\ Top \in Ids
      BY EmptySeq, ElementOfSeq DEF TypeOK, DetectTypes, Top
    <3>2. next[Top] \in Nat \ {0}
      BY <3>1, ElementOfSeq DEF TypeOK, DetectTypes, Ids
    <3>3. edges[Top] \in Seq(Ids)
      BY <2>0, <3>1, ElementOfSeq DEF Ids
    <3>4. ~Explored => next[Top] \in 1 .. Len(edges[Top])
      BY <3>2, <3>3, LenProperties DEF Explored
    <3> QED
      BY <3>1, <3>2, <3>3, <3>4, ElementOfSeq DEF NextDep
  <2>12. CASE CloseCycle
    <3>1. UNCHANGED <<nodes, discoverVars, sortVars>>
      BY <2>12 DEF CloseCycle, discoverVars
    <3>2. PICK start \in 1 .. Len(stack) :
             cycle' = Append(SubSeq(stack, start, Len(stack)), NextDep)
      BY <2>12 DEF CloseCycle
    <3>3. SubSeq(stack, start, Len(stack)) \in Seq(Ids)
      <4>1. \A i \in start .. Len(stack) : stack[i] \in Ids
        BY <2>11, <2>12, ElementOfSeq DEF TypeOK, DetectTypes, CloseCycle
      <4> QED
        BY <2>11, <2>12, <4>1, SubSeqProperties DEF CloseCycle
    <3>4. cycle' \in Seq(Ids)
      BY <2>11, <2>12, <3>2, <3>3, AppendProperties DEF CloseCycle
    <3>5. DetectTypes'
      BY <2>12, <3>1, <3>4 DEF CloseCycle, DetectTypes, TypeOK, Ids
    <3> QED
      BY <2>12, <3>1, <3>5, DiscoverUntouched, SortUntouched DEF CloseCycle, TypeOK
  <2>13. CASE FollowDep
    <3>1. UNCHANGED <<nodes, discoverVars, sortVars>>
      BY <2>13 DEF FollowDep, discoverVars
    <3>2. stack' \in Seq(Ids)
      BY <2>11, <2>13, AppendProperties DEF FollowDep, TypeOK, DetectTypes
    <3>3. next' \in Seq(Nat \ {0}) /\ Len(next') = Len(nodes)
      <4>1. Top \in 1 .. Len(next) /\ next \in Seq(Nat \ {0}) /\ Len(next) = Len(nodes)
        BY <2>11, <2>13 DEF FollowDep, TypeOK, DetectTypes, Ids
      <4>2. next[Top] + 1 \in Nat \ {0}
        BY <2>11, <2>13 DEF FollowDep
      <4>3. next' = [next EXCEPT ![Top] = next[Top] + 1]
        BY <2>13 DEF FollowDep
      <4> QED
        BY <4>1, <4>2, <4>3, ExceptSeq
    <3>4. DetectTypes'
      BY <2>13, <3>1, <3>2, <3>3 DEF FollowDep, DetectTypes, TypeOK, Ids
    <3> QED
      BY <2>13, <3>1, <3>4, DiscoverUntouched, SortUntouched DEF FollowDep, TypeOK
  <2>14. CASE LeaveModule
    <3>1. UNCHANGED <<nodes, discoverVars, sortVars>>
      BY <2>14 DEF LeaveModule, discoverVars
    <3>2. stack' \in Seq(Ids)
      <4>1. \A i \in 1 .. Len(stack) - 1 : stack[i] \in Ids
        BY <2>11, <2>14, ElementOfSeq DEF LeaveModule, TypeOK, DetectTypes
      <4> QED
        BY <2>11, <2>14, <4>1, SubSeqProperties DEF LeaveModule
    <3>3. DetectTypes'
      BY <2>11, <2>14, <3>1, <3>2 DEF LeaveModule, DetectTypes, TypeOK, Ids
    <3> QED
      BY <2>14, <3>1, <3>3, DiscoverUntouched, SortUntouched DEF LeaveModule, TypeOK
  <2>15. CASE UNCHANGED vars
    <3>1. UNCHANGED <<imports, phase, outcome, nodes, discoverVars, sortVars, detectVars>>
      BY <2>15 DEF vars, discoverVars
    <3> QED
      BY <3>1, DiscoverUntouched, SortUntouched, DetectUntouched DEF TypeOK
  <2> QED
    BY <2>1, <2>2, <2>3, <2>4, <2>5, <2>6, <2>7, <2>8, <2>9, <2>10, <2>12, <2>13, <2>14, <2>15
       DEF Next, Discover, Sort, Detect
<1> QED
  BY <1>1, <1>2, PTL DEF Spec

-----------------------------------------------------------------------------
(* Elements and repetitions of sequences *)

LEMMA ElemsOfAppend ==
    ASSUME NEW S, NEW s \in Seq(S), NEW x \in S
    PROVE  /\ Elems(Append(s, x)) = Elems(s) \cup {x}
           /\ NoRepeats(s) /\ x \notin Elems(s) => NoRepeats(Append(s, x))
<1>1. /\ Len(Append(s, x)) = Len(s) + 1 /\ Len(s) \in Nat
      /\ \A i \in 1 .. Len(s) : Append(s, x)[i] = s[i]
      /\ Append(s, x)[Len(s) + 1] = x
  BY AppendProperties, LenProperties
<1> QED
  BY <1>1 DEF Elems, NoRepeats

LEMMA ElemsOfHeadTail ==
    ASSUME NEW S, NEW s \in Seq(S), s # <<>>
    PROVE  /\ Elems(s) = {Head(s)} \cup Elems(Tail(s))
           /\ NoRepeats(s) => NoRepeats(Tail(s)) /\ Head(s) \notin Elems(Tail(s))
<1>1. /\ Len(s) \in Nat \ {0} /\ Len(Tail(s)) = Len(s) - 1
      /\ \A i \in 1 .. Len(Tail(s)) : Tail(s)[i] = s[i + 1]
  BY EmptySeq, HeadTailProperties
<1>2. Head(s) = s[1]
  OBVIOUS
<1>3. Elems(s) \subseteq {Head(s)} \cup Elems(Tail(s))
  <2> SUFFICES ASSUME NEW i \in 1 .. Len(s), s[i] # Head(s)
               PROVE  s[i] \in Elems(Tail(s))
    BY DEF Elems
  <2>1. i - 1 \in 1 .. Len(Tail(s)) /\ Tail(s)[i - 1] = s[i]
    BY <1>1, <1>2
  <2> QED
    BY <2>1 DEF Elems
<1>4. {Head(s)} \cup Elems(Tail(s)) \subseteq Elems(s)
  BY <1>1, <1>2 DEF Elems
<1>5. NoRepeats(s) => NoRepeats(Tail(s)) /\ Head(s) \notin Elems(Tail(s))
  <2> SUFFICES ASSUME NoRepeats(s)
               PROVE  NoRepeats(Tail(s)) /\ Head(s) \notin Elems(Tail(s))
    OBVIOUS
  <2>1. NoRepeats(Tail(s))
    <3> SUFFICES ASSUME NEW i \in 1 .. Len(Tail(s)), NEW j \in 1 .. Len(Tail(s)),
                        Tail(s)[i] = Tail(s)[j]
                 PROVE  i = j
      BY DEF NoRepeats
    <3>1. i + 1 \in 1 .. Len(s) /\ j + 1 \in 1 .. Len(s) /\ s[i + 1] = s[j + 1]
      BY <1>1
    <3>2. i + 1 = j + 1
      BY <3>1 DEF NoRepeats
    <3> QED
      BY <3>2
  <2>2. Head(s) \notin Elems(Tail(s))
    <3> SUFFICES ASSUME NEW i \in 1 .. Len(Tail(s)), Tail(s)[i] = Head(s)
                 PROVE  FALSE
      BY DEF Elems
    <3>1. i + 1 \in 1 .. Len(s) /\ 1 \in 1 .. Len(s) /\ s[i + 1] = s[1]
      BY <1>1, <1>2
    <3>2. i + 1 = 1
      BY <3>1 DEF NoRepeats
    <3> QED
      BY <3>2
  <2> QED
    BY <2>1, <2>2
<1> QED
  BY <1>3, <1>4, <1>5

LEMMA ElemsOfConcat ==
    ASSUME NEW S, NEW s \in Seq(S), NEW t \in Seq(S)
    PROVE  /\ Elems(s \o t) = Elems(s) \cup Elems(t)
           /\ NoRepeats(s) /\ NoRepeats(t) /\ Elems(s) \cap Elems(t) = {} => NoRepeats(s \o t)
<1>1. /\ Len(s) \in Nat /\ Len(t) \in Nat /\ Len(s \o t) = Len(s) + Len(t)
      /\ \A i \in 1 .. Len(s) + Len(t) :
            (s \o t)[i] = IF i <= Len(s) THEN s[i] ELSE t[i - Len(s)]
  BY ConcatProperties, LenProperties
<1>2. \A i \in 1 .. Len(s) : i \in 1 .. Len(s \o t) /\ (s \o t)[i] = s[i]
  BY <1>1
<1>3. \A i \in 1 .. Len(t) : Len(s) + i \in 1 .. Len(s \o t) /\ (s \o t)[Len(s) + i] = t[i]
  BY <1>1
<1>4. \A i \in 1 .. Len(s \o t) :
         \/ i \in 1 .. Len(s) /\ (s \o t)[i] = s[i]
         \/ i - Len(s) \in 1 .. Len(t) /\ (s \o t)[i] = t[i - Len(s)]
  BY <1>1
<1>5. Elems(s \o t) \subseteq Elems(s) \cup Elems(t)
  BY <1>4 DEF Elems
<1>6. Elems(s) \cup Elems(t) \subseteq Elems(s \o t)
  BY <1>2, <1>3 DEF Elems
<1>7. ASSUME NoRepeats(s), NoRepeats(t), Elems(s) \cap Elems(t) = {},
             NEW i \in 1 .. Len(s \o t), NEW j \in 1 .. Len(s \o t), (s \o t)[i] = (s \o t)[j]
      PROVE  i = j
  <2>1. ASSUME NEW a \in 1 .. Len(s), NEW b \in 1 .. Len(t) PROVE s[a] # t[b]
    BY <1>7 DEF Elems
  <2>2. \/ i \in 1 .. Len(s) /\ j \in 1 .. Len(s) /\ s[i] = s[j]
        \/ i - Len(s) \in 1 .. Len(t) /\ j - Len(s) \in 1 .. Len(t) /\ t[i - Len(s)] = t[j - Len(s)]
    BY <1>4, <1>7, <2>1
  <2>3. i = j \/ i - Len(s) = j - Len(s)
    BY <2>2, <1>7 DEF NoRepeats
  <2> QED
    BY <2>3, <1>1
<1> QED
  BY <1>5, <1>6, <1>7 DEF NoRepeats

(* The imports listed without repetition are as many as the list is long.  *)
LEMMA LengthIsCardinality ==
    ASSUME NEW S, NEW s \in Seq(S), NoRepeats(s)
    PROVE  IsFiniteSet(Elems(s)) /\ Cardinality(Elems(s)) = Len(s)
<1>1. Len(s) \in Nat /\ s \in [1 .. Len(s) -> S]
  BY LenProperties
<1>2. s \in [1 .. Len(s) -> Elems(s)]
  BY <1>1 DEF Elems
<1>3. s \in Surjection(1 .. Len(s), Elems(s)) /\ s \in Injection(1 .. Len(s), Elems(s))
  BY <1>2 DEF Surjection, Injection, IsInjective, Elems, NoRepeats
<1>4. IsFiniteSet(1 .. Len(s)) /\ Cardinality(1 .. Len(s)) = Len(s)
  BY <1>1, FS_Interval
<1> QED
  BY <1>3, <1>4, FS_Surjection

-----------------------------------------------------------------------------
(* The loop of Kahn's sort *)

(* Popping a module keeps the counts right: it has no import left to wait  *)
(* for, and exactly the modules that import it wait for one import less.   *)
LEMMA PopKeepsCounts ==
    ASSUME TypeOK, SortInv, PopReady
    PROVE  ReadyExactlyAtZero' /\ DependencyFirst'
<1> DEFINE id == Head(ready)
           lowered == [other \in Ids |-> IF other \in Importers(id)
                                         THEN Decrement(indegree[other])
                                         ELSE indegree[other]]
           freed == {other \in Importers(id) : lowered[other] = 0}
<1>1. /\ phase = "sort" /\ ready # <<>> /\ order' = Append(order, id) /\ indegree' = lowered
      /\ UNCHANGED <<nodes, edges>>
  BY DEF PopReady, discoverVars
<1>2. PICK s \in Listings(freed) : ready' = Tail(ready) \o s
  BY DEF PopReady
<1>3. ReadyExactlyAtZero
  BY <1>1 DEF SortInv
<1>4. /\ nodes \in Seq(Files) /\ edges \in Seq(Seq(Ids)) /\ Len(edges) = Len(nodes)
      /\ ready \in Seq(Ids) /\ order \in Seq(Ids) /\ Len(nodes) \in Nat
  BY LenProperties DEF TypeOK, DiscoverTypes, SortTypes
<1>5. id \in Ids /\ Tail(ready) \in Seq(Ids)
  BY <1>1, <1>4, HeadTailProperties
<1>6. /\ Elems(ready) = {id} \cup Elems(Tail(ready))
      /\ NoRepeats(Tail(ready)) /\ id \notin Elems(Tail(ready))
  BY <1>1, <1>3, <1>4, ElemsOfHeadTail DEF ReadyExactlyAtZero
<1>7. id \notin Elems(order) /\ indegree[id] = 0
  BY <1>3, <1>5, <1>6 DEF ReadyExactlyAtZero
<1>8. Elems(order') = Elems(order) \cup {id} /\ NoRepeats(order')
  BY <1>1, <1>3, <1>4, <1>5, <1>7, ElemsOfAppend DEF ReadyExactlyAtZero
<1>9. \A other \in Ids : Deps(other)' = Deps(other) /\ Deps(other) \subseteq Ids
  <2> SUFFICES ASSUME NEW other \in Ids
               PROVE  Deps(other)' = Deps(other) /\ Deps(other) \subseteq Ids
    OBVIOUS
  <2>1. edges[other] \in Seq(Ids)
    BY <1>4, ElementOfSeq DEF Ids
  <2> QED
    BY <1>1, <2>1, ElementOfSeq DEF Deps, Elems
<1>10. \A other \in Ids : Waiting(other)' = Waiting(other) \ {id}
  BY <1>8, <1>9 DEF Waiting
<1>11. \A other \in Ids : IsFiniteSet(Waiting(other))
  BY <1>4, <1>9, IdsAreFinite DEF Waiting
<1>12. \A other \in Ids : other \in Importers(id) <=> id \in Waiting(other)
  BY <1>7 DEF Importers, Waiting
<1>13. \A other \in Ids : Cardinality(Waiting(other)) \in Nat
  BY <1>11, FS_CardinalityType
<1>14. \A other \in Importers(id) : other \in Ids /\ indegree[other] \in Nat \ {0}
  <2> SUFFICES ASSUME NEW other \in Importers(id)
               PROVE  other \in Ids /\ indegree[other] \in Nat \ {0}
    OBVIOUS
  <2>1. other \in Ids /\ Waiting(other) # {}
    BY <1>12 DEF Importers
  <2> QED
    BY <1>3, <1>11, <1>13, <2>1, FS_EmptySet DEF ReadyExactlyAtZero
<1>15. \A other \in Ids : indegree'[other] = Cardinality(Waiting(other)')
  <2> SUFFICES ASSUME NEW other \in Ids
               PROVE  lowered[other] = Cardinality(Waiting(other) \ {id})
    BY <1>1, <1>10
  <2>1. indegree[other] = Cardinality(Waiting(other))
    BY <1>3 DEF ReadyExactlyAtZero
  <2>2. Cardinality(Waiting(other) \ {id}) =
          IF id \in Waiting(other) THEN Cardinality(Waiting(other)) - 1
                                   ELSE Cardinality(Waiting(other))
    BY <1>11, FS_RemoveElement
  <2> QED
    BY <1>12, <1>14, <2>1, <2>2 DEF Decrement
<1>16. freed \subseteq Ids /\ IsFiniteSet(freed)
  BY <1>4, IdsAreFinite DEF Importers
<1>17. s \in Seq(Ids) /\ Elems(s) = freed /\ NoRepeats(s)
  BY <1>2, <1>16, ListingProperties, SeqWidens DEF NoRepeats
<1>18. freed \cap Elems(ready) = {} /\ freed \cap Elems(order) = {}
  BY <1>3, <1>14 DEF ReadyExactlyAtZero
<1>19. Elems(ready') = Elems(Tail(ready)) \cup freed /\ NoRepeats(ready')
  <2>1. Elems(Tail(ready)) \cap Elems(s) = {}
    BY <1>6, <1>17, <1>18
  <2>2. /\ Tail(ready) \in Seq(Ids) /\ NoRepeats(Tail(ready))
        /\ s \in Seq(Ids) /\ NoRepeats(s)
    BY <1>5, <1>6, <1>17
  <2>3. Elems(Tail(ready) \o s) = Elems(Tail(ready)) \cup Elems(s) /\ NoRepeats(Tail(ready) \o s)
    BY ONLY <2>1, <2>2, ElemsOfConcat, ZenonT(30)
  <2> QED
    BY <1>2, <1>17, <2>3
<1>20. Elems(order') \cap Elems(ready') = {}
  BY <1>3, <1>6, <1>8, <1>18, <1>19 DEF ReadyExactlyAtZero
<1>21. \A other \in Ids : indegree'[other] = 0 <=> other \in Elems(order') \cup Elems(ready')
  <2>1. Elems(order') \cup Elems(ready') = Elems(order) \cup Elems(ready) \cup freed
    BY <1>6, <1>8, <1>19
  <2> SUFFICES ASSUME NEW other \in Ids
               PROVE  lowered[other] = 0 <=> other \in Elems(order) \cup Elems(ready) \cup freed
    BY <1>1, <2>1
  <2>2. CASE other \in Importers(id)
    <3>1. other \notin Elems(order) \cup Elems(ready)
      BY <1>3, <1>14, <2>2 DEF ReadyExactlyAtZero
    <3> QED
      BY <2>2, <3>1
  <2>3. CASE other \notin Importers(id)
    BY <1>3, <2>3 DEF ReadyExactlyAtZero
  <2> QED
    BY <2>2, <2>3
<1>22. Ids' = Ids
  BY <1>1 DEF Ids
<1>23. ReadyExactlyAtZero'
  BY <1>8, <1>15, <1>19, <1>20, <1>21, <1>22 DEF ReadyExactlyAtZero, NoRepeats, Elems
<1>24. DependencyFirst'
  <2>1. Deps(id) \subseteq Elems(order)
    BY <1>3, <1>5, <1>7, <1>11, FS_EmptySet DEF ReadyExactlyAtZero, Waiting
  <2>2. /\ Len(order') = Len(order) + 1 /\ Len(order) \in Nat
        /\ \A i \in 1 .. Len(order) : order'[i] = order[i] /\ order[i] \in Ids
        /\ order'[Len(order) + 1] = id
    BY <1>1, <1>4, <1>5, AppendProperties, LenProperties, ElementOfSeq
  <2>0. edges' = edges
    BY <1>1
  <2> SUFFICES ASSUME NEW i \in 1 .. Len(order'), NEW dep \in Elems(edges[order'[i]])
               PROVE  \E j \in 1 .. i - 1 : order'[j] = dep
    BY <2>0 DEF DependencyFirst, Deps
  <2>3. CASE i \in 1 .. Len(order)
    <3>1. dep \in Deps(order[i])
      BY <1>1, <2>2, <2>3 DEF Deps
    <3>2. PICK j \in 1 .. i - 1 : order[j] = dep
      BY <2>3, <3>1 DEF SortInv, DependencyFirst
    <3> QED
      BY <2>2, <2>3, <3>2
  <2>4. CASE i = Len(order) + 1
    <3>1. dep \in Deps(id)
      BY <1>1, <2>2, <2>4 DEF Deps
    <3>2. PICK j \in 1 .. Len(order) : order[j] = dep
      BY <2>1, <3>1 DEF Elems
    <3> QED
      BY <2>2, <2>4, <3>2
  <2> QED
    BY <2>2, <2>3, <2>4
<1> QED
  BY <1>23, <1>24

(* When the sort stops short, the modules left over justify a cycle.       *)
LEMMA IncompleteSortLeavesCycle ==
    ASSUME TypeOK, ReadyExactlyAtZero, ready = <<>>, Len(order) # Len(nodes)
    PROVE  LET left == Ids \ Elems(order)
           IN  left # {} /\ \A id \in left : Deps(id) \cap left # {}
<1> DEFINE left == Ids \ Elems(order)
<1>1. /\ nodes \in Seq(Files) /\ edges \in Seq(Seq(Ids)) /\ Len(edges) = Len(nodes)
      /\ order \in Seq(Ids) /\ Len(nodes) \in Nat
  BY LenProperties DEF TypeOK, DiscoverTypes, SortTypes
<1>2. left # {}
  <2> SUFFICES ASSUME Ids \subseteq Elems(order) PROVE FALSE
    OBVIOUS
  <2>1. Elems(order) = Ids
    BY <1>1, ElementOfSeq DEF Elems
  <2>2. Cardinality(Elems(order)) = Len(order)
    BY <1>1, LengthIsCardinality DEF ReadyExactlyAtZero
  <2>3. \A n \in Nat : Cardinality(1 .. n) = n
    BY FS_Interval
  <2> QED
    BY <1>1, <2>1, <2>2, <2>3 DEF Ids
<1>3. ASSUME NEW id \in left PROVE Deps(id) \cap left # {}
  <2>1. Elems(ready) = {}
    BY DEF Elems
  <2>2. Cardinality(Waiting(id)) # 0
    BY <1>3, <2>1 DEF ReadyExactlyAtZero
  <2>3. Waiting(id) # {}
    BY <2>2, FS_EmptySet
  <2>4. Deps(id) \subseteq Ids
    <3>1. edges[id] \in Seq(Ids)
      BY <1>1, <1>3, ElementOfSeq DEF Ids
    <3> QED
      BY <3>1, ElementOfSeq DEF Deps, Elems
  <2> QED
    BY <2>3, <2>4 DEF Waiting
<1> QED
  BY <1>2, <1>3

(* The sort starts with right counts: nothing is ordered, and a module     *)
(* waits for each of its imports, which are listed once.                   *)
LEMMA BeginSortCounts ==
    ASSUME TypeOK, SortInv, BeginSort
    PROVE  ReadyExactlyAtZero'
<1> DEFINE zero == {id \in Ids : edges[id] = <<>>}
<1>1. /\ order = <<>> /\ order' = <<>> /\ UNCHANGED <<nodes, edges>>
      /\ indegree' = [id \in Ids |-> Len(edges[id])] /\ ready' \in Listings(zero)
  BY DEF BeginSort, SortInv, discoverVars
<1>2. /\ nodes \in Seq(Files) /\ edges \in Seq(Seq(Ids)) /\ Len(edges) = Len(nodes)
  BY DEF TypeOK, DiscoverTypes
<1>3. IsFiniteSet(zero)
  BY <1>2, IdsAreFinite
<1>4. ready' \in Seq(zero) /\ Elems(ready') = zero /\ NoRepeats(ready')
  BY <1>1, <1>3, ListingProperties DEF NoRepeats
<1>5. Elems(<<>>) = {} /\ NoRepeats(<<>>)
  BY DEF Elems, NoRepeats
<1>6. ASSUME NEW id \in Ids
      PROVE  /\ indegree'[id] = Cardinality(Waiting(id)')
             /\ indegree'[id] = 0 <=> id \in Elems(ready')
  <2>1. edges[id] \in Seq(Ids)
    BY <1>2, ElementOfSeq DEF Ids
  <2>2. NoRepeats(edges[id])
    BY DEF SortInv, ImportsListedOnce
  <2>3. Cardinality(Elems(edges[id])) = Len(edges[id])
    BY <2>1, <2>2, LengthIsCardinality
  <2>4. Waiting(id)' = Elems(edges[id])
    BY <1>1, <1>5 DEF Waiting, Deps
  <2>5. Len(edges[id]) = 0 <=> edges[id] = <<>>
    BY <2>1, EmptySeq
  <2> QED
    BY <1>1, <1>4, <2>3, <2>4, <2>5
<1>7. Ids' = Ids
  BY <1>1 DEF Ids
<1>8. Elems(order') = {} /\ NoRepeats(order')
  BY <1>1, <1>5
<1>9. NoRepeats(order)' /\ NoRepeats(ready)' /\ Elems(order)' = {} /\ Elems(ready)' = zero
  BY <1>4, <1>8 DEF NoRepeats, Elems
<1> QED
  BY <1>4, <1>6, <1>7, <1>9 DEF ReadyExactlyAtZero

(* A step that only resolves one more import keeps the list of discovered  *)
(* imports free of repetitions.                                            *)
LEMMA PushNewOnce ==
    ASSUME NEW S, NEW s \in Seq(S), NEW x \in S, NoRepeats(s)
    PROVE  NoRepeats(PushNew(s, x))
BY ElemsOfAppend DEF PushNew

(* Kahn's loop keeps its invariant. *)
THEOREM SortInvariant == Spec => []SortInv
<1>1. Init => SortInv
  <2> SUFFICES ASSUME Init PROVE SortInv
    OBVIOUS
  <2>1. order = <<>> /\ phase = "discover" /\ outcome = "none" /\ found = <<>>
    BY DEF Init
  <2>2. Ids = {1} /\ edges[1] = <<>>
    BY DEF Init, Ids
  <2> QED
    BY <2>1, <2>2 DEF SortInv, ImportsListedOnce, NoRepeats, DependencyFirst, CycleIsJustified
<1>2. TypeOK /\ SortInv /\ [Next]_vars => SortInv'
  <2> SUFFICES ASSUME TypeOK, SortInv, [Next]_vars PROVE SortInv'
    OBVIOUS
  <2>0. /\ nodes \in Seq(Files) /\ Len(nodes) \in Nat
        /\ edges \in Seq(Seq(Ids)) /\ Len(edges) = Len(nodes) /\ found \in Seq(Ids)
    BY LenProperties DEF TypeOK, DiscoverTypes
  <2>a. ASSUME UNCHANGED <<nodes, edges, found>> PROVE ImportsListedOnce'
    BY <2>a DEF SortInv, ImportsListedOnce, Ids
  <2>b. ASSUME UNCHANGED <<order, edges>> PROVE DependencyFirst'
    BY <2>b DEF SortInv, DependencyFirst, Deps
  <2>c. ASSUME UNCHANGED <<nodes, edges>>,
               phase' = "detect" \/ outcome' = "cycle" => phase = "detect" \/ outcome = "cycle"
        PROVE  CycleIsJustified'
    BY <2>c DEF SortInv, CycleIsJustified, Deps, Ids
  <2>d. ASSUME phase' = "discover", UNCHANGED <<order, outcome>>, phase = "discover"
        PROVE  DependencyFirst' /\ CycleIsJustified' /\ order' = <<>> /\ outcome' = "none"
    BY <2>d DEF SortInv, DependencyFirst, CycleIsJustified
  <2>1. CASE PopPending
    <3>1. found' = <<>> /\ UNCHANGED <<phase, order, outcome, nodes, edges>> /\ phase = "discover"
      BY <2>1 DEF PopPending, sortVars
    <3>2. ImportsListedOnce'
      BY <3>1 DEF SortInv, ImportsListedOnce, NoRepeats, Ids
    <3> QED
      BY <3>1, <3>2, <2>d DEF SortInv
  <2>2. CASE ImportUnresolved
    <3>1. /\ UNCHANGED <<nodes, edges, found, order>>
          /\ phase' = "done" /\ outcome' = "unresolved"
      BY <2>2 DEF ImportUnresolved, discoverVars, sortVars
    <3> QED
      BY <3>1, <2>a, <2>b, <2>c DEF SortInv
  <2>3. CASE ImportKnown
    <3>1. IdOf(Head(todo)) \in Ids
      BY <2>3 DEF ImportKnown, IdOf, Elems, Ids
    <3>2. NoRepeats(found')
      BY <2>0, <2>3, <3>1, PushNewOnce DEF ImportKnown, SortInv, ImportsListedOnce
    <3>3. UNCHANGED <<phase, order, outcome, nodes, edges>> /\ phase = "discover"
      BY <2>3 DEF ImportKnown, sortVars
    <3>4. ImportsListedOnce'
      BY <3>2, <3>3 DEF SortInv, ImportsListedOnce, NoRepeats, Ids
    <3> QED
      BY <3>3, <3>4, <2>d DEF SortInv
  <2>4. CASE ImportCreated
    <3>1. UNCHANGED <<phase, order, outcome>> /\ phase = "discover"
      BY <2>4 DEF ImportCreated, sortVars
    <3>2. /\ Len(nodes') = Len(nodes) + 1 /\ edges' = Append(edges, <<>>)
          /\ found' = PushNew(found, Len(nodes) + 1)
      BY <2>0, <2>4, AppendProperties DEF ImportCreated
    <3>3. \A id \in Ids' : id \in Ids \/ id = Len(edges) + 1
      BY <2>0, <3>2 DEF Ids
    <3>4. /\ \A id \in Ids : edges'[id] = edges[id]
          /\ edges'[Len(edges) + 1] = <<>>
      BY <2>0, <3>2, EmptySeq, AppendProperties DEF Ids
    <3>5. NoRepeats(found')
      <4>1. found \in Seq(1 .. Len(nodes) + 1)
        BY <2>0, SeqWidens DEF Ids
      <4> QED
        BY <2>0, <3>2, <4>1, PushNewOnce DEF SortInv, ImportsListedOnce
    <3>6. NoRepeats(<<>>)
      BY DEF NoRepeats
    <3>7. ImportsListedOnce'
      BY <3>3, <3>4, <3>5, <3>6 DEF SortInv, ImportsListedOnce, NoRepeats
    <3> QED
      BY <3>1, <3>7, <2>d DEF SortInv
  <2>5. CASE RecordEdges
    <3>1. UNCHANGED <<phase, order, outcome, nodes, found>> /\ phase = "discover"
      BY <2>5 DEF RecordEdges, sortVars
    <3>2. \A id \in Ids : edges'[id] = found \/ edges'[id] = edges[id]
      BY <2>0, <2>5 DEF RecordEdges, Ids
    <3>3. ImportsListedOnce'
      BY <3>1, <3>2 DEF SortInv, ImportsListedOnce, NoRepeats, Ids
    <3> QED
      BY <3>1, <3>3, <2>d DEF SortInv
  <2>6. CASE BeginSort
    <3>1. /\ UNCHANGED <<nodes, edges, found, order, outcome>>
          /\ phase = "discover" /\ phase' = "sort"
      BY <2>6 DEF BeginSort, discoverVars
    <3> QED
      BY <2>6, <3>1, <2>a, <2>b, <2>c, BeginSortCounts DEF SortInv
  <2>7. CASE PopReady
    <3>1. UNCHANGED <<nodes, edges, found, phase, outcome>> /\ phase = "sort"
      BY <2>7 DEF PopReady, discoverVars
    <3> QED
      BY <2>7, <3>1, <2>a, <2>c, PopKeepsCounts DEF SortInv
  <2>8. CASE SortComplete
    <3>1. /\ UNCHANGED <<nodes, edges, found, order>>
          /\ phase' = "done" /\ outcome' = "ok"
      BY <2>8 DEF SortComplete, discoverVars, sortVars
    <3> QED
      BY <3>1, <2>a, <2>b, <2>c DEF SortInv
  <2>9. CASE SortIncomplete
    <3>1. /\ UNCHANGED <<nodes, edges, found, order, outcome>>
          /\ phase = "sort" /\ phase' = "detect" /\ ready = <<>> /\ Len(order) # Len(nodes)
      BY <2>9 DEF SortIncomplete, discoverVars, sortVars
    <3>2. ReadyExactlyAtZero
      BY <3>1 DEF SortInv
    <3>3. \E left \in SUBSET Ids : left # {} /\ \A id \in left : Deps(id) \cap left # {}
      <4> DEFINE left == Ids \ Elems(order)
      <4>1. left # {} /\ \A id \in left : Deps(id) \cap left # {}
        BY <3>1, <3>2, IncompleteSortLeavesCycle
      <4> QED
        BY <4>1
    <3>4. CycleIsJustified'
      BY <3>1, <3>3 DEF CycleIsJustified, Deps, Ids
    <3> QED
      BY <3>1, <3>4, <2>a, <2>b DEF SortInv
  <2>10. CASE Detect
    <3>1. phase = "detect" /\ UNCHANGED <<nodes, edges, found, order>>
      BY <2>10 DEF Detect, EnterRoot, CloseCycle, FollowDep, LeaveModule, discoverVars, sortVars
    <3>2. phase' \in {"detect", "done"} /\ (phase' = "detect" => outcome' = outcome)
      BY <2>10, <3>1 DEF Detect, EnterRoot, CloseCycle, FollowDep, LeaveModule
    <3> QED
      BY <3>1, <3>2, <2>a, <2>b, <2>c DEF SortInv
  <2>11. CASE UNCHANGED vars
    <3>1. UNCHANGED <<nodes, edges, found, order, phase, outcome, indegree, ready>>
      BY <2>11 DEF vars, discoverVars, sortVars
    <3>2. ReadyExactlyAtZero => ReadyExactlyAtZero'
      BY <3>1 DEF ReadyExactlyAtZero, Waiting, Deps, Ids
    <3> QED
      BY <3>1, <3>2, <2>a, <2>b, <2>c DEF SortInv
  <2> QED
    BY <2>1, <2>2, <2>3, <2>4, <2>5, <2>6, <2>7, <2>8, <2>9, <2>10, <2>11
       DEF Next, Discover, Sort
<1> QED
  BY <1>1, <1>2, TypeCorrect, PTL DEF Spec

(* A module is ordered only after every module it imports, whatever the    *)
(* files import and in whatever order the hash maps are iterated.          *)
THEOREM DependenciesComeFirst == Spec => []DependencyFirst
BY SortInvariant, PTL DEF SortInv

(* The build reports a cycle only when a set of its modules import each    *)
(* other, so that no dependency-first order of them exists.                *)
THEOREM CyclesAreJustified == Spec => []CycleIsJustified
BY SortInvariant, PTL DEF SortInv

-----------------------------------------------------------------------------
(* Discovery *)

FilesOf(ids) == {nodes[id] : id \in ids}

(* Modules wait in `pending` once each; those that neither wait nor are    *)
(* looked at have their imports recorded, and the one looked at has found  *)
(* what is not left `todo`.                                                *)
DiscoverInv ==
    phase # "done" =>
        /\ \A i, j \in Ids : nodes[i] = nodes[j] => i = j
        /\ NoRepeats(pending) /\ current \notin Elems(pending)
        /\ \A id \in Ids \ (Elems(pending) \cup {current}) :
                FilesOf(Deps(id)) = Elems(imports[nodes[id]])
        /\ current # 0 => FilesOf(Elems(found)) \cup Elems(todo) = Elems(imports[nodes[current]])
        /\ phase # "discover" => current = 0 /\ pending = <<>>

LEMMA ElemsType ==
    ASSUME NEW S, NEW s \in Seq(S)
    PROVE  Elems(s) \subseteq S
BY ElementOfSeq DEF Elems

LEMMA ElemsOfPushNew ==
    ASSUME NEW S, NEW s \in Seq(S), NEW x \in S
    PROVE  Elems(PushNew(s, x)) = Elems(s) \cup {x}
BY ElemsOfAppend DEF PushNew

LEMMA SameFiles ==
    ASSUME UNCHANGED nodes, NEW S
    PROVE  {nodes'[id] : id \in S} = FilesOf(S)
BY DEF FilesOf

LEMMA SameElems ==
    ASSUME UNCHANGED edges, NEW id
    PROVE  Deps(id)' = Deps(id)
BY DEF Deps, Elems

LEMMA InitDiscovers == Init => DiscoverInv
<1> SUFFICES ASSUME Init PROVE DiscoverInv
  OBVIOUS
<1>1. Ids = {1} /\ Elems(pending) = {1} /\ current = 0 /\ phase = "discover"
  BY DEF Init, Ids, Elems
<1>2. NoRepeats(pending)
  BY DEF Init, NoRepeats
<1> QED
  BY <1>1, <1>2 DEF DiscoverInv

LEMMA DiscoverKept == TypeOK /\ DiscoverInv /\ [Next]_vars => DiscoverInv'
<1> SUFFICES ASSUME TypeOK, DiscoverInv, [Next]_vars, phase' # "done" PROVE DiscoverInv'
  BY DEF DiscoverInv
<1> DEFINE Entries == Files \cup {Unresolved}
<1>0. /\ nodes \in Seq(Files) /\ Len(nodes) \in Nat
      /\ edges \in Seq(Seq(Ids)) /\ Len(edges) = Len(nodes)
      /\ pending \in Seq(Ids) /\ found \in Seq(Ids) /\ todo \in Seq(Entries)
      /\ current \in 0 .. Len(nodes) /\ 0 \notin Ids
  BY LenProperties DEF TypeOK, DiscoverTypes, Ids
<1>1. CASE PopPending
  <2>1. /\ phase = "discover" /\ current = 0 /\ pending # <<>> /\ current' = Head(pending)
        /\ pending' = Tail(pending) /\ found' = <<>> /\ todo' = imports[nodes[Head(pending)]]
        /\ UNCHANGED <<imports, phase, nodes, edges>>
    BY <1>1 DEF PopPending
  <2>2. Elems(pending) = {current'} \cup Elems(pending') /\ NoRepeats(pending') /\ current' \notin Elems(pending')
    BY <1>0, <2>1, ElemsOfHeadTail DEF DiscoverInv
  <2>3. Elems(found') = {}
    BY <2>1 DEF Elems
  <2>4. Ids \ (Elems(pending') \cup {current'}) = Ids \ (Elems(pending) \cup {current})
    BY <1>0, <2>1, <2>2
  <2>5. FilesOf(Elems(found')) \cup Elems(todo') = Elems(imports'[nodes'[current']])
    BY <2>1, <2>3 DEF FilesOf
  <2>6. Ids' = Ids /\ Elems(found)' = Elems(found') /\ Elems(todo)' = Elems(todo') /\ Elems(pending)' = Elems(pending')
    BY <2>1 DEF Ids, Elems
  <2>7. \A S : FilesOf(S)' = FilesOf(S)
    BY <2>1, SameFiles DEF FilesOf
  <2>8. \A id \in Ids : Deps(id)' = Deps(id)
    BY <2>1, SameElems
  <2> QED
    BY <2>1, <2>2, <2>4, <2>5, <2>6, <2>7, <2>8 DEF DiscoverInv
<1>2. CASE ImportKnown
  <2> DEFINE id == IdOf(Head(todo))
  <2>1. /\ phase = "discover" /\ current # 0 /\ todo # <<>> /\ Head(todo) \in Elems(nodes)
        /\ found' = PushNew(found, id) /\ todo' = Tail(todo)
        /\ UNCHANGED <<imports, phase, nodes, edges, pending, current>>
    BY <1>2 DEF ImportKnown
  <2>2. id \in Ids /\ nodes[id] = Head(todo)
    BY <2>1 DEF IdOf, Elems, Ids
  <2> HIDE DEF id
  <2>3. Elems(found') = Elems(found) \cup {id} /\ Elems(todo) = {Head(todo)} \cup Elems(todo')
    BY <1>0, <2>1, <2>2, ElemsOfPushNew, ElemsOfHeadTail
  <2>4. FilesOf(Elems(found)) \cup Elems(todo) = FilesOf(Elems(found')) \cup Elems(todo')
    BY <2>2, <2>3 DEF FilesOf
  <2>5. Ids' = Ids /\ Elems(found)' = Elems(found') /\ Elems(todo)' = Elems(todo') /\ Elems(pending)' = Elems(pending')
    BY <2>1 DEF Ids, Elems
  <2>6. \A S : FilesOf(S)' = FilesOf(S)
    BY <2>1, SameFiles DEF FilesOf
  <2>7. \A i \in Ids : Deps(i)' = Deps(i)
    BY <2>1, SameElems
  <2> QED
    BY <2>1, <2>4, <2>5, <2>6, <2>7 DEF DiscoverInv
<1>3. CASE ImportCreated
  <2> DEFINE id == Len(nodes) + 1
             file == Head(todo)
  <2>1. /\ phase = "discover" /\ current # 0 /\ todo # <<>> /\ file \in Files \ Elems(nodes)
        /\ nodes' = Append(nodes, file) /\ edges' = Append(edges, <<>>) /\ pending' = Append(pending, id)
        /\ found' = PushNew(found, id) /\ todo' = Tail(todo)
        /\ UNCHANGED <<imports, phase, current>>
    BY <1>3 DEF ImportCreated
  <2>2. /\ Ids' = Ids \cup {id} /\ id \notin Ids /\ id # current
        /\ nodes'[id] = file /\ \A i \in Ids : nodes'[i] = nodes[i]
        /\ \A i \in Ids : edges'[i] = edges[i]
    <3>1. /\ Len(nodes') = id /\ nodes'[id] = file
          /\ \A i \in 1 .. Len(nodes) : nodes'[i] = nodes[i]
      BY <1>0, <2>1, AppendProperties
    <3>2. \A i \in 1 .. Len(edges) : edges'[i] = edges[i]
      BY <1>0, <2>1, AppendProperties
    <3> HIDE DEF file
    <3>3. Ids' = Ids \cup {id} /\ id \notin Ids /\ id # current
      BY <1>0, <3>1 DEF Ids
    <3> QED
      BY <1>0, <3>1, <3>2, <3>3 DEF Ids
  <2> HIDE DEF id, file
  <2>3. current \in Ids
    BY <1>0, <2>1 DEF Ids
  <2>4. \A S \in SUBSET Ids : FilesOf(S)' = FilesOf(S)
    <3> SUFFICES ASSUME NEW S \in SUBSET Ids PROVE {nodes'[i] : i \in S} = {nodes[i] : i \in S}
      BY DEF FilesOf
    <3> QED
      BY <2>2
  <2>5. pending \in Seq(Ids') /\ found \in Seq(Ids') /\ id \in Ids'
    BY <1>0, <2>2, SeqWidens
  <2>6. Elems(pending') = Elems(pending) \cup {id} /\ Elems(found') = Elems(found) \cup {id}
        /\ Elems(todo) = {file} \cup Elems(todo')
    BY <1>0, <2>1, <2>5, ElemsOfAppend, ElemsOfPushNew, ElemsOfHeadTail DEF file
  <2>7. Elems(pending) \subseteq Ids /\ Elems(found) \subseteq Ids
    BY <1>0, ElemsType
  <2>8. NoRepeats(pending') /\ current' \notin Elems(pending')
    BY <2>1, <2>2, <2>5, <2>6, <2>7, ElemsOfAppend DEF DiscoverInv
  <2>9. \A i, j \in Ids' : nodes'[i] = nodes'[j] => i = j
    <3>1. \A i \in Ids : nodes[i] # file
      BY <2>1 DEF Elems, Ids
    <3>2. \A i, j \in Ids : nodes[i] = nodes[j] => i = j
      BY <2>1 DEF DiscoverInv
    <3> SUFFICES ASSUME NEW i \in Ids', NEW j \in Ids', nodes'[i] = nodes'[j] PROVE i = j
      OBVIOUS
    <3> QED
      BY <2>2, <3>1, <3>2
  <2>10. \A i \in Ids' \ (Elems(pending') \cup {current'}) :
             FilesOf(Deps(i))' = Elems(imports'[nodes'[i]])
    <3> SUFFICES ASSUME NEW i \in Ids, i \notin Elems(pending) \cup {current}
                 PROVE  FilesOf(Deps(i))' = Elems(imports'[nodes'[i]])
      BY <2>1, <2>2, <2>6
    <3>1. Deps(i)' = Deps(i) /\ Deps(i) \subseteq Ids
      <4>1. edges[i] \in Seq(Ids)
        BY <1>0, ElementOfSeq DEF Ids
      <4> QED
        BY <2>2, <4>1, ElemsType DEF Deps, Elems
    <3>2. FilesOf(Deps(i)) = Elems(imports[nodes[i]])
      BY <2>1 DEF DiscoverInv
    <3>3. {nodes'[dep] : dep \in Deps(i)} = {nodes[dep] : dep \in Deps(i)}
      BY <2>2, <3>1
    <3> QED
      BY <2>1, <2>2, <3>1, <3>2, <3>3 DEF FilesOf
  <2>11. FilesOf(Elems(found))' \cup Elems(todo') = Elems(imports'[nodes'[current']])
    <3>1. FilesOf(Elems(found)) \cup Elems(todo) = Elems(imports[nodes[current]])
      BY <2>1 DEF DiscoverInv
    <3>2. {nodes'[i] : i \in Elems(found')} = {nodes[i] : i \in Elems(found)} \cup {file}
      BY <2>2, <2>6, <2>7
    <3>3. imports'[nodes'[current']] = imports[nodes[current]]
      BY <2>1, <2>2, <2>3
    <3>4. FilesOf(Elems(found))' = {nodes'[i] : i \in Elems(found')}
      BY DEF FilesOf, Elems
    <3>5. FilesOf(Elems(found)) = {nodes[i] : i \in Elems(found)}
      BY DEF FilesOf
    <3> QED
      BY <2>6, <3>1, <3>2, <3>3, <3>4, <3>5
  <2> QED
    BY <2>1, <2>8, <2>9, <2>10, <2>11 DEF DiscoverInv, Elems, FilesOf
<1>4. CASE RecordEdges
  <2>1. /\ phase = "discover" /\ current # 0 /\ todo = <<>> /\ current' = 0
        /\ edges' = [edges EXCEPT ![current] = found] /\ UNCHANGED <<imports, phase, nodes, pending>>
    BY <1>4 DEF RecordEdges
  <2>2. Elems(todo) = {} /\ current \in Ids /\ Elems(pending) \subseteq Ids
    BY <1>0, <2>1, ElemsType DEF Elems, Ids
  <2>3. FilesOf(Elems(found)) = Elems(imports[nodes[current]])
    BY <2>1, <2>2 DEF DiscoverInv
  <2>4. edges'[current] = found /\ \A i \in Ids \ {current} : edges'[i] = edges[i]
    BY <1>0, <2>1, <2>2 DEF Ids
  <2>5. ASSUME NEW i \in Ids, i \notin Elems(pending)
        PROVE  FilesOf(Deps(i))' = Elems(imports'[nodes'[i]])
    <3>0. \A S : FilesOf(S)' = FilesOf(S)
      BY <2>1, SameFiles DEF FilesOf
    <3>1. CASE i = current
      <4>1. Deps(i)' = Elems(found)
        BY <2>4, <3>1 DEF Deps, Elems
      <4> QED
        BY <2>1, <2>3, <3>0, <3>1, <4>1
    <3>2. CASE i # current
      <4>1. Deps(i)' = Deps(i)
        BY <2>4, <3>2 DEF Deps, Elems
      <4>2. FilesOf(Deps(i)) = Elems(imports[nodes[i]])
        BY <2>1, <2>5, <3>2 DEF DiscoverInv
      <4> QED
        BY <2>1, <3>0, <4>1, <4>2
    <3> QED
      BY <3>1, <3>2
  <2>6. Ids' = Ids /\ Elems(pending)' = Elems(pending) /\ 0 \notin Elems(pending)
    BY <1>0, <2>1, <2>2 DEF Ids, Elems
  <2> QED
    BY <2>1, <2>5, <2>6 DEF DiscoverInv
<1>5. ASSUME UNCHANGED <<imports, nodes, edges, pending, current, found, todo>>, phase # "done",
             phase' # "discover" => current = 0 /\ pending = <<>>
      PROVE  DiscoverInv'
  <2>1. Ids' = Ids /\ Elems(found)' = Elems(found') /\ Elems(todo)' = Elems(todo') /\ Elems(pending)' = Elems(pending')
    BY <1>5 DEF Ids, Elems
  <2>2. \A S : FilesOf(S)' = FilesOf(S)
    BY <1>5, SameFiles DEF FilesOf
  <2>3. \A i \in Ids : Deps(i)' = Deps(i)
    BY <1>5, SameElems
  <2> QED
    BY <1>5, <2>1, <2>2, <2>3 DEF DiscoverInv
<1>6. CASE BeginSort
  BY <1>5, <1>6 DEF BeginSort, discoverVars
<1>7. CASE PopReady \/ SortComplete \/ SortIncomplete \/ Detect
  <2>1. phase \in {"sort", "detect"} /\ UNCHANGED <<imports, discoverVars>>
    BY <1>7 DEF PopReady, SortComplete, SortIncomplete, Detect, EnterRoot, CloseCycle, FollowDep, LeaveModule
  <2> QED
    BY <1>5, <2>1 DEF discoverVars, DiscoverInv
<1>8. CASE UNCHANGED vars
  BY <1>5, <1>8 DEF vars, discoverVars, DiscoverInv
<1> QED
  BY <1>1, <1>2, <1>3, <1>4, <1>6, <1>7, <1>8 DEF Next, Discover, Sort, ImportUnresolved

(* When discovery is over, the edges of every module are the modules of    *)
(* its imports, each once, and every file has one module, whatever the     *)
(* files import, themselves and the same file twice included               *)
(* (ModuleGraph::build).                                                   *)
THEOREM GraphMatchesImports == Spec => []GraphIsFaithful
<1>1. Init => DiscoverInv
  BY InitDiscovers
<1>2. TypeOK /\ SortInv /\ DiscoverInv => GraphIsFaithful
  <2> SUFFICES ASSUME TypeOK, SortInv, DiscoverInv, phase \in {"sort", "detect"}, NEW id \in Ids
               PROVE  /\ FilesOf(Deps(id)) = Elems(imports[nodes[id]])
                      /\ Len(edges[id]) = Cardinality(Deps(id))
                      /\ \A other \in Ids : nodes[other] = nodes[id] => other = id
    BY DEF GraphIsFaithful, FilesOf
  <2>1. edges[id] \in Seq(Ids) /\ NoRepeats(edges[id])
    BY ElementOfSeq DEF TypeOK, DiscoverTypes, SortInv, ImportsListedOnce, Ids
  <2>2. Len(edges[id]) = Cardinality(Deps(id))
    BY <2>1, LengthIsCardinality DEF Deps
  <2>3. id \notin Elems(pending) \cup {current}
    BY DEF DiscoverInv, Elems, Ids
  <2> QED
    BY <2>2, <2>3 DEF DiscoverInv
<1> QED
  BY <1>1, <1>2, DiscoverKept, TypeCorrect, SortInvariant, PTL DEF Spec

-----------------------------------------------------------------------------
(* The contract *)

(* The entry is module 1, and a file is made a module only because a       *)
(* module imports it.                                                      *)
ReachInv ==
    /\ 1 \in Ids /\ nodes[1] = Entry
    /\ \A id \in Ids : nodes[id] \in Contract!Reachable

(* No answer is visible before the last step, and the search for cycles    *)
(* has nothing to show before it starts.                                   *)
AnswerInv ==
    /\ phase # "done" => outcome = "none" /\ cycle = <<>>
    /\ phase \in {"discover", "sort"} => stack = <<>> /\ visited = {}

(* The stack is a path: below the top, a module was left at the import     *)
(* that is the next one up.                                                *)
OnPath(i) ==
    /\ next[stack[i]] - 1 \in 1 .. Len(edges[stack[i]])
    /\ edges[stack[i]][next[stack[i]] - 1] = stack[i + 1]

(* The imports already followed are Visited, but for the one on the path.  *)
Followed(i) ==
    \A k \in 1 .. Len(edges[stack[i]]) :
        k < next[stack[i]] =>
            \/ edges[stack[i]][k] \in visited
            \/ i < Len(stack) /\ edges[stack[i]][k] = stack[i + 1]

StackInv ==
    /\ NoRepeats(stack)
    /\ Elems(stack) \cap visited = {}
    /\ \A i \in 1 .. Len(stack) - 1 : OnPath(i)
    /\ \A i \in 1 .. Len(stack) : Followed(i)
    /\ \A id \in Ids \ (visited \cup Elems(stack)) : next[id] = 1

(* A module is Visited after its imports, so no set of Visited modules     *)
(* import each other.                                                      *)
VisitedInv ==
    /\ \A id \in visited : Deps(id) \subseteq visited
    /\ \A S \in SUBSET visited : S # {} => \E id \in S : Deps(id) \cap S = {}

DetectInv == phase = "detect" => StackInv /\ VisitedInv

-----------------------------------------------------------------------------
(* What the contract reads of the graph *)

LEMMA RangeIsElems ==
    ASSUME NEW S, NEW s \in Seq(S)
    PROVE  Contract!SeqRange(s) = Elems(s)
BY DEF Contract!SeqRange, Elems

LEMMA FilesAtProperties ==
    ASSUME nodes \in Seq(Files), NEW ids \in Seq(Ids)
    PROVE  /\ FilesAt(ids) \in Seq(Files) /\ Len(FilesAt(ids)) = Len(ids)
           /\ DOMAIN FilesAt(ids) = 1 .. Len(ids)
           /\ \A i \in 1 .. Len(ids) : FilesAt(ids)[i] = nodes[ids[i]] /\ ids[i] \in Ids
           /\ Contract!SeqRange(FilesAt(ids)) = FilesOf(Elems(ids))
<1>1. Len(ids) \in Nat /\ \A i \in 1 .. Len(ids) : ids[i] \in Ids /\ nodes[ids[i]] \in Files
  BY LenProperties, ElementOfSeq DEF Ids
<1>2. FilesAt(ids) \in [1 .. Len(ids) -> Files]
  BY <1>1 DEF FilesAt
<1>3. FilesAt(ids) \in Seq(Files) /\ Len(FilesAt(ids)) = Len(ids)
  BY <1>1, <1>2
<1>4. Contract!SeqRange(FilesAt(ids)) = FilesOf(Elems(ids))
  BY <1>1 DEF Contract!SeqRange, FilesAt, FilesOf, Elems
<1> QED
  BY <1>1, <1>2, <1>3, <1>4 DEF FilesAt

LEMMA ImportsAreReachable ==
    ASSUME NEW f \in Contract!Reachable, NEW g \in Contract!ImportedFiles(f)
    PROVE  g \in Contract!Reachable
BY DEF Contract!Reachable, Contract!Closed, Contract!ImportedFiles

LEMMA SameReachable ==
    ASSUME UNCHANGED imports
    PROVE  /\ Contract!Reachable' = Contract!Reachable
           /\ \A f : Contract!ImportedFiles(f)' = Contract!ImportedFiles(f)
BY DEF Contract!Reachable, Contract!Closed, Contract!ImportedFiles, Contract!SeqRange

LEMMA NoAnswerYet ==
    ASSUME outcome = "none", cycle = <<>>
    PROVE  answer = Contract!NoAnswer
<1>1. Len(<<>>) = 0 /\ FilesAt(<<>>) = <<>>
  BY DEF FilesAt
<1> QED
  BY <1>1 DEF answer, Contract!NoAnswer

(* The imports of a module that is neither queued nor looked at are the    *)
(* files of its edges.                                                     *)
LEMMA EdgesAreImports ==
    ASSUME TypeOK, DiscoverInv, phase \in {"sort", "detect"}, NEW id \in Ids
    PROVE  /\ Deps(id) \subseteq Ids
           /\ FilesOf(Deps(id)) = Elems(imports[nodes[id]])
           /\ Contract!ImportedFiles(nodes[id]) = FilesOf(Deps(id))
<1>1. /\ nodes \in Seq(Files) /\ edges \in Seq(Seq(Ids)) /\ Len(edges) = Len(nodes)
      /\ imports \in [Files -> Seq(Files \cup {Unresolved})]
  BY DEF TypeOK, DiscoverTypes
<1>2. edges[id] \in Seq(Ids) /\ nodes[id] \in Files
  BY <1>1, ElementOfSeq DEF Ids
<1>3. Deps(id) \subseteq Ids
  BY <1>2, ElemsType DEF Deps
<1>4. id \notin Elems(pending) \cup {current}
  BY DEF DiscoverInv, Elems, Ids
<1>5. FilesOf(Deps(id)) = Elems(imports[nodes[id]])
  BY <1>4 DEF DiscoverInv
<1>6. FilesOf(Deps(id)) \subseteq Files
  BY <1>1, <1>3, ElementOfSeq DEF FilesOf, Ids
<1>7. Contract!ImportedFiles(nodes[id]) = Elems(imports[nodes[id]]) \cap Files
  BY <1>1, <1>2, RangeIsElems DEF Contract!ImportedFiles
<1> QED
  BY <1>3, <1>5, <1>6, <1>7

-----------------------------------------------------------------------------
(* Every module is reachable *)

LEMMA GraphOnlyGrows ==
    ASSUME [Next]_vars
    PROVE  /\ UNCHANGED imports
           /\ UNCHANGED nodes \/ ImportCreated
BY DEF Next, Discover, Sort, Detect, PopPending, ImportUnresolved, ImportKnown, RecordEdges,
       BeginSort, PopReady, SortComplete, SortIncomplete, EnterRoot, CloseCycle, FollowDep,
       LeaveModule, ImportCreated, vars, discoverVars

LEMMA ReachKept == TypeOK /\ DiscoverInv /\ ReachInv /\ [Next]_vars => ReachInv'
<1> SUFFICES ASSUME TypeOK, DiscoverInv, ReachInv, [Next]_vars PROVE ReachInv'
  OBVIOUS
<1>1. UNCHANGED imports /\ Contract!Reachable' = Contract!Reachable
  BY GraphOnlyGrows, SameReachable
<1>2. CASE UNCHANGED nodes
  BY <1>1, <1>2 DEF ReachInv, Ids
<1>3. CASE ImportCreated
  <2> DEFINE file == Head(todo)
  <2>1. /\ phase = "discover" /\ current # 0 /\ todo # <<>> /\ file \in Files
        /\ nodes' = Append(nodes, file)
    BY <1>3 DEF ImportCreated
  <2>2. /\ nodes \in Seq(Files) /\ Len(nodes) \in Nat /\ current \in Ids
        /\ todo \in Seq(Files \cup {Unresolved})
        /\ imports \in [Files -> Seq(Files \cup {Unresolved})]
    BY <2>1, LenProperties DEF TypeOK, DiscoverTypes, Ids
  <2>3. file \in Elems(todo)
    BY <2>1, <2>2, ElemsOfHeadTail
  <2>4. file \in Elems(imports[nodes[current]]) /\ nodes[current] \in Contract!Reachable
    BY <2>1, <2>2, <2>3 DEF DiscoverInv, ReachInv
  <2>5. nodes[current] \in Files
    BY <2>2, ElementOfSeq DEF Ids
  <2>6. file \in Contract!Reachable
    <3>1. file \in Contract!ImportedFiles(nodes[current])
      BY <2>1, <2>2, <2>4, <2>5, RangeIsElems DEF Contract!ImportedFiles
    <3> QED
      BY <2>4, <3>1, ImportsAreReachable
  <2>7. /\ Len(nodes') = Len(nodes) + 1 /\ nodes'[Len(nodes) + 1] = file
        /\ \A i \in 1 .. Len(nodes) : nodes'[i] = nodes[i]
    BY <2>1, <2>2, AppendProperties
  <2> HIDE DEF file
  <2>8. \A id \in Ids' : id \in Ids \/ id = Len(nodes) + 1
    <3>1. Len(nodes) \in Nat /\ Len(nodes') = Len(nodes) + 1
      BY <2>2, <2>7
    <3> QED
      BY ONLY <3>1 DEF Ids
  <2>9. \A id \in Ids : nodes'[id] = nodes[id] /\ id \in Ids'
    BY <2>2, <2>7 DEF Ids
  <2>10. \A id \in Ids' : nodes'[id] \in Contract!Reachable
    BY <2>6, <2>7, <2>8, <2>9 DEF ReachInv
  <2> QED
    BY <1>1, <2>9, <2>10 DEF ReachInv
<1> QED
  BY <1>2, <1>3, GraphOnlyGrows

-----------------------------------------------------------------------------
(* The search for a cycle *)

LEMMA AnswerKept == AnswerInv /\ [Next]_vars => AnswerInv'
BY DEF AnswerInv, Next, Discover, Sort, Detect, PopPending, ImportUnresolved, ImportKnown,
       ImportCreated, RecordEdges, BeginSort, PopReady, SortComplete, SortIncomplete, EnterRoot,
       CloseCycle, FollowDep, LeaveModule, vars, detectVars

LEMMA DetectTypeFacts ==
    ASSUME TypeOK, phase = "detect"
    PROVE  /\ nodes \in Seq(Files) /\ edges \in Seq(Seq(Ids)) /\ Len(edges) = Len(nodes)
           /\ stack \in Seq(Ids) /\ Len(stack) \in Nat /\ visited \subseteq Ids
           /\ \A i \in 1 .. Len(stack) : stack[i] \in Ids
           /\ \A id \in Ids : /\ next[id] \in Nat \ {0}
                              /\ edges[id] \in Seq(Ids)
                              /\ Deps(id) \subseteq Ids
           /\ DOMAIN next = Ids
           /\ stack # <<>> => /\ Len(stack) > 0 /\ Top \in Ids /\ Top \in Elems(stack)
                              /\ ~Explored => /\ next[Top] \in 1 .. Len(edges[Top])
                                             /\ NextDep \in Deps(Top)
<1>1. /\ nodes \in Seq(Files) /\ edges \in Seq(Seq(Ids)) /\ Len(edges) = Len(nodes)
      /\ stack \in Seq(Ids) /\ Len(stack) \in Nat /\ visited \subseteq Ids
      /\ next \in Seq(Nat \ {0}) /\ Len(next) = Len(nodes)
  BY LenProperties DEF TypeOK, DiscoverTypes, DetectTypes
<1>2. \A id \in Ids : next[id] \in Nat \ {0} /\ edges[id] \in Seq(Ids)
  BY <1>1, ElementOfSeq DEF Ids
<1>3. \A id \in Ids : Deps(id) \subseteq Ids
  BY <1>2, ElemsType DEF Deps
<1>4. \A i \in 1 .. Len(stack) : stack[i] \in Ids
  BY <1>1, ElementOfSeq
<1>5. stack # <<>> => Len(stack) > 0 /\ Top \in Ids /\ Top \in Elems(stack)
  BY <1>1, <1>4, EmptySeq DEF Top, Elems
<1>6. ASSUME stack # <<>>, ~Explored
      PROVE  next[Top] \in 1 .. Len(edges[Top]) /\ NextDep \in Deps(Top)
  <2>1. Len(edges[Top]) \in Nat /\ next[Top] \in Nat \ {0}
    BY <1>2, <1>5, <1>6, LenProperties
  <2> QED
    BY <1>6, <2>1 DEF Explored, NextDep, Deps, Elems
<1>7. DOMAIN next = Ids
  BY <1>1 DEF Ids
<1> QED
  BY <1>1, <1>2, <1>3, <1>4, <1>5, <1>6, <1>7

(* An import off the path that is not Visited is searched next: it has     *)
(* followed no import yet.                                                 *)
LEMMA FollowKeepsPath ==
    ASSUME TypeOK, DetectInv, FollowDep
    PROVE  StackInv' /\ VisitedInv'
<1> PICK n : n = Len(stack)
  OBVIOUS
<1>1. /\ phase = "detect" /\ stack # <<>> /\ ~Explored /\ NextDep \notin Elems(stack)
      /\ next' = [next EXCEPT ![Top] = next[Top] + 1]
      /\ stack' = IF NextDep \in visited THEN stack ELSE Append(stack, NextDep)
      /\ UNCHANGED <<nodes, edges, visited>>
  BY DEF FollowDep, discoverVars
<1>2. StackInv /\ VisitedInv
  BY <1>1 DEF DetectInv
<1>3. /\ stack \in Seq(Ids) /\ n \in Nat \ {0} /\ Top \in Ids /\ Top = stack[n]
      /\ \A i \in 1 .. n : stack[i] \in Ids
      /\ \A id \in Ids : next[id] \in Nat \ {0} /\ Len(edges[id]) \in Nat
      /\ next[Top] \in 1 .. Len(edges[Top]) /\ NextDep \in Ids
  BY <1>1, DetectTypeFacts, LenProperties DEF Top
<1>4. next'[Top] = next[Top] + 1 /\ \A id \in Ids \ {Top} : next'[id] = next[id]
  BY <1>1, <1>3, DetectTypeFacts
<1>5. \A i \in 1 .. n - 1 : stack[i] # Top
  BY <1>2, <1>3 DEF StackInv, NoRepeats
<1>6. VisitedInv'
  BY <1>1, <1>2 DEF VisitedInv, Deps
<1>7. Ids' = Ids
  BY <1>1 DEF Ids
<1>8. \A i \in 1 .. n - 1 :
         /\ next'[stack[i]] - 1 \in 1 .. Len(edges[stack[i]])
         /\ edges[stack[i]][next'[stack[i]] - 1] = stack[i + 1]
         /\ \A k \in 1 .. Len(edges[stack[i]]) :
               k < next'[stack[i]] => edges[stack[i]][k] \in visited \cup {stack[i + 1]}
  <2> SUFFICES ASSUME NEW i \in 1 .. n - 1
               PROVE  /\ next'[stack[i]] - 1 \in 1 .. Len(edges[stack[i]])
                      /\ edges[stack[i]][next'[stack[i]] - 1] = stack[i + 1]
                      /\ \A k \in 1 .. Len(edges[stack[i]]) :
                            k < next'[stack[i]] => edges[stack[i]][k] \in visited \cup {stack[i + 1]}
    OBVIOUS
  <2>1. i \in 1 .. n /\ next'[stack[i]] = next[stack[i]]
    BY <1>3, <1>4, <1>5
  <2>2. OnPath(i) /\ Followed(i)
    BY <1>2, <2>1 DEF StackInv
  <2> QED
    BY <2>1, <2>2 DEF OnPath, Followed
<1>9. \A k \in 1 .. Len(edges[Top]) :
         k < next'[Top] => edges[Top][k] \in visited \cup {NextDep}
  <2>1. Followed(n)
    BY <1>2, <1>3 DEF StackInv
  <2> SUFFICES ASSUME NEW k \in 1 .. Len(edges[Top]), k < next'[Top]
               PROVE  edges[Top][k] \in visited \cup {NextDep}
    OBVIOUS
  <2>2. k < next[Top] \/ k = next[Top]
    BY <1>3, <1>4
  <2> QED
    BY <1>3, <2>1, <2>2 DEF Followed, NextDep
<1>10. next'[Top] - 1 = next[Top] /\ edges[Top][next'[Top] - 1] = NextDep
  BY <1>3, <1>4 DEF NextDep
<1>11. CASE NextDep \in visited
  <2>1. stack' = stack /\ Len(stack) = n
    BY <1>1, <1>11
  <2>2. \A i \in 1 .. n - 1 : OnPath(i)'
    BY <1>1, <1>8, <2>1 DEF OnPath
  <2>3. \A i \in 1 .. n - 1 : Followed(i)'
    BY <1>1, <1>3, <1>8, <2>1 DEF Followed
  <2>4. Followed(n)'
    BY <1>1, <1>3, <1>9, <1>11, <2>1 DEF Followed
  <2>5. \A i \in 1 .. n : Followed(i)'
    BY <1>3, <2>3, <2>4
  <2>6. \A id \in Ids \ (visited \cup Elems(stack)) : next'[id] = 1
    <3>1. Top \in Elems(stack)
      BY <1>3, <2>1 DEF Elems
    <3> QED
      BY <1>2, <1>4, <3>1 DEF StackInv
  <2>7. NoRepeats(stack)' /\ (Elems(stack) \cap visited)' = {} /\ Elems(stack)' = Elems(stack)
    BY <1>1, <1>2, <2>1 DEF StackInv, NoRepeats, Elems
  <2>8. StackInv'
    BY <1>1, <1>7, <2>1, <2>2, <2>5, <2>6, <2>7 DEF StackInv
  <2> QED
    BY <1>6, <2>8
<1>12. CASE NextDep \notin visited
  <2>1. stack' = Append(stack, NextDep) /\ Len(stack) = n
    BY <1>1, <1>12
  <2>2. Elems(stack') = Elems(stack) \cup {NextDep} /\ NoRepeats(stack')
    BY <1>1, <1>2, <1>3, <2>1, ElemsOfAppend DEF StackInv
  <2>3. /\ Len(stack') = n + 1 /\ stack'[n + 1] = NextDep
        /\ \A i \in 1 .. n : stack'[i] = stack[i]
    BY <1>3, <2>1, AppendProperties
  <2>4. \A i \in 1 .. n - 1 : OnPath(i)' /\ Followed(i)'
    <3> SUFFICES ASSUME NEW i \in 1 .. n - 1 PROVE OnPath(i)' /\ Followed(i)'
      OBVIOUS
    <3>1. stack'[i] = stack[i] /\ stack'[i + 1] = stack[i + 1] /\ i < Len(stack')
      BY <1>3, <2>3
    <3> QED
      BY <1>1, <1>8, <3>1 DEF OnPath, Followed
  <2>5. OnPath(n)' /\ Followed(n)'
    <3>1. stack'[n] = Top /\ stack'[n + 1] = NextDep /\ n < Len(stack')
      BY <1>3, <2>3
    <3> QED
      BY <1>1, <1>3, <1>9, <1>10, <3>1 DEF OnPath, Followed
  <2>6. next[NextDep] = 1 /\ NextDep # Top
    <3>1. Top \in Elems(stack)
      BY <1>3, <2>1 DEF Elems
    <3> QED
      BY <1>1, <1>2, <1>3, <1>12, <3>1 DEF StackInv
  <2>7. Followed(n + 1)'
    <3>1. next'[stack'[n + 1]] = 1
      BY <1>3, <1>4, <2>3, <2>6
    <3> QED
      BY <3>1 DEF Followed
  <2>8. \A i \in 1 .. n + 1 : i \in 1 .. n - 1 \/ i = n \/ i = n + 1
    BY <1>3
  <2>9. /\ \A i \in 1 .. Len(stack') - 1 : OnPath(i)'
        /\ \A i \in 1 .. Len(stack') : Followed(i)'
    BY <1>3, <2>3, <2>4, <2>5, <2>7, <2>8
  <2>10. \A id \in Ids \ (visited \cup Elems(stack')) : next'[id] = 1
    <3>1. Top \in Elems(stack)
      BY <1>3, <2>1 DEF Elems
    <3> QED
      BY <1>2, <1>4, <2>2, <3>1 DEF StackInv
  <2>11. NoRepeats(stack)' /\ Elems(stack)' \cap visited' = {} /\ Elems(stack)' = Elems(stack')
    <3>1. Elems(stack)' = Elems(stack') /\ NoRepeats(stack)' = NoRepeats(stack')
      BY DEF Elems, NoRepeats
    <3> QED
      BY <1>1, <1>2, <1>12, <2>2, <3>1 DEF StackInv
  <2>12. StackInv'
    BY <1>1, <1>7, <2>9, <2>10, <2>11 DEF StackInv
  <2> QED
    BY <1>6, <2>12
<1> QED
  BY <1>11, <1>12

(* A module becomes Visited when all its imports are, so it adds no cycle. *)
LEMMA LeaveKeepsPath ==
    ASSUME TypeOK, DetectInv, LeaveModule
    PROVE  StackInv' /\ VisitedInv'
<1> PICK n : n = Len(stack)
  OBVIOUS
<1>1. /\ phase = "detect" /\ stack # <<>> /\ Explored /\ visited' = visited \cup {Top}
      /\ stack' = SubSeq(stack, 1, n - 1) /\ UNCHANGED <<nodes, edges, next>>
  BY DEF LeaveModule, discoverVars
<1>2. StackInv /\ VisitedInv
  BY <1>1 DEF DetectInv
<1>3. /\ stack \in Seq(Ids) /\ n \in Nat \ {0} /\ Top \in Ids /\ Top = stack[n]
      /\ \A i \in 1 .. n : stack[i] \in Ids
      /\ next[Top] \in Nat \ {0} /\ Len(edges[Top]) \in Nat /\ Top \in Elems(stack)
      /\ next[Top] > Len(edges[Top])
  BY <1>1, DetectTypeFacts, LenProperties DEF Top, Explored
<1>4. Len(stack') = n - 1 /\ \A i \in 1 .. n - 1 : stack'[i] = stack[i]
  <2>1. \A i \in 1 .. n - 1 : stack[i] \in Ids
    BY <1>3
  <2> QED
    BY <1>1, <1>3, <2>1, SubSeqProperties
<1>5. Top \notin visited /\ \A i \in 1 .. n - 1 : stack[i] # Top
  BY <1>2, <1>3 DEF StackInv, NoRepeats
<1>6. Deps(Top) \subseteq visited
  <2>1. Followed(n)
    BY <1>2, <1>3 DEF StackInv
  <2>2. \A k \in 1 .. Len(edges[Top]) : edges[Top][k] \in visited
    BY <1>3, <2>1 DEF Followed
  <2> QED
    BY <2>2 DEF Deps, Elems
<1>7. Elems(stack) = Elems(stack)' \cup {Top} /\ Top \notin Elems(stack)'
  <2>1. Elems(stack)' = {stack[i] : i \in 1 .. n - 1}
    BY <1>4 DEF Elems
  <2>2. \A i \in 1 .. n : i \in 1 .. n - 1 \/ i = n
    BY <1>3
  <2>3. n \in 1 .. n /\ \A i \in 1 .. n - 1 : i \in 1 .. n
    BY <1>3
  <2> QED
    BY <1>3, <1>5, <2>1, <2>2, <2>3 DEF Elems
<1>8. StackInv'
  <2>1. NoRepeats(stack)'
    <3>1. \A i \in 1 .. n - 1 : i \in 1 .. n
      BY <1>3
    <3> QED
      BY <1>2, <1>4, <3>1 DEF StackInv, NoRepeats
  <2>2. (Elems(stack) \cap visited)' = {}
    BY <1>1, <1>2, <1>7 DEF StackInv
  <2>3. \A i \in 1 .. n - 1 : OnPath(i) /\ Followed(i)
    BY <1>2, <1>3 DEF StackInv
  <2>4. \A i \in 1 .. n - 2 : OnPath(i)' /\ Followed(i)'
    <3> SUFFICES ASSUME NEW i \in 1 .. n - 2 PROVE OnPath(i)' /\ Followed(i)'
      OBVIOUS
    <3>1. stack'[i] = stack[i] /\ stack'[i + 1] = stack[i + 1] /\ i < Len(stack')
      BY <1>3, <1>4
    <3>2. OnPath(i) /\ Followed(i)
      BY <1>3, <2>3
    <3> QED
      BY <1>1, <3>1, <3>2 DEF OnPath, Followed
  <2>5. ASSUME n - 1 \in 1 .. n PROVE Followed(n - 1)'
    <3>1. stack'[n - 1] = stack[n - 1] /\ stack[n] = Top
      BY <1>3, <1>4, <2>5
    <3>2. Followed(n - 1)
      BY <1>3, <2>3, <2>5
    <3>3. (n - 1) + 1 = n
      BY <1>3
    <3>4. \A k \in 1 .. Len(edges[stack[n - 1]]) :
             k < next[stack[n - 1]] => edges[stack[n - 1]][k] \in visited \cup {Top}
      BY <3>1, <3>2, <3>3 DEF Followed
    <3> QED
      BY <1>1, <3>1, <3>4 DEF Followed
  <2>6. \A i \in 1 .. n - 1 : i \in 1 .. n - 2 \/ (i = n - 1 /\ n - 1 \in 1 .. n)
    BY <1>3
  <2>7. /\ \A i \in 1 .. Len(stack') - 1 : OnPath(i)'
        /\ \A i \in 1 .. Len(stack') : Followed(i)'
    <3>1. \A i \in 1 .. n - 1 : Followed(i)'
      BY <2>4, <2>5, <2>6
    <3>2. Len(stack') = n - 1 /\ (n - 1) - 1 = n - 2
      BY <1>3, <1>4
    <3> QED
      BY <2>4, <3>1, <3>2
  <2>8. \A id \in Ids' \ (visited' \cup Elems(stack)') : next'[id] = 1
    BY <1>1, <1>2, <1>7 DEF StackInv, Ids
  <2> QED
    BY <2>1, <2>2, <2>7, <2>8 DEF StackInv
<1>9. VisitedInv'
  <2>1. \A id : Deps(id)' = Deps(id)
    BY <1>1, SameElems
  <2>2. \A id \in visited : Deps(id) \subseteq visited
    BY <1>2 DEF VisitedInv
  <2>3. ASSUME NEW S \in SUBSET visited', S # {}
        PROVE  \E id \in S : Deps(id) \cap S = {}
    <3> DEFINE R == S \ {Top}
    <3>1. CASE R = {}
      <4>1. S = {Top}
        BY <2>3, <3>1
      <4> QED
        BY <1>5, <1>6, <4>1
    <3>2. CASE R # {}
      <4>1. R \in SUBSET visited
        BY <1>1
      <4>2. PICK id \in R : Deps(id) \cap R = {}
        BY <1>2, <3>2, <4>1 DEF VisitedInv
      <4>3. Deps(id) \subseteq visited
        BY <2>2, <4>1, <4>2
      <4> QED
        BY <1>5, <4>2, <4>3
    <3> QED
      BY <3>1, <3>2
  <2> QED
    BY <1>1, <1>6, <2>1, <2>2, <2>3 DEF VisitedInv
<1> QED
  BY <1>8, <1>9

LEMMA DetectKept == TypeOK /\ AnswerInv /\ DetectInv /\ [Next]_vars => DetectInv'
<1> SUFFICES ASSUME TypeOK, AnswerInv, DetectInv, [Next]_vars, phase' = "detect"
             PROVE  StackInv' /\ VisitedInv'
  BY DEF DetectInv
<1>1. CASE SortIncomplete
  <2>1. /\ phase = "sort" /\ next' = [id \in Ids |-> 1]
        /\ UNCHANGED <<nodes, stack, visited>>
    BY <1>1 DEF SortIncomplete, discoverVars
  <2>2. stack' = <<>> /\ visited' = {} /\ Ids' = Ids
    BY <2>1 DEF AnswerInv, Ids
  <2>3. NoRepeats(stack)' /\ Elems(stack)' = {} /\ Len(stack') = 0
    BY <2>2 DEF NoRepeats, Elems
  <2> QED
    BY <2>1, <2>2, <2>3 DEF StackInv, VisitedInv
<1>2. CASE EnterRoot
  <2>1. /\ phase = "detect" /\ stack = <<>> /\ UNCHANGED <<nodes, edges, next, visited>>
        /\ \E root \in Ids \ visited : stack' = <<root>>
    BY <1>2 DEF EnterRoot, discoverVars
  <2>2. StackInv /\ VisitedInv
    BY <2>1 DEF DetectInv
  <2>3. PICK root \in Ids \ visited : stack' = <<root>>
    BY <2>1
  <2>4. Len(stack') = 1 /\ stack'[1] = root
    BY <2>3
  <2>5. Elems(stack)' = {root} /\ NoRepeats(stack)' /\ Elems(stack) = {}
    BY <2>1, <2>4 DEF Elems, NoRepeats
  <2>6. next[root] = 1
    BY <2>2, <2>3, <2>5 DEF StackInv
  <2>7. Followed(1)'
    BY <2>1, <2>4, <2>6 DEF Followed
  <2>8. StackInv'
    BY <2>1, <2>2, <2>3, <2>4, <2>5, <2>7 DEF StackInv, Ids
  <2>9. VisitedInv'
    BY <2>1, <2>2 DEF VisitedInv, Deps
  <2> QED
    BY <2>8, <2>9
<1>3. CASE UNCHANGED vars
  <2>1. phase = "detect" /\ UNCHANGED <<nodes, edges, stack, next, visited>>
    BY <1>3 DEF vars, discoverVars, detectVars
  <2>2. StackInv'
    BY <2>1 DEF DetectInv, StackInv, NoRepeats, Elems, OnPath, Followed, Ids
  <2>3. VisitedInv'
    BY <2>1 DEF DetectInv, VisitedInv, Deps
  <2> QED
    BY <2>2, <2>3
<1> QED
  BY <1>1, <1>2, <1>3, FollowKeepsPath, LeaveKeepsPath
     DEF Next, Discover, Sort, Detect, PopPending, ImportUnresolved, ImportKnown, ImportCreated,
         RecordEdges, BeginSort, PopReady, SortComplete, CloseCycle

-----------------------------------------------------------------------------
(* The answers *)

(* A complete order holds every module once, and every file it reaches.    *)
LEMMA OrderIsAnswer ==
    ASSUME TypeOK, SortInv, DiscoverInv, ReachInv, AnswerInv, SortComplete
    PROVE  Contract!Ordered(answer')
<1>1. /\ phase = "sort" /\ Len(order) = Len(nodes) /\ outcome' = "ok"
      /\ UNCHANGED <<imports, nodes, edges, order, cycle>>
  BY DEF SortComplete, discoverVars, sortVars, detectVars
<1>2. /\ nodes \in Seq(Files) /\ Len(nodes) \in Nat /\ order \in Seq(Ids) /\ NoRepeats(order)
      /\ cycle = <<>> /\ imports \in [Files -> Seq(Files \cup {Unresolved})]
  BY <1>1, LenProperties DEF TypeOK, DiscoverTypes, SortTypes, SortInv, ReadyExactlyAtZero, AnswerInv
<1> DEFINE files == FilesAt(order)
<1>3. /\ answer'.kind = "ok" /\ answer'.order = files /\ answer'.cycle = <<>>
  BY <1>1, <1>2 DEF answer, FilesAt
<1>4. /\ DOMAIN files = 1 .. Len(order) /\ files \in Seq(Files)
      /\ \A i \in 1 .. Len(order) : files[i] = nodes[order[i]] /\ order[i] \in Ids
      /\ Contract!SeqRange(files) = FilesOf(Elems(order))
  BY <1>2, FilesAtProperties
<1> HIDE DEF files
<1>5. Elems(order) = Ids
  <2>1. IsFiniteSet(Ids) /\ Cardinality(Ids) = Len(nodes)
    <3>1. \A n \in Nat : IsFiniteSet(1 .. n) /\ Cardinality(1 .. n) = n
      BY FS_Interval
    <3> QED
      BY <1>2, <3>1 DEF Ids
  <2>2. Elems(order) \subseteq Ids /\ Cardinality(Elems(order)) = Len(nodes)
    BY <1>1, <1>2, ElemsType, LengthIsCardinality
  <2> QED
    BY <2>1, <2>2, FS_Subset
<1>6. \A i, j \in Ids : nodes[i] = nodes[j] => i = j
  BY <1>1 DEF DiscoverInv
<1>7. Contract!SeqRange(files) = Contract!Reachable
  <2>1. FilesOf(Ids) \subseteq Contract!Reachable
    BY DEF FilesOf, ReachInv
  <2>2. Entry \in FilesOf(Ids) /\ FilesOf(Ids) \in SUBSET Files
    BY <1>2, ElementOfSeq DEF FilesOf, ReachInv, Ids
  <2>3. Contract!Closed(FilesOf(Ids))
    <3> SUFFICES ASSUME NEW id \in Ids PROVE Contract!ImportedFiles(nodes[id]) \subseteq FilesOf(Ids)
      BY DEF Contract!Closed, FilesOf
    <3>1. Deps(id) \subseteq Ids /\ Contract!ImportedFiles(nodes[id]) = FilesOf(Deps(id))
      BY <1>1, EdgesAreImports
    <3> QED
      BY <3>1 DEF FilesOf
  <2>4. Contract!Reachable \subseteq FilesOf(Ids)
    BY <2>2, <2>3 DEF Contract!Reachable
  <2> QED
    BY <1>4, <1>5, <2>1, <2>4
<1>8. \A i, j \in DOMAIN files : files[i] = files[j] => i = j
  <2>1. ASSUME NEW i \in 1 .. Len(order), NEW j \in 1 .. Len(order), files[i] = files[j]
        PROVE  i = j
    <3>1. order[i] = order[j]
      BY <1>4, <1>6, <2>1
    <3> QED
      BY <1>2, <3>1 DEF NoRepeats
  <2> QED
    BY <1>4, <2>1
<1>9. Contract!DependencyFirst(files)
  <2> SUFFICES ASSUME NEW i \in 1 .. Len(order), NEW f \in Contract!ImportedFiles(files[i])
               PROVE  \E j \in 1 .. i - 1 : files[j] = f
    BY <1>4 DEF Contract!DependencyFirst
  <2>0. Contract!ImportedFiles(files[i]) = FilesOf(Deps(order[i]))
    BY <1>1, <1>4, EdgesAreImports
  <2>1. PICK dep \in Deps(order[i]) : f = nodes[dep]
    BY <2>0 DEF FilesOf
  <2>2. PICK j \in 1 .. i - 1 : order[j] = dep
    BY <2>1 DEF SortInv, DependencyFirst
  <2>3. j \in 1 .. Len(order)
    BY <1>2, LenProperties
  <2> QED
    BY <1>4, <2>1, <2>2, <2>3
<1> QED
  BY <1>1, <1>3, <1>7, <1>8, <1>9 DEF Contract!Ordered

(* What the search reports is a cycle: every module on the path imports    *)
(* the next one, and the last one imports the first.                       *)
LEMMA CycleIsAnswer ==
    ASSUME TypeOK, DiscoverInv, DetectInv, ReachInv, CloseCycle
    PROVE  Contract!CycleFound(answer')
<1> PICK n : n = Len(stack)
  OBVIOUS
<1>1. /\ phase = "detect" /\ stack # <<>> /\ ~Explored /\ outcome' = "cycle" /\ UNCHANGED nodes
      /\ \E start \in 1 .. n : /\ stack[start] = NextDep
                             /\ cycle' = Append(SubSeq(stack, start, n), NextDep)
  BY DEF CloseCycle, discoverVars
<1>2. PICK start \in 1 .. n : stack[start] = NextDep
                             /\ cycle' = Append(SubSeq(stack, start, n), NextDep)
  BY <1>1
<1>3. StackInv
  BY <1>1 DEF DetectInv
<1>4. /\ nodes \in Seq(Files) /\ stack \in Seq(Ids) /\ n \in Nat \ {0}
      /\ \A i \in 1 .. n : stack[i] \in Ids
      /\ stack[n] = Top /\ NextDep \in Deps(Top)
  BY <1>1, DetectTypeFacts DEF Top
<1>5. NextDep \in Ids
  BY <1>2, <1>4
<1> DEFINE len == n - start + 1
<1>6. /\ SubSeq(stack, start, n) \in Seq(Ids) /\ Len(SubSeq(stack, start, n)) = len
      /\ \A i \in 1 .. len : SubSeq(stack, start, n)[i] = stack[start + i - 1]
  <2>1. \A i \in start .. n : stack[i] \in Ids
    BY <1>4
  <2> QED
    BY <1>4, <2>1, SubSeqProperties
<1>7. /\ cycle' \in Seq(Ids) /\ Len(cycle') = len + 1 /\ cycle'[len + 1] = NextDep
      /\ \A i \in 1 .. len : cycle'[i] = stack[start + i - 1]
  BY <1>2, <1>5, <1>6, AppendProperties
<1>8. len \in Nat \ {0}
  BY <1>4
<1>9. \A i \in 1 .. len : cycle'[i + 1] \in Deps(cycle'[i]) /\ cycle'[i] \in Ids
  <2> SUFFICES ASSUME NEW i \in 1 .. len
               PROVE  cycle'[i + 1] \in Deps(cycle'[i]) /\ cycle'[i] \in Ids
    OBVIOUS
  <2>1. start + i - 1 \in 1 .. n /\ cycle'[i] = stack[start + i - 1]
    BY <1>4, <1>7
  <2>2. CASE i = len
    BY <1>4, <1>7, <2>1, <2>2
  <2>3. CASE i # len
    <3>1. /\ start + i - 1 \in 1 .. n - 1 /\ (start + i - 1) + 1 = start + (i + 1) - 1
          /\ i + 1 \in 1 .. len
      BY <1>4, <2>1, <2>3
    <3>2. OnPath(start + i - 1)
      BY <1>3, <3>1 DEF StackInv
    <3>3. cycle'[i + 1] = stack[(start + i - 1) + 1]
      BY <1>7, <3>1
    <3>4. stack[(start + i - 1) + 1] \in Deps(stack[start + i - 1])
      BY <3>2 DEF OnPath, Deps, Elems
    <3> QED
      BY <1>4, <2>1, <3>3, <3>4
  <2> QED
    BY <2>2, <2>3
<1> DEFINE files == [i \in 1 .. Len(cycle') |-> nodes[cycle'[i]]]
<1>10. answer' = [kind |-> "cycle", order |-> <<>>, cycle |-> files]
  BY <1>1 DEF answer, FilesAt
<1> HIDE DEF len
<1>11. /\ DOMAIN files = 1 .. len + 1 /\ Len(files) = len + 1
       /\ \A i \in 1 .. len + 1 : files[i] = nodes[cycle'[i]]
  BY <1>7, <1>8
<1> HIDE DEF files
<1>12. \A i \in 1 .. len + 1 : cycle'[i] \in Ids
  <2>1. \A i \in 1 .. len + 1 : i \in 1 .. len \/ i = len + 1
    BY <1>8
  <2> QED
    BY <1>5, <1>7, <1>9, <2>1
<1>13. \A i \in 1 .. len : files[i + 1] \in Contract!ImportedFiles(files[i])
  <2> SUFFICES ASSUME NEW i \in 1 .. len
               PROVE  files[i + 1] \in Contract!ImportedFiles(files[i])
    OBVIOUS
  <2>1. i \in 1 .. len + 1 /\ i + 1 \in 1 .. len + 1
    BY <1>8
  <2>2. Contract!ImportedFiles(nodes[cycle'[i]]) = FilesOf(Deps(cycle'[i]))
    BY <1>1, <1>9, EdgesAreImports
  <2> QED
    BY <1>9, <1>11, <2>1, <2>2 DEF FilesOf
<1>14. Contract!SeqRange(files) \subseteq Contract!Reachable
  BY <1>11, <1>12 DEF Contract!SeqRange, ReachInv
<1>15. files[1] = files[Len(files)] /\ Len(files) >= 2 /\ Len(files) - 1 = len
  <2>1. start + 1 - 1 = start /\ 1 \in 1 .. len /\ 1 \in 1 .. len + 1 /\ len + 1 \in 1 .. len + 1
    BY <1>8
  <2>2. cycle'[1] = NextDep
    BY <1>2, <1>7, <2>1
  <2>3. files[1] = nodes[NextDep] /\ files[len + 1] = nodes[NextDep]
    BY <1>7, <1>11, <2>1, <2>2
  <2> QED
    BY <1>8, <1>11, <2>3
<1> QED
  BY <1>10, <1>13, <1>14, <1>15 DEF Contract!CycleFound

(* An import line that no file answers is a line of a reachable file.      *)
LEMMA FailureIsAnswer ==
    ASSUME TypeOK, DiscoverInv, AnswerInv, ReachInv, ImportUnresolved
    PROVE  Contract!ImportFailed(answer')
<1>1. /\ phase = "discover" /\ current # 0 /\ todo # <<>> /\ Head(todo) = Unresolved
      /\ outcome' = "unresolved" /\ UNCHANGED cycle
  BY DEF ImportUnresolved, detectVars
<1>2. /\ nodes \in Seq(Files) /\ current \in Ids /\ todo \in Seq(Files \cup {Unresolved})
      /\ imports \in [Files -> Seq(Files \cup {Unresolved})]
  BY <1>1, LenProperties DEF TypeOK, DiscoverTypes, Ids
<1>3. Unresolved \in Elems(imports[nodes[current]])
  BY <1>1, <1>2, ElemsOfHeadTail DEF DiscoverInv
<1>4. nodes[current] \in Contract!Reachable /\ nodes[current] \in Files
  BY <1>2, ElementOfSeq DEF ReachInv, Ids
<1>5. Unresolved \in Contract!SeqRange(imports[nodes[current]])
  BY <1>2, <1>3, <1>4, RangeIsElems
<1>6. cycle' = <<>> /\ FilesAt(<<>>)' = <<>>
  BY <1>1 DEF AnswerInv, FilesAt
<1>7. answer' = [Contract!NoAnswer EXCEPT !.kind = "unresolved"]
  BY <1>1, <1>6 DEF answer, Contract!NoAnswer, FilesAt
<1> QED
  BY <1>4, <1>5, <1>7 DEF Contract!ImportFailed

(* The search always finds the cycle it is asked for: with every module    *)
(* Visited no set of modules would import each other, and the sort blames  *)
(* a cycle only when one does.                                             *)
LEMMA SearchFindsCycle ==
    ASSUME SortInv, DetectInv, EnterRoot
    PROVE  phase' = "detect" /\ UNCHANGED <<outcome, cycle, nodes, order>>
<1>1. phase = "detect" /\ VisitedInv /\ CycleIsJustified
  BY DEF EnterRoot, DetectInv, SortInv
<1>2. PICK left \in SUBSET Ids : left # {} /\ \A id \in left : Deps(id) \cap left # {}
  BY <1>1 DEF CycleIsJustified
<1>3. Ids # visited
  BY <1>1, <1>2 DEF VisitedInv
<1> QED
  BY <1>1, <1>3 DEF EnterRoot, discoverVars, sortVars

(* ModuleGraph::build answers once, and its answer is the one              *)
(* ModuleGraphContract allows: whatever the files import, the reachable    *)
(* files ordered after their imports, a real import cycle, or an import    *)
(* that does not resolve.                                                  *)
THEOREM AnswersAsPromised == Spec => KeepsContract
<1> DEFINE Inv == TypeOK /\ SortInv /\ DiscoverInv /\ ReachInv /\ AnswerInv /\ DetectInv
<1>1. Init => DiscoverInv /\ ReachInv /\ AnswerInv /\ DetectInv /\ Contract!Init
  <2> SUFFICES ASSUME Init PROVE DiscoverInv /\ ReachInv /\ AnswerInv /\ DetectInv /\ Contract!Init
    OBVIOUS
  <2>1. DiscoverInv
    BY InitDiscovers
  <2>2. Ids = {1} /\ nodes[1] = Entry /\ outcome = "none" /\ cycle = <<>> /\ phase = "discover"
    BY DEF Init, Ids
  <2>3. ReachInv
    BY <2>2, FilesAssumption DEF ReachInv, Contract!Reachable
  <2>4. AnswerInv /\ DetectInv
    BY <2>2 DEF Init, AnswerInv, DetectInv
  <2>5. Contract!Init
    BY <2>2, NoAnswerYet DEF Contract!Init
  <2> QED
    BY <2>1, <2>3, <2>4, <2>5
<1>2. Inv /\ [Next]_vars => [Contract!Answer]_(Contract!vars)
  <2> SUFFICES ASSUME Inv, [Next]_vars PROVE [Contract!Answer]_(Contract!vars)
    OBVIOUS
  <2>0. UNCHANGED imports
    BY GraphOnlyGrows
  <2>1. ASSUME phase # "done", Contract!Ordered(answer') \/ Contract!CycleFound(answer') \/ Contract!ImportFailed(answer')
        PROVE  Contract!Answer
    BY <2>0, <2>1, NoAnswerYet DEF AnswerInv, Contract!Answer
  <2>2. ASSUME phase # "done", UNCHANGED <<outcome, cycle>>
        PROVE  UNCHANGED answer
    <3>1. outcome = "none" /\ cycle = <<>>
      BY <2>2 DEF AnswerInv
    <3>2. answer = Contract!NoAnswer
      BY <3>1, NoAnswerYet
    <3>3. answer' = Contract!NoAnswer
      BY <2>2, <3>1 DEF answer, Contract!NoAnswer, FilesAt
    <3> QED
      BY <3>2, <3>3
  <2>3. CASE SortComplete
    BY <2>1, <2>3, OrderIsAnswer DEF SortComplete
  <2>4. CASE CloseCycle
    BY <2>1, <2>4, CycleIsAnswer DEF CloseCycle
  <2>5. CASE ImportUnresolved
    BY <2>1, <2>5, FailureIsAnswer DEF ImportUnresolved
  <2>6. CASE EnterRoot
    BY <2>0, <2>2, <2>6, SearchFindsCycle DEF EnterRoot, Contract!vars
  <2>7. CASE \/ PopPending \/ ImportKnown \/ ImportCreated \/ RecordEdges \/ BeginSort \/ PopReady
             \/ SortIncomplete \/ FollowDep \/ LeaveModule
    <3>1. phase # "done" /\ UNCHANGED <<outcome, cycle>>
      BY <2>7 DEF PopPending, ImportKnown, ImportCreated, RecordEdges, BeginSort, PopReady,
                  SortIncomplete, FollowDep, LeaveModule, detectVars
    <3> QED
      BY <2>0, <2>2, <3>1 DEF Contract!vars
  <2>8. CASE UNCHANGED vars
    <3>1. UNCHANGED <<outcome, order, cycle, nodes>>
      BY <2>8 DEF vars, discoverVars, sortVars, detectVars
    <3>2. UNCHANGED answer
      BY <3>1 DEF answer, FilesAt
    <3> QED
      BY <2>0, <3>2 DEF Contract!vars
  <2> QED
    BY <2>3, <2>4, <2>5, <2>6, <2>7, <2>8 DEF Next, Discover, Sort, Detect
<1>3. Inv /\ [Next]_vars => ReachInv' /\ AnswerInv' /\ DetectInv' /\ DiscoverInv'
  BY ReachKept, AnswerKept, DetectKept, DiscoverKept
<1> QED
  BY <1>1, <1>2, <1>3, TypeCorrect, SortInvariant, PTL DEF Spec, KeepsContract, Contract!Spec

=============================================================================
