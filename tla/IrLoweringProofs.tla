-------------------------- MODULE IrLoweringProofs --------------------------
(***************************************************************************)
(* Proofs about IrLowering: for programs of any size and nesting, the      *)
(* lowerer is never lost among its open blocks, scopes and loops, and what *)
(* it leaves behind passes validate_function (crates/ir/src/validate.rs).  *)
(***************************************************************************)
EXTENDS IrControlFlow, FiniteSetTheorems, SequenceTheorems, WellFoundedInduction, TLAPS

-----------------------------------------------------------------------------
(* The shape of the state *)

Phases == {"none", "slot", "do", "test", "iter", "item", "step", "return", "stuck", "end"}
Event == Nat \X Phases
Errors == {"unknown identifier", "outside of a loop", "duplicate terminator"}
InstrOps == {"const", "alloc", "store", "load", "call", "binop", "index", "phi"}
TermOps == {"none", "jump", "branch", "return", "unreachable"}
InstrSet == [op : InstrOps, def : Nat, uses : SUBSET Nat, event : Event, inputs : SUBSET (Nat \X Nat)]
TermSet == [op : TermOps, targets : Seq(Nat), uses : SUBSET Nat, event : Event]
BlockSet == [term : TermSet, preds : SUBSET Nat, code : Seq(InstrSet)]
FunctionSet == [blocks : Seq(BlockSet), current : Nat, values : Nat, errors : SUBSET Errors]
FrameSet == [kind : {"then", "else", "while", "for"}, at : Nat, scope : Nat,
             other : Nat, exit : Nat, index : Nat]
Targets == [break : Nat, continue : Nat]
ScopeSet == UNION {[S -> Nat] : S \in SUBSET Names}

IsShaped ==
    /\ program \in Seq(ToSet(program))
    /\ stages \in Flows
    /\ stage \in 0 .. stages
    /\ stages # 0 => stage # 0
    /\ unit \in BOOLEAN
    /\ fn \in FunctionSet
    /\ env \in Seq(ScopeSet)
    /\ loops \in Seq(Targets)
    /\ frames \in Seq(FrameSet)
    /\ done \in BOOLEAN

-----------------------------------------------------------------------------
(* A function under construction that would pass validate_function, but    *)
(* for the blocks that are still open.                                     *)

(* Value v is computed in a block no later than b; at or before            *)
(* instruction k of it.                                                    *)
DefinedBy(f, v, b) ==
    \E c \in DOMAIN f.blocks : c <= b /\ \E j \in DOMAIN f.blocks[c].code : f.blocks[c].code[j].def = v
Available(f, v, b, k) ==
    \E c \in DOMAIN f.blocks : \E j \in DOMAIN f.blocks[c].code :
        /\ c < b \/ (c = b /\ j < k)
        /\ f.blocks[c].code[j].def = v

EdgesMatch(f) ==
    \A b \in DOMAIN f.blocks :
        /\ Successors(f.blocks[b].term) \subseteq DOMAIN f.blocks
        /\ f.blocks[b].preds \subseteq DOMAIN f.blocks
        /\ \A c \in DOMAIN f.blocks : c \in Successors(f.blocks[b].term) <=> b \in f.blocks[c].preds
UsesDefined(f) ==
    \A b \in DOMAIN f.blocks :
        /\ \A k \in DOMAIN f.blocks[b].code : \A v \in f.blocks[b].code[k].uses : Available(f, v, b, k)
        /\ \A v \in f.blocks[b].term.uses : DefinedBy(f, v, b)
PhisFit(f) ==
    \A b \in DOMAIN f.blocks : \A k \in DOMAIN f.blocks[b].code : \A input \in f.blocks[b].code[k].inputs :
        /\ DefinedBy(f, input[1], Len(f.blocks))
        /\ input[2] \in f.blocks[b].preds
Sound(f) ==
    /\ f \in FunctionSet
    /\ f.current \in DOMAIN f.blocks
    /\ EdgesMatch(f)
    /\ UsesDefined(f)
    /\ PhisFit(f)
    /\ "duplicate terminator" \notin f.errors

-----------------------------------------------------------------------------
(* Where the lowerer is *)

OpenBlocks(f) == {b \in DOMAIN f.blocks : f.blocks[b].term = Open}
AwaitedBy(fs) == UNION {Awaited(fs[i]) : i \in DOMAIN fs}

(* The blocks to come are open, no two statements wait for the same one,   *)
(* and the lowerer is in none of them.                                     *)
WaitsFor(f, fs, ahead) ==
    /\ OpenBlocks(f) \ {f.current} = AwaitedBy(fs) \cup ahead
    /\ f.current \notin AwaitedBy(fs) \cup ahead
    /\ \A i \in DOMAIN fs :
          /\ fs[i].other < fs[i].exit
          /\ fs[i].other \in DOMAIN f.blocks
          /\ Awaited(fs[i]) \cap ahead = {}
          /\ \A j \in DOMAIN fs : i # j => Awaited(fs[i]) \cap Awaited(fs[j]) = {}
TargetsExist(f, ls) ==
    \A i \in DOMAIN ls : ls[i].break \in DOMAIN f.blocks /\ ls[i].continue \in DOMAIN f.blocks
KnowsOpenBlocks ==
    /\ WaitsFor(fn, frames, StagesAhead)
    /\ TargetsExist(fn, loops)
    /\ done => frames = <<>> /\ Terminated(fn)

(* How many scopes there are below those of open statement i. *)
KindsBelow(fs, i, kinds) == {k \in 1 .. i - 1 : fs[k].kind \in kinds}
ScopesBelow(fs, i) == 1 + i + Cardinality(KindsBelow(fs, i, {"for"}))
LoopsBelow(fs, i) == Cardinality(KindsBelow(fs, i, {"while", "for"}))
CountsScopes ==
    /\ IF done THEN Len(env) = 1 ELSE Len(env) = ScopesBelow(frames, Len(frames) + 1)
    /\ Len(loops) = LoopsBelow(frames, Len(frames) + 1)
    /\ Len(program) + Len(frames) <= MaxTokens

(* The slot of a name in scope is allocated by the time the current block  *)
(* is, and so it is for the blocks of every statement that was opened      *)
(* after the scope; a loop's counter is set up in its header.              *)
SlotsKnown(f, e, fs) ==
    /\ e[1] = NewScope
    /\ \A j \in DOMAIN e : \A n \in DOMAIN e[j] :
          /\ DefinedBy(f, e[j][n], f.current)
          /\ \A i \in DOMAIN fs : j <= ScopesBelow(fs, i) =>
                \A b \in Awaited(fs[i]) : DefinedBy(f, e[j][n], b)
    /\ \A i \in DOMAIN fs : fs[i].kind = "for" =>
          fs[i].other > 2 /\ DefinedBy(f, fs[i].index, fs[i].other)
KnowsSlots == SlotsKnown(fn, env, frames)

Inv ==
    /\ IsShaped
    /\ Sound(fn)
    /\ KnowsOpenBlocks
    /\ CountsScopes
    /\ KnowsSlots

-----------------------------------------------------------------------------
(* Sequences *)

LEMMA SequenceIs ==
    ASSUME NEW S, NEW s \in Seq(S)
    PROVE  Len(s) \in Nat /\ DOMAIN s = 1 .. Len(s) /\ \A i \in DOMAIN s : s[i] \in S
  BY LenProperties, ElementOfSeq

LEMMA AtMostItself == \A n \in Nat : n <= n
  OBVIOUS

LEMMA Shifted ==
    ASSUME NEW m \in Nat, NEW n \in Nat
    PROVE  /\ \A k \in 1 .. n : m + k \in 1 .. m + n
           /\ \A k \in 1 .. m + n : k > m => k - m \in 1 .. n /\ k = m + (k - m)
  OBVIOUS

LEMMA BothShifted == \A m, i, j \in Nat : j < i => m + j < m + i
  OBVIOUS

LEMMA FrontLast ==
    ASSUME NEW S, NEW s \in Seq(S), s # <<>>
    PROVE  /\ Len(s) \in Nat \ {0}
           /\ Front(s) \in Seq(S) /\ Len(Front(s)) = Len(s) - 1
           /\ \A i \in 1 .. Len(s) - 1 : Front(s)[i] = s[i]
           /\ Last(s) \in S /\ Last(s) = s[Len(s)]
<1>1. Len(s) \in Nat /\ Len(s) # 0
  BY LenProperties, EmptySeq
<1>2. Len(s) - 1 \in Nat /\ Len(s) - 1 <= Len(s)
  BY <1>1
<1>3. \A i \in 1 .. Len(s) : s[i] \in S
  BY ElementOfSeq
<1>4. Front(s) = [i \in 1 .. Len(s) - 1 |-> s[i]]
  <2>1. Front(s) = SubSeq(s, 1, Len(s) - 1)
    BY DEF Front
  <2>2. \A i \in 1 .. Len(s) - 1 : i \in 1 .. Len(s)
    BY <1>1
  <2> QED
    BY <1>1, <1>2, <1>3, <2>1, <2>2
<1> QED
  BY <1>1, <1>2, <1>3, <1>4 DEF Last

-----------------------------------------------------------------------------
(* The function under construction *)

LEMMA FunctionIs ==
    ASSUME NEW f \in FunctionSet
    PROVE  /\ f.blocks \in Seq(BlockSet) /\ f.current \in Nat /\ f.values \in Nat
           /\ f.errors \in SUBSET Errors
           /\ Len(f.blocks) \in Nat /\ DOMAIN f.blocks = 1 .. Len(f.blocks)
           /\ \A b \in DOMAIN f.blocks :
                 /\ f.blocks[b] \in BlockSet
                 /\ f.blocks[b].term \in TermSet
                 /\ f.blocks[b].preds \in SUBSET Nat
                 /\ f.blocks[b].code \in Seq(InstrSet)
                 /\ Len(f.blocks[b].code) \in Nat
                 /\ DOMAIN f.blocks[b].code = 1 .. Len(f.blocks[b].code)
                 /\ \A k \in DOMAIN f.blocks[b].code : f.blocks[b].code[k] \in InstrSet
<1>1. /\ f.blocks \in Seq(BlockSet) /\ f.current \in Nat /\ f.values \in Nat
      /\ f.errors \in SUBSET Errors
  BY DEF FunctionSet
<1>2. Len(f.blocks) \in Nat /\ DOMAIN f.blocks = 1 .. Len(f.blocks)
  BY <1>1, SequenceIs
<1>3. ASSUME NEW b \in DOMAIN f.blocks
      PROVE  /\ f.blocks[b] \in BlockSet
             /\ f.blocks[b].term \in TermSet
             /\ f.blocks[b].preds \in SUBSET Nat
             /\ f.blocks[b].code \in Seq(InstrSet)
  <2>1. f.blocks[b] \in BlockSet
    BY <1>1, SequenceIs
  <2> QED
    BY <2>1 DEF BlockSet
<1>4. ASSUME NEW b \in DOMAIN f.blocks
      PROVE  /\ Len(f.blocks[b].code) \in Nat
             /\ DOMAIN f.blocks[b].code = 1 .. Len(f.blocks[b].code)
             /\ \A k \in DOMAIN f.blocks[b].code : f.blocks[b].code[k] \in InstrSet
  BY <1>3, SequenceIs
<1> QED
  BY <1>1, <1>2, <1>3, <1>4

(* What is computed stays computed. *)
Keeps(f, g) ==
    /\ Len(f.blocks) <= Len(g.blocks)
    /\ \A v, b \in Nat : DefinedBy(f, v, b) => DefinedBy(g, v, b)

LEMMA KeepsFurther ==
    ASSUME NEW f \in FunctionSet, NEW g \in FunctionSet, NEW h \in FunctionSet, Keeps(f, g), Keeps(g, h)
    PROVE  Keeps(f, h)
<1>1. Len(f.blocks) \in Nat /\ Len(g.blocks) \in Nat /\ Len(h.blocks) \in Nat
  BY FunctionIs
<1> QED
  BY <1>1 DEF Keeps

LEMMA DefinedLater ==
    ASSUME NEW f \in FunctionSet, NEW v, NEW b \in Nat, NEW c \in Nat, b <= c, DefinedBy(f, v, b)
    PROVE  DefinedBy(f, v, c)
<1>1. \A a \in DOMAIN f.blocks : a \in Nat
  BY FunctionIs
<1> QED
  BY <1>1 DEF DefinedBy

(* Entering a block, counting values and reporting an error leave the      *)
(* blocks alone.                                                           *)
LEMMA SameBlocks ==
    ASSUME NEW f, Sound(f), NEW g \in FunctionSet, g.blocks = f.blocks,
           g.current \in DOMAIN f.blocks, "duplicate terminator" \notin g.errors
    PROVE  Sound(g) /\ Keeps(f, g) /\ OpenBlocks(g) = OpenBlocks(f)
<1>1. Len(f.blocks) \in Nat
  BY FunctionIs DEF Sound
<1>2. EdgesMatch(g)
  BY DEF Sound, EdgesMatch
<1>6. \A v, b : DefinedBy(g, v, b) <=> DefinedBy(f, v, b)
  BY DEF DefinedBy
<1>7. \A v, b, k : Available(g, v, b, k) <=> Available(f, v, b, k)
  BY DEF Available
<1>3. UsesDefined(g)
  BY <1>6, <1>7 DEF Sound, UsesDefined
<1>4. PhisFit(g)
  BY DEF Sound, PhisFit, DefinedBy
<1>8. Len(f.blocks) <= Len(g.blocks)
  <2>1. Len(g.blocks) = Len(f.blocks)
    OBVIOUS
  <2> QED
    BY <1>1, <2>1, AtMostItself, Zenon
<1>5. Keeps(f, g)
  BY <1>6, <1>8, Zenon DEF Keeps
<1> QED
  BY <1>2, <1>3, <1>4, <1>5 DEF Sound, OpenBlocks

LEMMA EnterBlockSound ==
    ASSUME NEW f, Sound(f), NEW b \in DOMAIN f.blocks
    PROVE  LET g == EnterBlock(f, b)
           IN  /\ Sound(g) /\ Keeps(f, g) /\ OpenBlocks(g) = OpenBlocks(f)
               /\ g.blocks = f.blocks /\ g.current = b /\ g.values = f.values
<1> DEFINE g == EnterBlock(f, b)
<1>4. f \in FunctionSet
  BY DEF Sound
<1>1. b \in Nat
  BY <1>4, FunctionIs
<1>2. g \in FunctionSet /\ g.blocks = f.blocks /\ g.current = b /\ g.values = f.values /\ g.errors = f.errors
  BY <1>1, <1>4 DEF EnterBlock, FunctionSet
<1> HIDE DEF g
<1>3. Sound(g) /\ Keeps(f, g) /\ OpenBlocks(g) = OpenBlocks(f)
  <2>1. "duplicate terminator" \notin g.errors
    BY <1>2 DEF Sound
  <2> QED
    BY <1>2, <2>1, SameBlocks
<1> QED
  BY <1>2, <1>3 DEF g

LEMMA NewValuesSound ==
    ASSUME NEW f, Sound(f), NEW n \in Nat
    PROVE  LET g == NewValues(f, n)
           IN  /\ Sound(g) /\ Keeps(f, g) /\ OpenBlocks(g) = OpenBlocks(f)
               /\ g.blocks = f.blocks /\ g.current = f.current /\ g.values = f.values + n
<1> DEFINE g == NewValues(f, n)
<1>4. f \in FunctionSet
  BY DEF Sound
<1>1. f.values + n \in Nat
  BY <1>4, FunctionIs
<1>2. /\ g \in FunctionSet /\ g.blocks = f.blocks /\ g.current = f.current /\ g.values = f.values + n
      /\ g.errors = f.errors
  BY <1>1, <1>4 DEF NewValues, FunctionSet
<1> HIDE DEF g
<1>3. Sound(g) /\ Keeps(f, g) /\ OpenBlocks(g) = OpenBlocks(f)
  <2>1. "duplicate terminator" \notin g.errors /\ g.current \in DOMAIN f.blocks
    BY <1>2 DEF Sound
  <2> QED
    BY <1>2, <2>1, SameBlocks
<1> QED
  BY <1>2, <1>3 DEF g

LEMMA FailSound ==
    ASSUME NEW f, Sound(f), NEW error \in Errors, error # "duplicate terminator"
    PROVE  LET g == Fail(f, error)
           IN  /\ Sound(g) /\ Keeps(f, g) /\ OpenBlocks(g) = OpenBlocks(f)
               /\ g.blocks = f.blocks /\ g.current = f.current /\ g.values = f.values
<1> DEFINE g == Fail(f, error)
<1>1. f \in FunctionSet
  BY DEF Sound
<1>2. /\ g \in FunctionSet /\ g.blocks = f.blocks /\ g.current = f.current /\ g.values = f.values
      /\ g.errors = f.errors \cup {error}
  BY <1>1 DEF Fail, FunctionSet
<1> HIDE DEF g
<1>3. Sound(g) /\ Keeps(f, g) /\ OpenBlocks(g) = OpenBlocks(f)
  <2>1. "duplicate terminator" \notin g.errors /\ g.current \in DOMAIN f.blocks
    BY <1>2 DEF Sound
  <2> QED
    BY <1>2, <2>1, SameBlocks
<1> QED
  BY <1>2, <1>3 DEF g

LEMMA NewBlocksSound ==
    ASSUME NEW f, Sound(f), NEW n \in Nat
    PROVE  LET g == NewBlocks(f, n)
           IN  /\ Sound(g) /\ Keeps(f, g)
               /\ OpenBlocks(g) = OpenBlocks(f) \cup (Len(f.blocks) + 1 .. Len(f.blocks) + n)
               /\ g.current = f.current /\ g.values = f.values
               /\ Len(g.blocks) = Len(f.blocks) + n
               /\ \A b \in DOMAIN f.blocks : g.blocks[b] = f.blocks[b]
<1> DEFINE g == NewBlocks(f, n)
           m == Len(f.blocks)
           new == [i \in 1 .. n |-> EmptyBlock]
<1>1. f \in FunctionSet
  BY DEF Sound
<1>2. /\ f.blocks \in Seq(BlockSet) /\ f.current \in DOMAIN f.blocks /\ m \in Nat
      /\ DOMAIN f.blocks = 1 .. m
  BY <1>1, FunctionIs DEF Sound
<1>3. EmptyBlock \in BlockSet /\ EmptyBlock.term = Open /\ EmptyBlock.preds = {} /\ EmptyBlock.code = <<>>
  <2>1. NoEvent \in Event
    BY DEF NoEvent, Event, Phases
  <2>2. Open \in TermSet
    <3>1. <<>> \in Seq(Nat) /\ {} \in SUBSET Nat
      OBVIOUS
    <3> QED
      BY <2>1, <3>1 DEF Open, Term, TermSet, TermOps
  <2>3. <<>> \in Seq(InstrSet) /\ {} \in SUBSET Nat
    OBVIOUS
  <2> QED
    BY <2>2, <2>3 DEF EmptyBlock, BlockSet
<1>4. new \in Seq(BlockSet) /\ Len(new) = n /\ \A i \in 1 .. n : new[i] = EmptyBlock
  <2> HIDE DEF EmptyBlock
  <2>1. new \in [1 .. n -> BlockSet]
    BY <1>3
  <2> QED
    BY <2>1
<1> HIDE DEF new
<1>5. /\ f.blocks \o new \in Seq(BlockSet)
      /\ Len(f.blocks \o new) = m + n
      /\ \A b \in 1 .. m : (f.blocks \o new)[b] = f.blocks[b]
      /\ \A b \in m + 1 .. m + n : (f.blocks \o new)[b] = EmptyBlock
  <2>1. f.blocks \o new \in Seq(BlockSet) /\ Len(f.blocks \o new) = m + n
    BY <1>2, <1>4, ConcatProperties
  <2>2. \A b \in 1 .. m : (f.blocks \o new)[b] = f.blocks[b]
    BY <1>2, <1>4, ConcatProperties
  <2>3. ASSUME NEW b \in m + 1 .. m + n PROVE (f.blocks \o new)[b] = EmptyBlock
    <3>1. b - m \in 1 .. n /\ b \in 1 .. m + n /\ ~(b <= m)
      BY <1>2
    <3>2. (f.blocks \o new)[b] = new[b - m]
      BY <1>2, <1>4, <3>1, ConcatProperties
    <3> QED
      BY <1>4, <3>1, <3>2
  <2> QED
    BY <2>1, <2>2, <2>3
<1>6. /\ g \in FunctionSet /\ g.blocks = f.blocks \o new /\ g.current = f.current
      /\ g.values = f.values /\ g.errors = f.errors
  BY <1>1, <1>5 DEF NewBlocks, FunctionSet, new
<1> HIDE DEF g
<1>7. /\ Len(g.blocks) = m + n /\ DOMAIN g.blocks = 1 .. m + n
      /\ DOMAIN f.blocks \subseteq DOMAIN g.blocks
  BY <1>2, <1>5, <1>6, SequenceIs
<1>8. /\ \A b \in DOMAIN f.blocks : g.blocks[b] = f.blocks[b]
      /\ \A b \in DOMAIN g.blocks : b \notin DOMAIN f.blocks => b \in m + 1 .. m + n /\ g.blocks[b] = EmptyBlock
  <2>1. \A b \in DOMAIN g.blocks : b \notin DOMAIN f.blocks => b \in m + 1 .. m + n
    BY <1>2, <1>7
  <2> QED
    BY <1>2, <1>5, <1>6, <2>1
<1>9. Successors(Open) = {} /\ Open.uses = {}
  BY DEF Successors, ToSet, Open, Term
<1>10. EdgesMatch(g)
  <2> SUFFICES ASSUME NEW b \in DOMAIN g.blocks
               PROVE  /\ Successors(g.blocks[b].term) \subseteq DOMAIN g.blocks
                      /\ g.blocks[b].preds \subseteq DOMAIN g.blocks
                      /\ \A c \in DOMAIN g.blocks :
                            c \in Successors(g.blocks[b].term) <=> b \in g.blocks[c].preds
    BY DEF EdgesMatch
  <2>1. CASE b \in DOMAIN f.blocks
    <3>1. /\ Successors(g.blocks[b].term) \subseteq DOMAIN f.blocks
          /\ g.blocks[b].preds \subseteq DOMAIN f.blocks
          /\ \A c \in DOMAIN f.blocks :
                c \in Successors(g.blocks[b].term) <=> b \in g.blocks[c].preds
      BY <1>8, <2>1 DEF Sound, EdgesMatch
    <3>2. \A c \in DOMAIN g.blocks : c \notin DOMAIN f.blocks => g.blocks[c].preds = {}
      BY <1>3, <1>8
    <3> QED
      BY <1>7, <3>1, <3>2
  <2>2. CASE b \notin DOMAIN f.blocks
    <3>1. g.blocks[b].term = Open /\ g.blocks[b].preds = {}
      BY <1>3, <1>8, <2>2
    <3>2. \A c \in DOMAIN g.blocks : b \notin g.blocks[c].preds
      BY <1>3, <1>8, <2>2 DEF Sound, EdgesMatch
    <3> QED
      BY <1>9, <3>1, <3>2
  <2> QED
    BY <2>1, <2>2
<1>11. /\ \A v, b : DefinedBy(f, v, b) => DefinedBy(g, v, b)
       /\ \A v, b, k : Available(f, v, b, k) => Available(g, v, b, k)
  BY <1>7, <1>8 DEF DefinedBy, Available
<1>12. UsesDefined(g)
  <2> SUFFICES ASSUME NEW b \in DOMAIN g.blocks
               PROVE  /\ \A k \in DOMAIN g.blocks[b].code :
                            \A v \in g.blocks[b].code[k].uses : Available(g, v, b, k)
                      /\ \A v \in g.blocks[b].term.uses : DefinedBy(g, v, b)
    BY DEF UsesDefined
  <2>1. CASE b \in DOMAIN f.blocks
    BY <1>8, <1>11, <2>1 DEF Sound, UsesDefined
  <2>2. CASE b \notin DOMAIN f.blocks
    BY <1>3, <1>8, <1>9, <2>2
  <2> QED
    BY <2>1, <2>2
<1>13. PhisFit(g)
  <2> SUFFICES ASSUME NEW b \in DOMAIN g.blocks, NEW k \in DOMAIN g.blocks[b].code,
                      NEW input \in g.blocks[b].code[k].inputs
               PROVE  DefinedBy(g, input[1], Len(g.blocks)) /\ input[2] \in g.blocks[b].preds
    BY DEF PhisFit
  <2>1. CASE b \in DOMAIN f.blocks
    <3>1. DefinedBy(g, input[1], m) /\ input[2] \in g.blocks[b].preds
      BY <1>8, <1>11, <2>1 DEF Sound, PhisFit
    <3> QED
      BY <1>2, <1>6, <1>7, <3>1, DefinedLater
  <2>2. CASE b \notin DOMAIN f.blocks
    BY <1>3, <1>8, <2>2
  <2> QED
    BY <2>1, <2>2
<1>14. Sound(g)
  BY <1>2, <1>6, <1>7, <1>10, <1>12, <1>13 DEF Sound
<1>15. Keeps(f, g)
  <2>1. Len(f.blocks) <= Len(g.blocks)
    BY <1>2, <1>7
  <2> QED
    BY <1>11, <2>1, Zenon DEF Keeps
<1>16. OpenBlocks(g) = OpenBlocks(f) \cup (m + 1 .. m + n)
  <2>1. \A b \in m + 1 .. m + n : b \in DOMAIN g.blocks /\ b \notin DOMAIN f.blocks
    BY <1>2, <1>7
  <2>2. \A b \in m + 1 .. m + n : g.blocks[b].term = Open
    BY <1>3, <1>8, <2>1
  <2> QED
    BY <1>7, <1>8, <2>1, <2>2 DEF OpenBlocks
<1> QED
  BY <1>6, <1>7, <1>8, <1>14, <1>15, <1>16 DEF g

LEMMA SetTerminatorSound ==
    ASSUME NEW f, Sound(f), ~Terminated(f), NEW term \in TermSet, term # Open,
           Successors(term) \subseteq DOMAIN f.blocks,
           \A v \in term.uses : DefinedBy(f, v, f.current)
    PROVE  LET g == SetTerminator(f, term)
           IN  /\ Sound(g) /\ Keeps(f, g)
               /\ OpenBlocks(g) = OpenBlocks(f) \ {f.current}
               /\ g.current = f.current /\ g.values = f.values
               /\ Len(g.blocks) = Len(f.blocks)
               /\ \A b \in DOMAIN f.blocks :
                     /\ g.blocks[b].code = f.blocks[b].code
                     /\ f.blocks[b].preds \subseteq g.blocks[b].preds
               /\ \A b \in Successors(term) : f.current \in g.blocks[b].preds
<1> DEFINE g == SetTerminator(f, term)
           here == f.current
           ended == [b \in DOMAIN f.blocks |->
                        [f.blocks[b] EXCEPT
                            !.term = IF b = here THEN term ELSE @,
                            !.preds = IF b \in Successors(term) THEN @ \cup {here} ELSE @]]
<1>1. f \in FunctionSet
  BY DEF Sound
<1>2. /\ f.blocks \in Seq(BlockSet) /\ here \in DOMAIN f.blocks
      /\ DOMAIN f.blocks = 1 .. Len(f.blocks) /\ Len(f.blocks) \in Nat
  BY <1>1, FunctionIs DEF Sound
<1>3. ASSUME NEW b \in DOMAIN f.blocks
      PROVE  /\ ended[b] \in BlockSet
             /\ ended[b].term = IF b = here THEN term ELSE f.blocks[b].term
             /\ \A a : a \in ended[b].preds <=>
                         a \in f.blocks[b].preds \/ (b \in Successors(term) /\ a = here)
             /\ ended[b].code = f.blocks[b].code
  <2>1. f.blocks[b] \in BlockSet /\ here \in Nat
    BY <1>1, <1>2, FunctionIs
  <2> QED
    BY <2>1 DEF BlockSet
<1>4. ended \in Seq(BlockSet) /\ Len(ended) = Len(f.blocks) /\ DOMAIN ended = DOMAIN f.blocks
  <2>1. ended \in [1 .. Len(f.blocks) -> BlockSet]
    <3>1. DOMAIN ended = 1 .. Len(f.blocks) /\ \A b \in 1 .. Len(f.blocks) : ended[b] \in BlockSet
      BY <1>2, <1>3
    <3>2. ended = [b \in DOMAIN ended |-> ended[b]]
      OBVIOUS
    <3> HIDE DEF ended
    <3> QED
      BY <3>1, <3>2
  <2> HIDE DEF ended
  <2> QED
    BY <1>2, <2>1
<1>5. g = [f EXCEPT !.blocks = ended]
  BY DEF SetTerminator
<1> HIDE DEF ended, g
<1>6. /\ g \in FunctionSet /\ g.blocks = ended /\ g.current = here /\ g.values = f.values
      /\ g.errors = f.errors
  BY <1>1, <1>4, <1>5 DEF FunctionSet
<1>7. DOMAIN g.blocks = DOMAIN f.blocks /\ Len(g.blocks) = Len(f.blocks)
  BY <1>4, <1>6
<1>8. Successors(Open) = {}
  BY DEF Successors, ToSet, Open, Term
<1>9. f.blocks[here].term = Open
  BY DEF Terminated
<1>10. EdgesMatch(g)
  <2> SUFFICES ASSUME NEW b \in DOMAIN f.blocks
               PROVE  /\ Successors(g.blocks[b].term) \subseteq DOMAIN f.blocks
                      /\ g.blocks[b].preds \subseteq DOMAIN f.blocks
                      /\ \A c \in DOMAIN f.blocks :
                            c \in Successors(g.blocks[b].term) <=> b \in g.blocks[c].preds
    BY <1>7 DEF EdgesMatch
  <2>1. /\ Successors(f.blocks[b].term) \subseteq DOMAIN f.blocks
        /\ f.blocks[b].preds \subseteq DOMAIN f.blocks
        /\ \A c \in DOMAIN f.blocks :
              c \in Successors(f.blocks[b].term) <=> b \in f.blocks[c].preds
    BY DEF Sound, EdgesMatch
  <2>2. g.blocks[b].preds \subseteq DOMAIN f.blocks
    BY <1>2, <1>3, <1>6, <2>1
  <2>3. CASE b = here
    <3>1. Successors(g.blocks[b].term) = Successors(term)
      BY <1>3, <1>6, <2>3
    <3>2. \A c \in DOMAIN f.blocks : b \notin f.blocks[c].preds
      BY <1>8, <1>9, <2>1, <2>3
    <3>3. \A c \in DOMAIN f.blocks : b \in g.blocks[c].preds <=> c \in Successors(term)
      BY <1>3, <1>6, <2>3, <3>2
    <3> QED
      BY <2>2, <3>1, <3>3
  <2>4. CASE b # here
    <3>1. g.blocks[b].term = f.blocks[b].term
      BY <1>3, <1>6, <2>4
    <3>2. \A c \in DOMAIN f.blocks : b \in g.blocks[c].preds <=> b \in f.blocks[c].preds
      BY <1>3, <1>6, <2>4
    <3> QED
      BY <2>1, <2>2, <3>1, <3>2
  <2> QED
    BY <2>3, <2>4
<1>11. \A b \in DOMAIN f.blocks : g.blocks[b].code = f.blocks[b].code
  BY <1>3, <1>6
<1>12. /\ \A v, b : DefinedBy(f, v, b) => DefinedBy(g, v, b)
       /\ \A v, b, k : Available(f, v, b, k) => Available(g, v, b, k)
  BY <1>7, <1>11 DEF DefinedBy, Available
<1>13. UsesDefined(g)
  <2> SUFFICES ASSUME NEW b \in DOMAIN f.blocks
               PROVE  /\ \A k \in DOMAIN g.blocks[b].code :
                            \A v \in g.blocks[b].code[k].uses : Available(g, v, b, k)
                      /\ \A v \in g.blocks[b].term.uses : DefinedBy(g, v, b)
    BY <1>7 DEF UsesDefined
  <2>1. \A k \in DOMAIN g.blocks[b].code : \A v \in g.blocks[b].code[k].uses : Available(g, v, b, k)
    BY <1>11, <1>12 DEF Sound, UsesDefined
  <2>2. \A v \in g.blocks[b].term.uses : DefinedBy(g, v, b)
    BY <1>3, <1>6, <1>12 DEF Sound, UsesDefined
  <2> QED
    BY <2>1, <2>2
<1>14. \A b \in DOMAIN f.blocks : f.blocks[b].preds \subseteq g.blocks[b].preds
  BY <1>3, <1>6
<1>15. PhisFit(g)
  BY <1>7, <1>11, <1>12, <1>14 DEF Sound, PhisFit
<1>16. Sound(g)
  BY <1>2, <1>6, <1>7, <1>10, <1>13, <1>15 DEF Sound
<1>17. Keeps(f, g)
  <2>1. Len(f.blocks) <= Len(g.blocks)
    BY <1>2, <1>7
  <2> QED
    BY <1>12, <2>1, Zenon DEF Keeps
<1>18. OpenBlocks(g) = OpenBlocks(f) \ {here}
  <2>1. \A b \in DOMAIN f.blocks : g.blocks[b].term = Open <=> b # here /\ f.blocks[b].term = Open
    BY <1>3, <1>6
  <2> QED
    BY <1>7, <2>1 DEF OpenBlocks
<1>19. \A b \in Successors(term) : here \in g.blocks[b].preds
  BY <1>3, <1>6
<1> QED
  BY <1>6, <1>7, <1>11, <1>14, <1>16, <1>17, <1>18, <1>19 DEF g

(* Instructions that may be added to the current block. *)
Fit(f, instrs) ==
    /\ instrs \in Seq(InstrSet)
    /\ \A k \in DOMAIN instrs :
          /\ \A v \in instrs[k].uses :
                DefinedBy(f, v, f.current) \/ \E j \in DOMAIN instrs : j < k /\ instrs[j].def = v
          /\ \A input \in instrs[k].inputs :
                DefinedBy(f, input[1], Len(f.blocks)) /\ input[2] \in f.blocks[f.current].preds

LEMMA EmitSound ==
    ASSUME NEW f, Sound(f), NEW instrs, Fit(f, instrs)
    PROVE  LET g == Emit(f, instrs)
           IN  /\ Sound(g) /\ Keeps(f, g) /\ OpenBlocks(g) = OpenBlocks(f)
               /\ g.current = f.current /\ g.values = f.values
               /\ Len(g.blocks) = Len(f.blocks)
               /\ \A b \in DOMAIN f.blocks : g.blocks[b].preds = f.blocks[b].preds
               /\ \A k \in DOMAIN instrs : DefinedBy(g, instrs[k].def, f.current)
<1> DEFINE g == Emit(f, instrs)
           here == f.current
           old == f.blocks[here].code
           l == Len(old)
<1>1. f \in FunctionSet /\ instrs \in Seq(InstrSet)
  BY DEF Sound, Fit
<1>2. /\ f.blocks \in Seq(BlockSet) /\ here \in DOMAIN f.blocks /\ here \in Nat
      /\ DOMAIN f.blocks = 1 .. Len(f.blocks) /\ Len(f.blocks) \in Nat
      /\ f.blocks[here] \in BlockSet
      /\ old \in Seq(InstrSet) /\ l \in Nat /\ DOMAIN old = 1 .. l
      /\ Len(instrs) \in Nat /\ DOMAIN instrs = 1 .. Len(instrs)
  <2>1. here \in DOMAIN f.blocks
    BY DEF Sound
  <2> QED
    BY <1>1, <2>1, FunctionIs, SequenceIs
<1>3. /\ old \o instrs \in Seq(InstrSet)
      /\ Len(old \o instrs) = l + Len(instrs)
      /\ DOMAIN (old \o instrs) = 1 .. l + Len(instrs)
      /\ \A k \in 1 .. l : (old \o instrs)[k] = old[k]
      /\ \A k \in 1 .. Len(instrs) : (old \o instrs)[l + k] = instrs[k]
  <2>1. old \o instrs \in Seq(InstrSet) /\ Len(old \o instrs) = l + Len(instrs)
    BY <1>1, <1>2, ConcatProperties
  <2>2. \A k \in 1 .. l : (old \o instrs)[k] = old[k]
    BY <1>1, <1>2, ConcatProperties
  <2>3. ASSUME NEW k \in 1 .. Len(instrs) PROVE (old \o instrs)[l + k] = instrs[k]
    <3>1. l + k \in 1 .. l + Len(instrs) /\ ~(l + k <= l) /\ l + k - l = k
      BY <1>2
    <3> QED
      BY <1>1, <1>2, <3>1, ConcatProperties
  <2> QED
    BY <2>1, <2>2, <2>3, SequenceIs
<1> DEFINE longer == [f.blocks[here] EXCEPT !.code = old \o instrs]
<1>4. longer \in BlockSet /\ longer.code = old \o instrs
      /\ longer.term = f.blocks[here].term /\ longer.preds = f.blocks[here].preds
  BY <1>2, <1>3 DEF BlockSet
<1>5. g = [f EXCEPT !.blocks = [f.blocks EXCEPT ![here] = longer]]
  BY DEF Emit
<1> HIDE DEF longer, g
<1>6. [f.blocks EXCEPT ![here] = longer] \in Seq(BlockSet)
  BY <1>2, <1>4, ExceptSeq
<1>7. /\ g \in FunctionSet /\ g.blocks = [f.blocks EXCEPT ![here] = longer]
      /\ g.current = here /\ g.values = f.values /\ g.errors = f.errors
  BY <1>1, <1>5, <1>6 DEF FunctionSet
<1>8. /\ DOMAIN g.blocks = DOMAIN f.blocks /\ Len(g.blocks) = Len(f.blocks)
      /\ g.blocks[here] = longer
      /\ \A b \in DOMAIN f.blocks : b # here => g.blocks[b] = f.blocks[b]
  <2>1. DOMAIN g.blocks = DOMAIN f.blocks
    BY <1>7
  <2>2. Len(g.blocks) = Len(f.blocks)
    BY <1>2, <1>7, ExceptSeq, <1>4
  <2> QED
    BY <1>2, <1>7, <2>1, <2>2
<1>9. \A b \in DOMAIN f.blocks :
        g.blocks[b].term = f.blocks[b].term /\ g.blocks[b].preds = f.blocks[b].preds
  BY <1>4, <1>8
<1>10. \A b \in DOMAIN f.blocks : \A k \in DOMAIN f.blocks[b].code :
         k \in DOMAIN g.blocks[b].code /\ g.blocks[b].code[k] = f.blocks[b].code[k]
  <2>1. \A k \in DOMAIN old : k \in DOMAIN (old \o instrs) /\ (old \o instrs)[k] = old[k]
    BY <1>2, <1>3, SMTT(30)
  <2> QED
    BY <1>4, <1>8, <2>1
<1>11. /\ \A v, b : DefinedBy(f, v, b) => DefinedBy(g, v, b)
       /\ \A v, b, k : Available(f, v, b, k) => Available(g, v, b, k)
  BY <1>8, <1>10 DEF DefinedBy, Available
<1>12. EdgesMatch(g)
  BY <1>8, <1>9 DEF Sound, EdgesMatch
<1>13. ASSUME NEW k \in DOMAIN instrs
       PROVE  l + k \in DOMAIN g.blocks[here].code /\ g.blocks[here].code[l + k] = instrs[k]
  <2>1. k \in 1 .. Len(instrs) /\ l \in Nat /\ Len(instrs) \in Nat
    BY <1>2
  <2>2. l + k \in 1 .. l + Len(instrs)
    BY <2>1, Shifted
  <2> QED
    BY <1>3, <1>4, <1>8, <2>1, <2>2
<1>14. \A k \in DOMAIN instrs : DefinedBy(g, instrs[k].def, here)
  <2> SUFFICES ASSUME NEW k \in DOMAIN instrs PROVE DefinedBy(g, instrs[k].def, here)
    OBVIOUS
  <2>1. here \in DOMAIN g.blocks /\ here <= here
    BY <1>2, <1>8
  <2> QED
    BY <1>13, <2>1 DEF DefinedBy
<1>15. ASSUME NEW k \in DOMAIN g.blocks[here].code
       PROVE  k \in DOMAIN old \/ \E i \in DOMAIN instrs : k = l + i
  <2>1. k \in 1 .. l + Len(instrs)
    BY <1>3, <1>4, <1>8
  <2>2. CASE k <= l
    BY <1>2, <2>1, <2>2
  <2>3. CASE k > l
    <3>2. l \in Nat /\ Len(instrs) \in Nat
      BY <1>2
    <3>1. k - l \in 1 .. Len(instrs) /\ k = l + (k - l)
      BY <2>1, <2>3, <3>2, Shifted
    <3> QED
      BY <1>2, <3>1
  <2> QED
    BY <1>2, <2>1, <2>2, <2>3
<1>16. UsesDefined(g)
  <2> SUFFICES ASSUME NEW b \in DOMAIN f.blocks
               PROVE  /\ \A k \in DOMAIN g.blocks[b].code :
                            \A v \in g.blocks[b].code[k].uses : Available(g, v, b, k)
                      /\ \A v \in g.blocks[b].term.uses : DefinedBy(g, v, b)
    BY <1>8 DEF UsesDefined
  <2>1. \A v \in g.blocks[b].term.uses : DefinedBy(g, v, b)
    BY <1>9, <1>11 DEF Sound, UsesDefined
  <2>2. ASSUME NEW k \in DOMAIN f.blocks[b].code, NEW v \in g.blocks[b].code[k].uses
        PROVE  Available(g, v, b, k)
    BY <1>10, <1>11 DEF Sound, UsesDefined
  <2>3. ASSUME b = here, NEW i \in DOMAIN instrs, NEW v \in g.blocks[b].code[l + i].uses
        PROVE  Available(g, v, b, l + i)
    <3>1. v \in instrs[i].uses
      BY <1>13, <2>3
    <3>2. CASE DefinedBy(f, v, here)
      <4>1. PICK c \in DOMAIN f.blocks : c <= here /\ \E j \in DOMAIN f.blocks[c].code : f.blocks[c].code[j].def = v
        BY <3>2 DEF DefinedBy
      <4>2. PICK j \in DOMAIN f.blocks[c].code : f.blocks[c].code[j].def = v
        BY <4>1
      <4>3. j \in DOMAIN g.blocks[c].code /\ g.blocks[c].code[j].def = v /\ c \in DOMAIN g.blocks
        BY <1>8, <1>10, <4>2
      <4>4. c < here \/ (c = here /\ j < l + i)
        <5>1. c \in Nat /\ i \in 1 .. Len(instrs)
          BY <1>2
        <5>2. CASE c = here
          <6>1. j \in 1 .. l
            BY <1>2, <4>2, <5>2
          <6> QED
            BY <1>2, <5>1, <5>2, <6>1
        <5>3. CASE c # here
          BY <1>2, <4>1, <5>1, <5>3
        <5> QED
          BY <5>2, <5>3
      <4> QED
        BY <2>3, <4>3, <4>4 DEF Available
    <3>3. CASE \E j \in DOMAIN instrs : j < i /\ instrs[j].def = v
      <4>1. PICK j \in DOMAIN instrs : j < i /\ instrs[j].def = v
        BY <3>3
      <4>5. l \in Nat /\ i \in Nat /\ j \in Nat
        BY <1>2
      <4>2. l + j < l + i
        BY <4>1, <4>5, BothShifted, Zenon
      <4>3. l + j \in DOMAIN g.blocks[here].code /\ g.blocks[here].code[l + j].def = v
        BY <1>13, <4>1
      <4> QED
        BY <1>2, <1>8, <2>3, <4>2, <4>3 DEF Available
    <3> QED
      BY <3>1, <3>2, <3>3 DEF Fit
  <2> QED
    BY <1>8, <1>15, <2>1, <2>2, <2>3, SMTT(30)
<1>17. PhisFit(g)
  <2> SUFFICES ASSUME NEW b \in DOMAIN f.blocks, NEW k \in DOMAIN g.blocks[b].code,
                      NEW input \in g.blocks[b].code[k].inputs
               PROVE  DefinedBy(g, input[1], Len(f.blocks)) /\ input[2] \in f.blocks[b].preds
    BY <1>8, <1>9 DEF PhisFit
  <2>1. CASE k \in DOMAIN f.blocks[b].code
    BY <1>10, <1>11, <2>1 DEF Sound, PhisFit
  <2>2. CASE b = here /\ \E i \in DOMAIN instrs : k = l + i
    <3>1. PICK i \in DOMAIN instrs : k = l + i
      BY <2>2
    <3>2. input \in instrs[i].inputs
      BY <1>13, <2>2, <3>1
    <3> QED
      BY <1>11, <2>2, <3>2 DEF Fit
  <2> QED
    BY <1>8, <1>15, <2>1, <2>2
<1>18. Sound(g)
  BY <1>2, <1>7, <1>8, <1>12, <1>16, <1>17 DEF Sound
<1>19. Keeps(f, g)
  <2>1. Len(f.blocks) <= Len(g.blocks)
    BY <1>2, <1>8
  <2> QED
    BY <1>11, <2>1, Zenon DEF Keeps
<1>20. OpenBlocks(g) = OpenBlocks(f)
  BY <1>8, <1>9 DEF OpenBlocks
<1> QED
  BY <1>7, <1>8, <1>9, <1>14, <1>18, <1>19, <1>20 DEF g

LEMMA CloseSound ==
    ASSUME NEW f, Sound(f), NEW term \in TermSet, term # Open,
           Successors(term) \subseteq DOMAIN f.blocks,
           \A v \in term.uses : DefinedBy(f, v, f.current)
    PROVE  LET g == Close(f, term)
           IN  /\ Sound(g) /\ Keeps(f, g)
               /\ OpenBlocks(g) = OpenBlocks(f) \ {f.current}
               /\ g.current = f.current /\ g.values = f.values
               /\ Len(g.blocks) = Len(f.blocks)
<1>1. CASE Terminated(f)
  <2>1. Close(f, term) = f
    BY <1>1 DEF Close
  <2>2. f.current \notin OpenBlocks(f)
    BY <1>1 DEF Terminated, OpenBlocks
  <2>3. f \in FunctionSet
    BY DEF Sound
  <2>4. Keeps(f, f)
    <3>1. Len(f.blocks) <= Len(f.blocks)
      BY <2>3, FunctionIs
    <3> QED
      BY <3>1, Zenon DEF Keeps
  <2> QED
    BY <2>1, <2>2, <2>4
<1>2. CASE ~Terminated(f)
  <2>1. Close(f, term) = SetTerminator(f, term)
    BY <1>2 DEF Close
  <2> QED
    BY <1>2, <2>1, SetTerminatorSound
<1> QED
  BY <1>1, <1>2

(* What a statement without a body does: it stays in its block, or opens a *)
(* fresh one when that has ended.                                          *)
Continues(f, g) ==
    /\ Sound(g) /\ Keeps(f, g)
    /\ OpenBlocks(g) \ {g.current} = OpenBlocks(f) \ {f.current}
    /\ g.current = f.current \/ g.current = Len(f.blocks) + 1

LEMMA EnsureOpenBlockSound ==
    ASSUME NEW f, Sound(f)
    PROVE  LET g == EnsureOpenBlock(f)
           IN  /\ Continues(f, g) /\ ~Terminated(g) /\ g.values = f.values
               /\ g.current \in OpenBlocks(g)
<1>1. f \in FunctionSet /\ f.current \in DOMAIN f.blocks
  BY DEF Sound
<1>2. Len(f.blocks) \in Nat /\ DOMAIN f.blocks = 1 .. Len(f.blocks)
  BY <1>1, FunctionIs
<1>3. CASE Terminated(f)
  <2> DEFINE n == NewBlocks(f, 1)
             g == EnterBlock(n, Len(f.blocks) + 1)
  <2>1. /\ Sound(n) /\ Keeps(f, n)
        /\ OpenBlocks(n) = OpenBlocks(f) \cup (Len(f.blocks) + 1 .. Len(f.blocks) + 1)
        /\ n.values = f.values /\ Len(n.blocks) = Len(f.blocks) + 1
    BY NewBlocksSound
  <2> HIDE DEF n
  <2>2. Len(f.blocks) + 1 \in DOMAIN n.blocks
    <3>1. DOMAIN n.blocks = 1 .. Len(n.blocks)
      BY <2>1, FunctionIs DEF Sound
    <3> QED
      BY <1>2, <2>1, <3>1
  <2>3. /\ Sound(g) /\ Keeps(n, g) /\ OpenBlocks(g) = OpenBlocks(n)
        /\ g.current = Len(f.blocks) + 1 /\ g.values = n.values
    BY <2>1, <2>2, EnterBlockSound
  <2> HIDE DEF g
  <2>4. Keeps(f, g)
    BY <1>1, <2>1, <2>3, KeepsFurther DEF Sound
  <2>5. f.current \notin OpenBlocks(f) /\ Len(f.blocks) + 1 \notin OpenBlocks(f)
    BY <1>2, <1>3 DEF Terminated, OpenBlocks
  <2>6. OpenBlocks(g) \ {g.current} = OpenBlocks(f) \ {f.current} /\ g.current \in OpenBlocks(g)
    BY <1>2, <2>1, <2>3, <2>5
  <2>7. ~Terminated(g)
    BY <2>6 DEF OpenBlocks, Terminated
  <2>8. EnsureOpenBlock(f) = g
    BY <1>3 DEF EnsureOpenBlock, g, n
  <2> QED
    BY <2>1, <2>3, <2>4, <2>6, <2>7, <2>8 DEF Continues
<1>4. CASE ~Terminated(f)
  <2>1. EnsureOpenBlock(f) = f
    BY <1>4 DEF EnsureOpenBlock
  <2>2. Keeps(f, f)
    <3>1. Len(f.blocks) <= Len(f.blocks)
      BY <1>2
    <3> QED
      BY <3>1, Zenon DEF Keeps
  <2>3. f.current \in OpenBlocks(f)
    BY <1>1, <1>4 DEF Terminated, OpenBlocks
  <2> QED
    BY <1>4, <2>1, <2>2, <2>3 DEF Continues
<1> QED
  BY <1>3, <1>4

LEMMA PatchPhiSound ==
    ASSUME NEW f, Sound(f), NEW header \in DOMAIN f.blocks, NEW index, NEW value \in Nat,
           NEW pred \in f.blocks[header].preds, DefinedBy(f, value, Len(f.blocks))
    PROVE  LET g == PatchPhi(f, header, index, value, pred)
           IN  /\ Sound(g) /\ Keeps(f, g) /\ OpenBlocks(g) = OpenBlocks(f)
               /\ g.current = f.current /\ g.values = f.values
               /\ Len(g.blocks) = Len(f.blocks)
<1> DEFINE g == PatchPhi(f, header, index, value, pred)
           old == f.blocks[header].code
           new == [i \in DOMAIN old |->
                      IF old[i].op = "phi" /\ old[i].def = index
                      THEN AddInput(old[i], <<value, pred>>)
                      ELSE old[i]]
           patched == [f.blocks[header] EXCEPT !.code = new]
<1>1. f \in FunctionSet
  BY DEF Sound
<1>2. /\ f.blocks \in Seq(BlockSet) /\ f.current \in DOMAIN f.blocks
      /\ DOMAIN f.blocks = 1 .. Len(f.blocks) /\ Len(f.blocks) \in Nat
      /\ f.blocks[header] \in BlockSet /\ pred \in Nat
      /\ old \in Seq(InstrSet) /\ Len(old) \in Nat /\ DOMAIN old = 1 .. Len(old)
      /\ \A k \in DOMAIN old : old[k] \in InstrSet
  BY <1>1, FunctionIs DEF Sound
<1>3. ASSUME NEW i \in DOMAIN old
      PROVE  /\ new[i] \in InstrSet /\ new[i].def = old[i].def /\ new[i].uses = old[i].uses
             /\ \A input \in new[i].inputs : input \in old[i].inputs \/ input = <<value, pred>>
  <2>1. old[i] \in InstrSet
    BY <1>2
  <2>2. new[i] = IF old[i].op = "phi" /\ old[i].def = index
                 THEN AddInput(old[i], <<value, pred>>)
                 ELSE old[i]
    OBVIOUS
  <2> HIDE DEF old, new
  <2>3. old[i].inputs \cup {<<value, pred>>} \in SUBSET (Nat \X Nat)
    BY <1>2, <2>1 DEF InstrSet
  <2> DEFINE patch == AddInput(old[i], <<value, pred>>)
  <2>4. /\ patch \in InstrSet /\ patch.def = old[i].def /\ patch.uses = old[i].uses
        /\ patch.inputs = old[i].inputs \cup {<<value, pred>>}
    BY <2>1, <2>3 DEF InstrSet, AddInput
  <2> HIDE DEF patch
  <2>5. new[i] = patch \/ new[i] = old[i]
    BY <2>2 DEF patch
  <2> QED
    BY <2>1, <2>4, <2>5
<1>4. new \in Seq(InstrSet) /\ DOMAIN new = DOMAIN old
  <2>1. DOMAIN new = DOMAIN old /\ new = [i \in DOMAIN new |-> new[i]]
    OBVIOUS
  <2> HIDE DEF new
  <2>2. new \in [1 .. Len(old) -> InstrSet]
    BY <1>2, <1>3, <2>1
  <2> QED
    BY <1>2, <2>1, <2>2
<1>5. g = [f EXCEPT !.blocks = [f.blocks EXCEPT ![header] = patched]]
  BY DEF PatchPhi
<1> HIDE DEF new, g
<1>6. /\ patched \in BlockSet /\ patched.code = new
      /\ patched.term = f.blocks[header].term /\ patched.preds = f.blocks[header].preds
  BY <1>2, <1>4 DEF BlockSet
<1> HIDE DEF patched
<1>7. [f.blocks EXCEPT ![header] = patched] \in Seq(BlockSet)
  BY <1>2, <1>6, ExceptSeq
<1>8. /\ g \in FunctionSet /\ g.blocks = [f.blocks EXCEPT ![header] = patched]
      /\ g.current = f.current /\ g.values = f.values /\ g.errors = f.errors
  BY <1>1, <1>5, <1>7 DEF FunctionSet
<1>9. /\ DOMAIN g.blocks = DOMAIN f.blocks /\ Len(g.blocks) = Len(f.blocks)
      /\ g.blocks[header] = patched
      /\ \A b \in DOMAIN f.blocks : b # header => g.blocks[b] = f.blocks[b]
  <2>1. DOMAIN g.blocks = DOMAIN f.blocks
    BY <1>8
  <2>2. Len(g.blocks) = Len(f.blocks)
    BY <1>2, <1>6, <1>8, ExceptSeq
  <2> QED
    BY <1>2, <1>8, <2>1, <2>2
<1>10. ASSUME NEW b \in DOMAIN f.blocks
       PROVE  /\ g.blocks[b].term = f.blocks[b].term /\ g.blocks[b].preds = f.blocks[b].preds
              /\ DOMAIN g.blocks[b].code = DOMAIN f.blocks[b].code
              /\ \A k \in DOMAIN f.blocks[b].code :
                    /\ g.blocks[b].code[k].def = f.blocks[b].code[k].def
                    /\ g.blocks[b].code[k].uses = f.blocks[b].code[k].uses
                    /\ \A input \in g.blocks[b].code[k].inputs :
                          input \in f.blocks[b].code[k].inputs \/ (b = header /\ input = <<value, pred>>)
  <2>1. CASE b = header
    BY <1>3, <1>4, <1>6, <1>9, <2>1
  <2>2. CASE b # header
    BY <1>9, <2>2
  <2> QED
    BY <2>1, <2>2
<1>11. /\ \A v, b : DefinedBy(f, v, b) => DefinedBy(g, v, b)
       /\ \A v, b, k : Available(f, v, b, k) => Available(g, v, b, k)
  BY <1>9, <1>10, SMTT(30) DEF DefinedBy, Available
<1>12. EdgesMatch(g)
  BY <1>9, <1>10 DEF Sound, EdgesMatch
<1>13. UsesDefined(g)
  <2> SUFFICES ASSUME NEW b \in DOMAIN f.blocks
               PROVE  /\ \A k \in DOMAIN g.blocks[b].code :
                            \A v \in g.blocks[b].code[k].uses : Available(g, v, b, k)
                      /\ \A v \in g.blocks[b].term.uses : DefinedBy(g, v, b)
    BY <1>9 DEF UsesDefined
  <2> QED
    BY <1>10, <1>11 DEF Sound, UsesDefined
<1>14. PhisFit(g)
  <2> SUFFICES ASSUME NEW b \in DOMAIN f.blocks, NEW k \in DOMAIN f.blocks[b].code,
                      NEW input \in g.blocks[b].code[k].inputs
               PROVE  DefinedBy(g, input[1], Len(f.blocks)) /\ input[2] \in f.blocks[b].preds
    BY <1>9, <1>10 DEF PhisFit
  <2>1. CASE input \in f.blocks[b].code[k].inputs
    BY <1>11, <2>1 DEF Sound, PhisFit
  <2>2. CASE b = header /\ input = <<value, pred>>
    BY <1>11, <2>2
  <2> QED
    BY <1>10, <2>1, <2>2
<1>15. Sound(g)
  BY <1>2, <1>8, <1>9, <1>12, <1>13, <1>14 DEF Sound
<1>16. Keeps(f, g)
  <2>1. Len(f.blocks) <= Len(g.blocks)
    BY <1>2, <1>9
  <2> QED
    BY <1>11, <2>1, Zenon DEF Keeps
<1>17. OpenBlocks(g) = OpenBlocks(f)
  BY <1>9, <1>10 DEF OpenBlocks
<1> QED
  BY <1>8, <1>9, <1>15, <1>16, <1>17 DEF g

-----------------------------------------------------------------------------
(* Instructions and terminators *)

LEMMA TermIs ==
    ASSUME NEW op \in TermOps, op # "none", NEW targets \in Seq(Nat), NEW uses \in SUBSET Nat,
           NEW event \in Event
    PROVE  LET t == Term(op, targets, uses, event)
           IN  t \in TermSet /\ t # Open /\ t.uses = uses /\ Successors(t) = ToSet(targets)
  BY DEF Term, TermSet, Open, Successors

LEMMA JumpIs ==
    ASSUME NEW b \in Nat
    PROVE  Jump(b) \in TermSet /\ Jump(b) # Open /\ Jump(b).uses = {} /\ Successors(Jump(b)) = {b}
<1>1. "jump" \in TermOps /\ NoEvent \in Event /\ <<b>> \in Seq(Nat)
  BY DEF TermOps, NoEvent, Event, Phases
<1>2. ToSet(<<b>>) = {b}
  BY DEF ToSet
<1> DEFINE t == Jump(b)
<1>3. PICK o \in TermOps, to \in Seq(Nat), read \in SUBSET Nat, e \in Event :
         o = "jump" /\ to = <<b>> /\ read = {} /\ e = NoEvent
  BY <1>1
<1>4. t = Term(o, to, read, e)
  BY <1>3 DEF Jump
<1>5. o # "none"
  BY <1>1, <1>3
<1> HIDE DEF t
<1>6. t \in TermSet /\ t # Open /\ t.uses = read /\ Successors(t) = ToSet(to)
  BY <1>4, <1>5, TermIs
<1>7. t \in TermSet /\ t # Open /\ t.uses = {} /\ Successors(t) = {b}
  BY <1>2, <1>3, <1>6
<1> QED
  BY <1>7 DEF t

LEMMA BranchIs ==
    ASSUME NEW v \in Nat, NEW b \in Nat, NEW c \in Nat
    PROVE  LET t == Branch(v, b, c)
           IN  t \in TermSet /\ t # Open /\ t.uses = {v} /\ Successors(t) = {b, c}
<1>1. "branch" \in TermOps /\ NoEvent \in Event /\ <<b, c>> \in Seq(Nat)
  BY DEF TermOps, NoEvent, Event, Phases
<1>2. ToSet(<<b, c>>) = {b, c}
  BY DEF ToSet
<1> DEFINE t == Branch(v, b, c)
<1>3. PICK o \in TermOps, to \in Seq(Nat), read \in SUBSET Nat, e \in Event :
         o = "branch" /\ to = <<b, c>> /\ read = {v} /\ e = NoEvent
  BY <1>1
<1>4. t = Term(o, to, read, e)
  BY <1>3 DEF Branch
<1>5. o # "none"
  BY <1>1, <1>3
<1> HIDE DEF t
<1>6. t \in TermSet /\ t # Open /\ t.uses = read /\ Successors(t) = ToSet(to)
  BY <1>4, <1>5, TermIs
<1>7. t \in TermSet /\ t # Open /\ t.uses = {v} /\ Successors(t) = {b, c}
  BY <1>2, <1>3, <1>6
<1> QED
  BY <1>7 DEF t

(* The end of a function, of a path that returns or of one that is stuck.  *)
LEMMA ExitIs ==
    ASSUME NEW op \in {"return", "unreachable"}, NEW uses \in SUBSET Nat,
           NEW n \in Nat, NEW phase \in Phases
    PROVE  LET t == Term(op, <<>>, uses, <<n, phase>>)
           IN  t \in TermSet /\ t # Open /\ t.uses = uses /\ Successors(t) = {}
<1>1. op \in TermOps /\ op # "none" /\ <<n, phase>> \in Event /\ <<>> \in Seq(Nat)
  BY DEF TermOps, Event
<1>2. ToSet(<<>>) = {}
  BY DEF ToSet
<1> DEFINE t == Term(op, <<>>, uses, <<n, phase>>)
<1>3. PICK o \in TermOps, to \in Seq(Nat), read \in SUBSET Nat, e \in Event :
         o = op /\ to = <<>> /\ read = uses /\ e = <<n, phase>>
  BY <1>1
<1>4. t = Term(o, to, read, e)
  BY <1>3
<1>5. o # "none"
  BY <1>1, <1>3
<1> HIDE DEF t
<1>6. t \in TermSet /\ t # Open /\ t.uses = read /\ Successors(t) = ToSet(to)
  BY <1>4, <1>5, TermIs
<1>7. t \in TermSet /\ t # Open /\ t.uses = uses /\ Successors(t) = {}
  BY <1>2, <1>3, <1>6
<1> QED
  BY <1>7 DEF t

LEMMA InstrIs ==
    ASSUME NEW op \in InstrOps, NEW def \in Nat, NEW uses \in SUBSET Nat, NEW event \in Event
    PROVE  LET made == Instr(op, def, uses, event)
           IN  made \in InstrSet /\ made.def = def /\ made.uses = uses /\ made.inputs = {}
<1>1. {} \in SUBSET (Nat \X Nat)
  OBVIOUS
<1> QED
  BY <1>1 DEF Instr, InstrSet

LEMMA PhiIs ==
    ASSUME NEW def \in Nat, NEW v \in Nat, NEW b \in Nat
    PROVE  LET made == Phi(def, {<<v, b>>})
           IN  made \in InstrSet /\ made.def = def /\ made.uses = {} /\ made.inputs = {<<v, b>>}
<1>1. "phi" \in InstrOps /\ NoEvent \in Event /\ {} \in SUBSET Nat /\ {<<v, b>>} \in SUBSET (Nat \X Nat)
  BY DEF InstrOps, NoEvent, Event, Phases
<1> DEFINE i == Instr("phi", def, {}, NoEvent)
<1>2. i \in InstrSet /\ i.def = def /\ i.uses = {}
  <2>1. {} \in SUBSET (Nat \X Nat)
    OBVIOUS
  <2> QED
    BY <1>1, <2>1 DEF Instr, InstrSet
<1> HIDE DEF i
<1>3. [i EXCEPT !.inputs = {<<v, b>>}] \in InstrSet
  BY <1>1, <1>2 DEF InstrSet
<1>4. /\ [i EXCEPT !.inputs = {<<v, b>>}].def = def
      /\ [i EXCEPT !.inputs = {<<v, b>>}].uses = {}
      /\ [i EXCEPT !.inputs = {<<v, b>>}].inputs = {<<v, b>>}
  BY <1>2 DEF InstrSet
<1> QED
  BY <1>3, <1>4 DEF Phi, i

-----------------------------------------------------------------------------
(* Scopes *)

LEMMA GreatestExists ==
    ASSUME NEW S \in SUBSET Nat, IsFiniteSet(S), S # {}
    PROVE  \E i \in S : \A j \in S : j <= i
<1> DEFINE Above(i) == {j \in S : j > i}
           T == {Above(i) : i \in S}
<1>1. IsWellFoundedOn(StrictSubsetOrdering(S), FiniteSubsetsOf(S))
  BY FS_StrictSubsetOrderingWellFounded
<1>2. T \subseteq FiniteSubsetsOf(S)
  BY FS_Subset DEF FiniteSubsetsOf
<1>3. PICK X \in T : \A Y \in T : <<Y, X>> \notin StrictSubsetOrdering(S)
  <2>1. T # {}
    OBVIOUS
  <2> QED
    BY <1>1, <1>2, <2>1, WFMin
<1>4. PICK i \in S : X = Above(i)
  OBVIOUS
<1>5. ASSUME NEW j \in S, j > i PROVE FALSE
  <2>1. Above(j) \in T
    OBVIOUS
  <2>4. Above(j) \subseteq Above(i)
    <3> SUFFICES ASSUME NEW k \in S, k > j PROVE k > i
      OBVIOUS
    <3>1. i \in Nat /\ j \in Nat /\ k \in Nat
      OBVIOUS
    <3> QED
      BY <1>5, <3>1
  <2>2. j \in Above(i) /\ j \notin Above(j)
    BY <1>5
  <2>3. <<Above(j), Above(i)>> \in StrictSubsetOrdering(S)
    BY <2>2, <2>4 DEF StrictSubsetOrdering
  <2> QED
    BY <1>3, <1>4, <2>1, <2>3
<1> QED
  BY <1>5

LEMMA LookupFinds ==
    ASSUME NEW e \in Seq(ScopeSet), NEW name, Bound(e, name) # {}
    PROVE  \E j \in DOMAIN e : name \in DOMAIN e[j] /\ Lookup(e, name) = e[j][name]
<1>1. DOMAIN e = 1 .. Len(e) /\ Len(e) \in Nat
  BY SequenceIs
<1>2. Bound(e, name) \in SUBSET Nat /\ IsFiniteSet(Bound(e, name))
  <2>1. Bound(e, name) \subseteq 1 .. Len(e) /\ IsFiniteSet(1 .. Len(e))
    BY <1>1, FS_Interval DEF Bound
  <2> QED
    BY <2>1, FS_Subset
<1>3. \E i \in Bound(e, name) : \A j \in Bound(e, name) : j <= i
  BY <1>2, GreatestExists
<1> QED
  BY <1>3 DEF Lookup, Bound

LEMMA ScopeIs ==
    ASSUME NEW scope \in ScopeSet
    PROVE  \A n \in DOMAIN scope : n \in Names /\ scope[n] \in Nat
  BY DEF ScopeSet

LEMMA PushIs ==
    ASSUME NEW e \in Seq(ScopeSet)
    PROVE  /\ PushScope(e) \in Seq(ScopeSet) /\ Len(PushScope(e)) = Len(e) + 1
           /\ \A j \in DOMAIN e : PushScope(e)[j] = e[j]
           /\ PushScope(e)[Len(e) + 1] = NewScope
           /\ DOMAIN NewScope = {}
<1>1. NewScope \in [{} -> Nat] /\ DOMAIN NewScope = {}
  BY DEF NewScope
<1>2. NewScope \in ScopeSet
  BY <1>1 DEF ScopeSet
<1>3. Len(e) \in Nat /\ DOMAIN e = 1 .. Len(e)
  BY SequenceIs
<1> QED
  BY <1>1, <1>2, <1>3, AppendProperties DEF PushScope

LEMMA PopIs ==
    ASSUME NEW e \in Seq(ScopeSet), Len(e) > 1
    PROVE  /\ PopScope(e) \in Seq(ScopeSet) /\ Len(PopScope(e)) = Len(e) - 1
           /\ \A j \in 1 .. Len(e) - 1 : PopScope(e)[j] = e[j]
<1>1. e # <<>>
  BY EmptySeq
<1> QED
  BY <1>1, FrontLast DEF PopScope

LEMMA InsertIs ==
    ASSUME NEW e \in Seq(ScopeSet), Len(e) > 0, NEW name \in Names, NEW slot \in Nat
    PROVE  LET g == Insert(e, name, slot)
           IN  /\ g \in Seq(ScopeSet) /\ Len(g) = Len(e)
               /\ \A j \in DOMAIN e : j # Len(e) => g[j] = e[j]
               /\ \A n \in DOMAIN g[Len(e)] :
                     \/ n = name /\ g[Len(e)][n] = slot
                     \/ n \in DOMAIN e[Len(e)] /\ g[Len(e)][n] = e[Len(e)][n]
<1> DEFINE l == Len(e)
           old == e[l]
           new == [n \in DOMAIN old \cup {name} |-> IF n = name THEN slot ELSE old[n]]
<1>1. l \in Nat /\ DOMAIN e = 1 .. l /\ l \in 1 .. l
  BY SequenceIs
<1>2. old \in ScopeSet
  BY <1>1, SequenceIs
<1>3. new \in ScopeSet
  <2>1. DOMAIN old \cup {name} \in SUBSET Names
    BY <1>2, ScopeIs
  <2>2. \A n \in DOMAIN old \cup {name} : (IF n = name THEN slot ELSE old[n]) \in Nat
    BY <1>2, ScopeIs
  <2>3. new \in [DOMAIN old \cup {name} -> Nat]
    BY <2>2
  <2> QED
    BY <2>1, <2>3 DEF ScopeSet
<1>4. \A n \in DOMAIN new :
         \/ n = name /\ new[n] = slot
         \/ n \in DOMAIN old /\ new[n] = old[n]
  OBVIOUS
<1>5. Insert(e, name, slot) = [e EXCEPT ![l] = new]
  BY DEF Insert
<1> HIDE DEF new
<1>6. [e EXCEPT ![l] = new] \in Seq(ScopeSet) /\ Len([e EXCEPT ![l] = new]) = l
  BY <1>1, <1>3, ExceptSeq
<1>7. [e EXCEPT ![l] = new][l] = new /\ \A j \in DOMAIN e : j # l => [e EXCEPT ![l] = new][j] = e[j]
  BY <1>1
<1> QED
  BY <1>4, <1>5, <1>6, <1>7

-----------------------------------------------------------------------------
(* Open statements *)

LEMMA AwaitedIs ==
    ASSUME NEW x \in FrameSet
    PROVE  /\ x.other \in Nat /\ x.exit \in Nat /\ x.index \in Nat /\ x.at \in Nat
           /\ x.exit \in Awaited(x) /\ Awaited(x) \subseteq {x.other, x.exit}
           /\ Awaited(x) \in SUBSET Nat
           /\ x.kind \in {"then", "for"} => Awaited(x) = {x.other, x.exit}
           /\ x.kind \in {"else", "while"} => Awaited(x) = {x.exit}
<1>1. /\ x.kind \in {"then", "else", "while", "for"}
      /\ x.other \in Nat /\ x.exit \in Nat /\ x.index \in Nat /\ x.at \in Nat
  BY DEF FrameSet
<1>2. CASE x.kind = "then"
  BY <1>1, <1>2 DEF Awaited
<1>3. CASE x.kind = "else"
  BY <1>1, <1>3 DEF Awaited
<1>4. CASE x.kind = "while"
  BY <1>1, <1>4 DEF Awaited
<1>5. CASE x.kind = "for"
  BY <1>1, <1>5 DEF Awaited
<1> QED
  BY <1>1, <1>2, <1>3, <1>4, <1>5

LEMMA AwaitedByLonger ==
    ASSUME NEW fs \in Seq(FrameSet), NEW x \in FrameSet
    PROVE  /\ Append(fs, x) \in Seq(FrameSet) /\ Len(Append(fs, x)) = Len(fs) + 1
           /\ DOMAIN Append(fs, x) = DOMAIN fs \cup {Len(fs) + 1}
           /\ Len(fs) + 1 \notin DOMAIN fs
           /\ \A i \in DOMAIN fs : Append(fs, x)[i] = fs[i]
           /\ Append(fs, x)[Len(fs) + 1] = x
           /\ AwaitedBy(Append(fs, x)) = AwaitedBy(fs) \cup Awaited(x)
<1>1. Len(fs) \in Nat /\ DOMAIN fs = 1 .. Len(fs)
  BY SequenceIs
<1>2. Append(fs, x) \in Seq(FrameSet) /\ Len(Append(fs, x)) = Len(fs) + 1
  BY AppendProperties
<1>3. DOMAIN Append(fs, x) = DOMAIN fs \cup {Len(fs) + 1} /\ Len(fs) + 1 \notin DOMAIN fs
  <2>1. DOMAIN Append(fs, x) = 1 .. Len(fs) + 1
    BY <1>2, SequenceIs
  <2> QED
    BY <1>1, <2>1
<1>4. (\A i \in DOMAIN fs : Append(fs, x)[i] = fs[i]) /\ Append(fs, x)[Len(fs) + 1] = x
  BY <1>1, AppendProperties
<1>5. AwaitedBy(Append(fs, x)) = AwaitedBy(fs) \cup Awaited(x)
  BY <1>3, <1>4, Zenon DEF AwaitedBy
<1> QED
  BY <1>2, <1>3, <1>4, <1>5

LEMMA FrontAndLast ==
    ASSUME NEW S, NEW s \in Seq(S), s # <<>>
    PROVE  /\ Front(s) \in Seq(S) /\ Last(s) \in S /\ Len(Front(s)) = Len(s) - 1
           /\ s = Append(Front(s), Last(s))
           /\ \A e \in S : [s EXCEPT ![Len(s)] = e] = Append(Front(s), e)
<1>1. /\ Len(s) \in Nat \ {0} /\ Front(s) \in Seq(S) /\ Len(Front(s)) = Len(s) - 1
      /\ \A i \in 1 .. Len(s) - 1 : Front(s)[i] = s[i]
      /\ Last(s) \in S /\ Last(s) = s[Len(s)]
  BY FrontLast
<1>2. ASSUME NEW e \in S, NEW t \in Seq(S), Len(t) = Len(s), t[Len(s)] = e,
             \A i \in 1 .. Len(s) - 1 : t[i] = s[i]
      PROVE  t = Append(Front(s), e)
  <2>1. Append(Front(s), e) \in Seq(S) /\ Len(Append(Front(s), e)) = Len(s)
    BY <1>1, AppendProperties
  <2>2. \A i \in 1 .. Len(s) - 1 : Append(Front(s), e)[i] = s[i]
    BY <1>1, AppendProperties
  <2>3. Append(Front(s), e)[Len(s)] = e
    <3>1. Append(Front(s), e)[Len(Front(s)) + 1] = e
      BY <1>1, AppendProperties
    <3> QED
      BY <1>1, <3>1
  <2>4. \A i \in 1 .. Len(s) : t[i] = Append(Front(s), e)[i]
    <3>1. \A i \in 1 .. Len(s) : i = Len(s) \/ i \in 1 .. Len(s) - 1
      BY <1>1
    <3> QED
      BY <1>2, <2>2, <2>3, <3>1
  <2> QED
    BY <1>2, <2>1, <2>4, SeqEqual
<1>3. s = Append(Front(s), Last(s))
  BY <1>1, <1>2
<1>4. ASSUME NEW e \in S PROVE [s EXCEPT ![Len(s)] = e] = Append(Front(s), e)
  <2>1. Len(s) \in 1 .. Len(s) /\ DOMAIN s = 1 .. Len(s)
    BY <1>1, SequenceIs
  <2>2. [s EXCEPT ![Len(s)] = e] \in Seq(S) /\ Len([s EXCEPT ![Len(s)] = e]) = Len(s)
    BY <2>1, ExceptSeq
  <2>3. [s EXCEPT ![Len(s)] = e][Len(s)] = e
    BY <2>1
  <2>4. \A i \in 1 .. Len(s) - 1 : [s EXCEPT ![Len(s)] = e][i] = s[i]
    BY <1>1, <2>1
  <2> QED
    BY <1>2, <2>2, <2>3, <2>4
<1> QED
  BY <1>1, <1>3, <1>4

LEMMA KindsBelowIs ==
    ASSUME NEW fs, NEW i \in Nat \ {0}, NEW kinds
    PROVE  /\ IsFiniteSet(KindsBelow(fs, i, kinds)) /\ Cardinality(KindsBelow(fs, i, kinds)) \in Nat
           /\ Cardinality(KindsBelow(fs, 1, kinds)) = 0
           /\ Cardinality(KindsBelow(fs, i + 1, kinds)) =
                 Cardinality(KindsBelow(fs, i, kinds)) + IF fs[i].kind \in kinds THEN 1 ELSE 0
<1>1. IsFiniteSet(KindsBelow(fs, i, kinds))
  <2>1. IsFiniteSet(1 .. i - 1) /\ KindsBelow(fs, i, kinds) \in SUBSET (1 .. i - 1)
    BY FS_Interval DEF KindsBelow
  <2> QED
    BY <2>1, FS_Subset
<1>2. Cardinality(KindsBelow(fs, i, kinds)) \in Nat
  BY <1>1, FS_CardinalityType
<1>3. Cardinality(KindsBelow(fs, 1, kinds)) = 0
  <2>1. KindsBelow(fs, 1, kinds) = {}
    BY DEF KindsBelow
  <2> QED
    BY <2>1, FS_EmptySet
<1>4. i \notin KindsBelow(fs, i, kinds)
  BY DEF KindsBelow
<1>5. CASE fs[i].kind \in kinds
  <2>1. KindsBelow(fs, i + 1, kinds) = KindsBelow(fs, i, kinds) \cup {i}
    BY <1>5 DEF KindsBelow
  <2> QED
    BY <1>1, <1>2, <1>3, <1>4, <1>5, <2>1, FS_AddElement
<1>6. CASE fs[i].kind \notin kinds
  <2>1. KindsBelow(fs, i + 1, kinds) = KindsBelow(fs, i, kinds)
    BY <1>6 DEF KindsBelow
  <2> QED
    BY <1>1, <1>2, <1>3, <1>6, <2>1
<1> QED
  BY <1>5, <1>6

LEMMA ScopesBelowIs ==
    ASSUME NEW fs, NEW i \in Nat \ {0}
    PROVE  /\ ScopesBelow(fs, i) \in Nat /\ LoopsBelow(fs, i) \in Nat
           /\ ScopesBelow(fs, i) >= 1 + i
           /\ ScopesBelow(fs, 1) = 2 /\ LoopsBelow(fs, 1) = 0
           /\ ScopesBelow(fs, i + 1) = ScopesBelow(fs, i) + IF fs[i].kind = "for" THEN 2 ELSE 1
           /\ LoopsBelow(fs, i + 1) = LoopsBelow(fs, i) + IF fs[i].kind \in {"while", "for"} THEN 1 ELSE 0
<1>1. /\ Cardinality(KindsBelow(fs, i, {"for"})) \in Nat
      /\ Cardinality(KindsBelow(fs, 1, {"for"})) = 0
      /\ Cardinality(KindsBelow(fs, i + 1, {"for"})) =
            Cardinality(KindsBelow(fs, i, {"for"})) + IF fs[i].kind \in {"for"} THEN 1 ELSE 0
  BY KindsBelowIs
<1>2. /\ LoopsBelow(fs, i) \in Nat /\ LoopsBelow(fs, 1) = 0
      /\ LoopsBelow(fs, i + 1) = LoopsBelow(fs, i) + IF fs[i].kind \in {"while", "for"} THEN 1 ELSE 0
  BY KindsBelowIs DEF LoopsBelow
<1>3. fs[i].kind \in {"for"} <=> fs[i].kind = "for"
  OBVIOUS
<1>4. /\ ScopesBelow(fs, i) = 1 + i + Cardinality(KindsBelow(fs, i, {"for"}))
      /\ ScopesBelow(fs, i + 1) = 1 + (i + 1) + Cardinality(KindsBelow(fs, i + 1, {"for"}))
      /\ ScopesBelow(fs, 1) = 1 + 1 + Cardinality(KindsBelow(fs, 1, {"for"}))
  BY DEF ScopesBelow
<1> QED
  BY <1>1, <1>2, <1>3, <1>4

LEMMA ScopesBelowGrows ==
    ASSUME NEW fs, NEW i \in Nat \ {0}, NEW j \in Nat \ {0}, i < j
    PROVE  ScopesBelow(fs, i) < ScopesBelow(fs, j)
<1>1. KindsBelow(fs, i, {"for"}) \in SUBSET KindsBelow(fs, j, {"for"})
  BY DEF KindsBelow
<1>2. /\ Cardinality(KindsBelow(fs, i, {"for"})) <= Cardinality(KindsBelow(fs, j, {"for"}))
      /\ Cardinality(KindsBelow(fs, i, {"for"})) \in Nat
      /\ Cardinality(KindsBelow(fs, j, {"for"})) \in Nat
  BY <1>1, KindsBelowIs, FS_Subset
<1> QED
  BY <1>2 DEF ScopesBelow

(* The count below a statement is a matter of the statements before it.    *)
LEMMA ScopesBelowSame ==
    ASSUME NEW fs \in Seq(FrameSet), NEW x \in FrameSet, NEW i \in 1 .. Len(fs) + 1
    PROVE  /\ ScopesBelow(Append(fs, x), i) = ScopesBelow(fs, i)
           /\ LoopsBelow(Append(fs, x), i) = LoopsBelow(fs, i)
<1>1. \A k \in 1 .. i - 1 : Append(fs, x)[k] = fs[k]
  <2>1. \A k \in 1 .. i - 1 : k \in DOMAIN fs
    BY SequenceIs
  <2> QED
    BY <2>1, AwaitedByLonger
<1>2. \A kinds : KindsBelow(Append(fs, x), i, kinds) = KindsBelow(fs, i, kinds)
  BY <1>1 DEF KindsBelow
<1> QED
  BY <1>2 DEF ScopesBelow, LoopsBelow

-----------------------------------------------------------------------------
(* A statement without a body *)

LEMMA ContinuesIs ==
    ASSUME NEW f, Sound(f), NEW g, Continues(f, g)
    PROVE  /\ f \in FunctionSet /\ g \in FunctionSet
           /\ f.current \in Nat /\ g.current \in Nat /\ f.current <= g.current
           /\ Len(f.blocks) \in Nat /\ Len(g.blocks) \in Nat
           /\ Len(f.blocks) <= Len(g.blocks)
           /\ DOMAIN f.blocks = 1 .. Len(f.blocks) /\ DOMAIN g.blocks = 1 .. Len(g.blocks)
           /\ DOMAIN f.blocks \subseteq DOMAIN g.blocks
           /\ f.current \in DOMAIN f.blocks /\ g.current \in DOMAIN g.blocks
<1>1. f \in FunctionSet /\ g \in FunctionSet /\ f.current \in DOMAIN f.blocks /\ g.current \in DOMAIN g.blocks
  BY DEF Sound, Continues
<1>2. /\ Len(f.blocks) \in Nat /\ Len(g.blocks) \in Nat
      /\ DOMAIN f.blocks = 1 .. Len(f.blocks) /\ DOMAIN g.blocks = 1 .. Len(g.blocks)
  BY <1>1, FunctionIs
<1>3. Len(f.blocks) <= Len(g.blocks)
  BY DEF Continues, Keeps
<1>4. f.current <= g.current
  <2>1. f.current \in 1 .. Len(f.blocks)
    BY <1>1, <1>2
  <2>2. g.current = f.current \/ g.current = Len(f.blocks) + 1
    BY DEF Continues
  <2> QED
    BY <1>2, <2>1, <2>2
<1> QED
  BY <1>1, <1>2, <1>3, <1>4

LEMMA WaitsOn ==
    ASSUME NEW f, Sound(f), NEW g, Continues(f, g), NEW fs, NEW ahead, WaitsFor(f, fs, ahead)
    PROVE  WaitsFor(g, fs, ahead)
<1>1. OpenBlocks(g) \ {g.current} = AwaitedBy(fs) \cup ahead
  BY DEF WaitsFor, Continues
<1>2. g.current \notin AwaitedBy(fs) \cup ahead
  <2>1. CASE g.current = f.current
    BY <2>1 DEF WaitsFor
  <2>2. CASE g.current = Len(f.blocks) + 1
    <3>1. g.current \notin DOMAIN f.blocks
      BY <2>2, ContinuesIs
    <3>2. AwaitedBy(fs) \cup ahead \subseteq DOMAIN f.blocks
      BY DEF WaitsFor, OpenBlocks
    <3> QED
      BY <3>1, <3>2
  <2> QED
    BY <2>1, <2>2 DEF Continues
<1>3. \A i \in DOMAIN fs : fs[i].other \in DOMAIN g.blocks
  BY ContinuesIs DEF WaitsFor
<1> QED
  BY <1>1, <1>2, <1>3 DEF WaitsFor

LEMMA SlotsIn ==
    ASSUME NEW e \in Seq(ScopeSet), NEW j \in DOMAIN e
    PROVE  \A n \in DOMAIN e[j] : n \in Names /\ e[j][n] \in Nat
<1>1. e[j] \in ScopeSet
  BY SequenceIs
<1> QED
  BY <1>1, ScopeIs

LEMMA SlotsStay ==
    ASSUME NEW f, Sound(f), NEW g, Sound(g), Keeps(f, g), f.current <= g.current,
           NEW e \in Seq(ScopeSet), NEW fs \in Seq(FrameSet), SlotsKnown(f, e, fs)
    PROVE  SlotsKnown(g, e, fs)
<1>1. f \in FunctionSet /\ g \in FunctionSet
  BY DEF Sound
<1>2. f.current \in Nat /\ g.current \in Nat
  BY <1>1, FunctionIs
<1>3. \A i \in DOMAIN fs : Awaited(fs[i]) \in SUBSET Nat /\ fs[i].index \in Nat /\ fs[i].other \in Nat
  BY SequenceIs, AwaitedIs
<1>4. ASSUME NEW j \in DOMAIN e, NEW n \in DOMAIN e[j]
      PROVE  /\ DefinedBy(g, e[j][n], g.current)
             /\ \A i \in DOMAIN fs : j <= ScopesBelow(fs, i) =>
                   \A b \in Awaited(fs[i]) : DefinedBy(g, e[j][n], b)
  <2>1. e[j][n] \in Nat
    BY SlotsIn
  <2>2. DefinedBy(f, e[j][n], f.current)
    BY DEF SlotsKnown
  <2>3. DefinedBy(g, e[j][n], f.current)
    BY <1>2, <2>1, <2>2 DEF Keeps
  <2>4. DefinedBy(g, e[j][n], g.current)
    BY <1>1, <1>2, <2>3, DefinedLater
  <2>5. ASSUME NEW i \in DOMAIN fs, j <= ScopesBelow(fs, i), NEW b \in Awaited(fs[i])
        PROVE  DefinedBy(g, e[j][n], b)
    <3>1. DefinedBy(f, e[j][n], b)
      BY <2>5 DEF SlotsKnown
    <3> QED
      BY <1>3, <2>1, <3>1 DEF Keeps
  <2> QED
    BY <2>4, <2>5
<1>5. ASSUME NEW i \in DOMAIN fs, fs[i].kind = "for"
      PROVE  fs[i].other > 2 /\ DefinedBy(g, fs[i].index, fs[i].other)
  <2>1. fs[i].other > 2 /\ DefinedBy(f, fs[i].index, fs[i].other)
    BY <1>5 DEF SlotsKnown
  <2> QED
    BY <1>3, <2>1 DEF Keeps
<1> QED
  BY <1>4, <1>5 DEF SlotsKnown

LEMMA SlotsPushed ==
    ASSUME NEW f, NEW e \in Seq(ScopeSet), Len(e) > 0, NEW fs, SlotsKnown(f, e, fs)
    PROVE  SlotsKnown(f, PushScope(e), fs)
<1> DEFINE g == PushScope(e)
<1>1. /\ g \in Seq(ScopeSet) /\ Len(g) = Len(e) + 1
      /\ \A j \in DOMAIN e : g[j] = e[j]
      /\ g[Len(e) + 1] = NewScope /\ DOMAIN NewScope = {}
  BY PushIs
<1> HIDE DEF g
<1>2. /\ DOMAIN g = 1 .. Len(g) /\ DOMAIN e = 1 .. Len(e) /\ Len(e) \in Nat
  BY <1>1, SequenceIs
<1>3. \A j \in DOMAIN g : j \in DOMAIN e \/ j = Len(e) + 1
  BY <1>1, <1>2
<1>4. 1 \in DOMAIN e
  BY <1>2
<1>5. g[1] = NewScope
  BY <1>1, <1>4 DEF SlotsKnown
<1>6. ASSUME NEW j \in DOMAIN g, NEW n \in DOMAIN g[j]
      PROVE  /\ DefinedBy(f, g[j][n], f.current)
             /\ \A i \in DOMAIN fs : j <= ScopesBelow(fs, i) =>
                   \A b \in Awaited(fs[i]) : DefinedBy(f, g[j][n], b)
  <2>1. j \in DOMAIN e /\ g[j] = e[j]
    BY <1>1, <1>3
  <2> QED
    BY <2>1 DEF SlotsKnown
<1> QED
  BY <1>5, <1>6 DEF SlotsKnown, g

LEMMA SlotsInserted ==
    ASSUME NEW f, NEW e \in Seq(ScopeSet), Len(e) > 1, NEW fs, SlotsKnown(f, e, fs),
           \A i \in DOMAIN fs : ScopesBelow(fs, i) \in Nat /\ ScopesBelow(fs, i) < Len(e),
           NEW name \in Names, NEW slot \in Nat, DefinedBy(f, slot, f.current)
    PROVE  SlotsKnown(f, Insert(e, name, slot), fs)
<1> DEFINE g == Insert(e, name, slot)
<1>6. Len(e) \in Nat /\ DOMAIN e = 1 .. Len(e)
  BY SequenceIs
<1>1. /\ Len(e) \in Nat /\ DOMAIN e = 1 .. Len(e)
      /\ Len(e) # 1 /\ 1 \in DOMAIN e /\ Len(e) > 0
  BY <1>6, SMTT(30)
<1>2. /\ g \in Seq(ScopeSet) /\ Len(g) = Len(e)
      /\ \A j \in DOMAIN e : j # Len(e) => g[j] = e[j]
      /\ \A n \in DOMAIN g[Len(e)] :
            \/ n = name /\ g[Len(e)][n] = slot
            \/ n \in DOMAIN e[Len(e)] /\ g[Len(e)][n] = e[Len(e)][n]
  BY <1>1, InsertIs
<1> HIDE DEF g
<1>3. DOMAIN g = DOMAIN e
  BY <1>1, <1>2, SequenceIs
<1>4. g[1] = NewScope
  BY <1>1, <1>2 DEF SlotsKnown
<1>5. ASSUME NEW j \in DOMAIN g, NEW n \in DOMAIN g[j]
      PROVE  /\ DefinedBy(f, g[j][n], f.current)
             /\ \A i \in DOMAIN fs : j <= ScopesBelow(fs, i) =>
                   \A b \in Awaited(fs[i]) : DefinedBy(f, g[j][n], b)
  <2>1. CASE n \in DOMAIN e[j] /\ g[j][n] = e[j][n]
    BY <1>3, <2>1 DEF SlotsKnown
  <2>2. CASE j = Len(e) /\ g[j][n] = slot
    <3>1. \A i \in DOMAIN fs : ~(j <= ScopesBelow(fs, i))
      BY <1>1, <2>2
    <3> QED
      BY <2>2, <3>1
  <2> QED
    BY <1>2, <1>3, <2>1, <2>2
<1> QED
  BY <1>4, <1>5 DEF SlotsKnown, g

-----------------------------------------------------------------------------
(* A statement is opened *)

LEMMA WaitsForMore ==
    ASSUME NEW f, Sound(f), NEW g, Sound(g), Keeps(f, g), NEW fs \in Seq(FrameSet), NEW ahead, WaitsFor(f, fs, ahead),
           NEW x \in FrameSet, x.other < x.exit, x.other \in DOMAIN g.blocks,
           OpenBlocks(g) \ {g.current} = (OpenBlocks(f) \ {f.current}) \cup Awaited(x),
           g.current \notin Awaited(x), g.current \notin DOMAIN f.blocks,
           Awaited(x) \cap DOMAIN f.blocks = {}
    PROVE  WaitsFor(g, Append(fs, x), ahead)
<1> DEFINE gs == Append(fs, x)
<1>1. /\ DOMAIN gs = DOMAIN fs \cup {Len(fs) + 1} /\ Len(fs) + 1 \notin DOMAIN fs
      /\ \A i \in DOMAIN fs : gs[i] = fs[i]
      /\ gs[Len(fs) + 1] = x
      /\ AwaitedBy(gs) = AwaitedBy(fs) \cup Awaited(x)
  BY AwaitedByLonger
<1> HIDE DEF gs
<1>2. AwaitedBy(fs) \cup ahead \subseteq DOMAIN f.blocks
  BY DEF WaitsFor, OpenBlocks
<1>3. /\ OpenBlocks(g) \ {g.current} = AwaitedBy(gs) \cup ahead
      /\ g.current \notin AwaitedBy(gs) \cup ahead
  BY <1>1, <1>2 DEF WaitsFor
<1>4. DOMAIN f.blocks \subseteq DOMAIN g.blocks
  <2>1. f \in FunctionSet /\ g \in FunctionSet /\ Len(f.blocks) <= Len(g.blocks)
    BY DEF Sound, Keeps
  <2>2. /\ DOMAIN f.blocks = 1 .. Len(f.blocks) /\ DOMAIN g.blocks = 1 .. Len(g.blocks)
        /\ Len(f.blocks) \in Nat /\ Len(g.blocks) \in Nat
    BY <2>1, FunctionIs
  <2> QED
    BY <2>1, <2>2
<1>5. \A i \in DOMAIN fs : Awaited(fs[i]) \subseteq DOMAIN f.blocks
  <2>1. \A i \in DOMAIN fs : Awaited(fs[i]) \subseteq AwaitedBy(fs)
    BY DEF AwaitedBy
  <2> QED
    BY <1>2, <2>1
<1>6. ASSUME NEW i \in DOMAIN gs
      PROVE  /\ gs[i].other < gs[i].exit
             /\ gs[i].other \in DOMAIN g.blocks
             /\ Awaited(gs[i]) \cap ahead = {}
             /\ \A j \in DOMAIN gs : i # j => Awaited(gs[i]) \cap Awaited(gs[j]) = {}
  <2>1. CASE i \in DOMAIN fs
    <3>1. /\ fs[i].other < fs[i].exit /\ fs[i].other \in DOMAIN f.blocks /\ Awaited(fs[i]) \cap ahead = {}
          /\ \A j \in DOMAIN fs : i # j => Awaited(fs[i]) \cap Awaited(fs[j]) = {}
      BY <2>1 DEF WaitsFor
    <3>2. Awaited(fs[i]) \cap Awaited(x) = {}
      BY <1>5, <2>1
    <3> QED
      BY <1>1, <1>4, <2>1, <3>1, <3>2
  <2>2. CASE i = Len(fs) + 1
    <3>1. Awaited(x) \cap ahead = {}
      BY <1>2
    <3>2. \A j \in DOMAIN fs : Awaited(x) \cap Awaited(fs[j]) = {}
      BY <1>5
    <3> QED
      BY <1>1, <2>2, <3>1, <3>2
  <2> QED
    BY <1>1, <2>1, <2>2
<1> QED
  BY <1>3, <1>6 DEF WaitsFor, gs

LEMMA SlotsBelowFrame ==
    ASSUME NEW f, Sound(f), NEW e \in Seq(ScopeSet), NEW fs \in Seq(FrameSet), SlotsKnown(f, e, fs),
           NEW x \in FrameSet, \A b \in Awaited(x) : f.current <= b,
           x.kind = "for" => x.other > 2 /\ DefinedBy(f, x.index, x.other)
    PROVE  SlotsKnown(f, e, Append(fs, x))
<1> DEFINE gs == Append(fs, x)
<1>1. /\ DOMAIN gs = DOMAIN fs \cup {Len(fs) + 1}
      /\ \A i \in DOMAIN fs : gs[i] = fs[i]
      /\ gs[Len(fs) + 1] = x
  BY AwaitedByLonger
<1>2. \A i \in DOMAIN fs : ScopesBelow(gs, i) = ScopesBelow(fs, i)
  <2>1. \A i \in DOMAIN fs : i \in 1 .. Len(fs) + 1
    BY SequenceIs
  <2> QED
    BY <2>1, ScopesBelowSame
<1> HIDE DEF gs
<1>3. f \in FunctionSet /\ f.current \in Nat /\ Awaited(x) \in SUBSET Nat
  BY FunctionIs, AwaitedIs DEF Sound
<1>4. ASSUME NEW j \in DOMAIN e, NEW n \in DOMAIN e[j], NEW i \in DOMAIN gs,
             j <= ScopesBelow(gs, i), NEW b \in Awaited(gs[i])
      PROVE  DefinedBy(f, e[j][n], b)
  <2>1. CASE i \in DOMAIN fs
    BY <1>1, <1>2, <1>4, <2>1 DEF SlotsKnown
  <2>2. CASE i = Len(fs) + 1
    <3>1. b \in Awaited(x)
      BY <1>1, <1>4, <2>2
    <3>2. DefinedBy(f, e[j][n], f.current)
      BY DEF SlotsKnown
    <3> QED
      BY <1>3, <3>1, <3>2, DefinedLater
  <2> QED
    BY <1>1, <2>1, <2>2
<1>5. ASSUME NEW i \in DOMAIN gs, gs[i].kind = "for"
      PROVE  gs[i].other > 2 /\ DefinedBy(f, gs[i].index, gs[i].other)
  <2>1. CASE i \in DOMAIN fs
    BY <1>1, <1>5, <2>1 DEF SlotsKnown
  <2>2. CASE i = Len(fs) + 1
    BY <1>1, <1>5, <2>2
  <2> QED
    BY <1>1, <2>1, <2>2
<1>6. e[1] = NewScope /\ \A j \in DOMAIN e : \A n \in DOMAIN e[j] : DefinedBy(f, e[j][n], f.current)
  BY DEF SlotsKnown
<1> QED
  BY <1>4, <1>5, <1>6 DEF SlotsKnown, gs

-----------------------------------------------------------------------------
(* A statement is left *)

LEMMA WaitsForLess ==
    ASSUME NEW f, Sound(f), NEW g, Sound(g), Keeps(f, g), NEW fs \in Seq(FrameSet), NEW x \in FrameSet,
           NEW ahead, WaitsFor(f, Append(fs, x), ahead),
           OpenBlocks(g) = (OpenBlocks(f) \ {f.current}) \ (Awaited(x) \ {x.exit}),
           g.current = x.exit
    PROVE  WaitsFor(g, fs, ahead)
<1> DEFINE gs == Append(fs, x)
<1>1. /\ DOMAIN gs = DOMAIN fs \cup {Len(fs) + 1} /\ Len(fs) + 1 \notin DOMAIN fs
      /\ \A i \in DOMAIN fs : gs[i] = fs[i]
      /\ gs[Len(fs) + 1] = x
      /\ AwaitedBy(gs) = AwaitedBy(fs) \cup Awaited(x)
  BY AwaitedByLonger
<1> HIDE DEF gs
<1>2. /\ OpenBlocks(f) \ {f.current} = AwaitedBy(gs) \cup ahead
      /\ \A i \in DOMAIN gs :
          /\ gs[i].other < gs[i].exit
          /\ gs[i].other \in DOMAIN f.blocks
          /\ Awaited(gs[i]) \cap ahead = {}
          /\ \A j \in DOMAIN gs : i # j => Awaited(gs[i]) \cap Awaited(gs[j]) = {}
  BY DEF WaitsFor, gs
<1>3. x.exit \in Awaited(x)
  BY AwaitedIs
<1>4. AwaitedBy(fs) \cap Awaited(x) = {}
  <2>1. \A i \in DOMAIN fs : Awaited(fs[i]) \cap Awaited(x) = {}
    BY <1>1, <1>2
  <2> QED
    BY <2>1 DEF AwaitedBy
<1>5. ahead \cap Awaited(x) = {}
  BY <1>1, <1>2
<1>6. /\ OpenBlocks(g) \ {g.current} = AwaitedBy(fs) \cup ahead
      /\ g.current \notin AwaitedBy(fs) \cup ahead
  BY <1>1, <1>2, <1>3, <1>4, <1>5
<1>7. DOMAIN f.blocks \subseteq DOMAIN g.blocks
  <2>1. f \in FunctionSet /\ g \in FunctionSet /\ Len(f.blocks) <= Len(g.blocks)
    BY DEF Sound, Keeps
  <2>2. /\ DOMAIN f.blocks = 1 .. Len(f.blocks) /\ DOMAIN g.blocks = 1 .. Len(g.blocks)
        /\ Len(f.blocks) \in Nat /\ Len(g.blocks) \in Nat
    BY <2>1, FunctionIs
  <2> QED
    BY <2>1, <2>2
<1>8. \A i \in DOMAIN fs :
         /\ fs[i].other < fs[i].exit
         /\ fs[i].other \in DOMAIN g.blocks
         /\ Awaited(fs[i]) \cap ahead = {}
         /\ \A j \in DOMAIN fs : i # j => Awaited(fs[i]) \cap Awaited(fs[j]) = {}
  <2> TAKE i \in DOMAIN fs
  <2>1. i \in DOMAIN gs /\ gs[i] = fs[i]
    BY <1>1
  <2>2. fs[i].other < fs[i].exit /\ fs[i].other \in DOMAIN f.blocks /\ Awaited(fs[i]) \cap ahead = {}
    BY <1>2, <2>1
  <2>3. ASSUME NEW j \in DOMAIN fs, i # j PROVE Awaited(fs[i]) \cap Awaited(fs[j]) = {}
    <3>1. j \in DOMAIN gs /\ gs[j] = fs[j]
      BY <1>1
    <3> QED
      BY <1>2, <2>1, <2>3, <3>1
  <2> QED
    BY <1>7, <2>2, <2>3
<1> QED
  BY <1>6, <1>8 DEF WaitsFor

LEMMA SlotsAbandoned ==
    ASSUME NEW f, Sound(f), NEW g, Sound(g), Keeps(f, g), NEW fs \in Seq(FrameSet), NEW x \in FrameSet,
           NEW e \in Seq(ScopeSet), SlotsKnown(f, e, Append(fs, x)), g.current \in Awaited(x) \/ g.current = x.exit,
           NEW d \in Seq(ScopeSet), Len(d) > 0, Len(d) <= ScopesBelow(fs, Len(fs) + 1),
           Len(d) <= Len(e), \A j \in DOMAIN d : d[j] = e[j]
    PROVE  SlotsKnown(g, d, fs)
<1> DEFINE gs == Append(fs, x)
<1>1. /\ DOMAIN gs = DOMAIN fs \cup {Len(fs) + 1} /\ Len(fs) + 1 \notin DOMAIN fs
      /\ \A i \in DOMAIN fs : gs[i] = fs[i]
      /\ gs[Len(fs) + 1] = x /\ gs \in Seq(FrameSet)
  BY AwaitedByLonger
<1>2. /\ \A i \in DOMAIN fs : ScopesBelow(gs, i) = ScopesBelow(fs, i)
      /\ ScopesBelow(gs, Len(fs) + 1) = ScopesBelow(fs, Len(fs) + 1)
      /\ ScopesBelow(fs, Len(fs) + 1) \in Nat
  <2>1. Len(fs) \in Nat /\ \A i \in DOMAIN fs : i \in 1 .. Len(fs) + 1
    BY SequenceIs
  <2>2. Len(fs) + 1 \in 1 .. Len(fs) + 1 /\ Len(fs) + 1 \in Nat \ {0}
    BY <2>1
  <2> QED
    BY <2>1, <2>2, ScopesBelowSame, ScopesBelowIs
<1> HIDE DEF gs
<1>3. /\ f \in FunctionSet /\ g \in FunctionSet /\ g.current \in Nat /\ Awaited(x) \in SUBSET Nat
      /\ g.current \in Awaited(x)
  <2>1. f \in FunctionSet /\ g \in FunctionSet
    BY DEF Sound
  <2> QED
    BY <2>1, FunctionIs, AwaitedIs
<1>4. DOMAIN d = 1 .. Len(d) /\ DOMAIN e = 1 .. Len(e) /\ Len(d) \in Nat /\ Len(e) \in Nat
  BY SequenceIs
<1>5. DOMAIN d \subseteq DOMAIN e /\ 1 \in DOMAIN d
  BY <1>4
<1>6. d[1] = NewScope
  BY <1>5 DEF SlotsKnown
<1>7. \A i \in DOMAIN fs : Awaited(fs[i]) \in SUBSET Nat /\ fs[i].index \in Nat /\ fs[i].other \in Nat
  BY SequenceIs, AwaitedIs
<1>8. ASSUME NEW j \in DOMAIN d, NEW n \in DOMAIN d[j]
      PROVE  /\ DefinedBy(g, d[j][n], g.current)
             /\ \A i \in DOMAIN fs : j <= ScopesBelow(fs, i) =>
                   \A b \in Awaited(fs[i]) : DefinedBy(g, d[j][n], b)
  <2>1. d[j][n] \in Nat
    BY SlotsIn
  <2>2. j <= ScopesBelow(gs, Len(fs) + 1)
    BY <1>2, <1>4
  <2>3. DefinedBy(f, d[j][n], g.current)
    BY <1>1, <1>3, <1>5, <2>2 DEF SlotsKnown, gs
  <2>4. DefinedBy(g, d[j][n], g.current)
    BY <1>3, <2>1, <2>3 DEF Keeps
  <2>5. ASSUME NEW i \in DOMAIN fs, j <= ScopesBelow(fs, i), NEW b \in Awaited(fs[i])
        PROVE  DefinedBy(g, d[j][n], b)
    <3>1. i \in DOMAIN gs /\ j <= ScopesBelow(gs, i) /\ b \in Awaited(gs[i])
      BY <1>1, <1>2, <2>5
    <3>2. DefinedBy(f, e[j][n], b)
      BY <1>5, <3>1 DEF SlotsKnown, gs
    <3>3. DefinedBy(f, d[j][n], b) /\ b \in Nat
      BY <1>7, <3>2
    <3> QED
      BY <2>1, <3>3 DEF Keeps
  <2> QED
    BY <2>4, <2>5
<1>9. ASSUME NEW i \in DOMAIN fs, fs[i].kind = "for"
      PROVE  fs[i].other > 2 /\ DefinedBy(g, fs[i].index, fs[i].other)
  <2>1. fs[i].other > 2 /\ DefinedBy(f, fs[i].index, fs[i].other)
    BY <1>1, <1>9 DEF SlotsKnown, gs
  <2> QED
    BY <1>7, <2>1 DEF Keeps
<1> QED
  BY <1>6, <1>8, <1>9 DEF SlotsKnown

-----------------------------------------------------------------------------
(* The steps of the lowerer *)

LEMMA ContinuesFurther ==
    ASSUME NEW f, Sound(f), NEW g, Continues(f, g), NEW h, Sound(h), Keeps(g, h), h.current = g.current,
           OpenBlocks(h) \ {g.current} = OpenBlocks(g) \ {g.current}
    PROVE  Continues(f, h)
<1>1. f \in FunctionSet /\ g \in FunctionSet /\ h \in FunctionSet /\ Keeps(f, g)
  BY DEF Sound, Continues
<1>2. Keeps(f, h)
  BY <1>1, KeepsFurther
<1> QED
  BY <1>2 DEF Continues

LEMMA ProgramIs ==
    ASSUME NEW p, p \in Seq(ToSet(p)), NEW token
    PROVE  /\ Append(p, token) \in Seq(ToSet(Append(p, token)))
           /\ Len(Append(p, token)) = Len(p) + 1 /\ Len(p) \in Nat
<1> DEFINE S == ToSet(p) \cup {token}
<1>1. p \in Seq(S) /\ Len(p) \in Nat /\ DOMAIN p = 1 .. Len(p)
  <2>1. Len(p) \in Nat /\ DOMAIN p = 1 .. Len(p) /\ p \in [1 .. Len(p) -> ToSet(p)]
    BY SequenceIs, LenProperties
  <2>2. p \in [1 .. Len(p) -> S]
    BY <2>1
  <2> QED
    BY <2>1, <2>2
<1> HIDE DEF S
<1>2. token \in S
  BY DEF S
<1> DEFINE q == Append(p, token)
<1>3. q \in Seq(S) /\ Len(q) = Len(p) + 1
  BY <1>1, <1>2, AppendProperties
<1> HIDE DEF q
<1>4. q \in Seq(ToSet(q))
  <2>1. q \in [1 .. Len(q) -> S] /\ Len(q) \in Nat /\ DOMAIN q = 1 .. Len(q)
    BY <1>3, SequenceIs, LenProperties
  <2>2. \A i \in DOMAIN q : q[i] \in ToSet(q)
    BY DEF ToSet
  <2>3. q \in [1 .. Len(q) -> ToSet(q)]
    BY <2>1, <2>2
  <2> QED
    BY <2>1, <2>3
<1> QED
  BY <1>1, <1>3, <1>4 DEF q

(* A statement without a body leaves everything but the function, the      *)
(* program and perhaps the innermost scope as it was.                      *)
LEMMA PlainStep ==
    ASSUME Inv, Room, Continues(fn, fn'), NEW token, program' = Append(program, token),
           env' \in Seq(ScopeSet), Len(env') = Len(env), SlotsKnown(fn', env', frames),
           UNCHANGED <<stages, stage, unit, loops, frames, done>>
    PROVE  Inv'
<1>1. Sound(fn') /\ ~done /\ Len(program) + Len(frames) < MaxTokens
  BY DEF Room, Continues
<1>2. program' \in Seq(ToSet(program')) /\ Len(program') = Len(program) + 1 /\ Len(program) \in Nat
  BY ProgramIs DEF Inv, IsShaped
<1>3. IsShaped'
  <2>1. fn' \in FunctionSet
    BY <1>1 DEF Sound
  <2> QED
    BY <1>2, <2>1 DEF Inv, IsShaped
<1>4. KnowsOpenBlocks'
  <2>1. WaitsFor(fn', frames, StagesAhead)
    BY WaitsOn DEF Inv, KnowsOpenBlocks
  <2>2. StagesAhead' = StagesAhead
    BY DEF StagesAhead
  <2>3. TargetsExist(fn', loops)
    <3>1. DOMAIN fn.blocks \subseteq DOMAIN fn'.blocks
      BY ContinuesIs DEF Inv
    <3> QED
      BY <3>1 DEF Inv, KnowsOpenBlocks, TargetsExist
  <2> QED
    BY <1>1, <2>1, <2>2, <2>3 DEF KnowsOpenBlocks
<1>5. CountsScopes'
  <2>1. Len(frames) \in Nat /\ MaxTokens \in Nat
    BY LoweringAssumption, SequenceIs DEF Inv, IsShaped
  <2>2. Len(program') + Len(frames) <= MaxTokens
    BY <1>1, <1>2, <2>1
  <2> QED
    BY <1>1, <2>2 DEF Inv, CountsScopes
<1>6. KnowsSlots'
  BY DEF KnowsSlots
<1> QED
  BY <1>1, <1>3, <1>4, <1>5, <1>6 DEF Inv

LEMMA Indices ==
    ASSUME Inv
    PROVE  /\ Len(frames) \in Nat /\ DOMAIN frames = 1 .. Len(frames)
           /\ Len(env) \in Nat /\ DOMAIN env = 1 .. Len(env)
           /\ Len(loops) \in Nat /\ DOMAIN loops = 1 .. Len(loops)
           /\ Here \in Nat /\ Len(program) \in Nat
           /\ ScopesBelow(frames, Len(frames) + 1) \in Nat
           /\ ~done => Len(env) > 1
           /\ ~done => \A i \in DOMAIN frames : ScopesBelow(frames, i) \in Nat /\ ScopesBelow(frames, i) < Len(env)
<1>1. /\ Len(frames) \in Nat /\ DOMAIN frames = 1 .. Len(frames)
      /\ Len(env) \in Nat /\ DOMAIN env = 1 .. Len(env)
      /\ Len(loops) \in Nat /\ DOMAIN loops = 1 .. Len(loops)
  BY SequenceIs DEF Inv, IsShaped
<1>2. Len(program) \in Nat /\ Here \in Nat
  <2>1. Len(program) \in Nat
    BY SequenceIs DEF Inv, IsShaped
  <2> QED
    BY <2>1 DEF Here
<1>3. Len(frames) + 1 \in Nat \ {0}
  BY <1>1
<1>4. /\ ScopesBelow(frames, Len(frames) + 1) \in Nat
      /\ ScopesBelow(frames, Len(frames) + 1) >= 1 + (Len(frames) + 1)
  BY <1>3, ScopesBelowIs
<1>5. ASSUME ~done
      PROVE  /\ Len(env) > 1
             /\ \A i \in DOMAIN frames : ScopesBelow(frames, i) \in Nat /\ ScopesBelow(frames, i) < Len(env)
  <2>1. Len(env) = ScopesBelow(frames, Len(frames) + 1)
    BY <1>5 DEF Inv, CountsScopes
  <2>2. ASSUME NEW i \in DOMAIN frames
        PROVE  ScopesBelow(frames, i) \in Nat /\ ScopesBelow(frames, i) < Len(env)
    <3>1. i \in Nat \ {0} /\ i < Len(frames) + 1
      BY <1>1
    <3> QED
      BY <1>3, <2>1, <3>1, ScopesBelowIs, ScopesBelowGrows
  <2> QED
    BY <1>1, <1>4, <2>1, <2>2
<1> QED
  BY <1>1, <1>2, <1>4, <1>5

LEMMA SlotsOn ==
    ASSUME Inv, NEW g, Continues(fn, g)
    PROVE  SlotsKnown(g, env, frames)
  BY SlotsStay, ContinuesIs DEF Inv, KnowsSlots, Continues, IsShaped

(* A slot that a name in scope stands for can be used in the open block.   *)
LEMMA LookupDefined ==
    ASSUME Inv, NEW g, Continues(fn, g), NEW name, Bound(env, name) # {}
    PROVE  Lookup(env, name) \in Nat /\ DefinedBy(g, Lookup(env, name), g.current)
<1>1. env \in Seq(ScopeSet)
  BY DEF Inv, IsShaped
<1>2. PICK j \in DOMAIN env : name \in DOMAIN env[j] /\ Lookup(env, name) = env[j][name]
  BY <1>1, LookupFinds
<1>3. SlotsKnown(g, env, frames)
  BY SlotsOn
<1> QED
  BY <1>1, <1>2, <1>3, SlotsIn DEF SlotsKnown

LEMMA FitOne ==
    ASSUME NEW f, NEW i \in InstrSet, i.inputs = {}, \A v \in i.uses : DefinedBy(f, v, f.current)
    PROVE  Fit(f, <<i>>)
<1>1. <<i>> \in Seq(InstrSet) /\ DOMAIN <<i>> = {1} /\ <<i>>[1] = i
  OBVIOUS
<1> QED
  BY <1>1 DEF Fit

LEMMA EmitOne ==
    ASSUME NEW f, Sound(f), NEW i \in InstrSet, i.inputs = {}, \A v \in i.uses : DefinedBy(f, v, f.current)
    PROVE  LET g == Emit(f, <<i>>)
           IN  /\ Sound(g) /\ Keeps(f, g) /\ OpenBlocks(g) = OpenBlocks(f)
               /\ g.current = f.current /\ g.values = f.values
               /\ Len(g.blocks) = Len(f.blocks)
               /\ DefinedBy(g, i.def, f.current)
<1>1. Fit(f, <<i>>) /\ 1 \in DOMAIN <<i>> /\ <<i>>[1] = i
  BY FitOne
<1> QED
  BY <1>1, EmitSound

(* What follows f0 in an open block. *)
Working(f0, g) ==
    Sound(f0) /\ Sound(g) /\ Continues(f0, g) /\ g.current \in OpenBlocks(g)

LEMMA WorkingStart ==
    ASSUME Inv
    PROVE  LET f == EnsureOpenBlock(fn)
           IN  Working(fn, f) /\ f.values \in Nat /\ f.current \in Nat
<1> DEFINE f == EnsureOpenBlock(fn)
<1>1. Sound(fn)
  BY DEF Inv
<1>2. Continues(fn, f) /\ f.current \in OpenBlocks(f)
  BY <1>1, EnsureOpenBlockSound
<1> HIDE DEF f
<1>3. Sound(f)
  BY <1>2 DEF Continues
<1>4. f.values \in Nat /\ f.current \in Nat
  BY <1>3, FunctionIs DEF Sound
<1> QED
  BY <1>1, <1>2, <1>3, <1>4 DEF Working, f

LEMMA WorkingEmit ==
    ASSUME NEW f0, NEW f, Working(f0, f), NEW i \in InstrSet, i.inputs = {},
           \A v \in i.uses : DefinedBy(f, v, f.current)
    PROVE  LET g == Emit(f, <<i>>)
           IN  /\ Working(f0, g) /\ Keeps(f, g) /\ g.values = f.values /\ g.current = f.current
               /\ DefinedBy(g, i.def, g.current) /\ Len(g.blocks) = Len(f.blocks)
<1> DEFINE g == Emit(f, <<i>>)
<1>1. /\ Sound(g) /\ Keeps(f, g) /\ OpenBlocks(g) = OpenBlocks(f)
      /\ g.current = f.current /\ g.values = f.values /\ DefinedBy(g, i.def, f.current)
      /\ Len(g.blocks) = Len(f.blocks)
  BY EmitOne DEF Working
<1> HIDE DEF g
<1>2. Continues(f0, g)
  BY <1>1, ContinuesFurther DEF Working
<1> QED
  BY <1>1, <1>2 DEF Working, g

LEMMA WorkingValues ==
    ASSUME NEW f0, NEW f, Working(f0, f), NEW n \in Nat
    PROVE  LET g == NewValues(f, n)
           IN  /\ Working(f0, g) /\ Keeps(f, g) /\ g.values = f.values + n /\ g.current = f.current
               /\ g.blocks = f.blocks
<1> DEFINE g == NewValues(f, n)
<1>1. /\ Sound(g) /\ Keeps(f, g) /\ OpenBlocks(g) = OpenBlocks(f)
      /\ g.current = f.current /\ g.values = f.values + n /\ g.blocks = f.blocks
  BY NewValuesSound DEF Working
<1> HIDE DEF g
<1>2. Continues(f0, g)
  BY <1>1, ContinuesFurther DEF Working
<1> QED
  BY <1>1, <1>2 DEF Working, g

LEMMA WorkingFail ==
    ASSUME NEW f0, NEW f, Working(f0, f), NEW error \in Errors, error # "duplicate terminator"
    PROVE  LET g == Fail(f, error)
           IN  /\ Working(f0, g) /\ Keeps(f, g) /\ g.values = f.values /\ g.current = f.current
               /\ g.blocks = f.blocks
<1> DEFINE g == Fail(f, error)
<1>1. /\ Sound(g) /\ Keeps(f, g) /\ OpenBlocks(g) = OpenBlocks(f)
      /\ g.current = f.current /\ g.values = f.values /\ g.blocks = f.blocks
  BY FailSound DEF Working
<1> HIDE DEF g
<1>2. Continues(f0, g)
  BY <1>1, ContinuesFurther DEF Working
<1> QED
  BY <1>1, <1>2 DEF Working, g

LEMMA WorkingEnds ==
    ASSUME NEW f0, NEW f, Working(f0, f), NEW term \in TermSet, term # Open,
           Successors(term) \subseteq DOMAIN f.blocks,
           \A v \in term.uses : DefinedBy(f, v, f.current)
    PROVE  Continues(f0, SetTerminator(f, term))
<1> DEFINE g == SetTerminator(f, term)
<1>1. ~Terminated(f)
  BY DEF Working, OpenBlocks, Terminated
<1>2. /\ Sound(g) /\ Keeps(f, g) /\ OpenBlocks(g) = OpenBlocks(f) \ {f.current}
      /\ g.current = f.current
  BY <1>1, SetTerminatorSound DEF Working
<1> HIDE DEF g
<1>3. Continues(f0, g)
  BY <1>2, ContinuesFurther DEF Working
<1> QED
  BY <1>3 DEF g

LEMMA ConstIs ==
    ASSUME NEW v \in Nat, NEW event \in Event
    PROVE  LET made == Instr("const", v, {}, event)
           IN  made \in InstrSet /\ made.def = v /\ made.uses = {} /\ made.inputs = {}
<1>1. "const" \in InstrOps /\ {} \in SUBSET Nat
  BY DEF InstrOps
<1> QED
  BY <1>1, InstrIs

LEMMA LoadIs ==
    ASSUME NEW v \in Nat, NEW slot \in Nat, NEW event \in Event
    PROVE  LET made == Instr("load", v, {slot}, event)
           IN  made \in InstrSet /\ made.def = v /\ made.uses = {slot} /\ made.inputs = {}
<1>1. "load" \in InstrOps /\ {slot} \in SUBSET Nat
  BY DEF InstrOps
<1> QED
  BY <1>1, InstrIs

LEMMA StoreIs ==
    ASSUME NEW slot \in Nat, NEW v \in Nat, NEW event \in Event
    PROVE  LET made == Instr("store", 0, {slot, v}, event)
           IN  made \in InstrSet /\ made.uses = {slot, v} /\ made.inputs = {}
<1>1. "store" \in InstrOps /\ {slot, v} \in SUBSET Nat /\ 0 \in Nat
  BY DEF InstrOps
<1> QED
  BY <1>1, InstrIs

LEMMA EventIs ==
    ASSUME Inv, NEW phase \in Phases
    PROVE  <<Here, phase>> \in Event /\ NoEvent \in Event
<1>1. Here \in Nat /\ "none" \in Phases
  BY Indices DEF Phases
<1> QED
  BY <1>1 DEF Event, NoEvent

LEMMA LetPreserves ==
    ASSUME Inv, NEW name \in Names, Let(name)
    PROVE  Inv'
<1> DEFINE f == EnsureOpenBlock(fn)
           v == f.values
           a == Instr("const", v + 1, {}, NoEvent)
           b == Instr("alloc", v + 2, {}, <<Here, "slot">>)
           c == Instr("store", 0, {v + 2, v + 1}, <<Here, "do">>)
           g == Emit(f, <<a, b, c>>)
           h == NewValues(g, 2)
<1>1. Continues(fn, f) /\ Sound(f) /\ Sound(fn)
  BY EnsureOpenBlockSound DEF Inv, Continues
<1>2. v \in Nat
  BY <1>1, FunctionIs DEF Sound
<1>3. Here \in Nat
  BY Indices
<1> HIDE DEF f
<1>4. /\ a \in InstrSet /\ a.def = v + 1 /\ a.uses = {} /\ a.inputs = {}
      /\ b \in InstrSet /\ b.def = v + 2 /\ b.uses = {} /\ b.inputs = {}
      /\ c \in InstrSet /\ c.uses = {v + 2, v + 1} /\ c.inputs = {}
  <2>1. /\ {"const", "alloc", "store"} \subseteq InstrOps /\ NoEvent \in Event
        /\ <<Here, "slot">> \in Event /\ <<Here, "do">> \in Event
        /\ v + 1 \in Nat /\ v + 2 \in Nat /\ 0 \in Nat
    BY <1>2, <1>3 DEF InstrOps, NoEvent, Event, Phases
  <2>2. {v + 2, v + 1} \in SUBSET Nat /\ {} \in SUBSET Nat
    BY <2>1
  <2>3. a \in InstrSet /\ a.def = v + 1 /\ a.uses = {} /\ a.inputs = {}
    BY <2>1, <2>2, InstrIs
  <2>4. b \in InstrSet /\ b.def = v + 2 /\ b.uses = {} /\ b.inputs = {}
    BY <2>1, <2>2, InstrIs
  <2>5. c \in InstrSet /\ c.uses = {v + 2, v + 1} /\ c.inputs = {}
    BY <2>1, StoreIs
  <2> HIDE DEF a, b, c
  <2> QED
    BY <2>3, <2>4, <2>5
<1> HIDE DEF a, b, c
<1>5. Fit(f, <<a, b, c>>)
  <2>1. <<a, b, c>> \in Seq(InstrSet) /\ DOMAIN <<a, b, c>> = 1 .. 3
    BY <1>4
  <2>2. <<a, b, c>>[1] = a /\ <<a, b, c>>[2] = b /\ <<a, b, c>>[3] = c
    OBVIOUS
  <2>3. \A w \in c.uses : \E j \in 1 .. 3 : j < 3 /\ <<a, b, c>>[j].def = w
    BY <1>4, <2>2
  <2>4. \A k \in 1 .. 3 : k = 1 \/ k = 2 \/ k = 3
    OBVIOUS
  <2> QED
    BY <1>4, <2>1, <2>2, <2>3, <2>4 DEF Fit
<1>6. /\ Sound(g) /\ Keeps(f, g) /\ OpenBlocks(g) = OpenBlocks(f)
      /\ g.current = f.current /\ g.values = f.values
      /\ DefinedBy(g, v + 2, f.current)
  <2>1. 2 \in DOMAIN <<a, b, c>> /\ <<a, b, c>>[2].def = v + 2
    BY <1>4
  <2> QED
    BY <1>1, <1>5, <2>1, EmitSound
<1> HIDE DEF g
<1>7. /\ Sound(h) /\ Keeps(g, h) /\ OpenBlocks(h) = OpenBlocks(g)
      /\ h.current = g.current /\ h.blocks = g.blocks
  BY <1>6, NewValuesSound
<1> HIDE DEF h
<1>8. Continues(fn, g)
  BY <1>1, <1>6, ContinuesFurther
<1>9. Continues(fn, h)
  BY <1>1, <1>7, <1>8, ContinuesFurther
<1>10. DefinedBy(h, v + 2, h.current)
  BY <1>6, <1>7 DEF DefinedBy
<1>11. /\ fn' = h /\ env' = Insert(env, name, v + 2) /\ Room
       /\ UNCHANGED <<stages, stage, unit, loops, frames, done>>
       /\ \E token : program' = Append(program, token)
  <2>1. fn' = h
    BY DEF Let, f, a, b, c, g, h
  <2> QED
    BY <2>1 DEF Let, f, Add
<1>12. ~done /\ env \in Seq(ScopeSet)
  BY <1>11 DEF Room, Inv, IsShaped
<1>13. env' \in Seq(ScopeSet) /\ Len(env') = Len(env)
  <2>1. Len(env) > 0 /\ v + 2 \in Nat
    BY <1>2, <1>12, Indices
  <2> QED
    BY <1>11, <1>12, <2>1, InsertIs
<1>14. SlotsKnown(fn', env', frames)
  <2>1. SlotsKnown(h, env, frames)
    BY <1>9, SlotsOn
  <2>2. Len(env) > 1 /\ v + 2 \in Nat
    BY <1>2, <1>12, Indices
  <2>3. \A i \in DOMAIN frames : ScopesBelow(frames, i) \in Nat /\ ScopesBelow(frames, i) < Len(env)
    BY <1>12, Indices
  <2> QED
    BY <1>10, <1>11, <1>12, <2>1, <2>2, <2>3, SlotsInserted
<1> QED
  BY <1>9, <1>11, <1>13, <1>14, PlainStep

LEMMA EnvStays ==
    ASSUME Inv, Continues(fn, fn'), UNCHANGED env
    PROVE  env' \in Seq(ScopeSet) /\ Len(env') = Len(env) /\ SlotsKnown(fn', env', frames)
<1>1. SlotsKnown(fn', env, frames)
  BY SlotsOn
<1> QED
  BY <1>1 DEF Inv, IsShaped

LEMMA UsePreserves ==
    ASSUME Inv, NEW name \in Names, Use(name)
    PROVE  Inv'
<1> DEFINE f == EnsureOpenBlock(fn)
           v == f.values
           known == name \in Consts \/ Bound(env, name) # {}
           k == IF known THEN f ELSE Fail(f, "unknown identifier")
           i == IF name \in Consts \/ ~known
                THEN Instr("const", v + 1, {}, <<Here, "do">>)
                ELSE Instr("load", v + 1, {Lookup(env, name)}, <<Here, "do">>)
           g == Emit(k, <<i>>)
           h == NewValues(g, 1)
<1>1. Working(fn, f) /\ v \in Nat
  BY WorkingStart
<1>2. <<Here, "do">> \in Event
  BY EventIs DEF Phases
<1>3. /\ fn' = h /\ Room /\ UNCHANGED <<stages, stage, unit, env, loops, frames, done>>
      /\ \E token : program' = Append(program, token)
  <2>1. i = Instr("const", v + 1, {}, <<Here, "do">>) \/ i = Instr("load", v + 1, {Lookup(env, name)}, <<Here, "do">>)
    OBVIOUS
  <2>2. <<i>> = IF name \in Consts \/ ~known
                THEN <<Instr("const", v + 1, {}, <<Here, "do">>)>>
                ELSE <<Instr("load", v + 1, {Lookup(env, name)}, <<Here, "do">>)>>
    OBVIOUS
  <2> HIDE DEF i
  <2> QED
    BY <2>2 DEF Use, Add
<1> HIDE DEF f
<1>4. Working(fn, k) /\ k.blocks = f.blocks /\ k.current = f.current
  <2>1. CASE known
    BY <1>1, <2>1
  <2>2. CASE ~known
    <3>1. "unknown identifier" \in Errors
      BY DEF Errors
    <3> QED
      BY <1>1, <2>2, <3>1, WorkingFail
  <2> QED
    BY <2>1, <2>2
<1>5. i \in InstrSet /\ i.inputs = {} /\ \A w \in i.uses : DefinedBy(k, w, k.current)
  <2>1. CASE name \in Consts \/ ~known
    <3>1. i = Instr("const", v + 1, {}, <<Here, "do">>)
      BY <2>1
    <3>2. v + 1 \in Nat
      BY <1>1
    <3> HIDE DEF i
    <3>3. i \in InstrSet /\ i.uses = {} /\ i.inputs = {}
      BY <1>2, <3>1, <3>2, ConstIs
    <3> QED
      BY <3>3
  <2>2. CASE ~(name \in Consts \/ ~known)
    <3>1. i = Instr("load", v + 1, {Lookup(env, name)}, <<Here, "do">>) /\ Bound(env, name) # {}
      BY <2>2
    <3>2. Lookup(env, name) \in Nat /\ DefinedBy(k, Lookup(env, name), k.current)
      BY <1>4, <3>1, LookupDefined DEF Working
    <3>3. v + 1 \in Nat
      BY <1>1
    <3> HIDE DEF i
    <3>4. i \in InstrSet /\ i.inputs = {} /\ i.uses = {Lookup(env, name)}
      <4>1. PICK slot \in Nat : slot = Lookup(env, name)
        BY <3>2
      <4>2. PICK value \in Nat, event \in Event : value = v + 1 /\ event = <<Here, "do">>
        BY <1>2, <3>3
      <4>4. i = Instr("load", value, {slot}, event)
        BY <3>1, <4>1, <4>2
      <4>3. i \in InstrSet /\ i.inputs = {} /\ i.uses = {slot}
        <5>1. LET made == Instr("load", value, {slot}, event)
              IN  made \in InstrSet /\ made.def = value /\ made.uses = {slot} /\ made.inputs = {}
          BY LoadIs
        <5> QED
          BY <4>4, <5>1
      <4> QED
        BY <4>1, <4>3
    <3> QED
      BY <3>2, <3>4
  <2> QED
    BY <2>1, <2>2
<1> HIDE DEF k, i
<1>6. Working(fn, g)
  BY <1>4, <1>5, WorkingEmit
<1> HIDE DEF g
<1>7. Working(fn, h)
  BY <1>6, WorkingValues
<1> HIDE DEF h
<1>8. Continues(fn, fn') /\ UNCHANGED env
  BY <1>3, <1>7 DEF Working
<1>9. env' \in Seq(ScopeSet) /\ Len(env') = Len(env) /\ SlotsKnown(fn', env', frames)
  BY <1>8, EnvStays
<1> QED
  BY <1>3, <1>8, <1>9, PlainStep

LEMMA AssignPreserves ==
    ASSUME Inv, NEW name \in Names, Assign(name)
    PROVE  Inv'
<1> DEFINE f == EnsureOpenBlock(fn)
           v == f.values
           a == Instr("const", v + 1, {}, NoEvent)
           g == Emit(f, <<a>>)
           h == NewValues(g, 1)
           c == Instr("store", 0, {Lookup(env, name), v + 1}, <<Here, "do">>)
           t == Term("unreachable", <<>>, {}, <<Here, "stuck">>)
<1>1. Working(fn, f) /\ v \in Nat
  BY WorkingStart
<1>2. <<Here, "do">> \in Event /\ NoEvent \in Event /\ Here \in Nat
  BY EventIs, Indices DEF Phases
<1>3. /\ fn' = IF Bound(env, name) # {}
               THEN Emit(h, <<c>>) ELSE SetTerminator(Fail(h, "unknown identifier"), t)
      /\ Room /\ UNCHANGED <<stages, stage, unit, env, loops, frames, done>>
      /\ \E token : program' = Append(program, token)
  BY DEF Assign, Add
<1> HIDE DEF f
<1>4. a \in InstrSet /\ a.inputs = {} /\ a.uses = {} /\ a.def = v + 1
  BY <1>1, <1>2, ConstIs
<1> HIDE DEF a
<1>5. Working(fn, g) /\ DefinedBy(g, v + 1, g.current)
  BY <1>1, <1>4, WorkingEmit
<1> HIDE DEF g
<1>6. Working(fn, h) /\ DefinedBy(h, v + 1, h.current)
  <2>1. Working(fn, h) /\ h.blocks = g.blocks /\ h.current = g.current
    BY <1>5, WorkingValues
  <2> HIDE DEF h
  <2> QED
    BY <1>5, <2>1 DEF DefinedBy
<1> HIDE DEF h
<1>7. CASE Bound(env, name) # {}
  <2>1. Lookup(env, name) \in Nat /\ DefinedBy(h, Lookup(env, name), h.current)
    BY <1>6, <1>7, LookupDefined DEF Working
  <2>2. v + 1 \in Nat
    BY <1>1
  <2>3. c \in InstrSet /\ c.inputs = {} /\ c.uses = {Lookup(env, name), v + 1}
    BY <1>2, <2>1, <2>2, StoreIs
  <2> HIDE DEF c
  <2>4. \A w \in c.uses : DefinedBy(h, w, h.current)
    BY <1>6, <2>1, <2>3
  <2>5. Working(fn, Emit(h, <<c>>))
    BY <1>6, <2>3, <2>4, WorkingEmit
  <2>6. Continues(fn, fn')
    BY <1>3, <1>7, <2>5 DEF Working
  <2>7. env' \in Seq(ScopeSet) /\ Len(env') = Len(env) /\ SlotsKnown(fn', env', frames)
    BY <1>3, <2>6, EnvStays
  <2> QED
    BY <1>3, <2>6, <2>7, PlainStep
<1>8. CASE Bound(env, name) = {}
  <2>1. "unknown identifier" \in Errors
    BY DEF Errors
  <2>2. Working(fn, Fail(h, "unknown identifier"))
    BY <1>6, <2>1, WorkingFail
  <2>3. t \in TermSet /\ t # Open /\ t.uses = {} /\ Successors(t) = {}
    <3>1. {} \in SUBSET Nat /\ "stuck" \in Phases
      BY DEF Phases
    <3> QED
      BY <1>2, <3>1, ExitIs
  <2> HIDE DEF t
  <2>4. Continues(fn, fn')
    <3>1. Continues(fn, SetTerminator(Fail(h, "unknown identifier"), t))
      BY <2>2, <2>3, WorkingEnds
    <3> QED
      BY <1>3, <1>8, <3>1
  <2>5. env' \in Seq(ScopeSet) /\ Len(env') = Len(env) /\ SlotsKnown(fn', env', frames)
    BY <1>3, <2>4, EnvStays
  <2> QED
    BY <1>3, <2>4, <2>5, PlainStep
<1> QED
  BY <1>7, <1>8

LEMMA ReturnPreserves ==
    ASSUME Inv, Return
    PROVE  Inv'
<1> DEFINE f == EnsureOpenBlock(fn)
           v == f.values
           a == Instr("const", v + 1, {}, NoEvent)
           g == Emit(f, <<a>>)
           h == NewValues(g, 1)
           t(uses) == Term("return", <<>>, uses, <<Here, "return">>)
<1>1. Working(fn, f) /\ v \in Nat
  BY WorkingStart
<1>2. NoEvent \in Event /\ Here \in Nat /\ "return" \in Phases
  BY EventIs, Indices DEF Phases
<1>3. /\ fn' = IF unit THEN SetTerminator(f, t({})) ELSE SetTerminator(h, t({v + 1}))
      /\ Room /\ UNCHANGED <<stages, stage, unit, env, loops, frames, done>>
      /\ \E token : program' = Append(program, token)
  BY DEF Return, Add
<1> HIDE DEF f
<1>4. a \in InstrSet /\ a.inputs = {} /\ a.uses = {} /\ a.def = v + 1
  BY <1>1, <1>2, ConstIs
<1> HIDE DEF a
<1>5. Working(fn, g) /\ DefinedBy(g, v + 1, g.current)
  BY <1>1, <1>4, WorkingEmit
<1> HIDE DEF g
<1>6. Working(fn, h) /\ DefinedBy(h, v + 1, h.current)
  <2>1. Working(fn, h) /\ h.blocks = g.blocks /\ h.current = g.current
    BY <1>5, WorkingValues
  <2> HIDE DEF h
  <2> QED
    BY <1>5, <2>1 DEF DefinedBy
<1> HIDE DEF h
<1>7. \A uses \in SUBSET Nat :
        t(uses) \in TermSet /\ t(uses) # Open /\ t(uses).uses = uses /\ Successors(t(uses)) = {}
  BY <1>2, ExitIs
<1> HIDE DEF t
<1>8. Continues(fn, SetTerminator(f, t({})))
  BY <1>1, <1>7, WorkingEnds
<1>9. Continues(fn, SetTerminator(h, t({v + 1})))
  <2>1. {v + 1} \in SUBSET Nat
    BY <1>1
  <2> QED
    BY <1>6, <1>7, <2>1, WorkingEnds
<1>10. Continues(fn, fn')
  BY <1>3, <1>8, <1>9
<1>11. env' \in Seq(ScopeSet) /\ Len(env') = Len(env) /\ SlotsKnown(fn', env', frames)
  BY <1>3, <1>10, EnvStays
<1> QED
  BY <1>3, <1>10, <1>11, PlainStep

LEMMA LeaveForPreserves ==
    ASSUME Inv, NEW kind, NEW target, LeaveFor(kind, target),
           loops # <<>> => target \in {Last(loops).break, Last(loops).continue}
    PROVE  Inv'
<1> DEFINE f == EnsureOpenBlock(fn)
           t == Term("unreachable", <<>>, {}, <<Here, "stuck">>)
<1>1. Working(fn, f)
  BY WorkingStart
<1>3. /\ fn' = IF loops # <<>> THEN SetTerminator(f, Jump(target))
               ELSE SetTerminator(Fail(f, "outside of a loop"), t)
      /\ Room /\ UNCHANGED <<stages, stage, unit, env, loops, frames, done>>
      /\ \E token : program' = Append(program, token)
  BY DEF LeaveFor, Add
<1> HIDE DEF f
<1>4. CASE loops # <<>>
  <2>1. target \in DOMAIN fn.blocks
    <3>1. loops \in Seq(Targets)
      BY DEF Inv, IsShaped
    <3>3. Len(loops) \in Nat \ {0} /\ Last(loops) = loops[Len(loops)]
      BY <1>4, <3>1, FrontLast
    <3>2. Len(loops) \in DOMAIN loops /\ Last(loops) = loops[Len(loops)]
      BY <3>1, <3>3, SequenceIs
    <3> QED
      BY <1>4, <3>2 DEF Inv, KnowsOpenBlocks, TargetsExist
  <2>2. target \in DOMAIN f.blocks /\ target \in Nat
    BY <1>1, <2>1, ContinuesIs DEF Working
  <2>3. Continues(fn, SetTerminator(f, Jump(target)))
    BY <1>1, <2>2, JumpIs, WorkingEnds
  <2>4. Continues(fn, fn')
    BY <1>3, <1>4, <2>3
  <2>5. env' \in Seq(ScopeSet) /\ Len(env') = Len(env) /\ SlotsKnown(fn', env', frames)
    BY <1>3, <2>4, EnvStays
  <2> QED
    BY <1>3, <2>4, <2>5, PlainStep
<1>5. CASE loops = <<>>
  <2>1. "outside of a loop" \in Errors
    BY DEF Errors
  <2>2. Working(fn, Fail(f, "outside of a loop"))
    BY <1>1, <2>1, WorkingFail
  <2>3. t \in TermSet /\ t # Open /\ t.uses = {} /\ Successors(t) = {}
    <3>1. {} \in SUBSET Nat /\ "stuck" \in Phases /\ Here \in Nat
      BY Indices DEF Phases
    <3> QED
      BY <3>1, ExitIs
  <2> HIDE DEF t
  <2>4. Continues(fn, fn')
    <3>1. Continues(fn, SetTerminator(Fail(f, "outside of a loop"), t))
      BY <2>2, <2>3, WorkingEnds
    <3> QED
      BY <1>3, <1>5, <3>1
  <2>5. env' \in Seq(ScopeSet) /\ Len(env') = Len(env) /\ SlotsKnown(fn', env', frames)
    BY <1>3, <2>4, EnvStays
  <2> QED
    BY <1>3, <2>4, <2>5, PlainStep
<1> QED
  BY <1>4, <1>5

-----------------------------------------------------------------------------
(* Opening a statement *)

LEMMA Turn ==
    ASSUME NEW f, Sound(f), f.current \in OpenBlocks(f), NEW term \in TermSet, term # Open,
           Successors(term) \subseteq DOMAIN f.blocks,
           \A v \in term.uses : DefinedBy(f, v, f.current),
           NEW entered \in DOMAIN f.blocks,
           NEW g, g = EnterBlock(SetTerminator(f, term), entered)
    PROVE  /\ Sound(g) /\ Keeps(f, g)
           /\ OpenBlocks(g) = OpenBlocks(f) \ {f.current}
           /\ g.current = entered /\ g.values = f.values /\ Len(g.blocks) = Len(f.blocks)
           /\ \A b \in Successors(term) : f.current \in g.blocks[b].preds
<1> DEFINE e == SetTerminator(f, term)
<1>1. ~Terminated(f)
  BY DEF OpenBlocks, Terminated
<1>2. /\ Sound(e) /\ Keeps(f, e) /\ OpenBlocks(e) = OpenBlocks(f) \ {f.current}
      /\ e.values = f.values /\ Len(e.blocks) = Len(f.blocks)
      /\ \A b \in Successors(term) : f.current \in e.blocks[b].preds
  BY <1>1, SetTerminatorSound
<1> HIDE DEF e
<1>3. f \in FunctionSet /\ e \in FunctionSet
  BY <1>2 DEF Sound
<1>4. entered \in DOMAIN e.blocks
  <2>1. DOMAIN e.blocks = 1 .. Len(e.blocks) /\ DOMAIN f.blocks = 1 .. Len(f.blocks)
    BY <1>3, FunctionIs
  <2> QED
    BY <1>2, <2>1
<1>5. /\ Sound(g) /\ Keeps(e, g) /\ OpenBlocks(g) = OpenBlocks(e) /\ g.blocks = e.blocks
      /\ g.current = entered /\ g.values = e.values
  <2>1. g = EnterBlock(e, entered)
    BY DEF e
  <2> QED
    BY <1>2, <1>4, <2>1, EnterBlockSound
<1>6. Keeps(f, g)
  <2>1. g \in FunctionSet
    BY <1>5 DEF Sound
  <2> QED
    BY <1>2, <1>3, <1>5, <2>1, KeepsFurther
<1> QED
  BY <1>2, <1>5, <1>6

LEMMA OpenBody ==
    ASSUME NEW f, Sound(f), f.current \in OpenBlocks(f), NEW k \in Nat, NEW term \in TermSet, term # Open,
           NEW new, new = Len(f.blocks) + 1 .. Len(f.blocks) + k,
           Successors(term) \subseteq new,
           \A v \in term.uses : DefinedBy(f, v, f.current) /\ v \in Nat,
           NEW entered \in new,
           NEW g, g = EnterBlock(SetTerminator(NewBlocks(f, k), term), entered)
    PROVE  /\ Sound(g) /\ Keeps(f, g)
           /\ OpenBlocks(g) = (OpenBlocks(f) \ {f.current}) \cup new
           /\ g.current = entered /\ g.values = f.values /\ Len(g.blocks) = Len(f.blocks) + k
           /\ \A b \in Successors(term) : f.current \in g.blocks[b].preds
<1> DEFINE m == NewBlocks(f, k)
<1>1. f \in FunctionSet
  BY DEF Sound
<1>2. /\ Len(f.blocks) \in Nat /\ DOMAIN f.blocks = 1 .. Len(f.blocks) /\ f.current \in Nat
      /\ f.current \in DOMAIN f.blocks
  BY <1>1, FunctionIs DEF Sound
<1>3. /\ Sound(m) /\ Keeps(f, m) /\ OpenBlocks(m) = OpenBlocks(f) \cup new
      /\ m.current = f.current /\ m.values = f.values /\ Len(m.blocks) = Len(f.blocks) + k
  BY NewBlocksSound
<1> HIDE DEF m
<1>4. new \subseteq DOMAIN m.blocks /\ f.current \notin new
  <2>1. DOMAIN m.blocks = 1 .. Len(m.blocks)
    BY <1>3, FunctionIs DEF Sound
  <2>2. new \subseteq 1 .. Len(f.blocks) + k
    BY <1>2
  <2>3. f.current \notin new
    BY <1>2
  <2> QED
    BY <1>3, <2>1, <2>2, <2>3
<1>5. \A v \in term.uses : DefinedBy(m, v, m.current)
  BY <1>2, <1>3 DEF Keeps
<1>6. /\ Sound(g) /\ Keeps(m, g) /\ OpenBlocks(g) = OpenBlocks(m) \ {m.current}
      /\ g.current = entered /\ g.values = m.values /\ Len(g.blocks) = Len(m.blocks)
      /\ \A b \in Successors(term) : m.current \in g.blocks[b].preds
  <2>1. Successors(term) \subseteq DOMAIN m.blocks /\ entered \in DOMAIN m.blocks
    BY <1>4
  <2>2. m.current \in OpenBlocks(m)
    BY <1>3
  <2>3. g = EnterBlock(SetTerminator(m, term), entered)
    BY DEF m
  <2> QED
    BY <1>3, <1>5, <2>1, <2>2, <2>3, Turn
<1>7. Keeps(f, g)
  <2>1. m \in FunctionSet /\ g \in FunctionSet
    BY <1>3, <1>6 DEF Sound
  <2> QED
    BY <1>1, <1>3, <1>6, <2>1, KeepsFurther
<1>8. OpenBlocks(g) = (OpenBlocks(f) \ {f.current}) \cup new
  BY <1>3, <1>4, <1>6
<1> QED
  BY <1>3, <1>6, <1>7, <1>8

LEMMA OpenStep ==
    ASSUME Inv, RoomForBody, Sound(fn'), NEW x \in FrameSet, frames' = Append(frames, x),
           NEW token, program' = Append(program, token),
           WaitsFor(fn', Append(frames, x), StagesAhead),
           env' \in Seq(ScopeSet), Len(env') = Len(env) + IF x.kind = "for" THEN 2 ELSE 1,
           SlotsKnown(fn', env', Append(frames, x)),
           loops' \in Seq(Targets), Len(loops') = Len(loops) + IF x.kind \in {"while", "for"} THEN 1 ELSE 0,
           TargetsExist(fn', loops'),
           UNCHANGED <<stages, stage, unit, done>>
    PROVE  Inv'
<1>1. ~done /\ Len(program) + Len(frames) + 1 < MaxTokens
  BY DEF RoomForBody
<1>2. program' \in Seq(ToSet(program')) /\ Len(program') = Len(program) + 1 /\ Len(program) \in Nat
  BY ProgramIs DEF Inv, IsShaped
<1>3. /\ frames \in Seq(FrameSet) /\ Len(frames) \in Nat /\ frames' \in Seq(FrameSet)
      /\ Len(frames') = Len(frames) + 1 /\ frames'[Len(frames) + 1] = x
  <2>1. frames \in Seq(FrameSet) /\ Len(frames) \in Nat
    BY Indices DEF Inv, IsShaped
  <2> QED
    BY <2>1, AwaitedByLonger
<1>4. IsShaped'
  <2>1. fn' \in FunctionSet
    BY DEF Sound
  <2> QED
    BY <1>2, <1>3, <2>1 DEF Inv, IsShaped
<1>5. KnowsOpenBlocks'
  <2>1. StagesAhead' = StagesAhead
    BY DEF StagesAhead
  <2> QED
    BY <1>1, <2>1 DEF KnowsOpenBlocks
<1>6. CountsScopes'
  <2>1. Len(program') + Len(frames') <= MaxTokens
    <3>1. MaxTokens \in Nat
      BY LoweringAssumption
    <3> QED
      BY <1>1, <1>2, <1>3, <3>1
  <2> DEFINE n == Len(frames) + 1
  <2>2. n \in Nat \ {0} /\ n \in 1 .. Len(frames) + 1
    BY <1>3
  <2>3. /\ ScopesBelow(frames', n) = ScopesBelow(frames, n)
        /\ LoopsBelow(frames', n) = LoopsBelow(frames, n)
    BY <1>3, <2>2, ScopesBelowSame
  <2>4. /\ ScopesBelow(frames', n + 1) = ScopesBelow(frames', n) + IF x.kind = "for" THEN 2 ELSE 1
        /\ LoopsBelow(frames', n + 1) = LoopsBelow(frames', n) + IF x.kind \in {"while", "for"} THEN 1 ELSE 0
    BY <1>3, <2>2, ScopesBelowIs
  <2>5. Len(env) = ScopesBelow(frames, n) /\ Len(loops) = LoopsBelow(frames, n)
    BY <1>1 DEF Inv, CountsScopes
  <2>6. /\ Len(env') = ScopesBelow(frames', n + 1)
        /\ Len(loops') = LoopsBelow(frames', n + 1)
    BY <2>3, <2>4, <2>5
  <2>7. Len(frames') + 1 = n + 1 /\ done' = FALSE
    BY <1>1, <1>3 DEF Inv, IsShaped
  <2> QED
    BY <2>1, <2>6, <2>7 DEF CountsScopes
<1>7. KnowsSlots'
  BY DEF KnowsSlots
<1> QED
  BY <1>4, <1>5, <1>6, <1>7 DEF Inv

LEMMA FrameIs ==
    ASSUME Inv, NEW kind \in {"then", "else", "while", "for"}, NEW other \in Nat, NEW exit \in Nat
    PROVE  LET x == Frame(kind, other, exit)
           IN  /\ x \in FrameSet /\ x.kind = kind /\ x.other = other /\ x.exit = exit
<1>1. Here \in Nat /\ 0 \in Nat
  BY Indices
<1> QED
  BY <1>1 DEF Frame, FrameSet

(* The scope of a body, and the slots that are known in it. *)
LEMMA SlotsInBody ==
    ASSUME NEW f, Sound(f), NEW g, Sound(g), Keeps(f, g), f.current <= g.current,
           NEW e \in Seq(ScopeSet), Len(e) > 0, NEW fs \in Seq(FrameSet), SlotsKnown(f, e, fs),
           NEW x \in FrameSet, \A b \in Awaited(x) : g.current <= b,
           x.kind = "for" => x.other > 2 /\ DefinedBy(g, x.index, x.other)
    PROVE  /\ SlotsKnown(g, PushScope(e), Append(fs, x))
           /\ PushScope(e) \in Seq(ScopeSet) /\ Len(PushScope(e)) = Len(e) + 1
<1>1. SlotsKnown(g, e, fs)
  BY SlotsStay
<1>2. SlotsKnown(g, e, Append(fs, x))
  BY <1>1, SlotsBelowFrame
<1> QED
  BY <1>2, SlotsPushed, PushIs

LEMMA TargetsStay ==
    ASSUME NEW f, Sound(f), NEW g, Sound(g), Keeps(f, g), NEW ls, TargetsExist(f, ls)
    PROVE  TargetsExist(g, ls)
<1>1. f \in FunctionSet /\ g \in FunctionSet /\ Len(f.blocks) <= Len(g.blocks)
  BY DEF Sound, Keeps
<1>2. /\ DOMAIN f.blocks = 1 .. Len(f.blocks) /\ DOMAIN g.blocks = 1 .. Len(g.blocks)
      /\ Len(f.blocks) \in Nat /\ Len(g.blocks) \in Nat
  BY <1>1, FunctionIs
<1>3. DOMAIN f.blocks \subseteq DOMAIN g.blocks
  BY <1>1, <1>2
<1> QED
  BY <1>3 DEF TargetsExist

(* Once the blocks of a body are made, all that is left is bookkeeping.    *)
LEMMA BodyStep ==
    ASSUME Inv, RoomForBody, NEW h, Working(fn, h), NEW g, Sound(g), Keeps(h, g), fn' = g,
           NEW x \in FrameSet, frames' = Append(frames, x), NEW token, program' = Append(program, token),
           OpenBlocks(g) \ {g.current} = (OpenBlocks(h) \ {h.current}) \cup Awaited(x),
           g.current > Len(h.blocks), \A b \in Awaited(x) : g.current < b,
           x.other < x.exit, x.other \in DOMAIN g.blocks,
           x.kind = "for" => x.other > 2 /\ DefinedBy(g, x.index, x.other),
           NEW d \in Seq(ScopeSet), Len(d) = Len(env) + IF x.kind = "for" THEN 1 ELSE 0,
           SlotsKnown(h, d, frames), env' = PushScope(d),
           loops' \in Seq(Targets), Len(loops') = Len(loops) + IF x.kind \in {"while", "for"} THEN 1 ELSE 0,
           TargetsExist(g, loops'),
           UNCHANGED <<stages, stage, unit, done>>
    PROVE  Inv'
<1>1. /\ frames \in Seq(FrameSet) /\ Len(env) > 1 /\ Len(env) \in Nat
  BY Indices DEF Inv, IsShaped, RoomForBody
<1>2. Sound(h) /\ Continues(fn, h) /\ Sound(fn)
  BY DEF Working
<1>3. /\ Len(h.blocks) \in Nat /\ DOMAIN h.blocks = 1 .. Len(h.blocks)
      /\ h.current \in Nat /\ h.current \in DOMAIN h.blocks
      /\ g.current \in Nat
  <2>1. h \in FunctionSet /\ g \in FunctionSet /\ h.current \in DOMAIN h.blocks
    BY <1>2 DEF Sound
  <2> QED
    BY <2>1, FunctionIs
<1>4. Awaited(x) \in SUBSET Nat
  BY AwaitedIs
<1>5. WaitsFor(g, Append(frames, x), StagesAhead)
  <2>1. WaitsFor(h, frames, StagesAhead)
    BY <1>2, WaitsOn DEF Inv, KnowsOpenBlocks
  <2>2. \A b \in Awaited(x) : ~(b <= Len(h.blocks)) /\ b # g.current
    BY <1>3, <1>4
  <2>3. g.current \notin Awaited(x) /\ g.current \notin DOMAIN h.blocks /\ Awaited(x) \cap DOMAIN h.blocks = {}
    BY <1>3, <2>2
  <2> QED
    BY <1>1, <1>2, <2>1, <2>3, WaitsForMore
<1>6. /\ SlotsKnown(g, PushScope(d), Append(frames, x))
      /\ PushScope(d) \in Seq(ScopeSet) /\ Len(PushScope(d)) = Len(d) + 1
  <2>1. h.current <= g.current /\ \A b \in Awaited(x) : g.current <= b
    BY <1>3, <1>4
  <2>2. Len(d) > 0
    BY <1>1
  <2> QED
    BY <1>1, <1>2, <2>1, <2>2, SlotsInBody
<1>7. Len(env') = Len(env) + IF x.kind = "for" THEN 2 ELSE 1
  <2>1. Len(env') = Len(env) + (IF x.kind = "for" THEN 1 ELSE 0) + 1
    BY <1>6
  <2> QED
    BY <1>1, <2>1
<1> QED
  BY <1>5, <1>6, <1>7, OpenStep

LEMMA BeginIfPreserves ==
    ASSUME Inv, BeginIf
    PROVE  Inv'
<1> DEFINE f == EnsureOpenBlock(fn)
           v == f.values
           n == Len(f.blocks)
           a == Instr("const", v + 1, {}, <<Here, "test">>)
           e == Emit(f, <<a>>)
           h == NewValues(e, 1)
           g == EnterBlock(SetTerminator(NewBlocks(h, 3), Branch(v + 1, n + 1, n + 2)), n + 1)
           x == Frame("then", n + 2, n + 3)
<1>1. Working(fn, f) /\ v \in Nat
  BY WorkingStart
<1>2. /\ fn' = g /\ RoomForBody /\ env' = PushScope(env)
      /\ frames' = Append(frames, x)
      /\ UNCHANGED <<stages, stage, unit, loops, done>>
      /\ \E token : program' = Append(program, token)
  BY DEF BeginIf, Add, Opens
<1> HIDE DEF f
<1>3. a \in InstrSet /\ a.inputs = {} /\ a.uses = {} /\ a.def = v + 1
  <2>1. <<Here, "test">> \in Event /\ v + 1 \in Nat
    BY <1>1, EventIs DEF Phases
  <2> QED
    BY <2>1, ConstIs
<1> HIDE DEF a
<1>4. Working(fn, e) /\ DefinedBy(e, v + 1, e.current) /\ Len(e.blocks) = n
  BY <1>1, <1>3, WorkingEmit
<1> HIDE DEF e
<1>5. Working(fn, h) /\ DefinedBy(h, v + 1, h.current) /\ Len(h.blocks) = n
  <2>1. Working(fn, h) /\ h.blocks = e.blocks /\ h.current = e.current
    BY <1>4, WorkingValues
  <2> HIDE DEF h
  <2> QED
    BY <1>4, <2>1 DEF DefinedBy
<1> HIDE DEF h
<1>6. /\ n \in Nat /\ h \in FunctionSet /\ h.current \in 1 .. n /\ DOMAIN h.blocks = 1 .. n
  <2>1. h \in FunctionSet /\ h.current \in DOMAIN h.blocks
    BY <1>5 DEF Working, Sound
  <2> QED
    BY <1>5, <2>1, FunctionIs
<1> HIDE DEF n
<1>7. /\ Sound(g) /\ Keeps(h, g)
      /\ OpenBlocks(g) = (OpenBlocks(h) \ {h.current}) \cup (n + 1 .. n + 3)
      /\ g.current = n + 1 /\ Len(g.blocks) = n + 3
  <2> DEFINE t == Branch(v + 1, n + 1, n + 2)
  <2>1. t \in TermSet /\ t # Open /\ t.uses = {v + 1} /\ Successors(t) = {n + 1, n + 2}
    <3>1. v + 1 \in Nat /\ n + 1 \in Nat /\ n + 2 \in Nat
      BY <1>1, <1>6
    <3> QED
      BY <3>1, BranchIs
  <2> HIDE DEF t
  <2>2. Successors(t) \subseteq n + 1 .. n + 3 /\ n + 1 \in n + 1 .. n + 3
    BY <1>6, <2>1
  <2>3. \A w \in t.uses : DefinedBy(h, w, h.current) /\ w \in Nat
    BY <1>1, <1>5, <2>1
  <2>4. Sound(h) /\ h.current \in OpenBlocks(h)
    BY <1>5 DEF Working
  <2>three. PICK k \in Nat : k = 3
    OBVIOUS
  <2>5. PICK entered : entered = n + 1
    OBVIOUS
  <2>6. PICK new : new = Len(h.blocks) + 1 .. Len(h.blocks) + k
    OBVIOUS
  <2>7. g = EnterBlock(SetTerminator(NewBlocks(h, k), t), entered)
    BY <2>three, <2>5 DEF g, t
  <2>8. Successors(t) \subseteq new /\ entered \in new
    BY <1>5, <2>2, <2>three, <2>5, <2>6
  <2> HIDE DEF g
  <2>9. /\ Sound(g) /\ Keeps(h, g)
        /\ OpenBlocks(g) = (OpenBlocks(h) \ {h.current}) \cup new
        /\ g.current = entered /\ Len(g.blocks) = Len(h.blocks) + k
    BY <2>1, <2>3, <2>4, <2>6, <2>7, <2>8, OpenBody, SMTT(60)
  <2> QED
    BY <1>5, <2>three, <2>5, <2>6, <2>9
<1> HIDE DEF g
<1>8. /\ x \in FrameSet /\ x.kind = "then" /\ x.other = n + 2 /\ x.exit = n + 3
      /\ Awaited(x) = {n + 2, n + 3}
  <2>1. n + 2 \in Nat /\ n + 3 \in Nat
    BY <1>6
  <2>2. x \in FrameSet /\ x.kind = "then" /\ x.other = n + 2 /\ x.exit = n + 3
    BY <2>1, FrameIs
  <2> HIDE DEF x
  <2> QED
    BY <2>2, AwaitedIs
<1> HIDE DEF x
<1>9. OpenBlocks(g) \ {g.current} = (OpenBlocks(h) \ {h.current}) \cup Awaited(x)
  <2>1. OpenBlocks(h) \subseteq 1 .. n
    BY <1>6 DEF OpenBlocks
  <2>2. (n + 1 .. n + 3) \ {n + 1} = {n + 2, n + 3} /\ n + 1 \notin 1 .. n
    BY <1>6
  <2> QED
    BY <1>7, <1>8, <2>1, <2>2
<1>10. /\ g.current > Len(h.blocks) /\ \A b \in Awaited(x) : g.current < b
       /\ x.other < x.exit /\ x.other \in DOMAIN g.blocks
  <2>1. DOMAIN g.blocks = 1 .. n + 3
    BY <1>7, FunctionIs DEF Sound
  <2> QED
    BY <1>5, <1>6, <1>7, <1>8, <2>1
<1>11. /\ env \in Seq(ScopeSet) /\ loops \in Seq(Targets) /\ Len(env) \in Nat /\ Len(loops) \in Nat
       /\ SlotsKnown(h, env, frames)
  BY <1>5, SlotsOn, Indices DEF Inv, IsShaped, Working
<1>12. TargetsExist(g, loops)
  <2>1. Continues(fn, h) /\ Sound(fn) /\ Sound(h)
    BY <1>5 DEF Working
  <2>2. TargetsExist(h, loops)
    BY <2>1, TargetsStay DEF Inv, KnowsOpenBlocks, Continues
  <2> QED
    BY <1>7, <2>1, <2>2, TargetsStay
<1>13. /\ x.kind # "for" /\ Len(env) = Len(env) + IF x.kind = "for" THEN 1 ELSE 0
       /\ Len(loops) = Len(loops) + IF x.kind \in {"while", "for"} THEN 1 ELSE 0
  BY <1>8, <1>11
<1> QED
  BY <1>2, <1>5, <1>7, <1>8, <1>9, <1>10, <1>11, <1>12, <1>13, BodyStep

(* From one function under construction to a later one. *)
Grows(f, g) == Sound(f) /\ Sound(g) /\ Keeps(f, g)

LEMMA GrowsFurther ==
    ASSUME NEW f, NEW g, NEW h, Grows(f, g), Grows(g, h)
    PROVE  Grows(f, h)
<1>1. f \in FunctionSet /\ g \in FunctionSet /\ h \in FunctionSet
  BY DEF Grows, Sound
<1>2. Keeps(f, h)
  BY <1>1, KeepsFurther DEF Grows
<1> QED
  BY <1>2 DEF Grows

(* The three moves of the lowerer: jump out of an open block to one of k   *)
(* new ones, branch into a body, append to the code.                       *)
NewOnes(f, k) == Len(f.blocks) + 1 .. Len(f.blocks) + k
JumpsTo(f, k, b, g) == g = EnterBlock(SetTerminator(NewBlocks(f, k), Jump(b)), b)
BranchesTo(f, v, b, c, g) == g = EnterBlock(SetTerminator(f, Branch(v, b, c)), b)
Emits(f, instrs, g) == g = Emit(f, instrs)

LEMMA OpenHeader ==
    ASSUME NEW f, Sound(f), f.current \in OpenBlocks(f), NEW k \in Nat,
           NEW b \in NewOnes(f, k), NEW g, JumpsTo(f, k, b, g)
    PROVE  /\ Grows(f, g)
           /\ OpenBlocks(g) = (OpenBlocks(f) \ {f.current}) \cup NewOnes(f, k)
           /\ g.current = b /\ g.current \in OpenBlocks(g)
           /\ g.values = f.values
           /\ f.current \in g.blocks[b].preds
           /\ DOMAIN g.blocks = DOMAIN f.blocks \cup NewOnes(f, k)
<1> DEFINE t == Jump(b)
<1>1. /\ f \in FunctionSet /\ Len(f.blocks) \in Nat /\ DOMAIN f.blocks = 1 .. Len(f.blocks)
      /\ f.current \in 1 .. Len(f.blocks)
  BY FunctionIs DEF Sound
<1>2. t \in TermSet /\ t # Open /\ t.uses = {} /\ Successors(t) = {b}
  <2>1. b \in Nat
    BY <1>1 DEF NewOnes
  <2> QED
    BY <2>1, JumpIs
<1>3. g = EnterBlock(SetTerminator(NewBlocks(f, k), t), b)
  BY DEF JumpsTo
<1> HIDE DEF t
<1>4. Successors(t) \subseteq NewOnes(f, k) /\ \A v \in t.uses : DefinedBy(f, v, f.current) /\ v \in Nat
  BY <1>2
<1>5. NewOnes(f, k) = Len(f.blocks) + 1 .. Len(f.blocks) + k
  BY DEF NewOnes
<1>6. /\ Sound(g) /\ Keeps(f, g)
      /\ OpenBlocks(g) = (OpenBlocks(f) \ {f.current}) \cup NewOnes(f, k)
      /\ g.current = b /\ g.values = f.values /\ Len(g.blocks) = Len(f.blocks) + k
      /\ \A c \in Successors(t) : f.current \in g.blocks[c].preds
  BY <1>2, <1>3, <1>4, <1>5, OpenBody
<1>7. DOMAIN g.blocks = DOMAIN f.blocks \cup NewOnes(f, k)
  <2>1. DOMAIN g.blocks = 1 .. Len(g.blocks)
    BY <1>6, FunctionIs DEF Sound
  <2>2. PICK m \in Nat : m = Len(f.blocks)
    BY <1>1
  <2>3. 1 .. m + k = (1 .. m) \cup (m + 1 .. m + k)
    OBVIOUS
  <2> QED
    BY <1>1, <1>6, <1>5, <2>1, <2>2, <2>3
<1> QED
  BY <1>2, <1>6, <1>7 DEF Grows

(* A test that branches into the body of a loop. *)
LEMMA TestTurn ==
    ASSUME NEW f, Sound(f), f.current \in OpenBlocks(f), NEW v \in Nat, DefinedBy(f, v, f.current),
           NEW b \in DOMAIN f.blocks, NEW c \in DOMAIN f.blocks,
           NEW g, BranchesTo(f, v, b, c, g)
    PROVE  /\ Grows(f, g) /\ OpenBlocks(g) = OpenBlocks(f) \ {f.current}
           /\ g.current = b /\ g.values = f.values /\ Len(g.blocks) = Len(f.blocks)
<1> DEFINE t == Branch(v, b, c)
<1>1. b \in Nat /\ c \in Nat
  <2>1. DOMAIN f.blocks = 1 .. Len(f.blocks) /\ Len(f.blocks) \in Nat
    BY FunctionIs DEF Sound
  <2> QED
    BY <2>1
<1>2. t \in TermSet /\ t # Open /\ t.uses = {v} /\ Successors(t) = {b, c}
  BY <1>1, BranchIs
<1>3. g = EnterBlock(SetTerminator(f, t), b)
  BY DEF BranchesTo
<1> HIDE DEF t
<1>4. Successors(t) \subseteq DOMAIN f.blocks /\ \A w \in t.uses : DefinedBy(f, w, f.current)
  BY <1>2
<1>5. /\ Sound(g) /\ Keeps(f, g) /\ OpenBlocks(g) = OpenBlocks(f) \ {f.current}
      /\ g.current = b /\ g.values = f.values /\ Len(g.blocks) = Len(f.blocks)
  BY <1>2, <1>3, <1>4, Turn
<1> QED
  BY <1>5 DEF Grows

(* One instruction and one value more. *)
LEMMA EmitGrows ==
    ASSUME NEW f, Sound(f), NEW instrs, Fit(f, instrs), NEW g, Emits(f, instrs, g)
    PROVE  /\ Grows(f, g) /\ OpenBlocks(g) = OpenBlocks(f)
           /\ g.current = f.current /\ g.values = f.values
           /\ Len(g.blocks) = Len(f.blocks) /\ DOMAIN g.blocks = DOMAIN f.blocks
           /\ \A b \in DOMAIN f.blocks : g.blocks[b].preds = f.blocks[b].preds
           /\ \A k \in DOMAIN instrs : DefinedBy(g, instrs[k].def, f.current)
<1>1. /\ Sound(g) /\ Keeps(f, g) /\ OpenBlocks(g) = OpenBlocks(f)
      /\ g.current = f.current /\ g.values = f.values
      /\ Len(g.blocks) = Len(f.blocks)
      /\ \A b \in DOMAIN f.blocks : g.blocks[b].preds = f.blocks[b].preds
      /\ \A k \in DOMAIN instrs : DefinedBy(g, instrs[k].def, f.current)
  BY EmitSound DEF Emits
<1>2. DOMAIN g.blocks = DOMAIN f.blocks
  <2>1. f \in FunctionSet /\ g \in FunctionSet
    BY <1>1 DEF Sound
  <2>2. DOMAIN g.blocks = 1 .. Len(g.blocks) /\ DOMAIN f.blocks = 1 .. Len(f.blocks)
    BY <2>1, FunctionIs
  <2> QED
    BY <1>1, <2>2
<1> QED
  BY <1>1, <1>2 DEF Grows

LEMMA ValuesGrow ==
    ASSUME NEW f, Sound(f), NEW n \in Nat, NEW g, g = NewValues(f, n)
    PROVE  /\ Grows(f, g) /\ OpenBlocks(g) = OpenBlocks(f) /\ g.blocks = f.blocks
           /\ g.current = f.current /\ g.values = f.values + n
           /\ \A v, b \in Nat : DefinedBy(f, v, b) => DefinedBy(g, v, b)
  BY NewValuesSound DEF Grows, Keeps

(* The targets of a loop's break and continue, on top of those around it.  *)
LEMMA LoopPushed ==
    ASSUME Inv, NEW h, Working(fn, h), NEW g, Grows(h, g),
           NEW b \in DOMAIN g.blocks, NEW c \in DOMAIN g.blocks,
           NEW ls, ls = Append(loops, [break |-> b, continue |-> c])
    PROVE  ls \in Seq(Targets) /\ Len(ls) = Len(loops) + 1 /\ TargetsExist(g, ls)
<1> DEFINE t == [break |-> b, continue |-> c]
<1>1. t \in Targets /\ t.break = b /\ t.continue = c
  <2>1. DOMAIN g.blocks = 1 .. Len(g.blocks) /\ Len(g.blocks) \in Nat
    BY FunctionIs DEF Grows, Sound
  <2> QED
    BY <2>1 DEF Targets
<1> HIDE DEF t
<1>2. loops \in Seq(Targets)
  BY DEF Inv, IsShaped
<1>3. TargetsExist(g, loops)
  <2>1. Sound(fn) /\ Sound(h) /\ Keeps(fn, h) /\ Sound(g) /\ Keeps(h, g)
    BY DEF Working, Continues, Grows
  <2>2. TargetsExist(h, loops)
    BY <2>1, TargetsStay DEF Inv, KnowsOpenBlocks
  <2> QED
    BY <2>1, <2>2, TargetsStay
<1>4. ls = Append(loops, t)
  BY DEF t
<1>5. /\ ls \in Seq(Targets) /\ Len(ls) = Len(loops) + 1
      /\ \A i \in DOMAIN ls : ls[i] = t \/ (i \in DOMAIN loops /\ ls[i] = loops[i])
  BY <1>1, <1>2, <1>4
<1> QED
  BY <1>1, <1>3, <1>5 DEF TargetsExist

LEMMA BeginWhilePreserves ==
    ASSUME Inv, BeginWhile
    PROVE  Inv'
<1> DEFINE f == EnsureOpenBlock(fn)
           n == Len(f.blocks)
           v == f.values
           a == Instr("const", v + 1, {}, <<Here, "test">>)
           entered == EnterBlock(SetTerminator(NewBlocks(f, 3), Jump(n + 1)), n + 1)
           emitted == Emit(entered, <<a>>)
           tested == NewValues(emitted, 1)
           g == EnterBlock(SetTerminator(tested, Branch(v + 1, n + 2, n + 3)), n + 2)
           x == Frame("while", n + 1, n + 3)
<1>1. Working(fn, f) /\ v \in Nat
  BY WorkingStart
<1>2. /\ fn' = g /\ RoomForBody /\ env' = PushScope(env)
      /\ frames' = Append(frames, x)
      /\ loops' = Append(loops, [break |-> n + 3, continue |-> n + 1])
      /\ UNCHANGED <<stages, stage, unit, done>>
      /\ \E token : program' = Append(program, token)
  BY DEF BeginWhile, Add, Opens
<1> HIDE DEF f
<1>3. a \in InstrSet /\ a.inputs = {} /\ a.uses = {} /\ a.def = v + 1
  <2>1. <<Here, "test">> \in Event /\ v + 1 \in Nat
    BY <1>1, EventIs DEF Phases
  <2> QED
    BY <2>1, ConstIs
<1> HIDE DEF a
<1>4. Sound(f) /\ f.current \in OpenBlocks(f) /\ n \in Nat
  <2>1. Sound(f) /\ f.current \in OpenBlocks(f)
    BY <1>1 DEF Working
  <2> QED
    BY <2>1, FunctionIs DEF Sound
<1>5. /\ Grows(f, entered)
      /\ OpenBlocks(entered) = (OpenBlocks(f) \ {f.current}) \cup (n + 1 .. n + 3)
      /\ OpenBlocks(f) \subseteq 1 .. n /\ f.current \in 1 .. n
      /\ entered.current = n + 1 /\ entered.current \in OpenBlocks(entered)
      /\ DOMAIN entered.blocks = 1 .. n + 3
  <2>three. PICK k \in Nat : k = 3
    OBVIOUS
  <2>1. PICK b : b = n + 1
    OBVIOUS
  <2>2. b \in NewOnes(f, k) /\ JumpsTo(f, k, b, entered)
    BY <1>4, <2>three, <2>1 DEF JumpsTo, NewOnes
  <2>3. NewOnes(f, k) = n + 1 .. n + 3
    BY <2>three DEF NewOnes
  <2>4. DOMAIN f.blocks = 1 .. n
    BY <1>4, FunctionIs DEF Sound
  <2> HIDE DEF entered, n
  <2>5. /\ Grows(f, entered)
        /\ OpenBlocks(entered) = (OpenBlocks(f) \ {f.current}) \cup NewOnes(f, k)
        /\ entered.current = b /\ entered.current \in OpenBlocks(entered)
        /\ DOMAIN entered.blocks = DOMAIN f.blocks \cup NewOnes(f, k)
    BY <1>4, <2>2, OpenHeader
  <2>6. f.current \in 1 .. n /\ OpenBlocks(f) \subseteq 1 .. n
    BY <1>4, <2>4 DEF OpenBlocks
  <2>7. 1 .. n + 3 = (1 .. n) \cup (n + 1 .. n + 3)
    BY <1>4
  <2> QED
    BY <2>1, <2>3, <2>4, <2>5, <2>6, <2>7
<1> HIDE DEF entered, n
<1>6. Sound(entered) /\ Fit(entered, <<a>>) /\ Emits(entered, <<a>>, emitted)
  BY <1>3, <1>5, FitOne DEF Grows, Emits
<1>7. /\ Grows(entered, emitted) /\ OpenBlocks(emitted) = OpenBlocks(entered)
      /\ emitted.current = n + 1 /\ DOMAIN emitted.blocks = 1 .. n + 3
      /\ DefinedBy(emitted, v + 1, n + 1)
  <2>1. /\ Grows(entered, emitted) /\ OpenBlocks(emitted) = OpenBlocks(entered)
        /\ emitted.current = entered.current /\ DOMAIN emitted.blocks = DOMAIN entered.blocks
        /\ \A k \in DOMAIN <<a>> : DefinedBy(emitted, <<a>>[k].def, entered.current)
    BY <1>6, EmitGrows
  <2>2. 1 \in DOMAIN <<a>> /\ <<a>>[1].def = v + 1
    BY <1>3
  <2> QED
    BY <1>5, <2>1, <2>2
<1> HIDE DEF emitted
<1>8. /\ Grows(emitted, tested) /\ OpenBlocks(tested) = OpenBlocks(entered)
      /\ tested.current = n + 1 /\ DOMAIN tested.blocks = 1 .. n + 3
      /\ DefinedBy(tested, v + 1, n + 1)
  <2>1. Sound(emitted) /\ 1 \in Nat /\ n + 1 \in Nat /\ v + 1 \in Nat
    BY <1>1, <1>4, <1>7 DEF Grows
  <2>2. /\ Grows(emitted, tested) /\ OpenBlocks(tested) = OpenBlocks(emitted)
        /\ tested.blocks = emitted.blocks /\ tested.current = emitted.current
        /\ \A w, b \in Nat : DefinedBy(emitted, w, b) => DefinedBy(tested, w, b)
    BY <2>1, ValuesGrow
  <2> QED
    BY <1>7, <2>1, <2>2
<1> HIDE DEF tested
<1>9. /\ Grows(tested, g) /\ OpenBlocks(g) = OpenBlocks(tested) \ {n + 1}
      /\ g.current = n + 2
  <2>1. n + 2 \in DOMAIN tested.blocks /\ n + 3 \in DOMAIN tested.blocks /\ v + 1 \in Nat
    BY <1>1, <1>4, <1>8
  <2>2. Sound(tested) /\ tested.current \in OpenBlocks(tested)
    BY <1>5, <1>8 DEF Grows
  <2>value. PICK w \in Nat : w = v + 1
    BY <2>1
  <2>3. PICK b, c : b = n + 2 /\ c = n + 3
    OBVIOUS
  <2>4. /\ DefinedBy(tested, w, tested.current)
        /\ b \in DOMAIN tested.blocks /\ c \in DOMAIN tested.blocks
        /\ BranchesTo(tested, w, b, c, g)
    BY <1>8, <2>1, <2>value, <2>3 DEF BranchesTo
  <2> HIDE DEF g
  <2>5. /\ Grows(tested, g) /\ OpenBlocks(g) = OpenBlocks(tested) \ {tested.current}
        /\ g.current = b
    BY <2>2, <2>4, TestTurn
  <2> QED
    BY <1>8, <2>3, <2>5
<1> HIDE DEF g
<1>10. Grows(f, g) /\ DOMAIN g.blocks = 1 .. Len(g.blocks) /\ n + 3 <= Len(g.blocks) /\ Len(g.blocks) \in Nat
  <2>1. Grows(f, tested)
    BY <1>5, <1>7, <1>8, GrowsFurther
  <2>2. Grows(f, g)
    BY <1>9, <2>1, GrowsFurther
  <2>3. /\ DOMAIN g.blocks = 1 .. Len(g.blocks) /\ Len(g.blocks) \in Nat
        /\ DOMAIN tested.blocks = 1 .. Len(tested.blocks) /\ Len(tested.blocks) \in Nat
    BY <1>9, FunctionIs DEF Grows, Sound
  <2>4. Len(tested.blocks) = n + 3
    BY <1>4, <1>8, <2>3
  <2> QED
    BY <1>9, <2>2, <2>3, <2>4 DEF Grows, Keeps
<1>11. /\ x \in FrameSet /\ x.kind = "while" /\ x.other = n + 1 /\ x.exit = n + 3
       /\ Awaited(x) = {n + 3}
  <2>1. n + 1 \in Nat /\ n + 3 \in Nat
    BY <1>4
  <2>2. x \in FrameSet /\ x.kind = "while" /\ x.other = n + 1 /\ x.exit = n + 3
    BY <2>1, FrameIs
  <2> HIDE DEF x
  <2> QED
    BY <2>2, AwaitedIs
<1> HIDE DEF x
<1>12. OpenBlocks(g) \ {g.current} = (OpenBlocks(f) \ {f.current}) \cup Awaited(x)
  <2>1. (n + 1 .. n + 3) = {n + 1, n + 2, n + 3} /\ n + 1 \notin 1 .. n /\ n + 2 \notin 1 .. n
    BY <1>4
  <2>2. n + 1 # n + 3 /\ n + 2 # n + 3
    BY <1>4
  <2> QED
    BY <1>5, <1>8, <1>9, <1>11, <2>1, <2>2
<1>13. /\ g.current > Len(f.blocks) /\ \A b \in Awaited(x) : g.current < b
       /\ x.other < x.exit /\ x.other \in DOMAIN g.blocks
       /\ n + 3 \in DOMAIN g.blocks /\ n + 1 \in DOMAIN g.blocks
  <2>1. n = Len(f.blocks)
    BY DEF n
  <2> QED
    BY <1>4, <1>9, <1>10, <1>11, <2>1
<1>14. /\ env \in Seq(ScopeSet) /\ Len(env) \in Nat /\ SlotsKnown(f, env, frames)
  BY <1>1, SlotsOn, Indices DEF Inv, IsShaped, Working
<1>15. loops' \in Seq(Targets) /\ Len(loops') = Len(loops) + 1 /\ TargetsExist(g, loops')
  BY <1>1, <1>2, <1>10, <1>13, LoopPushed
<1>16. /\ x.kind # "for" /\ Len(env) = Len(env) + IF x.kind = "for" THEN 1 ELSE 0
       /\ Len(loops') = Len(loops) + IF x.kind \in {"while", "for"} THEN 1 ELSE 0
  BY <1>11, <1>14, <1>15
<1>17. Sound(g) /\ Keeps(f, g)
  BY <1>10 DEF Grows
<1> QED
  BY <1>1, <1>2, <1>11, <1>12, <1>13, <1>14, <1>15, <1>16, <1>17, BodyStep

LEMMA FitTwo ==
    ASSUME NEW f, NEW i \in InstrSet, NEW j \in InstrSet,
           \A v \in i.uses : DefinedBy(f, v, f.current),
           \A v \in j.uses : DefinedBy(f, v, f.current) \/ v = i.def,
           \A input \in i.inputs \cup j.inputs :
              DefinedBy(f, input[1], Len(f.blocks)) /\ input[2] \in f.blocks[f.current].preds
    PROVE  Fit(f, <<i, j>>) /\ DOMAIN <<i, j>> = 1 .. 2 /\ <<i, j>>[1] = i /\ <<i, j>>[2] = j
<1> DEFINE s == <<i, j>>
<1>1. s \in Seq(InstrSet) /\ DOMAIN s = 1 .. 2 /\ s[1] = i /\ s[2] = j
  OBVIOUS
<1> HIDE DEF s
<1>2. \A k \in 1 .. 2 : k = 1 \/ k = 2
  OBVIOUS
<1>3. \A v \in j.uses : DefinedBy(f, v, f.current) \/ \E k \in 1 .. 2 : k < 2 /\ s[k].def = v
  BY <1>1
<1> QED
  BY <1>1, <1>2, <1>3 DEF Fit, s

Made(i, def, uses, inputs) ==
    i \in InstrSet /\ i.def = def /\ i.uses = uses /\ i.inputs = inputs

(* The header of a for: the phi of the index, and the test.                *)
LEMMA ForHeader ==
    ASSUME NEW f, Sound(f), f.current \in OpenBlocks(f), NEW k \in Nat,
           NEW b \in NewOnes(f, k), NEW c \in NewOnes(f, k), NEW d \in NewOnes(f, k),
           NEW size \in Nat, NEW zero \in Nat, NEW index \in Nat, NEW test \in Nat,
           DefinedBy(f, zero, f.current), DefinedBy(f, size, f.current),
           NEW i, Made(i, index, {}, {<<zero, f.current>>}),
           NEW j, Made(j, test, {index, size}, {}),
           NEW entered, JumpsTo(f, k, b, entered),
           NEW header, Emits(entered, <<i, j>>, header),
           NEW g, BranchesTo(header, test, c, d, g)
    PROVE  /\ Grows(f, g) /\ OpenBlocks(g) = ((OpenBlocks(f) \ {f.current}) \cup NewOnes(f, k)) \ {b}
           /\ g.current = c /\ DOMAIN g.blocks = DOMAIN f.blocks \cup NewOnes(f, k)
           /\ DefinedBy(g, index, b)
<1>1. /\ Grows(f, entered)
      /\ OpenBlocks(entered) = (OpenBlocks(f) \ {f.current}) \cup NewOnes(f, k)
      /\ entered.current = b /\ entered.current \in OpenBlocks(entered)
      /\ f.current \in entered.blocks[b].preds
      /\ DOMAIN entered.blocks = DOMAIN f.blocks \cup NewOnes(f, k)
  BY OpenHeader
<1>2. /\ f \in FunctionSet /\ Len(f.blocks) \in Nat /\ f.current \in Nat /\ f.current <= Len(f.blocks)
      /\ entered \in FunctionSet /\ Len(entered.blocks) \in Nat
      /\ b \in Nat /\ c \in Nat /\ d \in Nat /\ f.current <= b /\ f.current <= Len(entered.blocks)
  <2>1. f \in FunctionSet /\ entered \in FunctionSet /\ f.current \in DOMAIN f.blocks
    BY <1>1 DEF Grows, Sound
  <2>2. /\ DOMAIN f.blocks = 1 .. Len(f.blocks) /\ Len(f.blocks) \in Nat
        /\ Len(entered.blocks) \in Nat
    BY <2>1, FunctionIs
  <2>3. Len(f.blocks) <= Len(entered.blocks)
    BY <1>1 DEF Grows, Keeps
  <2>4. b \in Nat /\ c \in Nat /\ d \in Nat /\ b > Len(f.blocks)
    BY <2>2 DEF NewOnes
  <2>5. f.current \in Nat /\ f.current <= Len(f.blocks)
    BY <2>1, <2>2
  <2>6. f.current <= b /\ f.current <= Len(entered.blocks)
    BY <2>2, <2>3, <2>4, <2>5
  <2> QED
    BY <2>1, <2>2, <2>4, <2>5, <2>6
<1>3. /\ DefinedBy(entered, zero, Len(entered.blocks)) /\ DefinedBy(entered, size, b)
  <2>1. DefinedBy(entered, zero, f.current) /\ DefinedBy(entered, size, f.current)
    BY <1>1, <1>2 DEF Grows, Keeps
  <2> QED
    BY <1>2, <2>1, DefinedLater
<1>4. Fit(entered, <<i, j>>) /\ DOMAIN <<i, j>> = 1 .. 2 /\ <<i, j>>[1] = i /\ <<i, j>>[2] = j
  <2>1. \A v \in i.uses : DefinedBy(entered, v, entered.current)
    BY DEF Made
  <2>2. \A v \in j.uses : DefinedBy(entered, v, entered.current) \/ v = i.def
    BY <1>1, <1>3 DEF Made
  <2>3. \A input \in i.inputs \cup j.inputs :
           DefinedBy(entered, input[1], Len(entered.blocks)) /\ input[2] \in entered.blocks[entered.current].preds
    BY <1>1, <1>3 DEF Made
  <2>4. i \in InstrSet /\ j \in InstrSet
    BY DEF Made
  <2> QED
    BY <2>1, <2>2, <2>3, <2>4, FitTwo
<1>5. /\ Grows(entered, header) /\ OpenBlocks(header) = OpenBlocks(entered)
      /\ header.current = entered.current /\ DOMAIN header.blocks = DOMAIN entered.blocks
      /\ DefinedBy(header, index, b) /\ DefinedBy(header, test, b)
  <2>1. Sound(entered)
    BY <1>1 DEF Grows
  <2>2. /\ Grows(entered, header) /\ OpenBlocks(header) = OpenBlocks(entered)
        /\ header.current = entered.current /\ DOMAIN header.blocks = DOMAIN entered.blocks
        /\ \A n \in DOMAIN <<i, j>> : DefinedBy(header, <<i, j>>[n].def, entered.current)
    BY <1>4, <2>1, EmitGrows
  <2>3. i.def = index /\ j.def = test /\ 1 \in 1 .. 2 /\ 2 \in 1 .. 2
    BY DEF Made
  <2> QED
    BY <1>1, <1>4, <2>2, <2>3
<1>6. /\ Grows(header, g) /\ OpenBlocks(g) = OpenBlocks(header) \ {header.current}
      /\ g.current = c /\ Len(g.blocks) = Len(header.blocks)
  <2>1. Sound(header) /\ header.current \in OpenBlocks(header) /\ DefinedBy(header, test, header.current)
    BY <1>1, <1>5 DEF Grows
  <2>2. c \in DOMAIN header.blocks /\ d \in DOMAIN header.blocks
    BY <1>1, <1>5
  <2> QED
    BY <2>1, <2>2, TestTurn
<1>7. Grows(f, g)
  BY <1>1, <1>5, <1>6, GrowsFurther
<1>8. DOMAIN g.blocks = DOMAIN header.blocks
  <2>1. g \in FunctionSet /\ header \in FunctionSet
    BY <1>6 DEF Grows, Sound
  <2>2. DOMAIN g.blocks = 1 .. Len(g.blocks) /\ DOMAIN header.blocks = 1 .. Len(header.blocks)
    BY <2>1, FunctionIs
  <2> QED
    BY <1>6, <2>2
<1>9. DefinedBy(g, index, b)
  BY <1>2, <1>5, <1>6 DEF Grows, Keeps
<1> QED
  BY <1>1, <1>5, <1>6, <1>7, <1>8, <1>9

(* What a for computes once: the array, its length, the slot and zero.     *)
LEMMA ForBefore ==
    ASSUME NEW f, Sound(f), NEW array \in Nat, NEW size \in Nat, NEW slot \in Nat, NEW zero \in Nat,
           NEW a, Made(a, array, {}, {}), NEW b, Made(b, size, {array}, {}),
           NEW c, Made(c, slot, {}, {}), NEW d, Made(d, zero, {}, {}),
           NEW g, Emits(f, <<a, b, c, d>>, g)
    PROVE  /\ Grows(f, g) /\ OpenBlocks(g) = OpenBlocks(f)
           /\ g.current = f.current /\ g.values = f.values
           /\ Len(g.blocks) = Len(f.blocks)
           /\ DefinedBy(g, array, f.current) /\ DefinedBy(g, size, f.current)
           /\ DefinedBy(g, slot, f.current) /\ DefinedBy(g, zero, f.current)
<1> DEFINE s == <<a, b, c, d>>
<1>1. /\ s \in Seq(InstrSet) /\ DOMAIN s = 1 .. 4
      /\ s[1] = a /\ s[2] = b /\ s[3] = c /\ s[4] = d
  BY DEF Made
<1>2. Emits(f, s, g)
  OBVIOUS
<1> HIDE DEF s
<1>3. \A k \in 1 .. 4 : k = 1 \/ k = 2 \/ k = 3 \/ k = 4
  OBVIOUS
<1>4. \A v \in b.uses : \E j \in 1 .. 4 : j < 2 /\ s[j].def = v
  BY <1>1 DEF Made
<1>5. Fit(f, s)
  BY <1>1, <1>3, <1>4 DEF Fit, Made
<1>6. /\ Grows(f, g) /\ OpenBlocks(g) = OpenBlocks(f)
      /\ g.current = f.current /\ g.values = f.values /\ Len(g.blocks) = Len(f.blocks)
      /\ \A k \in DOMAIN s : DefinedBy(g, s[k].def, f.current)
  BY <1>2, <1>5, EmitGrows
<1>7. 1 \in 1 .. 4 /\ 2 \in 1 .. 4 /\ 3 \in 1 .. 4 /\ 4 \in 1 .. 4
  OBVIOUS
<1>8. a.def = array /\ b.def = size /\ c.def = slot /\ d.def = zero
  BY DEF Made
<1> QED
  BY <1>1, <1>6, <1>7, <1>8

LEMMA MadeIs ==
    ASSUME NEW op \in InstrOps, NEW def \in Nat, NEW uses \in SUBSET Nat, NEW event \in Event
    PROVE  Made(Instr(op, def, uses, event), def, uses, {})
  BY InstrIs DEF Made

(* The first half of a for: as far as the header.                          *)
LEMMA ForOpens ==
    ASSUME Inv, NEW f, Working(fn, f),
           NEW array \in Nat, NEW size \in Nat, NEW slot \in Nat, NEW zero \in Nat,
           NEW a, Made(a, array, {}, {}), NEW b, Made(b, size, {array}, {}),
           NEW c, Made(c, slot, {}, {}), NEW d, Made(d, zero, {}, {}),
           NEW e, Emits(f, <<a, b, c, d>>, e), NEW h, h = NewValues(e, 7)
    PROVE  /\ Working(fn, h) /\ h.current = f.current /\ Len(h.blocks) = Len(f.blocks)
           /\ DefinedBy(h, array, h.current) /\ DefinedBy(h, size, h.current)
           /\ DefinedBy(h, slot, h.current) /\ DefinedBy(h, zero, h.current)
<1>1. Sound(fn) /\ Sound(f) /\ Continues(fn, f) /\ f.current \in OpenBlocks(f)
  BY DEF Working
<1>2. /\ Grows(f, e) /\ OpenBlocks(e) = OpenBlocks(f)
      /\ e.current = f.current /\ Len(e.blocks) = Len(f.blocks)
      /\ DefinedBy(e, array, f.current) /\ DefinedBy(e, size, f.current)
      /\ DefinedBy(e, slot, f.current) /\ DefinedBy(e, zero, f.current)
  BY <1>1, ForBefore
<1>3. Grows(e, h) /\ OpenBlocks(h) = OpenBlocks(e) /\ h.current = e.current /\ h.blocks = e.blocks
  <2>1. Sound(e) /\ 7 \in Nat
    BY <1>2 DEF Grows
  <2> QED
    BY <2>1, ValuesGrow
<1>4. Grows(f, h)
  BY <1>2, <1>3, GrowsFurther
<1>5. Sound(h) /\ Continues(fn, h)
  <2>1. /\ Sound(h) /\ Keeps(f, h) /\ h.current = f.current
        /\ OpenBlocks(h) \ {f.current} = OpenBlocks(f) \ {f.current}
    BY <1>2, <1>3, <1>4 DEF Grows
  <2> QED
    BY <1>1, <2>1, ContinuesFurther
<1>6. Working(fn, h)
  BY <1>1, <1>2, <1>3, <1>5 DEF Working
<1> QED
  BY <1>2, <1>3, <1>6 DEF DefinedBy

(* The element of a for's body is stored in the slot of its name.          *)
LEMMA ForItem ==
    ASSUME NEW h, NEW f, Grows(h, f), h.current \in Nat, h.current <= f.current, f.current \in Nat,
           NEW array \in Nat, NEW slot \in Nat, NEW index \in Nat, NEW item \in Nat,
           DefinedBy(h, array, h.current), DefinedBy(h, slot, h.current), DefinedBy(f, index, f.current),
           NEW i, Made(i, item, {array, index}, {}), NEW none \in Nat, NEW j, Made(j, none, {slot, item}, {}),
           NEW g, Emits(f, <<i, j>>, g)
    PROVE  /\ Grows(f, g) /\ OpenBlocks(g) = OpenBlocks(f)
           /\ g.current = f.current /\ DOMAIN g.blocks = DOMAIN f.blocks
<1>1. f \in FunctionSet /\ Sound(f) /\ Keeps(h, f)
  BY DEF Grows, Sound
<1>2. DefinedBy(f, array, f.current) /\ DefinedBy(f, slot, f.current)
  <2>1. DefinedBy(f, array, h.current) /\ DefinedBy(f, slot, h.current)
    BY <1>1 DEF Keeps
  <2> QED
    BY <1>1, <2>1, DefinedLater
<1>3. Fit(f, <<i, j>>)
  <2>1. /\ i \in InstrSet /\ j \in InstrSet /\ i.inputs \cup j.inputs = {} /\ i.def = item
        /\ i.uses = {array, index} /\ j.uses = {slot, item}
    BY DEF Made
  <2>2. \A v \in i.uses : DefinedBy(f, v, f.current)
    BY <1>2, <2>1
  <2>3. \A v \in j.uses : DefinedBy(f, v, f.current) \/ v = i.def
    BY <1>2, <2>1
  <2>4. \A input \in i.inputs \cup j.inputs :
           DefinedBy(f, input[1], Len(f.blocks)) /\ input[2] \in f.blocks[f.current].preds
    BY <2>1
  <2> QED
    BY <2>1, <2>2, <2>3, <2>4, FitTwo
<1> QED
  BY <1>1, <1>3, EmitGrows

(* The name of a for is declared in a scope of its own. *)
LEMMA ForScope ==
    ASSUME Inv, ~done, NEW h, Continues(fn, h), NEW name \in Names, NEW slot \in Nat, DefinedBy(h, slot, h.current),
           NEW d, d = Insert(PushScope(env), name, slot)
    PROVE  d \in Seq(ScopeSet) /\ Len(d) = Len(env) + 1 /\ SlotsKnown(h, d, frames)
<1> DEFINE e == PushScope(env)
<1>1. env \in Seq(ScopeSet) /\ Len(env) \in Nat /\ Len(env) > 1 /\ SlotsKnown(h, env, frames)
  BY SlotsOn, Indices DEF Inv, IsShaped
<1>2. e \in Seq(ScopeSet) /\ Len(e) = Len(env) + 1
  BY <1>1, PushIs
<1>3. SlotsKnown(h, e, frames)
  BY <1>1, SlotsPushed
<1>4. d = Insert(e, name, slot)
  OBVIOUS
<1> HIDE DEF e
<1>5. Len(e) > 1 /\ \A i \in DOMAIN frames : ScopesBelow(frames, i) \in Nat /\ ScopesBelow(frames, i) < Len(e)
  <2>1. \A i \in DOMAIN frames : ScopesBelow(frames, i) \in Nat /\ ScopesBelow(frames, i) < Len(env)
    BY Indices
  <2> QED
    BY <1>1, <1>2, <2>1
<1>6. d \in Seq(ScopeSet) /\ Len(d) = Len(e)
  <2>1. Len(e) > 0
    BY <1>1, <1>2
  <2> QED
    BY <1>2, <1>4, <2>1, InsertIs
<1>7. SlotsKnown(h, d, frames)
  BY <1>2, <1>3, <1>4, <1>5, SlotsInserted
<1> QED
  BY <1>2, <1>6, <1>7

LEMMA BeginForPreserves ==
    ASSUME Inv, NEW name \in Names, BeginFor(name)
    PROVE  Inv'
<1> DEFINE f == EnsureOpenBlock(fn)
           n == Len(f.blocks)
           v == f.values
           a == Instr("const", v + 1, {}, NoEvent)
           b == Instr("call", v + 2, {v + 1}, <<Here, "iter">>)
           c == Instr("alloc", v + 3, {}, <<Here, "slot">>)
           d == Instr("const", v + 4, {}, NoEvent)
           e == Emit(f, <<a, b, c, d>>)
           h == NewValues(e, 7)
           entered == EnterBlock(SetTerminator(NewBlocks(h, 4), Jump(n + 1)), n + 1)
           phi == Phi(v + 5, {<<v + 4, f.current>>})
           test == Instr("binop", v + 6, {v + 5, v + 2}, <<Here, "test">>)
           header == Emit(entered, <<phi, test>>)
           turned == EnterBlock(SetTerminator(header, Branch(v + 6, n + 2, n + 4)), n + 2)
           item == Instr("index", v + 7, {v + 1, v + 5}, <<Here, "item">>)
           store == Instr("store", 0, {v + 3, v + 7}, NoEvent)
           g == Emit(turned, <<item, store>>)
           x == [Frame("for", n + 3, n + 4) EXCEPT !.index = v + 5]
           scope == Insert(PushScope(env), name, v + 3)
<1>1. Working(fn, f) /\ v \in Nat /\ f.current \in Nat
  BY WorkingStart
<1>2. /\ fn' = g /\ RoomForBody /\ env' = PushScope(scope)
      /\ frames' = Append(frames, x)
      /\ loops' = Append(loops, [break |-> n + 4, continue |-> n + 3])
      /\ UNCHANGED <<stages, stage, unit, done>>
      /\ \E token : program' = Append(program, token)
  BY DEF BeginFor, Add, Opens
<1>3. /\ Emits(f, <<a, b, c, d>>, e) /\ JumpsTo(h, 4, n + 1, entered)
      /\ Emits(entered, <<phi, test>>, header) /\ BranchesTo(header, v + 6, n + 2, n + 4, turned)
      /\ Emits(turned, <<item, store>>, g) /\ h = NewValues(e, 7)
  BY DEF Emits, JumpsTo, BranchesTo
<1> HIDE DEF f, e, h, entered, header, turned, g
<1>v1. PICK v1 \in Nat : v1 = v + 1
  BY <1>1
<1>v2. PICK v2 \in Nat : v2 = v + 2
  BY <1>1
<1>v3. PICK v3 \in Nat : v3 = v + 3
  BY <1>1
<1>v4. PICK v4 \in Nat : v4 = v + 4
  BY <1>1
<1>v5. PICK v5 \in Nat : v5 = v + 5
  BY <1>1
<1>v6. PICK v6 \in Nat : v6 = v + 6
  BY <1>1
<1>v7. PICK v7 \in Nat : v7 = v + 7
  BY <1>1
<1>4. v1 = v + 1 /\ v2 = v + 2 /\ v3 = v + 3 /\ v4 = v + 4 /\ v5 = v + 5 /\ v6 = v + 6 /\ v7 = v + 7
  BY <1>v1, <1>v2, <1>v3, <1>v4, <1>v5, <1>v6, <1>v7
<1>5. /\ Made(a, v1, {}, {}) /\ Made(b, v2, {v1}, {}) /\ Made(c, v3, {}, {}) /\ Made(d, v4, {}, {})
      /\ Made(test, v6, {v5, v2}, {}) /\ Made(item, v7, {v1, v5}, {}) /\ Made(store, 0, {v3, v7}, {})
  <2>1. /\ <<Here, "iter">> \in Event /\ <<Here, "slot">> \in Event /\ <<Here, "test">> \in Event
        /\ <<Here, "item">> \in Event /\ NoEvent \in Event
    BY EventIs DEF Phases
  <2>2. {"const", "call", "alloc", "binop", "index", "store"} \subseteq InstrOps
    BY DEF InstrOps
  <2>3. /\ {} \in SUBSET Nat /\ {v1} \in SUBSET Nat /\ {v5, v2} \in SUBSET Nat
        /\ {v1, v5} \in SUBSET Nat /\ {v3, v7} \in SUBSET Nat /\ 0 \in Nat
    OBVIOUS
  <2>4. /\ a = Instr("const", v1, {}, NoEvent) /\ b = Instr("call", v2, {v1}, <<Here, "iter">>)
        /\ c = Instr("alloc", v3, {}, <<Here, "slot">>) /\ d = Instr("const", v4, {}, NoEvent)
        /\ test = Instr("binop", v6, {v5, v2}, <<Here, "test">>)
        /\ item = Instr("index", v7, {v1, v5}, <<Here, "item">>)
        /\ store = Instr("store", 0, {v3, v7}, NoEvent)
    BY <1>4
  <2> HIDE DEF a, b, c, d, test, item, store
  <2>5. Made(a, v1, {}, {}) /\ Made(d, v4, {}, {}) /\ Made(b, v2, {v1}, {})
    BY <2>1, <2>2, <2>3, <2>4, MadeIs
  <2>6. Made(c, v3, {}, {}) /\ Made(test, v6, {v5, v2}, {})
    BY <2>1, <2>2, <2>3, <2>4, MadeIs
  <2>7. Made(item, v7, {v1, v5}, {}) /\ Made(store, 0, {v3, v7}, {})
    BY <2>1, <2>2, <2>3, <2>4, MadeIs
  <2> QED
    BY <2>5, <2>6, <2>7
<1>6. Made(phi, v5, {}, {<<v4, f.current>>})
  <2>1. phi = Phi(v5, {<<v4, f.current>>})
    BY <1>4
  <2> HIDE DEF phi
  <2> QED
    BY <1>1, <2>1, PhiIs DEF Made
<1> HIDE DEF a, b, c, d, phi, test, item, store
<1>7. /\ Working(fn, h) /\ h.current = f.current /\ Len(h.blocks) = n
      /\ DefinedBy(h, v1, h.current) /\ DefinedBy(h, v2, h.current)
      /\ DefinedBy(h, v3, h.current) /\ DefinedBy(h, v4, h.current)
  BY <1>1, <1>3, <1>5, ForOpens, SMTT(60)
<1> HIDE DEF n
<1>8. /\ n \in Nat /\ DOMAIN h.blocks = 1 .. n /\ h.current \in 1 .. n
      /\ OpenBlocks(h) \subseteq 1 .. n /\ Sound(h) /\ h.current \in OpenBlocks(h)
  <2>1. Sound(h) /\ h \in FunctionSet /\ h.current \in OpenBlocks(h)
    BY <1>7 DEF Working, Sound
  <2>2. n \in Nat /\ DOMAIN h.blocks = 1 .. n
    BY <1>7, <2>1, FunctionIs
  <2> QED
    BY <2>1, <2>2 DEF OpenBlocks
<1>9. PICK n1 \in Nat, n2 \in Nat, n3 \in Nat, n4 \in Nat :
         n1 = n + 1 /\ n2 = n + 2 /\ n3 = n + 3 /\ n4 = n + 4
  BY <1>8
<1>10. NewOnes(h, 4) = {n1, n2, n3, n4}
  <2>1. n + 1 .. n + 4 = {n + 1, n + 2, n + 3, n + 4}
    BY <1>8
  <2> QED
    BY <1>7, <1>9, <2>1 DEF NewOnes
<1>11. /\ Grows(h, turned)
       /\ OpenBlocks(turned) = ((OpenBlocks(h) \ {h.current}) \cup {n1, n2, n3, n4}) \ {n1}
       /\ turned.current = n2 /\ DOMAIN turned.blocks = DOMAIN h.blocks \cup {n1, n2, n3, n4}
       /\ DefinedBy(turned, v5, n1)
  <2>k. PICK k \in Nat : k = 4
    OBVIOUS
  <2>1. JumpsTo(h, k, n1, entered) /\ BranchesTo(header, v6, n2, n4, turned)
    BY <1>3, <1>4, <1>9, <2>k
  <2>2. n1 \in NewOnes(h, k) /\ n2 \in NewOnes(h, k) /\ n4 \in NewOnes(h, k)
    BY <1>10, <2>k
  <2>3. Made(phi, v5, {}, {<<v4, h.current>>}) /\ Emits(entered, <<phi, test>>, header)
    BY <1>3, <1>6, <1>7
  <2>4. Made(test, v6, {v5, v2}, {}) /\ DefinedBy(h, v4, h.current) /\ DefinedBy(h, v2, h.current)
    BY <1>5, <1>7
  <2>5. Sound(h) /\ h.current \in OpenBlocks(h)
    BY <1>8
  <2>6. /\ Grows(h, turned) /\ OpenBlocks(turned) = ((OpenBlocks(h) \ {h.current}) \cup NewOnes(h, k)) \ {n1}
        /\ turned.current = n2 /\ DOMAIN turned.blocks = DOMAIN h.blocks \cup NewOnes(h, k)
        /\ DefinedBy(turned, v5, n1)
    BY <2>1, <2>2, <2>3, <2>4, <2>5, ForHeader, ZenonT(30)
  <2> QED
    BY <1>10, <2>k, <2>6
<1>12. /\ Grows(turned, g) /\ OpenBlocks(g) = OpenBlocks(turned)
       /\ g.current = n2 /\ DOMAIN g.blocks = DOMAIN turned.blocks
  <2>1. h.current \in Nat /\ h.current <= turned.current /\ turned.current \in Nat
    BY <1>8, <1>9, <1>11
  <2>2. DefinedBy(turned, v5, turned.current)
    <3>1. turned \in FunctionSet
      BY <1>11 DEF Grows, Sound
    <3>2. n1 <= n2
      BY <1>8, <1>9
    <3> QED
      BY <1>11, <3>1, <3>2, DefinedLater
  <2>v. PICK v0 \in Nat : v0 = 0
    OBVIOUS
  <2>3. Made(item, v7, {v1, v5}, {}) /\ Made(store, v0, {v3, v7}, {}) /\ Emits(turned, <<item, store>>, g)
    BY <1>3, <1>5, <2>v
  <2>4. Grows(h, turned) /\ DefinedBy(h, v1, h.current) /\ DefinedBy(h, v3, h.current)
    BY <1>7, <1>11
  <2>5. /\ Grows(turned, g) /\ OpenBlocks(g) = OpenBlocks(turned)
        /\ g.current = turned.current /\ DOMAIN g.blocks = DOMAIN turned.blocks
    BY <2>1, <2>2, <2>3, <2>4, ForItem
  <2> QED
    BY <1>11, <2>5
<1>13. Grows(h, g) /\ Sound(g) /\ Keeps(h, g)
  <2>1. Grows(h, g)
    BY <1>11, <1>12, GrowsFurther
  <2> QED
    BY <2>1 DEF Grows
<1>14. /\ x \in FrameSet /\ x.kind = "for" /\ x.other = n3 /\ x.exit = n4 /\ x.index = v5
       /\ Awaited(x) = {n3, n4}
  <2> DEFINE y == Frame("for", n + 3, n + 4)
  <2>1. y \in FrameSet /\ y.kind = "for" /\ y.other = n3 /\ y.exit = n4
    BY <1>9, FrameIs
  <2>2. x = [y EXCEPT !.index = v5]
    BY <1>4
  <2> HIDE DEF x, y
  <2>3. x \in FrameSet /\ x.kind = "for" /\ x.other = n3 /\ x.exit = n4 /\ x.index = v5
    BY <2>1, <2>2 DEF FrameSet
  <2> QED
    BY <2>3, AwaitedIs
<1> HIDE DEF x
<1>15. OpenBlocks(g) \ {g.current} = (OpenBlocks(h) \ {h.current}) \cup Awaited(x)
  <2>1. /\ n1 \notin 1 .. n /\ n2 \notin 1 .. n
        /\ n1 # n3 /\ n1 # n4 /\ n2 # n3 /\ n2 # n4
    BY <1>8, <1>9
  <2> QED
    BY <1>8, <1>11, <1>12, <1>14, <2>1
<1>16. /\ g.current > Len(h.blocks) /\ \A w \in Awaited(x) : g.current < w
       /\ x.other < x.exit /\ x.other \in DOMAIN g.blocks
       /\ n4 \in DOMAIN g.blocks /\ n3 \in DOMAIN g.blocks
  BY <1>7, <1>8, <1>9, <1>11, <1>12, <1>14
<1>17. x.other > 2 /\ DefinedBy(g, x.index, x.other)
  <2>1. x.other > 2 /\ n1 <= n3
    BY <1>8, <1>9, <1>14
  <2>2. DefinedBy(g, v5, n1) /\ g \in FunctionSet
    <3>1. Keeps(turned, g) /\ g \in FunctionSet
      BY <1>12 DEF Grows, Sound
    <3> QED
      BY <1>11, <3>1 DEF Keeps
  <2>3. DefinedBy(g, v5, n3)
    BY <2>1, <2>2, DefinedLater, <1>14
  <2> QED
    BY <1>14, <2>1, <2>3
<1>18. scope \in Seq(ScopeSet) /\ Len(scope) = Len(env) + 1 /\ SlotsKnown(h, scope, frames)
  <2>1. scope = Insert(PushScope(env), name, v3) /\ ~done /\ Continues(fn, h)
    BY <1>2, <1>4, <1>7 DEF RoomForBody, Working
  <2> HIDE DEF scope
  <2> QED
    BY <1>7, <2>1, ForScope
<1> HIDE DEF scope
<1>19. loops' \in Seq(Targets) /\ Len(loops') = Len(loops) + 1 /\ TargetsExist(g, loops')
  <2>1. loops' = Append(loops, [break |-> n4, continue |-> n3])
    BY <1>2, <1>9
  <2> QED
    BY <1>7, <1>13, <1>16, <2>1, LoopPushed
<1>20. /\ Len(scope) = Len(env) + IF x.kind = "for" THEN 1 ELSE 0
       /\ Len(loops') = Len(loops) + IF x.kind \in {"while", "for"} THEN 1 ELSE 0
  BY <1>14, <1>18, <1>19
<1> QED
  BY <1>2, <1>7, <1>13, <1>14, <1>15, <1>16, <1>17, <1>18, <1>19, <1>20, BodyStep

-----------------------------------------------------------------------------
(* Closing a statement *)

(* What is known of the innermost open statement. *)
LEMMA LastFrame ==
    ASSUME Inv, ~done, frames # <<>>, NEW fs, fs = Front(frames), NEW x, x = Last(frames)
    PROVE  /\ fs \in Seq(FrameSet) /\ x \in FrameSet /\ frames = Append(fs, x)
           /\ Len(fs) \in Nat /\ Len(frames) = Len(fs) + 1
           /\ WaitsFor(fn, Append(fs, x), StagesAhead)
           /\ SlotsKnown(fn, env, Append(fs, x))
           /\ x.other < x.exit /\ x.other \in DOMAIN fn.blocks
           /\ Awaited(x) \subseteq OpenBlocks(fn) /\ fn.current \notin Awaited(x)
           /\ x.exit \in DOMAIN fn.blocks
           /\ x.kind = "for" => x.other > 2 /\ DefinedBy(fn, x.index, x.other)
<1>1. frames \in Seq(FrameSet)
  BY DEF Inv, IsShaped
<1>2. /\ fs \in Seq(FrameSet) /\ x \in FrameSet /\ frames = Append(fs, x)
      /\ Len(frames) = Len(fs) + 1 /\ Len(fs) \in Nat
  <2>1. fs \in Seq(FrameSet) /\ x \in FrameSet /\ Len(fs) = Len(frames) - 1 /\ frames = Append(fs, x)
    BY <1>1, FrontAndLast
  <2> QED
    BY <1>1, <2>1
<1>3. WaitsFor(fn, frames, StagesAhead) /\ SlotsKnown(fn, env, frames)
  BY DEF Inv, KnowsOpenBlocks, KnowsSlots
<1> DEFINE n == Len(frames)
<1>4. n \in DOMAIN frames /\ frames[n] = x
  BY <1>1, <1>2
<1>5. /\ x.other < x.exit /\ x.other \in DOMAIN fn.blocks
      /\ AwaitedBy(frames) \subseteq OpenBlocks(fn) /\ fn.current \notin AwaitedBy(frames)
      /\ x.kind = "for" => x.other > 2 /\ DefinedBy(fn, x.index, x.other)
  <2> HIDE DEF n
  <2>1. x.other < x.exit /\ x.other \in DOMAIN fn.blocks
    BY <1>3, <1>4 DEF WaitsFor
  <2>2. AwaitedBy(frames) \subseteq OpenBlocks(fn) /\ fn.current \notin AwaitedBy(frames)
    BY <1>3 DEF WaitsFor
  <2>3. x.kind = "for" => x.other > 2 /\ DefinedBy(fn, x.index, x.other)
    BY <1>3, <1>4 DEF SlotsKnown
  <2> QED
    BY <2>1, <2>2, <2>3
<1>6. Awaited(x) \subseteq AwaitedBy(frames)
  BY <1>4 DEF AwaitedBy
<1>7. x.exit \in Awaited(x)
  BY <1>2, AwaitedIs
<1>8. x.exit \in DOMAIN fn.blocks
  BY <1>5, <1>6, <1>7 DEF OpenBlocks
<1> QED
  BY <1>2, <1>3, <1>5, <1>6, <1>8

LEMMA LastCounts ==
    ASSUME Inv, ~done, NEW fs \in Seq(FrameSet), NEW x \in FrameSet, frames = Append(fs, x),
           NEW n \in Nat, n = Len(fs)
    PROVE  /\ Len(env) = ScopesBelow(fs, n + 1) + IF x.kind = "for" THEN 2 ELSE 1
           /\ Len(loops) = LoopsBelow(fs, n + 1) + IF x.kind \in {"while", "for"} THEN 1 ELSE 0
           /\ ScopesBelow(fs, n + 1) \in Nat /\ LoopsBelow(fs, n + 1) \in Nat
           /\ ScopesBelow(fs, n + 1) >= 2
<1>1. Len(frames) = n + 1 /\ frames[n + 1] = x
  BY AwaitedByLonger
<1>2. Len(env) = ScopesBelow(frames, Len(frames) + 1) /\ Len(loops) = LoopsBelow(frames, Len(frames) + 1)
  BY DEF Inv, CountsScopes
<1> DEFINE m == n + 1
<1>3. m \in Nat \ {0} /\ m \in 1 .. Len(fs) + 1 /\ Len(frames) = m /\ frames[m] = x
  BY <1>1
<1>4. Len(env) = ScopesBelow(frames, m + 1) /\ Len(loops) = LoopsBelow(frames, m + 1)
  BY <1>2, <1>3
<1>5. m + 1 >= 2
  BY <1>3
<1> HIDE DEF m
<1>6. /\ ScopesBelow(frames, m + 1) = ScopesBelow(frames, m) + IF x.kind = "for" THEN 2 ELSE 1
      /\ LoopsBelow(frames, m + 1) = LoopsBelow(frames, m) + IF x.kind \in {"while", "for"} THEN 1 ELSE 0
  BY <1>3, ScopesBelowIs
<1>7. ScopesBelow(frames, m) = ScopesBelow(fs, m) /\ LoopsBelow(frames, m) = LoopsBelow(fs, m)
  BY <1>3, ScopesBelowSame
<1>8. ScopesBelow(fs, m) \in Nat /\ LoopsBelow(fs, m) \in Nat /\ ScopesBelow(fs, m) >= 1 + m
  BY <1>3, ScopesBelowIs
<1>9. ScopesBelow(fs, m) >= 2
  BY <1>3, <1>5, <1>8
<1> QED
  BY <1>4, <1>6, <1>7, <1>8, <1>9 DEF m

LEMMA LoopPopped ==
    ASSUME NEW ls \in Seq(Targets), ls # <<>>, NEW g, TargetsExist(g, ls), NEW rest, rest = Front(ls)
    PROVE  rest \in Seq(Targets) /\ Len(rest) = Len(ls) - 1 /\ TargetsExist(g, rest)
<1>1. /\ rest \in Seq(Targets) /\ Len(rest) = Len(ls) - 1
      /\ \A i \in 1 .. Len(ls) - 1 : rest[i] = ls[i]
  BY FrontLast
<1>2. DOMAIN rest = 1 .. Len(ls) - 1 /\ DOMAIN ls = 1 .. Len(ls) /\ Len(ls) \in Nat
  BY <1>1
<1>3. TargetsExist(g, rest)
  BY <1>1, <1>2 DEF TargetsExist
<1> QED
  BY <1>1, <1>3

LEMMA CloseStep ==
    ASSUME Inv, ~done, frames # <<>>, NEW fs, fs = Front(frames), NEW x, x = Last(frames),
           NEW g, fn' = g, Grows(fn, g),
           OpenBlocks(g) = (OpenBlocks(fn) \ {fn.current}) \ (Awaited(x) \ {x.exit}),
           g.current = x.exit,
           NEW token, program' = Append(program, token), frames' = fs,
           env' \in Seq(ScopeSet), Len(env') = Len(env) - (IF x.kind = "for" THEN 2 ELSE 1),
           \A j \in DOMAIN env' : env'[j] = env[j],
           loops' = IF x.kind \in {"while", "for"} THEN Front(loops) ELSE loops,
           UNCHANGED <<stages, stage, unit, done>>
    PROVE  Inv'
<1>1. /\ fs \in Seq(FrameSet) /\ x \in FrameSet /\ frames = Append(fs, x)
      /\ Len(fs) \in Nat /\ Len(frames) = Len(fs) + 1
      /\ WaitsFor(fn, Append(fs, x), StagesAhead) /\ SlotsKnown(fn, env, Append(fs, x))
  BY LastFrame
<1>2. /\ Len(env) = ScopesBelow(fs, Len(fs) + 1) + IF x.kind = "for" THEN 2 ELSE 1
      /\ Len(loops) = LoopsBelow(fs, Len(fs) + 1) + IF x.kind \in {"while", "for"} THEN 1 ELSE 0
      /\ ScopesBelow(fs, Len(fs) + 1) \in Nat /\ LoopsBelow(fs, Len(fs) + 1) \in Nat
      /\ ScopesBelow(fs, Len(fs) + 1) >= 2
  BY <1>1, LastCounts
<1>3. program' \in Seq(ToSet(program')) /\ Len(program') = Len(program) + 1 /\ Len(program) \in Nat
  BY ProgramIs DEF Inv, IsShaped
<1>4. Sound(fn) /\ Sound(g) /\ Keeps(fn, g)
  BY DEF Grows
<1>5. WaitsFor(g, fs, StagesAhead)
  BY <1>1, <1>4, WaitsForLess
<1>6. Len(env') = ScopesBelow(fs, Len(fs) + 1)
  BY <1>2
<1>7. SlotsKnown(g, env', fs)
  <2>1. PICK d \in Seq(ScopeSet) : d = env'
    OBVIOUS
  <2>2. /\ Len(d) > 0 /\ Len(d) <= ScopesBelow(fs, Len(fs) + 1) /\ Len(d) <= Len(env)
        /\ \A j \in DOMAIN d : d[j] = env[j]
    BY <1>2, <1>6, <2>1
  <2>3. env \in Seq(ScopeSet)
    BY DEF Inv, IsShaped
  <2>4. SlotsKnown(g, d, fs)
    BY <1>1, <1>4, <2>2, <2>3, SlotsAbandoned
  <2> QED
    BY <2>1, <2>4
<1>8. /\ loops' \in Seq(Targets) /\ TargetsExist(g, loops')
      /\ Len(loops') = LoopsBelow(fs, Len(fs) + 1)
  <2>1. loops \in Seq(Targets) /\ Len(loops) \in Nat
    BY Indices DEF Inv, IsShaped
  <2>2. TargetsExist(g, loops)
    BY <1>4, TargetsStay DEF Inv, KnowsOpenBlocks
  <2>3. CASE x.kind \in {"while", "for"}
    <3>1. loops # <<>>
      BY <1>2, <2>1, <2>3
    <3>2. loops' \in Seq(Targets) /\ Len(loops') = Len(loops) - 1 /\ TargetsExist(g, loops')
      <4>1. PICK ls, rest : ls = loops /\ rest = loops'
        OBVIOUS
      <4>2. ls \in Seq(Targets) /\ ls # <<>> /\ TargetsExist(g, ls) /\ rest = Front(ls)
        BY <2>1, <2>2, <2>3, <3>1, <4>1
      <4>3. rest \in Seq(Targets) /\ Len(rest) = Len(ls) - 1 /\ TargetsExist(g, rest)
        BY <4>2, LoopPopped
      <4> QED
        BY <4>1, <4>3
    <3> QED
      BY <1>2, <2>1, <2>3, <3>2
  <2>4. CASE x.kind \notin {"while", "for"}
    BY <1>2, <2>1, <2>2, <2>4
  <2> QED
    BY <2>3, <2>4
<1>9. IsShaped'
  <2>1. g \in FunctionSet
    BY <1>4 DEF Sound
  <2> QED
    BY <1>1, <1>3, <1>8, <2>1 DEF Inv, IsShaped
<1>10. KnowsOpenBlocks'
  <2>1. StagesAhead' = StagesAhead
    BY DEF StagesAhead
  <2> QED
    BY <1>5, <1>8, <2>1 DEF KnowsOpenBlocks
<1>11. CountsScopes'
  <2>1. Len(program') + Len(fs) <= MaxTokens
    <3>1. Len(program) + Len(frames) <= MaxTokens
      BY DEF Inv, CountsScopes
    <3>2. MaxTokens \in Nat
      BY LoweringAssumption
    <3> QED
      BY <1>1, <1>3, <3>1, <3>2
  <2>2. done' = FALSE
    BY DEF Inv, IsShaped
  <2> QED
    BY <1>6, <1>8, <2>1, <2>2 DEF CountsScopes
<1>12. KnowsSlots'
  BY <1>7 DEF KnowsSlots
<1> QED
  BY <1>4, <1>9, <1>10, <1>11, <1>12 DEF Inv

(* The moves that end a statement: close the block, wherever it leads, and *)
(* go on in another one; or jump out of a block that is open.              *)
Leaves(f, b, c, g) == g = EnterBlock(Close(f, Jump(b)), c)
GoesOn(f, b, c, g) == g = EnterBlock(SetTerminator(f, Jump(b)), c)

LEMMA LeavesIs ==
    ASSUME NEW f, Sound(f), NEW b \in DOMAIN f.blocks, NEW c \in DOMAIN f.blocks, NEW g, Leaves(f, b, c, g)
    PROVE  /\ Grows(f, g) /\ OpenBlocks(g) = OpenBlocks(f) \ {f.current}
           /\ g.current = c /\ g.values = f.values /\ DOMAIN g.blocks = DOMAIN f.blocks
<1> DEFINE t == Jump(b)
           e == Close(f, t)
<1>1. f \in FunctionSet /\ DOMAIN f.blocks = 1 .. Len(f.blocks) /\ b \in Nat
  <2>1. f \in FunctionSet
    BY DEF Sound
  <2> QED
    BY <2>1, FunctionIs
<1>2. t \in TermSet /\ t # Open /\ t.uses = {} /\ Successors(t) = {b}
  BY <1>1, JumpIs
<1>3. g = EnterBlock(e, c)
  BY DEF Leaves
<1> HIDE DEF t
<1>4. /\ Sound(e) /\ Keeps(f, e) /\ OpenBlocks(e) = OpenBlocks(f) \ {f.current}
      /\ e.values = f.values /\ Len(e.blocks) = Len(f.blocks)
  <2>1. Successors(t) \subseteq DOMAIN f.blocks /\ \A v \in t.uses : DefinedBy(f, v, f.current)
    BY <1>2
  <2> QED
    BY <1>2, <2>1, CloseSound
<1> HIDE DEF e
<1>5. DOMAIN e.blocks = DOMAIN f.blocks /\ e \in FunctionSet
  <2>1. e \in FunctionSet
    BY <1>4 DEF Sound
  <2>2. DOMAIN e.blocks = 1 .. Len(e.blocks)
    BY <2>1, FunctionIs
  <2> QED
    BY <1>1, <1>4, <2>1, <2>2
<1>6. /\ Sound(g) /\ Keeps(e, g) /\ OpenBlocks(g) = OpenBlocks(e) /\ g.blocks = e.blocks
      /\ g.current = c /\ g.values = e.values
  BY <1>3, <1>4, <1>5, EnterBlockSound
<1>7. Keeps(f, g)
  <2>1. g \in FunctionSet
    BY <1>6 DEF Sound
  <2> QED
    BY <1>1, <1>4, <1>5, <1>6, <2>1, KeepsFurther
<1> QED
  BY <1>4, <1>5, <1>6, <1>7 DEF Grows

LEMMA GoesOnIs ==
    ASSUME NEW f, Sound(f), f.current \in OpenBlocks(f),
           NEW b \in DOMAIN f.blocks, NEW c \in DOMAIN f.blocks, NEW g, GoesOn(f, b, c, g)
    PROVE  /\ Grows(f, g) /\ OpenBlocks(g) = OpenBlocks(f) \ {f.current}
           /\ g.current = c /\ g.values = f.values /\ DOMAIN g.blocks = DOMAIN f.blocks
           /\ f.current \in g.blocks[b].preds
<1>1. Leaves(f, b, c, g)
  BY DEF Leaves, GoesOn, Close, OpenBlocks, Terminated
<1>2. /\ Grows(f, g) /\ OpenBlocks(g) = OpenBlocks(f) \ {f.current}
      /\ g.current = c /\ g.values = f.values /\ DOMAIN g.blocks = DOMAIN f.blocks
  BY <1>1, LeavesIs
<1>3. f.current \in g.blocks[b].preds
  <2> DEFINE t == Jump(b)
  <2>1. b \in Nat
    <3>1. DOMAIN f.blocks = 1 .. Len(f.blocks)
      BY FunctionIs DEF Sound
    <3> QED
      BY <3>1
  <2>2. t \in TermSet /\ t # Open /\ t.uses = {} /\ Successors(t) = {b}
    BY <2>1, JumpIs
  <2>3. g = EnterBlock(SetTerminator(f, t), c)
    BY DEF GoesOn
  <2> HIDE DEF t
  <2>4. Successors(t) \subseteq DOMAIN f.blocks /\ \A v \in t.uses : DefinedBy(f, v, f.current)
    BY <2>2
  <2>5. \A s \in Successors(t) : f.current \in g.blocks[s].preds
    BY <2>2, <2>3, <2>4, Turn
  <2> QED
    BY <2>2, <2>5
<1> QED
  BY <1>2, <1>3

(* A statement with one block to come and one scope to leave. *)
LEMMA PoppedScope ==
    ASSUME Inv, ~done
    PROVE  /\ PopScope(env) \in Seq(ScopeSet) /\ Len(PopScope(env)) = Len(env) - 1 /\ Len(env) \in Nat
           /\ DOMAIN PopScope(env) = 1 .. Len(env) - 1
           /\ \A j \in DOMAIN PopScope(env) : PopScope(env)[j] = env[j]
<1>1. env \in Seq(ScopeSet) /\ Len(env) > 1 /\ Len(env) \in Nat
  BY Indices DEF Inv, IsShaped
<1>2. /\ PopScope(env) \in Seq(ScopeSet) /\ Len(PopScope(env)) = Len(env) - 1
      /\ \A j \in 1 .. Len(env) - 1 : PopScope(env)[j] = env[j]
  BY <1>1, PopIs
<1>3. DOMAIN PopScope(env) = 1 .. Len(env) - 1
  BY <1>2
<1> QED
  BY <1>1, <1>2, <1>3

LEMMA EndWhilePreserves ==
    ASSUME Inv, EndWhile
    PROVE  Inv'
<1> DEFINE x == Last(frames)
           fs == Front(frames)
<1>1. /\ ~done /\ frames # <<>> /\ x.kind = "while"
      /\ fn' = EnterBlock(Close(fn, Jump(x.other)), x.exit)
      /\ env' = PopScope(env) /\ loops' = Front(loops) /\ frames' = fs
      /\ UNCHANGED <<stages, stage, unit, done>>
      /\ \E token : program' = Append(program, token)
  BY DEF EndWhile, Ends
<1>2. PICK g : g = fn'
  OBVIOUS
<1> HIDE DEF x, fs
<1>3. /\ x \in FrameSet /\ x.other \in DOMAIN fn.blocks /\ x.exit \in DOMAIN fn.blocks
  BY <1>1, LastFrame DEF x, fs
<1>4. Awaited(x) = {x.exit}
  BY <1>1, <1>3, AwaitedIs
<1>5. Sound(fn) /\ Leaves(fn, x.other, x.exit, g)
  BY <1>1, <1>2 DEF Inv, Leaves
<1>6. Grows(fn, g) /\ OpenBlocks(g) = OpenBlocks(fn) \ {fn.current} /\ g.current = x.exit
  BY <1>3, <1>5, LeavesIs
<1>7. OpenBlocks(g) = (OpenBlocks(fn) \ {fn.current}) \ (Awaited(x) \ {x.exit})
  BY <1>4, <1>6
<1>8. /\ env' \in Seq(ScopeSet) /\ Len(env') = Len(env) - (IF x.kind = "for" THEN 2 ELSE 1)
      /\ \A j \in DOMAIN env' : env'[j] = env[j]
  BY <1>1, PoppedScope
<1>9. loops' = IF x.kind \in {"while", "for"} THEN Front(loops) ELSE loops
  BY <1>1
<1>10. x = Last(frames) /\ fs = Front(frames)
  BY DEF x, fs
<1> QED
  BY <1>1, <1>2, <1>6, <1>7, <1>8, <1>9, <1>10, CloseStep

LEMMA EndIfPreserves ==
    ASSUME Inv, EndIf
    PROVE  Inv'
<1> DEFINE x == Last(frames)
           fs == Front(frames)
           closed == Close(fn, Jump(x.exit))
           h == EnterBlock(closed, x.other)
<1>1. /\ ~done /\ frames # <<>> /\ x.kind \in {"then", "else"}
      /\ fn' = EnterBlock(IF x.kind = "else" THEN closed ELSE SetTerminator(h, Jump(x.exit)), x.exit)
      /\ env' = PopScope(env) /\ frames' = fs
      /\ UNCHANGED <<stages, stage, unit, loops, done>>
      /\ \E token : program' = Append(program, token)
  BY DEF EndIf, Ends
<1>2. PICK g : g = fn'
  OBVIOUS
<1> HIDE DEF x, fs
<1>3. /\ x \in FrameSet /\ x.other \in DOMAIN fn.blocks /\ x.exit \in DOMAIN fn.blocks
      /\ Awaited(x) \subseteq OpenBlocks(fn) /\ fn.current \notin Awaited(x) /\ x.other < x.exit
  BY <1>1, LastFrame DEF x, fs
<1>4. Sound(fn)
  BY DEF Inv
<1>5. /\ Grows(fn, g) /\ g.current = x.exit
      /\ OpenBlocks(g) = (OpenBlocks(fn) \ {fn.current}) \ (Awaited(x) \ {x.exit})
  <2>1. CASE x.kind = "else"
    <3>1. Leaves(fn, x.exit, x.exit, g)
      BY <1>1, <1>2, <2>1 DEF Leaves
    <3>2. Grows(fn, g) /\ OpenBlocks(g) = OpenBlocks(fn) \ {fn.current} /\ g.current = x.exit
      BY <1>3, <1>4, <3>1, LeavesIs
    <3>3. Awaited(x) = {x.exit}
      BY <1>3, <2>1, AwaitedIs
    <3> QED
      BY <3>2, <3>3
  <2>2. CASE x.kind = "then"
    <3>1. Leaves(fn, x.exit, x.other, h)
      BY DEF Leaves
    <3>2. GoesOn(h, x.exit, x.exit, g)
      BY <1>1, <1>2, <2>2 DEF GoesOn
    <3> HIDE DEF closed, h
    <3>3. /\ Grows(fn, h) /\ OpenBlocks(h) = OpenBlocks(fn) \ {fn.current} /\ h.current = x.other
          /\ DOMAIN h.blocks = DOMAIN fn.blocks
      BY <1>3, <1>4, <3>1, LeavesIs
    <3>4. Awaited(x) = {x.other, x.exit}
      BY <1>3, <2>2, AwaitedIs
    <3>5. h.current \in OpenBlocks(h) /\ Sound(h) /\ x.exit \in DOMAIN h.blocks
      BY <1>3, <3>3, <3>4 DEF Grows
    <3>6. Grows(h, g) /\ OpenBlocks(g) = OpenBlocks(h) \ {h.current} /\ g.current = x.exit
      BY <3>2, <3>5, GoesOnIs
    <3>7. x.other # x.exit
      <4>1. x.other \in Nat /\ x.exit \in Nat
        BY <1>3, AwaitedIs
      <4> QED
        BY <1>3, <4>1
    <3>8. Grows(fn, g)
      BY <3>3, <3>6, GrowsFurther
    <3>9. Awaited(x) \ {x.exit} = {x.other}
      BY <3>4, <3>7
    <3> QED
      BY <3>3, <3>6, <3>8, <3>9
  <2> QED
    BY <1>1, <2>1, <2>2
<1>6. /\ env' \in Seq(ScopeSet) /\ Len(env') = Len(env) - (IF x.kind = "for" THEN 2 ELSE 1)
      /\ \A j \in DOMAIN env' : env'[j] = env[j]
  BY <1>1, PoppedScope
<1>7. loops' = IF x.kind \in {"while", "for"} THEN Front(loops) ELSE loops
  BY <1>1
<1>8. x = Last(frames) /\ fs = Front(frames)
  BY DEF x, fs
<1> HIDE DEF closed, h
<1> QED
  BY <1>1, <1>2, <1>5, <1>6, <1>7, <1>8, CloseStep

JumpsBack(f, b, g) == g = SetTerminator(f, Jump(b))
Counts(f, n, g) == g = NewValues(f, n)
Patches(f, header, index, value, pred, g) == g = PatchPhi(f, header, index, value, pred)
Enters(f, b, g) == g = EnterBlock(f, b)

LEMMA JumpsBackIs ==
    ASSUME NEW f, Sound(f), f.current \in OpenBlocks(f), NEW b \in DOMAIN f.blocks, NEW g, JumpsBack(f, b, g)
    PROVE  /\ Grows(f, g) /\ OpenBlocks(g) = OpenBlocks(f) \ {f.current}
           /\ g.current = f.current /\ DOMAIN g.blocks = DOMAIN f.blocks
           /\ f.current \in g.blocks[b].preds
<1> DEFINE t == Jump(b)
<1>1. f \in FunctionSet /\ DOMAIN f.blocks = 1 .. Len(f.blocks) /\ b \in Nat
  <2>1. f \in FunctionSet
    BY DEF Sound
  <2> QED
    BY <2>1, FunctionIs
<1>2. t \in TermSet /\ t # Open /\ t.uses = {} /\ Successors(t) = {b}
  BY <1>1, JumpIs
<1>3. g = SetTerminator(f, t)
  BY DEF JumpsBack
<1> HIDE DEF t
<1>4. ~Terminated(f)
  BY DEF Terminated, OpenBlocks
<1>5. /\ Sound(g) /\ Keeps(f, g) /\ OpenBlocks(g) = OpenBlocks(f) \ {f.current}
      /\ g.current = f.current /\ Len(g.blocks) = Len(f.blocks)
      /\ \A c \in Successors(t) : f.current \in g.blocks[c].preds
  <2>1. Successors(t) \subseteq DOMAIN f.blocks /\ \A v \in t.uses : DefinedBy(f, v, f.current)
    BY <1>2
  <2> QED
    BY <1>2, <1>3, <1>4, <2>1, SetTerminatorSound
<1>6. DOMAIN g.blocks = DOMAIN f.blocks
  <2>1. g \in FunctionSet
    BY <1>5 DEF Sound
  <2>2. DOMAIN g.blocks = 1 .. Len(g.blocks)
    BY <2>1, FunctionIs
  <2> QED
    BY <1>1, <1>5, <2>2
<1> QED
  BY <1>2, <1>5, <1>6 DEF Grows

(* The block the lowerer waits for, the one it works on, and its way from  *)
(* one to the other.                                                       *)
Waiting(f, b) == Sound(f) /\ b \in OpenBlocks(f) /\ b # f.current
Ready(f, b) == Sound(f) /\ b \in OpenBlocks(f) /\ b = f.current
Moved(f, g, b) ==
    /\ Grows(f, g) /\ OpenBlocks(g) = OpenBlocks(f) \ {f.current}
    /\ g.current = b /\ DOMAIN g.blocks = DOMAIN f.blocks

(* The block at the end of a for computes the next index.                  *)
LEMMA ForSteps ==
    ASSUME NEW f, NEW next, Waiting(f, next),
           NEW index \in Nat, DefinedBy(f, index, next), NEW one \in Nat, NEW sum \in Nat,
           NEW i, Made(i, one, {}, {}), NEW j, Made(j, sum, {one, index}, {}),
           NEW e, Leaves(f, next, next, e), NEW stepped, Emits(e, <<i, j>>, stepped),
           NEW n \in Nat, NEW g, Counts(stepped, n, g)
    PROVE  Moved(f, g, next) /\ Ready(g, next) /\ DefinedBy(g, sum, next)
<1>0. Sound(f) /\ next \in OpenBlocks(f) /\ next # f.current /\ next \in DOMAIN f.blocks
  BY DEF Waiting, OpenBlocks
<1>1. /\ Grows(f, e) /\ OpenBlocks(e) = OpenBlocks(f) \ {f.current}
      /\ e.current = next /\ DOMAIN e.blocks = DOMAIN f.blocks
  BY <1>0, LeavesIs
<1>2. Sound(e) /\ Keeps(f, e) /\ f \in FunctionSet
  BY <1>1 DEF Grows, Sound
<1>3. next \in Nat
  <2>1. DOMAIN f.blocks = 1 .. Len(f.blocks)
    BY <1>2, FunctionIs
  <2> QED
    BY <1>0, <2>1
<1>4. DefinedBy(e, index, next)
  BY <1>2, <1>3 DEF Keeps
<1>5. Fit(e, <<i, j>>) /\ DOMAIN <<i, j>> = 1 .. 2 /\ <<i, j>>[1] = i /\ <<i, j>>[2] = j
  <2>1. /\ i \in InstrSet /\ j \in InstrSet /\ i.inputs \cup j.inputs = {} /\ i.def = one
        /\ i.uses = {} /\ j.uses = {one, index}
    BY DEF Made
  <2>2. \A v \in i.uses : DefinedBy(e, v, e.current)
    BY <2>1
  <2>3. \A v \in j.uses : DefinedBy(e, v, e.current) \/ v = i.def
    BY <1>1, <1>4, <2>1
  <2>4. \A input \in i.inputs \cup j.inputs :
           DefinedBy(e, input[1], Len(e.blocks)) /\ input[2] \in e.blocks[e.current].preds
    BY <2>1
  <2> QED
    BY <2>1, <2>2, <2>3, <2>4, FitTwo
<1>6. /\ Grows(e, stepped) /\ OpenBlocks(stepped) = OpenBlocks(e)
      /\ stepped.current = next /\ DOMAIN stepped.blocks = DOMAIN f.blocks
      /\ DefinedBy(stepped, sum, next)
  <2>1. /\ Grows(e, stepped) /\ OpenBlocks(stepped) = OpenBlocks(e)
        /\ stepped.current = e.current /\ DOMAIN stepped.blocks = DOMAIN e.blocks
        /\ \A k \in DOMAIN <<i, j>> : DefinedBy(stepped, <<i, j>>[k].def, e.current)
    BY <1>2, <1>5, EmitGrows
  <2>2. j.def = sum /\ 2 \in 1 .. 2
    BY DEF Made
  <2> QED
    BY <1>1, <1>5, <2>1, <2>2
<1>7. /\ Grows(stepped, g) /\ OpenBlocks(g) = OpenBlocks(stepped)
      /\ g.current = next /\ g.blocks = stepped.blocks
  <2>1. Sound(stepped)
    BY <1>6 DEF Grows
  <2> QED
    BY <1>6, <2>1, ValuesGrow DEF Counts
<1>8. Grows(f, g)
  BY <1>1, <1>6, <1>7, GrowsFurther
<1>9. DefinedBy(g, sum, next)
  BY <1>6, <1>7 DEF DefinedBy
<1> QED
  BY <1>0, <1>1, <1>6, <1>7, <1>8, <1>9 DEF Moved, Ready, Grows

(* It leads back to the header, whose phi takes the index from it.         *)
LEMMA ForTurns ==
    ASSUME NEW f, NEW pred, Ready(f, pred), NEW sum \in Nat, DefinedBy(f, sum, pred),
           NEW header \in DOMAIN f.blocks, NEW exit \in DOMAIN f.blocks, NEW index,
           NEW h, JumpsBack(f, header, h),
           NEW patched, Patches(h, header, index, sum, pred, patched), NEW g, Enters(patched, exit, g)
    PROVE  Moved(f, g, exit)
<1>0. Sound(f) /\ f.current \in OpenBlocks(f) /\ pred = f.current
  BY DEF Ready
<1>1. /\ Grows(f, h) /\ OpenBlocks(h) = OpenBlocks(f) \ {f.current}
      /\ DOMAIN h.blocks = DOMAIN f.blocks /\ pred \in h.blocks[header].preds
  BY <1>0, JumpsBackIs
<1>2. Sound(h) /\ DefinedBy(h, sum, Len(h.blocks))
  <2>1. Sound(h) /\ h \in FunctionSet /\ Keeps(f, h)
    BY <1>1 DEF Grows, Sound
  <2>2. f.current \in DOMAIN h.blocks /\ DOMAIN h.blocks = 1 .. Len(h.blocks) /\ Len(h.blocks) \in Nat
    BY <1>0, <1>1, <2>1, FunctionIs DEF Sound
  <2>3. f.current \in Nat /\ f.current <= Len(h.blocks)
    BY <2>2
  <2>4. DefinedBy(h, sum, f.current)
    BY <1>0, <2>1, <2>3 DEF Keeps
  <2> QED
    BY <2>1, <2>2, <2>3, <2>4, DefinedLater
<1>3. /\ Sound(patched) /\ Keeps(h, patched) /\ OpenBlocks(patched) = OpenBlocks(h)
      /\ Len(patched.blocks) = Len(h.blocks)
  BY <1>1, <1>2, PatchPhiSound DEF Patches
<1>4. Grows(h, patched)
  BY <1>2, <1>3 DEF Grows
<1>5. exit \in DOMAIN patched.blocks
  <2>1. h \in FunctionSet /\ patched \in FunctionSet
    BY <1>2, <1>3 DEF Sound
  <2>2. DOMAIN h.blocks = 1 .. Len(h.blocks) /\ DOMAIN patched.blocks = 1 .. Len(patched.blocks)
    BY <2>1, FunctionIs
  <2> QED
    BY <1>1, <1>3, <2>2
<1>6. Grows(patched, g) /\ OpenBlocks(g) = OpenBlocks(patched) /\ g.current = exit
  BY <1>3, <1>5, EnterBlockSound DEF Grows, Enters
<1>7. Grows(f, g)
  <2>1. Grows(f, patched)
    BY <1>1, <1>4, GrowsFurther
  <2> QED
    BY <1>6, <2>1, GrowsFurther
<1>8. DOMAIN g.blocks = DOMAIN f.blocks
  <2>1. h \in FunctionSet /\ patched \in FunctionSet
    BY <1>2, <1>3 DEF Sound
  <2>2. DOMAIN h.blocks = 1 .. Len(h.blocks) /\ DOMAIN patched.blocks = 1 .. Len(patched.blocks)
    BY <2>1, FunctionIs
  <2>3. g.blocks = patched.blocks
    BY <1>3, <1>5, EnterBlockSound DEF Enters
  <2> QED
    BY <1>1, <1>3, <2>2, <2>3
<1> QED
  BY <1>1, <1>3, <1>6, <1>7, <1>8 DEF Moved

LEMMA PoppedTwice ==
    ASSUME Inv, ~done, Len(env) > 2, NEW d, d = PopScope(PopScope(env))
    PROVE  /\ d \in Seq(ScopeSet) /\ Len(d) = Len(env) - 2 /\ \A j \in DOMAIN d : d[j] = env[j]
<1> DEFINE e == PopScope(env)
<1>1. /\ e \in Seq(ScopeSet) /\ Len(e) = Len(env) - 1 /\ Len(env) \in Nat
      /\ \A j \in DOMAIN e : e[j] = env[j]
      /\ DOMAIN e = 1 .. Len(env) - 1
  BY PoppedScope
<1>2. d = PopScope(e)
  OBVIOUS
<1> HIDE DEF e
<1>3. /\ d \in Seq(ScopeSet) /\ Len(d) = Len(e) - 1 /\ \A j \in 1 .. Len(e) - 1 : d[j] = e[j]
  <2>1. Len(e) > 1
    BY <1>1
  <2> QED
    BY <1>1, <1>2, <2>1, PopIs
<1>4. DOMAIN d = 1 .. Len(e) - 1
  BY <1>3
<1>5. \A j \in 1 .. Len(e) - 1 : j \in 1 .. Len(env) - 1
  BY <1>1
<1>6. \A j \in DOMAIN d : d[j] = env[j]
  BY <1>1, <1>3, <1>4, <1>5
<1>7. Len(d) = Len(env) - 2
  BY <1>1, <1>3
<1> QED
  BY <1>3, <1>6, <1>7

LEMMA EndForPreserves ==
    ASSUME Inv, EndFor
    PROVE  Inv'
<1> DEFINE x == Last(frames)
           fs == Front(frames)
           v == fn.values
           one == Instr("const", v + 1, {}, NoEvent)
           sum == Instr("binop", v + 2, {v + 1, x.index}, <<x.at, "step">>)
           e == EnterBlock(Close(fn, Jump(x.other)), x.other)
           stepped == Emit(e, <<one, sum>>)
           counted == NewValues(stepped, 2)
           h == SetTerminator(counted, Jump(x.other - 2))
           patched == PatchPhi(h, x.other - 2, x.index, v + 2, x.other)
           g == EnterBlock(patched, x.exit)
<1>1. /\ ~done /\ frames # <<>> /\ x.kind = "for" /\ fn' = g
      /\ env' = PopScope(PopScope(env)) /\ loops' = Front(loops) /\ frames' = fs
      /\ UNCHANGED <<stages, stage, unit, done>>
      /\ \E token : program' = Append(program, token)
  BY DEF EndFor, Ends
<1>2. /\ Leaves(fn, x.other, x.other, e) /\ Emits(e, <<one, sum>>, stepped)
      /\ counted = NewValues(stepped, 2) /\ JumpsBack(counted, x.other - 2, h)
      /\ patched = PatchPhi(h, x.other - 2, x.index, v + 2, x.other)
      /\ g = EnterBlock(patched, x.exit)
  BY DEF Leaves, Emits, JumpsBack
<1> HIDE DEF x, fs, e, stepped, counted, h, patched, g
<1>3. /\ x \in FrameSet /\ x.other \in DOMAIN fn.blocks /\ x.exit \in DOMAIN fn.blocks
      /\ Awaited(x) \subseteq OpenBlocks(fn) /\ fn.current \notin Awaited(x) /\ x.other < x.exit
      /\ x.other > 2 /\ DefinedBy(fn, x.index, x.other)
      /\ frames = Append(fs, x) /\ fs \in Seq(FrameSet) /\ Len(fs) \in Nat
  BY <1>1, LastFrame DEF x, fs
<1>4. /\ x.other \in Nat /\ x.exit \in Nat /\ x.index \in Nat /\ x.at \in Nat
      /\ Awaited(x) = {x.other, x.exit}
  BY <1>1, <1>3, AwaitedIs
<1>5. Sound(fn) /\ fn \in FunctionSet /\ v \in Nat /\ DOMAIN fn.blocks = 1 .. Len(fn.blocks)
  <2>1. Sound(fn) /\ fn \in FunctionSet
    BY DEF Inv, Sound
  <2> QED
    BY <2>1, FunctionIs
<1>a. PICK v1 \in Nat : v1 = v + 1
  BY <1>5
<1>b. PICK v2 \in Nat : v2 = v + 2
  BY <1>5
<1>c. PICK header \in DOMAIN fn.blocks : header = x.other - 2
  BY <1>3, <1>4, <1>5
<1>6. Made(one, v1, {}, {}) /\ Made(sum, v2, {v1, x.index}, {})
  <2>1. NoEvent \in Event /\ <<x.at, "step">> \in Event
    BY <1>4 DEF NoEvent, Event, Phases
  <2>2. "const" \in InstrOps /\ "binop" \in InstrOps
    BY DEF InstrOps
  <2>3. {} \in SUBSET Nat /\ {v1, x.index} \in SUBSET Nat
    BY <1>4
  <2>4. one = Instr("const", v1, {}, NoEvent) /\ sum = Instr("binop", v2, {v1, x.index}, <<x.at, "step">>)
    BY <1>a, <1>b
  <2> HIDE DEF one, sum
  <2> QED
    BY <2>1, <2>2, <2>3, <2>4, MadeIs
<1> HIDE DEF one, sum
<1>7. /\ Grows(fn, g) /\ g.current = x.exit
      /\ OpenBlocks(g) = (OpenBlocks(fn) \ {fn.current}) \ {x.other}
  <2>1. PICK next \in DOMAIN fn.blocks : next = x.other
    BY <1>3
  <2>2. PICK exit \in DOMAIN fn.blocks : exit = x.exit
    BY <1>3
  <2>3. PICK index \in Nat : index = x.index
    BY <1>4
  <2>n. PICK n \in Nat : n = 2
    OBVIOUS
  <2>4. Waiting(fn, next) /\ DefinedBy(fn, index, next)
    BY <1>3, <1>4, <1>5, <2>1, <2>3 DEF Waiting
  <2>5. Made(one, v1, {}, {}) /\ Made(sum, v2, {v1, index}, {})
    BY <1>6, <2>3
  <2>6. /\ Leaves(fn, next, next, e) /\ Emits(e, <<one, sum>>, stepped)
        /\ Counts(stepped, n, counted) /\ JumpsBack(counted, header, h)
        /\ Patches(h, header, index, v2, next, patched) /\ Enters(patched, exit, g)
    BY <1>2, <1>b, <1>c, <2>1, <2>2, <2>3, <2>n DEF Counts, Patches, Enters
  <2>7. Moved(fn, counted, next) /\ Ready(counted, next) /\ DefinedBy(counted, v2, next)
    BY <2>4, <2>5, <2>6, ForSteps
  <2>8. Moved(counted, g, exit)
    <3>1. header \in DOMAIN counted.blocks /\ exit \in DOMAIN counted.blocks
      BY <2>7 DEF Moved
    <3> QED
      BY <2>6, <2>7, <3>1, ForTurns
  <2>9. Grows(fn, g)
    BY <2>7, <2>8, GrowsFurther DEF Moved
  <2> QED
    BY <2>1, <2>2, <2>7, <2>8, <2>9 DEF Moved
<1>8. OpenBlocks(g) = (OpenBlocks(fn) \ {fn.current}) \ (Awaited(x) \ {x.exit})
  <2>1. x.other # x.exit
    BY <1>3, <1>4
  <2> QED
    BY <1>4, <1>7, <2>1
<1>9. /\ env' \in Seq(ScopeSet) /\ Len(env') = Len(env) - (IF x.kind = "for" THEN 2 ELSE 1)
      /\ \A j \in DOMAIN env' : env'[j] = env[j]
  <2>1. Len(env) > 2
    <3>1. PICK n \in Nat : n = Len(fs)
      BY <1>3
    <3>2. /\ Len(env) = ScopesBelow(fs, n + 1) + IF x.kind = "for" THEN 2 ELSE 1
          /\ ScopesBelow(fs, n + 1) \in Nat /\ ScopesBelow(fs, n + 1) >= 2
      BY <1>1, <1>3, <3>1, LastCounts
    <3> QED
      BY <1>1, <3>2
  <2>2. PICK d : d = PopScope(PopScope(env))
    OBVIOUS
  <2>3. d \in Seq(ScopeSet) /\ Len(d) = Len(env) - 2 /\ \A j \in DOMAIN d : d[j] = env[j]
    BY <1>1, <2>1, <2>2, PoppedTwice
  <2> QED
    BY <1>1, <2>2, <2>3
<1>10. loops' = IF x.kind \in {"while", "for"} THEN Front(loops) ELSE loops
  BY <1>1
<1>11. x = Last(frames) /\ fs = Front(frames)
  BY DEF x, fs
<1> QED
  BY <1>1, <1>7, <1>8, <1>9, <1>10, <1>11, CloseStep

-----------------------------------------------------------------------------
(* From one branch of an `if` to the other *)

(* The frame of an `if` in its first branch, and in its second. *)
Turned(x, y) ==
    /\ x \in FrameSet /\ x.kind = "then"
    /\ y \in FrameSet /\ y.kind = "else" /\ y.other = x.other /\ y.exit = x.exit

LEMMA TurnedIs ==
    ASSUME NEW x \in FrameSet, x.kind = "then", NEW k \in Nat,
           NEW y, y = [x EXCEPT !.kind = "else", !.scope = k]
    PROVE  Turned(x, y)
BY DEF Turned, FrameSet

LEMMA TurnedAwaits ==
    ASSUME NEW x, NEW y, Turned(x, y)
    PROVE  /\ x \in FrameSet /\ y \in FrameSet
           /\ Awaited(x) = {x.other, x.exit} /\ Awaited(y) = {x.exit}
           /\ x.kind # "for" /\ y.kind # "for" /\ x.kind # "while" /\ y.kind # "while"
<1>1. x \in FrameSet /\ y \in FrameSet /\ x.kind = "then" /\ y.kind = "else" /\ y.exit = x.exit
  BY DEF Turned
<1> QED
  BY <1>1, AwaitedIs

LEMMA WaitsForOther ==
    ASSUME NEW f, NEW g, DOMAIN g.blocks = DOMAIN f.blocks, NEW fs \in Seq(FrameSet),
           NEW x, NEW y, Turned(x, y), NEW ahead, WaitsFor(f, Append(fs, x), ahead),
           OpenBlocks(g) = OpenBlocks(f) \ {f.current}, g.current = x.other,
           x.other # x.exit
    PROVE  WaitsFor(g, Append(fs, y), ahead)
<1> DEFINE gs == Append(fs, x)
           hs == Append(fs, y)
           n == Len(fs) + 1
<1>1. /\ x \in FrameSet /\ y \in FrameSet
      /\ Awaited(x) = {x.other, x.exit} /\ Awaited(y) = {x.exit} /\ y.other = x.other /\ y.exit = x.exit
  BY TurnedAwaits DEF Turned
<1>2. /\ DOMAIN gs = DOMAIN fs \cup {n} /\ n \notin DOMAIN fs
      /\ (\A i \in DOMAIN fs : gs[i] = fs[i]) /\ gs[n] = x
      /\ AwaitedBy(gs) = AwaitedBy(fs) \cup Awaited(x)
  BY <1>1, AwaitedByLonger
<1>3. /\ DOMAIN hs = DOMAIN fs \cup {n}
      /\ (\A i \in DOMAIN fs : hs[i] = fs[i]) /\ hs[n] = y
      /\ AwaitedBy(hs) = AwaitedBy(fs) \cup Awaited(y)
  BY <1>1, AwaitedByLonger
<1> HIDE DEF gs, hs, n
<1>4. /\ OpenBlocks(f) \ {f.current} = AwaitedBy(gs) \cup ahead
      /\ \A i \in DOMAIN gs :
          /\ gs[i].other < gs[i].exit
          /\ gs[i].other \in DOMAIN f.blocks
          /\ Awaited(gs[i]) \cap ahead = {}
          /\ \A j \in DOMAIN gs : i # j => Awaited(gs[i]) \cap Awaited(gs[j]) = {}
  BY DEF WaitsFor, gs
<1>5. \A i \in DOMAIN fs : Awaited(fs[i]) \cap Awaited(x) = {} /\ Awaited(x) \cap Awaited(fs[i]) = {}
  BY <1>2, <1>4, ZenonT(30)
<1>6. Awaited(x) \cap AwaitedBy(fs) = {} /\ Awaited(x) \cap ahead = {}
  <2>1. Awaited(x) \cap AwaitedBy(fs) = {}
    BY <1>5 DEF AwaitedBy
  <2> QED
    BY <1>2, <1>4, <2>1
<1>7. /\ OpenBlocks(g) \ {g.current} = AwaitedBy(hs) \cup ahead
      /\ g.current \notin AwaitedBy(hs) \cup ahead
  BY <1>1, <1>2, <1>3, <1>4, <1>6
<1>8. /\ y.other < y.exit /\ y.other \in DOMAIN g.blocks /\ Awaited(y) \cap ahead = {}
      /\ \A i \in DOMAIN fs : Awaited(fs[i]) \cap Awaited(y) = {} /\ Awaited(y) \cap Awaited(fs[i]) = {}
  <2>1. x.other < x.exit /\ x.other \in DOMAIN f.blocks
    BY <1>2, <1>4
  <2>2. Awaited(y) \subseteq Awaited(x)
    BY <1>1
  <2> QED
    BY <1>1, <1>5, <1>6, <2>1, <2>2
<1>9. ASSUME NEW i \in DOMAIN hs
      PROVE  /\ hs[i].other < hs[i].exit
             /\ hs[i].other \in DOMAIN g.blocks
             /\ Awaited(hs[i]) \cap ahead = {}
             /\ \A j \in DOMAIN hs : i # j => Awaited(hs[i]) \cap Awaited(hs[j]) = {}
  <2>1. CASE i = n
    BY <1>2, <1>3, <1>8, <2>1
  <2>2. CASE i \in DOMAIN fs
    <3>1. /\ fs[i].other < fs[i].exit /\ fs[i].other \in DOMAIN g.blocks /\ Awaited(fs[i]) \cap ahead = {}
          /\ \A j \in DOMAIN fs : i # j => Awaited(fs[i]) \cap Awaited(fs[j]) = {}
      BY <1>2, <1>4, <2>2
    <3>2. Awaited(fs[i]) \cap Awaited(y) = {}
      BY <1>8, <2>2
    <3>3. \A j \in DOMAIN hs : i # j => Awaited(hs[i]) \cap Awaited(hs[j]) = {}
      BY <1>3, <2>2, <3>1, <3>2
    <3> QED
      BY <1>3, <2>2, <3>1, <3>3
  <2> QED
    BY <1>3, <2>1, <2>2
<1> QED
  BY <1>7, <1>9 DEF WaitsFor, hs

(* The scope of the first branch is replaced by that of the second.        *)
LEMMA ScopeReplaced ==
    ASSUME Inv, ~done
    PROVE  PushScope(PopScope(env)) \in Seq(ScopeSet) /\ Len(PushScope(PopScope(env))) = Len(env)
<1> DEFINE d == PopScope(env)
<1>1. d \in Seq(ScopeSet) /\ Len(d) = Len(env) - 1 /\ Len(env) \in Nat
  BY PoppedScope
<1> HIDE DEF d
<1>2. PushScope(d) \in Seq(ScopeSet) /\ Len(PushScope(d)) = Len(d) + 1
  BY <1>1, PushIs
<1> QED
  BY <1>1, <1>2 DEF d

LEMMA ElsePreserves ==
    ASSUME Inv, Else
    PROVE  Inv'
<1> DEFINE x == Last(frames)
           fs == Front(frames)
           y == [x EXCEPT !.kind = "else", !.scope = Here]
           n == Len(fs)
<1>1. /\ ~done /\ frames # <<>> /\ x.kind = "then" /\ Len(program) + Len(frames) < MaxTokens
      /\ fn' = EnterBlock(Close(fn, Jump(x.exit)), x.other)
      /\ env' = PushScope(PopScope(env))
      /\ frames' = [frames EXCEPT ![Len(frames)] = y]
      /\ UNCHANGED <<stages, stage, unit, loops, done>>
      /\ \E token : program' = Append(program, token)
  <2>1. [frames EXCEPT ![Len(frames)] = [@ EXCEPT !.kind = "else", !.scope = Here]]
          = [frames EXCEPT ![Len(frames)] = y]
    BY DEF Last
  <2> QED
    BY <2>1 DEF Else
<1>2. PICK g : g = fn'
  OBVIOUS
<1>3. Here \in Nat
  <2>1. Len(program) \in Nat
    BY ProgramIs DEF Inv, IsShaped
  <2> QED
    BY <2>1 DEF Here
<1> HIDE DEF x, fs
<1>4. /\ fs \in Seq(FrameSet) /\ x \in FrameSet /\ frames = Append(fs, x)
      /\ n \in Nat /\ Len(frames) = n + 1
      /\ WaitsFor(fn, Append(fs, x), StagesAhead)
      /\ SlotsKnown(fn, env, Append(fs, x))
      /\ x.other < x.exit /\ x.other \in DOMAIN fn.blocks /\ x.exit \in DOMAIN fn.blocks
  BY <1>1, LastFrame DEF x, fs
<1>5. Turned(x, y)
  BY <1>1, <1>3, <1>4, TurnedIs
<1> HIDE DEF y
<1>6. /\ y \in FrameSet /\ Awaited(x) = {x.other, x.exit} /\ Awaited(y) = {x.exit}
      /\ x.kind # "for" /\ y.kind # "for" /\ x.kind # "while" /\ y.kind # "while"
  BY <1>5, TurnedAwaits
<1>7. frames' = Append(fs, y)
  <2>1. frames \in Seq(FrameSet) /\ frames # <<>> /\ y \in FrameSet
    BY <1>1, <1>6 DEF Inv, IsShaped
  <2> HIDE DEF n
  <2>2. [frames EXCEPT ![Len(frames)] = y] = Append(Front(frames), y)
    BY <2>1, FrontAndLast
  <2> QED
    BY <1>1, <2>2 DEF fs
<1>8. /\ Append(fs, y) \in Seq(FrameSet) /\ Len(Append(fs, y)) = n + 1
      /\ Append(fs, y)[n + 1] = y
  BY <1>4, <1>6, AwaitedByLonger
<1>9. /\ Grows(fn, g) /\ OpenBlocks(g) = OpenBlocks(fn) \ {fn.current} /\ g.current = x.other
      /\ DOMAIN g.blocks = DOMAIN fn.blocks
  <2>1. Sound(fn) /\ Leaves(fn, x.exit, x.other, g)
    BY <1>1, <1>2 DEF Inv, Leaves
  <2> QED
    BY <1>4, <2>1, LeavesIs
<1>10. Sound(fn) /\ Sound(g) /\ Keeps(fn, g)
  BY <1>9 DEF Grows
<1>11. x.other \in Nat /\ x.exit \in Nat /\ x.other # x.exit
  BY <1>4, AwaitedIs
<1>12. WaitsFor(g, Append(fs, y), StagesAhead)
  BY <1>4, <1>5, <1>9, <1>11, WaitsForOther
<1>13. env \in Seq(ScopeSet) /\ env' \in Seq(ScopeSet) /\ Len(env') = Len(env)
  BY <1>1, ScopeReplaced DEF Inv, IsShaped
<1>14. /\ Len(env) = ScopesBelow(fs, n + 1) + 1 /\ Len(loops) = LoopsBelow(fs, n + 1)
       /\ ScopesBelow(fs, n + 1) \in Nat /\ ScopesBelow(fs, n + 1) >= 2 /\ LoopsBelow(fs, n + 1) \in Nat
  <2>1. PICK k \in Nat : k = n
    BY <1>4
  <2>2. /\ Len(env) = ScopesBelow(fs, k + 1) + IF x.kind = "for" THEN 2 ELSE 1
        /\ Len(loops) = LoopsBelow(fs, k + 1) + IF x.kind \in {"while", "for"} THEN 1 ELSE 0
        /\ ScopesBelow(fs, k + 1) \in Nat /\ LoopsBelow(fs, k + 1) \in Nat
        /\ ScopesBelow(fs, k + 1) >= 2
    BY <1>1, <1>4, <2>1, LastCounts
  <2> QED
    BY <1>6, <2>1, <2>2
<1>15. SlotsKnown(g, env', Append(fs, y))
  <2>1. PICK d \in Seq(ScopeSet) : d = PopScope(env)
    BY <1>1, PoppedScope
  <2>2. Len(d) = ScopesBelow(fs, n + 1) /\ Len(d) > 0 /\ Len(d) <= Len(env) /\ \A j \in DOMAIN d : d[j] = env[j]
    BY <1>1, <1>14, <2>1, PoppedScope
  <2>3. Len(d) <= ScopesBelow(fs, Len(fs) + 1)
    BY <1>14, <2>2
  <2>4. g.current \in Awaited(x)
    BY <1>6, <1>9
  <2>5. SlotsKnown(g, d, fs)
    <3>1. /\ fs \in Seq(FrameSet) /\ x \in FrameSet /\ SlotsKnown(fn, env, Append(fs, x))
          /\ env \in Seq(ScopeSet) /\ (g.current \in Awaited(x) \/ g.current = x.exit)
      BY <1>4, <1>13, <2>4
    <3>2. Len(d) > 0 /\ Len(d) <= Len(env) /\ \A j \in DOMAIN d : d[j] = env[j]
      BY <2>2
    <3> QED
      BY <1>10, <2>3, <3>1, <3>2, SlotsAbandoned
  <2>6. \A b \in Awaited(y) : g.current <= b
    BY <1>4, <1>6, <1>9, <1>11
  <2>7. SlotsKnown(g, d, Append(fs, y))
    BY <1>4, <1>6, <1>10, <2>5, <2>6, SlotsBelowFrame
  <2> QED
    BY <1>1, <2>1, <2>2, <2>7, SlotsPushed
<1>16. program' \in Seq(ToSet(program')) /\ Len(program') = Len(program) + 1 /\ Len(program) \in Nat
  BY <1>1, ProgramIs DEF Inv, IsShaped
<1>17. IsShaped'
  <2>1. g \in FunctionSet
    BY <1>10 DEF Sound
  <2> QED
    BY <1>1, <1>2, <1>7, <1>8, <1>13, <1>16, <2>1 DEF Inv, IsShaped
<1>18. KnowsOpenBlocks'
  <2>1. StagesAhead' = StagesAhead
    BY <1>1 DEF StagesAhead
  <2>2. TargetsExist(g, loops)
    <3>1. loops \in Seq(Targets)
      BY DEF Inv, IsShaped
    <3> QED
      BY <1>10, <3>1, TargetsStay DEF Inv, KnowsOpenBlocks
  <2> QED
    BY <1>1, <1>2, <1>7, <1>12, <2>1, <2>2 DEF KnowsOpenBlocks
<1>19. CountsScopes'
  <2>1. Len(program') + Len(frames') <= MaxTokens
    <3>1. MaxTokens \in Nat
      BY LoweringAssumption
    <3> QED
      BY <1>1, <1>4, <1>7, <1>8, <1>16, <3>1
  <2>2. PICK m \in Nat \ {0} : m = n + 1
    BY <1>4
  <2>3. /\ ScopesBelow(Append(fs, y), m + 1) = ScopesBelow(Append(fs, y), m) + 1
        /\ LoopsBelow(Append(fs, y), m + 1) = LoopsBelow(Append(fs, y), m)
        /\ LoopsBelow(Append(fs, y), m) \in Nat
    <3>1. /\ ScopesBelow(Append(fs, y), m + 1) = ScopesBelow(Append(fs, y), m)
                + IF Append(fs, y)[m].kind = "for" THEN 2 ELSE 1
          /\ LoopsBelow(Append(fs, y), m + 1) = LoopsBelow(Append(fs, y), m)
                + IF Append(fs, y)[m].kind \in {"while", "for"} THEN 1 ELSE 0
          /\ LoopsBelow(Append(fs, y), m) \in Nat
      BY ScopesBelowIs
    <3> QED
      BY <1>6, <1>8, <2>2, <3>1
  <2>4. ScopesBelow(Append(fs, y), m) = ScopesBelow(fs, m) /\ LoopsBelow(Append(fs, y), m) = LoopsBelow(fs, m)
    <3>1. m \in 1 .. Len(fs) + 1
      BY <1>4, <2>2
    <3> QED
      BY <1>4, <1>6, <3>1, ScopesBelowSame
  <2>5. Len(frames') + 1 = m + 1
    BY <1>7, <1>8, <2>2
  <2>6. /\ Len(env') = ScopesBelow(frames', Len(frames') + 1)
        /\ Len(loops') = LoopsBelow(frames', Len(frames') + 1)
    BY <1>1, <1>7, <1>13, <1>14, <2>2, <2>3, <2>4, <2>5
  <2> QED
    BY <1>1, <2>1, <2>6 DEF CountsScopes
<1>20. KnowsSlots'
  BY <1>2, <1>7, <1>15 DEF KnowsSlots
<1> QED
  BY <1>2, <1>10, <1>17, <1>18, <1>19, <1>20 DEF Inv

-----------------------------------------------------------------------------
(* The end of a stage, and of the function *)

LEMMA NoFrames ==
    /\ DOMAIN <<>> = {} /\ AwaitedBy(<<>>) = {} /\ Len(<<>>) = 0
    /\ ScopesBelow(<<>>, 1) = 2 /\ LoopsBelow(<<>>, 1) = 0
<1>1. DOMAIN <<>> = {} /\ Len(<<>>) = 0
  OBVIOUS
<1>2. AwaitedBy(<<>>) = {}
  BY <1>1 DEF AwaitedBy
<1>3. 1 \in Nat \ {0}
  OBVIOUS
<1> QED
  BY <1>1, <1>2, <1>3, ScopesBelowIs

(* Between two statements of the outermost block.                          *)
LEMMA Outermost ==
    ASSUME Inv, ~done, frames = <<>>
    PROVE  /\ Sound(fn) /\ OpenBlocks(fn) \ {fn.current} = StagesAhead /\ fn.current \notin StagesAhead
           /\ env \in Seq(ScopeSet) /\ Len(env) = 2 /\ env[1] = NewScope
           /\ loops \in Seq(Targets) /\ Len(loops) = 0
           /\ Len(program) \in Nat /\ Len(program) <= MaxTokens /\ MaxTokens \in Nat
           /\ stages \in Nat /\ stage \in Nat /\ stage <= stages
<1>1. WaitsFor(fn, <<>>, StagesAhead)
  BY DEF Inv, KnowsOpenBlocks
<1>2. OpenBlocks(fn) \ {fn.current} = StagesAhead /\ fn.current \notin StagesAhead
  BY <1>1, NoFrames DEF WaitsFor
<1>3. Len(frames) + 1 = 1
  BY NoFrames
<1>4. Len(env) = 2 /\ Len(loops) = 0
  BY <1>3, NoFrames DEF Inv, CountsScopes
<1>5. env[1] = NewScope
  BY DEF Inv, KnowsSlots, SlotsKnown
<1>6. MaxTokens \in Nat /\ stages \in Nat
  BY LoweringAssumption DEF Inv, IsShaped
<1>7. Len(program) \in Nat /\ Len(program) + 0 <= MaxTokens
  BY Indices, NoFrames DEF Inv, CountsScopes
<1>8. stage \in Nat /\ stage <= stages
  BY <1>6 DEF Inv, IsShaped
<1> QED
  BY <1>2, <1>4, <1>5, <1>6, <1>7, <1>8 DEF Inv, IsShaped

LEMMA NothingBound ==
    ASSUME NEW g, NEW e, e[1] = NewScope, \A j \in DOMAIN e : DOMAIN e[j] = {}
    PROVE  SlotsKnown(g, e, <<>>)
  BY NoFrames DEF SlotsKnown

LEMMA NoOneWaits ==
    ASSUME NEW g, NEW ahead, OpenBlocks(g) \ {g.current} = ahead, g.current \notin ahead
    PROVE  WaitsFor(g, <<>>, ahead)
  BY NoFrames DEF WaitsFor

LEMMA NextStagePreserves ==
    ASSUME Inv, NextStage
    PROVE  Inv'
<1>1. /\ ~done /\ Len(program) + Len(frames) < MaxTokens /\ frames = <<>> /\ stage < stages
      /\ fn' = EnterBlock(Close(fn, Jump(StageBlock(stage))), stage + 2)
      /\ env' = PushScope(PopScope(env))
      /\ stage' = stage + 1
      /\ UNCHANGED <<stages, unit, loops, frames, done>>
      /\ \E token : program' = Append(program, token)
  BY DEF NextStage, Room
<1>2. PICK g : g = fn'
  OBVIOUS
<1>3. /\ Sound(fn) /\ OpenBlocks(fn) \ {fn.current} = StagesAhead /\ fn.current \notin StagesAhead
      /\ env \in Seq(ScopeSet) /\ Len(env) = 2 /\ env[1] = NewScope
      /\ loops \in Seq(Targets) /\ Len(loops) = 0
      /\ Len(program) \in Nat /\ MaxTokens \in Nat
      /\ stages \in Nat /\ stage \in Nat
  BY <1>1, Outermost
<1>4. StagesAhead = stage + 2 .. stages + 2 /\ StagesAhead' = stage + 3 .. stages + 2
  <2>1. stages # 0 /\ (stage + 1) + 2 = stage + 3
    BY <1>1, <1>3
  <2> QED
    BY <1>1, <2>1 DEF StagesAhead
<1>5. PICK b \in Nat : b = stage + 2
  BY <1>3
<1>6. b \in StagesAhead /\ StagesAhead' = StagesAhead \ {b}
  BY <1>1, <1>3, <1>4, <1>5
<1>7. b \in DOMAIN fn.blocks
  BY <1>3, <1>6 DEF OpenBlocks
<1>8. Leaves(fn, b, b, g)
  <2>1. StageBlock(stage) = b
    BY <1>1, <1>3, <1>5 DEF StageBlock
  <2> QED
    BY <1>1, <1>2, <1>5, <2>1 DEF Leaves
<1>9. Grows(fn, g) /\ OpenBlocks(g) = OpenBlocks(fn) \ {fn.current} /\ g.current = b
  BY <1>3, <1>7, <1>8, LeavesIs
<1>10. Sound(g) /\ Keeps(fn, g) /\ g \in FunctionSet
  BY <1>9 DEF Grows, Sound
<1>11. WaitsFor(g, <<>>, StagesAhead')
  <2>1. OpenBlocks(g) \ {g.current} = StagesAhead' /\ g.current \notin StagesAhead'
    BY <1>3, <1>6, <1>9
  <2> QED
    BY <2>1, NoOneWaits
<1>12. /\ env' \in Seq(ScopeSet) /\ Len(env') = 2 /\ env'[1] = NewScope
       /\ \A j \in DOMAIN env' : DOMAIN env'[j] = {}
  <2>1. PICK d \in Seq(ScopeSet) : d = PopScope(env)
    BY <1>1, PoppedScope
  <2>2. Len(d) = 1 /\ DOMAIN d = 1 .. 1 /\ d[1] = NewScope
    <3>1. Len(d) = Len(env) - 1 /\ DOMAIN d = 1 .. Len(env) - 1 /\ \A j \in DOMAIN d : d[j] = env[j]
      BY <1>1, <2>1, PoppedScope
    <3>2. Len(env) - 1 = 1 /\ 1 \in 1 .. 1
      BY <1>3
    <3> QED
      BY <1>3, <3>1, <3>2
  <2>3. PICK e : e = PushScope(d)
    OBVIOUS
  <2>4. /\ e \in Seq(ScopeSet) /\ Len(e) = Len(d) + 1 /\ e[1] = d[1]
        /\ e[Len(d) + 1] = NewScope /\ DOMAIN NewScope = {}
    <3>1. 1 \in DOMAIN d
      BY <2>2
    <3> QED
      BY <2>3, <3>1, PushIs
  <2>5. Len(e) = 2 /\ e[1] = NewScope /\ e[2] = NewScope /\ DOMAIN NewScope = {}
    <3>1. Len(d) + 1 = 2
      BY <2>2
    <3> QED
      BY <2>2, <2>4, <3>1
  <2>6. \A j \in DOMAIN e : j = 1 \/ j = 2
    <3>1. DOMAIN e = 1 .. 2
      BY <2>4, <2>5, SequenceIs
    <3> QED
      BY <3>1
  <2>7. \A j \in DOMAIN e : DOMAIN e[j] = {}
    BY <2>5, <2>6
  <2>8. e = env'
    BY <1>1, <2>1, <2>3
  <2> QED
    BY <2>4, <2>5, <2>7, <2>8
<1>13. program' \in Seq(ToSet(program')) /\ Len(program') = Len(program) + 1
  BY <1>1, ProgramIs DEF Inv, IsShaped
<1>14. IsShaped'
  <2>1. stage' \in 0 .. stages /\ stage' # 0
    BY <1>1, <1>3
  <2> QED
    BY <1>1, <1>2, <1>10, <1>12, <1>13, <2>1 DEF Inv, IsShaped
<1>15. KnowsOpenBlocks'
  <2>1. TargetsExist(g, loops)
    BY <1>3, <1>10, TargetsStay DEF Inv, KnowsOpenBlocks
  <2> QED
    BY <1>1, <1>2, <1>11, <2>1 DEF KnowsOpenBlocks
<1>16. CountsScopes'
  <2>1. Len(program') + 0 <= MaxTokens
    BY <1>1, <1>3, <1>13, NoFrames
  <2>2. Len(frames') = 0 /\ Len(frames') + 1 = 1
    BY <1>1, NoFrames
  <2> QED
    BY <1>1, <1>3, <1>12, <2>1, <2>2, NoFrames DEF CountsScopes
<1>17. KnowsSlots'
  <2>1. SlotsKnown(g, env', <<>>)
    BY <1>12, NothingBound
  <2> QED
    BY <1>1, <1>2, <2>1 DEF KnowsSlots
<1> QED
  BY <1>2, <1>10, <1>14, <1>15, <1>16, <1>17 DEF Inv

LEMMA DefaultIs ==
    ASSUME Inv
    PROVE  LET t == DefaultTerminator
           IN  t \in TermSet /\ t # Open /\ t.uses = {} /\ Successors(t) = {}
<1>1. PICK n \in Nat : n = Len(program) + 1
  <2>1. Len(program) \in Nat
    BY Indices
  <2> QED
    BY <2>1
<1>2. {} \in SUBSET Nat /\ "end" \in Phases
  BY DEF Phases
<1>3. CASE unit
  <2> DEFINE t == Term("return", <<>>, {}, <<n, "end">>)
  <2>1. t \in TermSet /\ t # Open /\ t.uses = {} /\ Successors(t) = {}
    BY <1>2, ExitIs
  <2>2. DefaultTerminator = t
    BY <1>1, <1>3 DEF DefaultTerminator
  <2> HIDE DEF t
  <2> QED
    BY <2>1, <2>2
<1>4. CASE ~unit
  <2> DEFINE t == Term("unreachable", <<>>, {}, <<n, "end">>)
  <2>1. t \in TermSet /\ t # Open /\ t.uses = {} /\ Successors(t) = {}
    BY <1>2, ExitIs
  <2>2. DefaultTerminator = t
    BY <1>1, <1>4 DEF DefaultTerminator
  <2> HIDE DEF t
  <2> QED
    BY <2>1, <2>2
<1> QED
  BY <1>3, <1>4

(* The last block of the function is closed.                               *)
LEMMA FinishIs ==
    ASSUME Inv, NEW h, Sound(h), NEW g, g = Close(h, DefaultTerminator)
    PROVE  /\ Grows(h, g) /\ OpenBlocks(g) = OpenBlocks(h) \ {h.current} /\ g.current = h.current
           /\ Terminated(g)
<1>1. PICK t : t = DefaultTerminator
  OBVIOUS
<1>2. t \in TermSet /\ t # Open /\ t.uses = {} /\ Successors(t) = {}
  BY <1>1, DefaultIs
<1>3. Successors(t) \subseteq DOMAIN h.blocks /\ \A v \in t.uses : DefinedBy(h, v, h.current)
  BY <1>2
<1>4. g = Close(h, t)
  BY <1>1
<1>5. /\ Sound(g) /\ Keeps(h, g) /\ OpenBlocks(g) = OpenBlocks(h) \ {h.current}
      /\ g.current = h.current
  BY <1>2, <1>3, <1>4, CloseSound
<1>6. Terminated(g)
  <2>1. g.current \in DOMAIN g.blocks /\ g.current \notin OpenBlocks(g)
    BY <1>5 DEF Sound
  <2> QED
    BY <2>1 DEF Terminated, OpenBlocks
<1> QED
  BY <1>5, <1>6 DEF Grows

LEMMA FinishPreserves ==
    ASSUME Inv, Finish
    PROVE  Inv'
<1> DEFINE h == IF stages = 0 THEN fn ELSE EnterBlock(Close(fn, Jump(StageExit)), StageExit)
<1>1. /\ ~done /\ frames = <<>> /\ stage = stages
      /\ fn' = Close(h, DefaultTerminator)
      /\ env' = PopScope(env)
      /\ done' = TRUE
      /\ UNCHANGED <<program, stages, stage, unit, loops, frames>>
  BY DEF Finish
<1>2. PICK g : g = fn'
  OBVIOUS
<1>3. /\ Sound(fn) /\ OpenBlocks(fn) \ {fn.current} = StagesAhead /\ fn.current \notin StagesAhead
      /\ env \in Seq(ScopeSet) /\ Len(env) = 2 /\ env[1] = NewScope
      /\ loops \in Seq(Targets) /\ Len(loops) = 0
      /\ Len(program) \in Nat /\ Len(program) <= MaxTokens /\ MaxTokens \in Nat
      /\ stages \in Nat
  BY <1>1, Outermost
<1>4. Grows(fn, h) /\ OpenBlocks(h) \ {h.current} = {}
  <2>1. CASE stages = 0
    <3>1. StagesAhead = {} /\ h = fn
      BY <2>1 DEF StagesAhead
    <3>2. Keeps(fn, fn)
      <4>1. Len(fn.blocks) <= Len(fn.blocks)
        <5>1. fn \in FunctionSet
          BY <1>3 DEF Sound
        <5> QED
          BY <5>1, FunctionIs
      <4> QED
        BY <4>1 DEF Keeps
    <3> HIDE DEF h
    <3> QED
      BY <1>3, <3>1, <3>2 DEF Grows
  <2>2. CASE stages # 0
    <3>1. PICK b \in Nat : b = stages + 2
      BY <1>3
    <3>2. StagesAhead = {b}
      <4>1. StagesAhead = stages + 2 .. stages + 2
        BY <1>1, <2>2 DEF StagesAhead
      <4> QED
        BY <1>3, <3>1, <4>1
    <3>3. Leaves(fn, b, b, h)
      BY <2>2, <3>1 DEF Leaves, StageExit
    <3> HIDE DEF h
    <3>4. b \in DOMAIN fn.blocks
      BY <1>3, <3>2 DEF OpenBlocks
    <3>5. Grows(fn, h) /\ OpenBlocks(h) = OpenBlocks(fn) \ {fn.current} /\ h.current = b
      BY <1>3, <3>3, <3>4, LeavesIs
    <3> QED
      BY <1>3, <3>2, <3>5
  <2> QED
    BY <2>1, <2>2
<1> HIDE DEF h
<1>5. /\ Grows(h, g) /\ OpenBlocks(g) = OpenBlocks(h) \ {h.current} /\ g.current = h.current
      /\ Terminated(g)
  <2>1. Sound(h)
    BY <1>4 DEF Grows
  <2> QED
    BY <1>1, <1>2, <2>1, FinishIs
<1>6. OpenBlocks(g) = {}
  BY <1>4, <1>5
<1>7. Sound(g) /\ Keeps(fn, g) /\ g \in FunctionSet
  <2>1. Grows(fn, g)
    BY <1>4, <1>5, GrowsFurther
  <2> QED
    BY <2>1 DEF Grows, Sound
<1>8. StagesAhead' = {}
  BY <1>1 DEF StagesAhead
<1>9. WaitsFor(g, <<>>, StagesAhead')
  BY <1>6, <1>8, NoOneWaits
<1>10. /\ env' \in Seq(ScopeSet) /\ Len(env') = 1 /\ env'[1] = NewScope
       /\ \A j \in DOMAIN env' : DOMAIN env'[j] = {}
  <2>1. PICK d \in Seq(ScopeSet) : d = PopScope(env)
    BY <1>1, PoppedScope
  <2>2. Len(d) = Len(env) - 1 /\ DOMAIN d = 1 .. Len(env) - 1 /\ \A j \in DOMAIN d : d[j] = env[j]
    BY <1>1, <2>1, PoppedScope
  <2>3. Len(env) - 1 = 1 /\ 1 \in 1 .. 1
    BY <1>3
  <2>4. Len(d) = 1 /\ DOMAIN d = {1} /\ d[1] = NewScope
    BY <1>3, <2>2, <2>3
  <2>5. DOMAIN NewScope = {}
    BY DEF NewScope
  <2> QED
    BY <1>1, <2>1, <2>4, <2>5
<1>11. IsShaped'
  BY <1>1, <1>2, <1>7, <1>10 DEF Inv, IsShaped
<1>12. KnowsOpenBlocks'
  <2>1. TargetsExist(g, loops)
    BY <1>3, <1>7, TargetsStay DEF Inv, KnowsOpenBlocks
  <2> QED
    BY <1>1, <1>2, <1>5, <1>9, <2>1 DEF KnowsOpenBlocks
<1>13. CountsScopes'
  <2>1. Len(program') + Len(frames') <= MaxTokens /\ Len(loops') = LoopsBelow(frames', Len(frames') + 1)
    BY <1>1 DEF Inv, CountsScopes
  <2> QED
    BY <1>1, <1>10, <2>1 DEF CountsScopes
<1>14. KnowsSlots'
  <2>1. SlotsKnown(g, env', <<>>)
    BY <1>10, NothingBound
  <2> QED
    BY <1>1, <1>2, <2>1 DEF KnowsSlots
<1> QED
  BY <1>2, <1>7, <1>11, <1>12, <1>13, <1>14 DEF Inv

-----------------------------------------------------------------------------
(* The invariant *)

LEMMA StartIs ==
    ASSUME NEW f, f = [blocks |-> <<EmptyBlock>>, current |-> 1, values |-> 0, errors |-> {}]
    PROVE  /\ Sound(f) /\ OpenBlocks(f) = {1} /\ f.current = 1 /\ DOMAIN f.blocks = {1}
           /\ Len(f.blocks) = 1
<1>1. /\ EmptyBlock \in BlockSet /\ EmptyBlock.term = Open /\ EmptyBlock.preds = {}
      /\ EmptyBlock.code = <<>>
  <2>1. NoEvent \in Event
    BY DEF NoEvent, Event, Phases
  <2>2. Open \in TermSet
    BY <2>1 DEF Open, Term, TermSet, TermOps
  <2> QED
    BY <2>2 DEF EmptyBlock, BlockSet
<1>2. Open.uses = {} /\ Successors(Open) = {} /\ DOMAIN <<>> = {}
  <2>1. ToSet(<<>>) = {}
    BY DEF ToSet
  <2> QED
    BY <2>1 DEF Open, Term, Successors
<1>3. /\ f.blocks = <<EmptyBlock>> /\ f.current = 1 /\ f.values = 0 /\ f.errors = {}
  OBVIOUS
<1>4. f \in FunctionSet
  <2>1. <<EmptyBlock>> \in Seq(BlockSet)
    BY <1>1
  <2>2. 1 \in Nat /\ 0 \in Nat /\ {} \in SUBSET Errors
    OBVIOUS
  <2> QED
    BY <2>1, <2>2 DEF FunctionSet
<1> HIDE DEF EmptyBlock
<1>5. DOMAIN f.blocks = {1} /\ f.blocks[1] = EmptyBlock /\ Len(f.blocks) = 1
  BY <1>3
<1>6. EdgesMatch(f)
  BY <1>1, <1>2, <1>5 DEF EdgesMatch
<1>7. UsesDefined(f)
  BY <1>1, <1>2, <1>5 DEF UsesDefined
<1>8. PhisFit(f)
  BY <1>1, <1>2, <1>5 DEF PhisFit
<1>9. OpenBlocks(f) = {1}
  BY <1>1, <1>5 DEF OpenBlocks
<1> QED
  BY <1>3, <1>4, <1>5, <1>6, <1>7, <1>8, <1>9 DEF Sound

LEMMA InitInv ==
    ASSUME Init
    PROVE  Inv
<1>1. PICK f : f = [blocks |-> <<EmptyBlock>>, current |-> 1, values |-> 0, errors |-> {}]
  OBVIOUS
<1>2. Sound(f) /\ OpenBlocks(f) = {1} /\ f.current = 1 /\ DOMAIN f.blocks = {1} /\ Len(f.blocks) = 1
  BY <1>1, StartIs
<1>3. /\ program = <<>> /\ stages \in Flows /\ stages \in Nat /\ MaxTokens \in Nat
      /\ unit \in BOOLEAN
      /\ stages = 0 => stage = 0 /\ fn = f
      /\ stages # 0 => stage = 1 /\ fn = EnterBlock(SetTerminator(NewBlocks(f, stages + 1), Jump(2)), 2)
      /\ env = PushScope(<<NewScope>>) /\ loops = <<>> /\ frames = <<>> /\ done = FALSE
  BY <1>1, LoweringAssumption DEF Init
<1>4. PICK g : g = fn
  OBVIOUS
<1>5. /\ Sound(g) /\ OpenBlocks(g) \ {g.current} = StagesAhead /\ g.current \notin StagesAhead
  <2>1. CASE stages = 0
    <3>1. StagesAhead = {}
      BY <2>1 DEF StagesAhead
    <3> QED
      BY <1>2, <1>3, <1>4, <2>1, <3>1
  <2>2. CASE stages # 0
    <3>1. PICK n \in Nat : n = stages + 1
      BY <1>3
    <3>2. PICK h : h = NewBlocks(f, n)
      OBVIOUS
    <3>3. /\ Sound(h) /\ OpenBlocks(h) = OpenBlocks(f) \cup (Len(f.blocks) + 1 .. Len(f.blocks) + n)
          /\ h.current = f.current /\ Len(h.blocks) = Len(f.blocks) + n
      BY <1>2, <3>2, NewBlocksSound
    <3>4. /\ OpenBlocks(h) = {1} \cup (2 .. n + 1) /\ h.current = 1 /\ DOMAIN h.blocks = 1 .. n + 1
      <4>1. h \in FunctionSet
        BY <3>3 DEF Sound
      <4>2. DOMAIN h.blocks = 1 .. Len(h.blocks)
        BY <4>1, FunctionIs
      <4>3. 1 + 1 = 2 /\ 1 + n = n + 1
        OBVIOUS
      <4> QED
        BY <1>2, <3>3, <4>2, <4>3
    <3>5. PICK k \in Nat : k = 2
      OBVIOUS
    <3>6. k \in DOMAIN h.blocks /\ h.current \in OpenBlocks(h)
      BY <1>3, <2>2, <3>1, <3>4, <3>5
    <3>7. GoesOn(h, k, k, g)
      BY <1>3, <1>4, <2>2, <3>1, <3>2, <3>5 DEF GoesOn
    <3>8. Grows(h, g) /\ OpenBlocks(g) = OpenBlocks(h) \ {h.current} /\ g.current = k
      BY <3>3, <3>6, <3>7, GoesOnIs
    <3>9. StagesAhead = 3 .. n + 1
      <4>1. stage + 2 = 3 /\ stages + 2 = n + 1
        BY <1>3, <2>2, <3>1
      <4> QED
        BY <1>3, <2>2, <4>1 DEF StagesAhead
    <3>10. (({1} \cup (2 .. n + 1)) \ {1}) \ {k} = 3 .. n + 1 /\ k \notin 3 .. n + 1
      BY <3>5
    <3> QED
      BY <3>4, <3>8, <3>9, <3>10 DEF Grows
  <2> QED
    BY <2>1, <2>2
<1>6. /\ env \in Seq(ScopeSet) /\ Len(env) = 2 /\ env[1] = NewScope
      /\ \A j \in DOMAIN env : DOMAIN env[j] = {}
  <2>1. NewScope \in ScopeSet /\ DOMAIN NewScope = {}
    <3>1. NewScope \in [{} -> Nat] /\ DOMAIN NewScope = {}
      BY DEF NewScope
    <3> QED
      BY <3>1 DEF ScopeSet
  <2>2. PICK d : d = <<NewScope>>
    OBVIOUS
  <2>3. d \in Seq(ScopeSet) /\ Len(d) = 1 /\ d[1] = NewScope /\ 1 \in DOMAIN d
    BY <2>1, <2>2
  <2>4. PICK e : e = PushScope(d)
    OBVIOUS
  <2>5. e \in Seq(ScopeSet) /\ Len(e) = Len(d) + 1 /\ e[1] = d[1] /\ e[Len(d) + 1] = NewScope
    BY <2>3, <2>4, PushIs
  <2>6. Len(d) + 1 = 2
    BY <2>3
  <2>7. Len(e) = 2 /\ e[1] = NewScope /\ e[2] = NewScope
    BY <2>3, <2>5, <2>6
  <2>8. \A j \in DOMAIN e : j = 1 \/ j = 2
    <3>1. DOMAIN e = 1 .. 2
      BY <2>5, <2>7, SequenceIs
    <3> QED
      BY <3>1
  <2>9. \A j \in DOMAIN e : DOMAIN e[j] = {}
    BY <2>1, <2>7, <2>8
  <2>10. e = env
    BY <1>3, <2>2, <2>4
  <2> QED
    BY <2>5, <2>7, <2>9, <2>10
<1>7. IsShaped
  <2>1. g \in FunctionSet
    BY <1>5 DEF Sound
  <2>2. stage \in 0 .. stages /\ (stages # 0 => stage # 0)
    BY <1>3
  <2>3. program \in Seq(ToSet(program)) /\ loops \in Seq(Targets) /\ frames \in Seq(FrameSet)
    BY <1>3
  <2> QED
    BY <1>3, <1>4, <1>6, <2>1, <2>2, <2>3 DEF IsShaped
<1>8. KnowsOpenBlocks
  <2>1. WaitsFor(fn, frames, StagesAhead)
    BY <1>3, <1>4, <1>5, NoOneWaits
  <2>2. TargetsExist(fn, loops)
    BY <1>3, NoFrames DEF TargetsExist
  <2> QED
    BY <1>3, <2>1, <2>2 DEF KnowsOpenBlocks
<1>9. CountsScopes
  <2>1. Len(program) + 0 <= MaxTokens
    BY <1>3
  <2>2. Len(frames) = 0 /\ Len(frames) + 1 = 1 /\ Len(loops) = 0
    BY <1>3
  <2> QED
    BY <1>3, <1>6, <2>1, <2>2, NoFrames DEF CountsScopes
<1>10. KnowsSlots
  BY <1>3, <1>6, NothingBound DEF KnowsSlots
<1> QED
  BY <1>4, <1>5, <1>7, <1>8, <1>9, <1>10 DEF Inv

LEMMA BreakPreserves ==
    ASSUME Inv, Break
    PROVE  Inv'
<1> DEFINE target == IF loops = <<>> THEN 0 ELSE Last(loops).break
<1>1. LeaveFor("break", target)
  BY DEF Break
<1>2. loops # <<>> => target \in {Last(loops).break, Last(loops).continue}
  OBVIOUS
<1> HIDE DEF target
<1> QED
  BY <1>1, <1>2, LeaveForPreserves

LEMMA ContinuePreserves ==
    ASSUME Inv, Continue
    PROVE  Inv'
<1> DEFINE target == IF loops = <<>> THEN 0 ELSE Last(loops).continue
<1>1. LeaveFor("continue", target)
  BY DEF Continue
<1>2. loops # <<>> => target \in {Last(loops).break, Last(loops).continue}
  OBVIOUS
<1> HIDE DEF target
<1> QED
  BY <1>1, <1>2, LeaveForPreserves

LEMMA NextPreserves ==
    ASSUME Inv, [Next]_vars
    PROVE  Inv'
<1>1. CASE UNCHANGED vars
  <2>1. Sound(fn') /\ IsShaped' /\ CountsScopes' /\ KnowsSlots'
    BY <1>1 DEF vars, Inv, IsShaped, CountsScopes, KnowsSlots
  <2>2. StagesAhead' = StagesAhead
    BY <1>1 DEF vars, StagesAhead
  <2>3. KnowsOpenBlocks'
    BY <1>1, <2>2 DEF vars, Inv, KnowsOpenBlocks
  <2> QED
    BY <2>1, <2>3 DEF Inv
<1>2. ASSUME NEW name \in Names, Let(name) PROVE Inv'
  BY <1>2, LetPreserves
<1>3. ASSUME NEW name \in Names, Use(name) PROVE Inv'
  BY <1>3, UsePreserves
<1>4. ASSUME NEW name \in Names, Assign(name) PROVE Inv'
  BY <1>4, AssignPreserves
<1>5. ASSUME NEW name \in Names, BeginFor(name) PROVE Inv'
  BY <1>5, BeginForPreserves
<1>6. CASE Return
  BY <1>6, ReturnPreserves
<1>7. CASE Break
  BY <1>7, BreakPreserves
<1>8. CASE Continue
  BY <1>8, ContinuePreserves
<1>9. CASE BeginIf
  BY <1>9, BeginIfPreserves
<1>10. CASE Else
  BY <1>10, ElsePreserves
<1>11. CASE EndIf
  BY <1>11, EndIfPreserves
<1>12. CASE BeginWhile
  BY <1>12, BeginWhilePreserves
<1>13. CASE EndWhile
  BY <1>13, EndWhilePreserves
<1>14. CASE EndFor
  BY <1>14, EndForPreserves
<1>15. CASE NextStage
  BY <1>15, NextStagePreserves
<1>16. CASE Finish
  BY <1>16, FinishPreserves
<1> QED
  BY <1>1, <1>2, <1>3, <1>4, <1>5, <1>6, <1>7, <1>8, <1>9, <1>10, <1>11, <1>12, <1>13,
     <1>14, <1>15, <1>16 DEF Next

LEMMA Invariance == Spec => []Inv
<1>1. Init => Inv
  BY InitInv
<1>2. Inv /\ [Next]_vars => Inv'
  BY NextPreserves
<1> QED
  BY <1>1, <1>2, PTL DEF Spec

-----------------------------------------------------------------------------
(* What a reader of the blocks relies on *)

LEMMA CountsAll ==
    ASSUME Inv
    PROVE  /\ Len(env) = (IF done THEN 1 ELSE 2) + Len(frames) + Cardinality(OpenFors)
           /\ Len(loops) = Cardinality(OpenLoops)
<1>1. Len(frames) \in Nat /\ DOMAIN frames = 1 .. Len(frames)
  BY Indices
<1>2. PICK n \in Nat \ {0} : n = Len(frames) + 1
  BY <1>1
<1>3. n - 1 = Len(frames)
  BY <1>1, <1>2
<1>4. \A kinds : KindsBelow(frames, n, kinds) = {k \in DOMAIN frames : frames[k].kind \in kinds}
  BY <1>1, <1>3 DEF KindsBelow
<1>5. KindsBelow(frames, n, {"for"}) = OpenFors /\ KindsBelow(frames, n, {"while", "for"}) = OpenLoops
  BY <1>4 DEF OpenFors, OpenLoops
<1>6. Cardinality(OpenFors) \in Nat
  BY <1>5, KindsBelowIs
<1>7. /\ ScopesBelow(frames, n) = 1 + n + Cardinality(OpenFors)
      /\ LoopsBelow(frames, n) = Cardinality(OpenLoops)
  BY <1>5 DEF ScopesBelow, LoopsBelow
<1>8. /\ IF done THEN Len(env) = 1 ELSE Len(env) = ScopesBelow(frames, n)
      /\ Len(loops) = LoopsBelow(frames, n)
  BY <1>2 DEF Inv, CountsScopes
<1>9. CASE ~done
  BY <1>1, <1>2, <1>6, <1>7, <1>8, <1>9
<1>10. CASE done
  <2>1. frames = <<>>
    BY <1>10 DEF Inv, KnowsOpenBlocks
  <2>2. Len(frames) = 0 /\ OpenFors = {}
    BY <2>1 DEF OpenFors
  <2>3. Cardinality(OpenFors) = 0
    BY <2>2, FS_EmptySet
  <2> QED
    BY <1>7, <1>8, <1>10, <2>2, <2>3
<1> QED
  BY <1>9, <1>10

(* The lowerer is never lost, whatever the nesting of the statements: the  *)
(* blocks without an end are the current one and those that an open        *)
(* statement or a stage to come still fills, and scopes and loop targets   *)
(* are pushed and popped in step with the statements (lower_statement,     *)
(* lower_if, lower_while, lower_for and lower_flow in lower.rs).           *)
THEOREM TypeCorrect == Spec => []TypeOK
<1>1. ASSUME Inv PROVE TypeOK
  <2>1. fn \in FunctionSet /\ fn.current \in DOMAIN fn.blocks
    BY <1>1 DEF Inv, Sound
  <2>2. fn.values \in Nat
    BY <2>1, FunctionIs
  <2>3. {b \in DOMAIN fn.blocks : fn.blocks[b].term = Open} \ {fn.current} =
           ((UNION {Awaited(frames[i]) : i \in DOMAIN frames}) \cup StagesAhead) \ {fn.current}
    <3>1. /\ OpenBlocks(fn) \ {fn.current} = AwaitedBy(frames) \cup StagesAhead
          /\ fn.current \notin AwaitedBy(frames) \cup StagesAhead
      BY <1>1 DEF Inv, KnowsOpenBlocks, WaitsFor
    <3>2. OpenBlocks(fn) \ {fn.current} = (AwaitedBy(frames) \cup StagesAhead) \ {fn.current}
      BY <3>1
    <3> DEFINE opened == {c \in DOMAIN fn.blocks : fn.blocks[c].term = Open}
               awaited == UNION {Awaited(frames[i]) : i \in DOMAIN frames}
    <3>3. opened = OpenBlocks(fn)
      BY DEF OpenBlocks
    <3>4. awaited = AwaitedBy(frames)
      BY DEF AwaitedBy
    <3> HIDE DEF opened, awaited
    <3>5. opened \ {fn.current} = (awaited \cup StagesAhead) \ {fn.current}
      BY <3>2, <3>3, <3>4
    <3> QED
      BY <3>5 DEF opened, awaited
  <2>4. /\ Len(env) = (IF done THEN 1 ELSE 2) + Len(frames) + Cardinality(OpenFors)
        /\ Len(loops) = Cardinality(OpenLoops)
    BY <1>1, CountsAll
  <2>5. Len(program) <= MaxTokens
    <3>1. Len(program) + Len(frames) <= MaxTokens
      BY <1>1 DEF Inv, CountsScopes
    <3>2. Len(program) \in Nat /\ Len(frames) \in Nat /\ MaxTokens \in Nat
      BY <1>1, Indices, LoweringAssumption
    <3> QED
      BY <3>1, <3>2
  <2>6. stage \in 0 .. stages
    BY <1>1 DEF Inv, IsShaped
  <2> QED
    BY <2>1, <2>2, <2>3, <2>4, <2>5, <2>6 DEF TypeOK, Blocks, BlockTerm
<1> QED
  BY <1>1, Invariance, PTL

(* validate_function, told in terms of Sound.                              *)
LEMMA SoundIsValid ==
    ASSUME Sound(fn), OpenBlocks(fn) = {}
    PROVE  /\ ValidateFunction.missingTerminator = {} /\ ValidateFunction.invalidEdge = {}
           /\ ValidateFunction.undefinedValue = {} /\ ValidateFunction.invalidPhiInput = {}
<1>1. /\ fn \in FunctionSet
      /\ EdgesMatch(fn) /\ UsesDefined(fn) /\ PhisFit(fn)
  BY DEF Sound
<1>2. DOMAIN fn.blocks = 1 .. Len(fn.blocks) /\ Len(fn.blocks) \in Nat
  BY <1>1, FunctionIs
<1>3. \A b \in Blocks : DOMAIN Code(b) = 1 .. Len(Code(b)) /\ Len(Code(b)) \in Nat
  BY <1>1, FunctionIs DEF Blocks, Code
<1>4. \A b \in Blocks : \A i \in DOMAIN Code(b) : <<b, i>> \in Sites /\ InstrAt(<<b, i>>) = Code(b)[i]
  BY DEF Sites, InstrAt
<1>5. \A s \in Sites : \E b \in Blocks : \E i \in DOMAIN Code(b) : s = <<b, i>>
  BY DEF Sites
<1>6. ValidateFunction.missingTerminator = {}
  BY DEF ValidateFunction, OpenBlocks, Blocks, BlockTerm
<1>7. ValidateFunction.invalidEdge = {}
  BY <1>1 DEF ValidateFunction, EdgesMatch, Blocks, BlockTerm
<1>8. ValidateFunction.invalidPhiInput = {}
  <2>1. ASSUME NEW s \in Sites, NEW input \in InstrAt(s).inputs
        PROVE  input[2] \in fn.blocks[s[1]].preds
    <3>1. PICK b \in Blocks : \E i \in DOMAIN Code(b) : s = <<b, i>>
      BY <1>5
    <3>2. PICK i \in DOMAIN Code(b) : s = <<b, i>>
      BY <3>1
    <3>3. InstrAt(s) = fn.blocks[b].code[i] /\ s[1] = b
      BY <1>4, <3>2 DEF Code
    <3> QED
      BY <1>1, <2>1, <3>3 DEF PhisFit, Blocks, Code
  <2> QED
    BY <2>1 DEF ValidateFunction
<1>9. ASSUME NEW v, NEW b, DefinedBy(fn, v, b) PROVE IsDefined(v)
  <2>1. PICK c \in Blocks : \E j \in DOMAIN Code(c) : Code(c)[j].def = v
    BY <1>9 DEF DefinedBy, Blocks, Code
  <2>2. PICK j \in DOMAIN Code(c) : Code(c)[j].def = v
    BY <2>1
  <2> QED
    BY <1>4, <2>2 DEF IsDefined
<1>10. ASSUME NEW b \in Blocks, NEW k, NEW v, Available(fn, v, b, k)
       PROVE  v \in DefinedBefore(<<b, k>>)
  <2>1. PICK c \in Blocks : \E j \in DOMAIN Code(c) : (c < b \/ (c = b /\ j < k)) /\ Code(c)[j].def = v
    BY <1>10 DEF Available, Blocks, Code
  <2>2. PICK j \in DOMAIN Code(c) : (c < b \/ (c = b /\ j < k)) /\ Code(c)[j].def = v
    BY <2>1
  <2>3. PICK t \in Sites : t[1] = c /\ t[2] = j /\ InstrAt(t).def = v
    BY <1>4, <2>2
  <2>4. PICK s : s = <<b, k>>
    OBVIOUS
  <2>5. t[1] < s[1] \/ (t[1] = s[1] /\ t[2] < s[2])
    BY <2>2, <2>3, <2>4
  <2>6. v \in DefinedBefore(s)
    BY <2>3, <2>5 DEF DefinedBefore
  <2> QED
    BY <2>4, <2>6
<1>11. ASSUME NEW s \in Sites
       PROVE  /\ InstrAt(s).uses \subseteq DefinedBefore(s)
              /\ \A input \in InstrAt(s).inputs : IsDefined(input[1])
  <2>1. PICK b \in Blocks : \E i \in DOMAIN Code(b) : s = <<b, i>>
    BY <1>5
  <2>2. PICK i \in DOMAIN Code(b) : s = <<b, i>>
    BY <2>1
  <2>3. InstrAt(s) = Code(b)[i]
    BY <1>4, <2>2
  <2>4. \A v \in Code(b)[i].uses : Available(fn, v, b, i)
    BY <1>1 DEF UsesDefined, Blocks, Code
  <2>5. \A v \in Code(b)[i].uses : v \in DefinedBefore(<<b, i>>)
    BY <1>10, <2>4
  <2>6. \A input \in Code(b)[i].inputs : DefinedBy(fn, input[1], Len(fn.blocks))
    BY <1>1 DEF PhisFit, Blocks, Code
  <2>7. \A input \in Code(b)[i].inputs : IsDefined(input[1])
    BY <1>9, <2>6
  <2> QED
    BY <2>2, <2>3, <2>5, <2>7
<1>12. ASSUME NEW b \in Blocks PROVE BlockTerm(b).uses \subseteq DefinedBefore(<<b, Len(Code(b)) + 1>>)
  <2>1. PICK k : k = Len(Code(b)) + 1
    OBVIOUS
  <2>2. ASSUME NEW v \in BlockTerm(b).uses PROVE Available(fn, v, b, k)
    <3>1. DefinedBy(fn, v, b)
      BY <1>1, <2>2 DEF UsesDefined, Blocks, BlockTerm
    <3>2. PICK c \in Blocks : c <= b /\ \E j \in DOMAIN Code(c) : Code(c)[j].def = v
      BY <3>1 DEF DefinedBy, Blocks, Code
    <3>3. PICK j \in DOMAIN Code(c) : Code(c)[j].def = v
      BY <3>2
    <3>4. b \in Nat /\ c \in Nat
      BY <1>2 DEF Blocks
    <3>5. c < b \/ (c = b /\ j < k)
      BY <1>3, <2>1, <3>2, <3>4
    <3> QED
      BY <3>3, <3>5 DEF Available, Blocks, Code
  <2>3. BlockTerm(b).uses \subseteq DefinedBefore(<<b, k>>)
    BY <1>10, <2>2
  <2> QED
    BY <2>1, <2>3
<1>13. ValidateFunction.undefinedValue = {}
  <2>1. ValidateFunction.undefinedValue =
          {s \in Sites :
              \/ ~(InstrAt(s).uses \subseteq DefinedBefore(s))
              \/ \E input \in InstrAt(s).inputs : ~IsDefined(input[1])}
          \cup {<<b, Len(Code(b)) + 1>> : b \in {b \in Blocks :
              ~(BlockTerm(b).uses \subseteq DefinedBefore(<<b, Len(Code(b)) + 1>>))}}
    BY DEF ValidateFunction
  <2>2. {s \in Sites :
            \/ ~(InstrAt(s).uses \subseteq DefinedBefore(s))
            \/ \E input \in InstrAt(s).inputs : ~IsDefined(input[1])} = {}
    BY <1>11
  <2>3. {b \in Blocks : ~(BlockTerm(b).uses \subseteq DefinedBefore(<<b, Len(Code(b)) + 1>>))} = {}
    BY <1>12
  <2> QED
    BY <2>1, <2>2, <2>3
<1> QED
  BY <1>6, <1>7, <1>8, <1>13

(* What the lowerer makes passes validate_function (validate.rs): every    *)
(* block has an end, every edge is between blocks and recorded at both,    *)
(* every value is computed before it is used in the order of the blocks,   *)
(* and the inputs of a phi come from predecessors.  validate_module, which *)
(* lower_module calls last (lower.rs:226), adds no error of its own.       *)
THEOREM BlocksValidate == Spec => []Validates
<1>1. ASSUME Inv, done PROVE OpenBlocks(fn) = {}
  <2>1. frames = <<>> /\ Terminated(fn)
    BY <1>1 DEF Inv, KnowsOpenBlocks
  <2>2. StagesAhead = {}
    BY <1>1 DEF StagesAhead
  <2>3. OpenBlocks(fn) \ {fn.current} = {}
    BY <1>1, <2>1, <2>2, NoFrames DEF Inv, KnowsOpenBlocks, WaitsFor
  <2>4. fn.current \notin OpenBlocks(fn)
    BY <2>1 DEF Terminated, OpenBlocks
  <2> QED
    BY <2>3, <2>4
<1>2. ASSUME Inv PROVE Validates
  <2>1. ASSUME Lowered
        PROVE  /\ \A check \in DOMAIN ValidateFunction : ValidateFunction[check] = {}
               /\ \A b, c \in Blocks : c \in Successors(BlockTerm(b)) <=> b \in fn.blocks[c].preds
    <3>1. Sound(fn) /\ OpenBlocks(fn) = {}
      BY <1>1, <1>2, <2>1 DEF Lowered, Inv
    <3>2. \A b, c \in Blocks : c \in Successors(BlockTerm(b)) <=> b \in fn.blocks[c].preds
      BY <3>1 DEF Sound, EdgesMatch, Blocks, BlockTerm
    <3>3. DOMAIN ValidateFunction =
            {"missingTerminator", "invalidEdge", "undefinedValue", "invalidPhiInput"}
      BY DEF ValidateFunction
    <3>4. /\ ValidateFunction.missingTerminator = {} /\ ValidateFunction.invalidEdge = {}
          /\ ValidateFunction.undefinedValue = {} /\ ValidateFunction.invalidPhiInput = {}
      BY <3>1, SoundIsValid
    <3>5. \A check \in DOMAIN ValidateFunction : ValidateFunction[check] = {}
      BY <3>3, <3>4
    <3> QED
      BY <3>2, <3>5
  <2> QED
    BY <2>1 DEF Validates
<1> QED
  BY <1>2, Invariance, PTL
=============================================================================
