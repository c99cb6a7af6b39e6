------------------------- MODULE IrDominanceProofs -------------------------
(***************************************************************************)
(* Proofs about IrLowering: for programs of any size and nesting, a value  *)
(* is computed on every path to its uses, and a phi has one input for each *)
(* predecessor.                                                            *)
(***************************************************************************)
EXTENDS IrLoweringProofs, FunctionTheorems

-----------------------------------------------------------------------------
(* Dominance without paths: a guards b when some blocks, the entry among   *)
(* them, can be left only into a, and neither a nor b is one of them.      *)

Edges(f, b) == Successors(f.blocks[b].term)
Shuts(f, a, S) ==
    /\ S \subseteq DOMAIN f.blocks
    /\ a \notin S
    /\ a # 1 => 1 \in S
    /\ \A x \in S : Edges(f, x) \subseteq S \cup {a}
Guards(f, a, b) == \E S : Shuts(f, a, S) /\ b \notin S

-----------------------------------------------------------------------------
(* A function under construction whose values dominate their uses.         *)

Shaped(f) == f \in FunctionSet /\ f.current \in DOMAIN f.blocks /\ EdgesMatch(f)

DefinesIn(f, v, c) ==
    c \in DOMAIN f.blocks /\ \E j \in DOMAIN f.blocks[c].code : f.blocks[c].code[j].def = v
Defs(f) == {v \in Nat \ {0} : \E c : DefinesIn(f, v, c)}
Computed(f, v, b) == v # 0 /\ \E c : DefinesIn(f, v, c) /\ Guards(f, c, b)
Before(f, v, b, k) ==
    /\ v # 0
    /\ \E c \in DOMAIN f.blocks : \E j \in DOMAIN f.blocks[c].code :
          /\ f.blocks[c].code[j].def = v
          /\ IF c = b THEN j < k ELSE Guards(f, c, b)
Phis(code) == {k \in DOMAIN code : code[k].op = "phi"}
PhisOf(f, b) == {f.blocks[b].code[k].def : k \in Phis(f.blocks[b].code)}

OneDef(f) ==
    \A b, c \in DOMAIN f.blocks : \A j \in DOMAIN f.blocks[b].code, k \in DOMAIN f.blocks[c].code :
        f.blocks[b].code[j].def = f.blocks[c].code[k].def /\ f.blocks[b].code[j].def # 0 => b = c /\ j = k
UsesGuarded(f) ==
    \A b \in DOMAIN f.blocks :
        /\ \A k \in DOMAIN f.blocks[b].code : \A v \in f.blocks[b].code[k].uses : Before(f, v, b, k)
        /\ \A v \in f.blocks[b].term.uses : Computed(f, v, b)
InputsMatch(f, b, inputs) ==
    /\ {input[2] : input \in inputs} = f.blocks[b].preds
    /\ \A i, j \in inputs : i[2] = j[2] => i = j
    /\ \A input \in inputs : Computed(f, input[1], input[2])
PhisMatch(f) ==
    \A b \in DOMAIN f.blocks : \A k \in Phis(f.blocks[b].code) : InputsMatch(f, b, f.blocks[b].code[k].inputs)
Untouched(f) == \A b \in OpenBlocks(f) \ {f.current} : f.blocks[b].code = <<>>
Good(f) == Shaped(f) /\ OneDef(f) /\ UsesGuarded(f) /\ PhisMatch(f) /\ Untouched(f)

-----------------------------------------------------------------------------
(* Guarding *)

SameEdges(f, g) == DOMAIN g.blocks = DOMAIN f.blocks /\ \A b \in DOMAIN f.blocks : Edges(g, b) = Edges(f, b)

LEMMA GuardsSame ==
    ASSUME NEW f, NEW g, SameEdges(f, g), NEW a, NEW b, Guards(f, a, b)
    PROVE  Guards(g, a, b)
  BY DEF SameEdges, Guards, Shuts

LEMMA BlocksAre ==
    ASSUME NEW f, Shaped(f)
    PROVE  /\ DOMAIN f.blocks = 1 .. Len(f.blocks) /\ Len(f.blocks) \in Nat /\ f.current \in Nat
           /\ 1 \in DOMAIN f.blocks /\ f.values \in Nat
           /\ \A b \in DOMAIN f.blocks : Edges(f, b) \subseteq DOMAIN f.blocks
<1>1. /\ DOMAIN f.blocks = 1 .. Len(f.blocks) /\ Len(f.blocks) \in Nat /\ f.current \in Nat
      /\ f.values \in Nat /\ f.current \in DOMAIN f.blocks
  BY FunctionIs DEF Shaped
<1>2. 1 \in DOMAIN f.blocks
  BY <1>1
<1> QED
  BY <1>1, <1>2 DEF Shaped, EdgesMatch, Edges

LEMMA GuardsItself ==
    ASSUME NEW f, Shaped(f), NEW a
    PROVE  Guards(f, a, a)
<1>1. PICK S : S = DOMAIN f.blocks \ {a}
  OBVIOUS
<1>2. 1 \in DOMAIN f.blocks /\ \A b \in DOMAIN f.blocks : Edges(f, b) \subseteq DOMAIN f.blocks
  BY BlocksAre
<1>3. Shuts(f, a, S) /\ a \notin S
  BY <1>1, <1>2 DEF Shuts
<1> QED
  BY <1>3 DEF Guards

(* A block that no edge leads to is guarded by every other.                *)
LEMMA GuardsUnreached ==
    ASSUME NEW f, Shaped(f), NEW a, NEW b, b # 1, \A x \in DOMAIN f.blocks : b \notin Edges(f, x)
    PROVE  Guards(f, a, b)
<1>1. PICK S : S = DOMAIN f.blocks \ {a, b}
  OBVIOUS
<1>2. 1 \in DOMAIN f.blocks /\ \A x \in DOMAIN f.blocks : Edges(f, x) \subseteq DOMAIN f.blocks
  BY BlocksAre
<1>3. Shuts(f, a, S) /\ b \notin S
  BY <1>1, <1>2 DEF Shuts
<1> QED
  BY <1>3 DEF Guards

(* The end of block c may lead to blocks that nothing leaves yet (fresh),  *)
(* and back to blocks that guard c: no block loses a guard but the fresh   *)
(* ones, which keep those they share with c.                               *)
LEMMA GuardsStay ==
    ASSUME NEW f, Shaped(f), NEW c \in DOMAIN f.blocks, Edges(f, c) = {},
           NEW T, NEW fresh, NEW g, DOMAIN g.blocks = DOMAIN f.blocks,
           Edges(g, c) = T, \A x \in DOMAIN f.blocks : x # c => Edges(g, x) = Edges(f, x),
           \A t \in T : t \in DOMAIN f.blocks /\ t # c,
           \A t \in T : IF t \in fresh THEN Edges(f, t) = {} ELSE Guards(f, t, c),
           NEW a, NEW b, Guards(f, a, b), b \in T \cap fresh => Guards(f, a, c)
    PROVE  Guards(g, a, b)
<1>1. PICK S : Shuts(f, a, S) /\ b \notin S
  BY DEF Guards
<1>2. CASE c \notin S
  <2>1. Shuts(g, a, S)
    BY <1>1, <1>2 DEF Shuts
  <2> QED
    BY <1>1, <2>1 DEF Guards
<1>3. CASE c \in S
  <2>1. CASE \E t \in T : t \notin fresh /\ t \notin S /\ t # a
    <3>1. PICK t \in T : t \notin fresh /\ t \notin S /\ t # a
      BY <2>1
    <3>2. PICK U : Shuts(f, t, U) /\ c \notin U
      BY <3>1 DEF Guards
    <3>3. PICK R : R = S \cap U
      OBVIOUS
    <3>4. a # 1 => 1 \in R
      BY <1>1, <3>1, <3>2, <3>3 DEF Shuts
    <3>5. R \subseteq DOMAIN g.blocks /\ a \notin R /\ b \notin R
      BY <1>1, <3>3 DEF Shuts
    <3>6. ASSUME NEW x \in R, NEW y \in Edges(g, x), y # a PROVE y \in R
      <4>1. x \in S /\ x \in U /\ x # c /\ x \in DOMAIN f.blocks
        BY <1>1, <3>2, <3>3, <3>6 DEF Shuts
      <4>2. y \in Edges(f, x)
        BY <3>6, <4>1
      <4>3. y \in S
        BY <1>1, <3>6, <4>1, <4>2 DEF Shuts
      <4>4. y \in U
        BY <3>1, <3>2, <4>1, <4>2, <4>3 DEF Shuts
      <4> QED
        BY <3>3, <4>3, <4>4
    <3>7. Shuts(g, a, R)
      BY <3>4, <3>5, <3>6 DEF Shuts
    <3> QED
      BY <3>5, <3>7 DEF Guards
  <2>2. CASE \A t \in T : t \in fresh \/ t \in S \/ t = a
    <3>1. PICK O : O = T \cap fresh
      OBVIOUS
    <3>2. CASE b \in O
      <4>1. PICK V : Shuts(f, a, V) /\ c \notin V
        BY <3>1, <3>2 DEF Guards
      <4>2. PICK R : R = S \cap V
        OBVIOUS
      <4>3. (a # 1 => 1 \in R) /\ R \subseteq DOMAIN g.blocks /\ a \notin R /\ b \notin R
        BY <1>1, <4>1, <4>2 DEF Shuts
      <4>4. ASSUME NEW x \in R, NEW y \in Edges(g, x), y # a PROVE y \in R
        <5>1. x \in S /\ x \in V /\ x # c /\ x \in DOMAIN f.blocks
          BY <1>1, <4>1, <4>2, <4>4 DEF Shuts
        <5>2. y \in Edges(f, x)
          BY <4>4, <5>1
        <5> QED
          BY <1>1, <4>1, <4>2, <4>4, <5>1, <5>2 DEF Shuts
      <4>5. Shuts(g, a, R)
        BY <4>3, <4>4 DEF Shuts
      <4> QED
        BY <4>3, <4>5 DEF Guards
    <3>3. CASE b \notin O
      <4>1. PICK R : R = S \cup (O \ {a})
        OBVIOUS
      <4>2. (a # 1 => 1 \in R) /\ R \subseteq DOMAIN g.blocks /\ a \notin R /\ b \notin R
        BY <1>1, <3>1, <3>3, <4>1 DEF Shuts
      <4>3. ASSUME NEW x \in R, NEW y \in Edges(g, x), y # a PROVE y \in R
        <5>1. CASE x = c
          BY <1>3, <2>2, <3>1, <4>1, <4>3, <5>1
        <5>2. CASE x # c /\ x \in S
          <6>1. y \in Edges(f, x)
            BY <1>1, <4>3, <5>2 DEF Shuts
          <6> QED
            BY <1>1, <4>1, <4>3, <5>2, <6>1 DEF Shuts
        <5>3. CASE x # c /\ x \in O
          BY <3>1, <4>3, <5>3
        <5> QED
          BY <4>1, <4>3, <5>1, <5>2, <5>3
      <4>4. Shuts(g, a, R)
        BY <4>2, <4>3 DEF Shuts
      <4> QED
        BY <4>2, <4>4 DEF Guards
    <3> QED
      BY <3>2, <3>3
  <2> QED
    BY <2>1, <2>2
<1> QED
  BY <1>2, <1>3

(* New blocks take no guard away, and every block guards them.             *)
LEMMA GuardsGrow ==
    ASSUME NEW f, Shaped(f), NEW g, Shaped(g), DOMAIN f.blocks \subseteq DOMAIN g.blocks,
           \A x \in DOMAIN f.blocks : Edges(g, x) = Edges(f, x),
           \A x \in DOMAIN g.blocks \ DOMAIN f.blocks : Edges(g, x) = {}
    PROVE  /\ \A a, b : Guards(f, a, b) => Guards(g, a, b)
           /\ \A a : \A b \in DOMAIN g.blocks \ DOMAIN f.blocks : Guards(g, a, b)
<1>1. ASSUME NEW a, NEW b, Guards(f, a, b) PROVE Guards(g, a, b)
  BY <1>1 DEF Guards, Shuts
<1>2. ASSUME NEW a, NEW b \in DOMAIN g.blocks \ DOMAIN f.blocks PROVE Guards(g, a, b)
  <2>1. b # 1
    BY BlocksAre
  <2>2. \A x \in DOMAIN g.blocks : b \notin Edges(g, x)
    BY <1>2, BlocksAre
  <2> QED
    BY <2>1, <2>2, GuardsUnreached
<1> QED
  BY <1>1, <1>2

-----------------------------------------------------------------------------
(* What the operations do to the blocks *)

LEMMA OpenEnd == Successors(Open) = {} /\ Open.uses = {}
  BY DEF Successors, ToSet, Open, Term

LEMMA NothingFollows ==
    ASSUME NEW f, NEW b \in OpenBlocks(f)
    PROVE  Edges(f, b) = {} /\ b \in DOMAIN f.blocks
  BY OpenEnd DEF OpenBlocks, Edges

LEMMA SetTerminatorShape ==
    ASSUME NEW f, Shaped(f), f.current \in OpenBlocks(f), NEW term \in TermSet, term # Open,
           Successors(term) \subseteq DOMAIN f.blocks
    PROVE  LET g == SetTerminator(f, term)
           IN  /\ Shaped(g)
               /\ OpenBlocks(g) = OpenBlocks(f) \ {f.current}
               /\ g.current = f.current /\ g.values = f.values
               /\ DOMAIN g.blocks = DOMAIN f.blocks
               /\ \A b \in DOMAIN f.blocks :
                     /\ g.blocks[b].code = f.blocks[b].code
                     /\ g.blocks[b].term = IF b = f.current THEN term ELSE f.blocks[b].term
                     /\ g.blocks[b].preds =
                           IF b \in Successors(term) THEN f.blocks[b].preds \cup {f.current}
                                                     ELSE f.blocks[b].preds
<1> DEFINE g == SetTerminator(f, term)
           here == f.current
           ended == [b \in DOMAIN f.blocks |->
                        [f.blocks[b] EXCEPT
                            !.term = IF b = here THEN term ELSE @,
                            !.preds = IF b \in Successors(term) THEN @ \cup {here} ELSE @]]
<1>1. f \in FunctionSet
  BY DEF Shaped
<1>2. /\ f.blocks \in Seq(BlockSet) /\ here \in DOMAIN f.blocks
      /\ DOMAIN f.blocks = 1 .. Len(f.blocks) /\ Len(f.blocks) \in Nat
  BY <1>1, FunctionIs DEF Shaped
<1>3. ASSUME NEW b \in DOMAIN f.blocks
      PROVE  /\ ended[b] \in BlockSet
             /\ ended[b].term = IF b = here THEN term ELSE f.blocks[b].term
             /\ ended[b].preds = IF b \in Successors(term) THEN f.blocks[b].preds \cup {here}
                                                           ELSE f.blocks[b].preds
             /\ ended[b].code = f.blocks[b].code
  <2>1. f.blocks[b] \in BlockSet /\ here \in Nat
    BY <1>1, <1>2, FunctionIs
  <2> QED
    BY <2>1 DEF BlockSet
<1>4. ended \in Seq(BlockSet) /\ DOMAIN ended = DOMAIN f.blocks
  <2>1. ended \in [1 .. Len(f.blocks) -> BlockSet]
    <3>1. DOMAIN ended = 1 .. Len(f.blocks) /\ \A b \in 1 .. Len(f.blocks) : ended[b] \in BlockSet
      BY <1>2, <1>3
    <3>2. ended = [b \in DOMAIN ended |-> ended[b]]
      OBVIOUS
    <3> HIDE DEF ended
    <3> QED
      BY <3>1, <3>2
  <2> HIDE DEF ended
  <2> QED
    BY <1>2, <2>1
<1>10. ~Terminated(f)
  BY DEF Terminated, OpenBlocks
<1>5. g = [f EXCEPT !.blocks = ended]
  BY <1>10 DEF SetTerminator
<1> HIDE DEF ended, g
<1>6. g \in FunctionSet /\ g.blocks = ended /\ g.current = here /\ g.values = f.values
  BY <1>1, <1>4, <1>5 DEF FunctionSet
<1>7. DOMAIN g.blocks = DOMAIN f.blocks
  BY <1>4, <1>6
<1>8. \A b \in DOMAIN f.blocks :
         /\ g.blocks[b].code = f.blocks[b].code
         /\ g.blocks[b].term = IF b = here THEN term ELSE f.blocks[b].term
         /\ g.blocks[b].preds = IF b \in Successors(term) THEN f.blocks[b].preds \cup {here}
                                                          ELSE f.blocks[b].preds
  BY <1>3, <1>6
<1>9. f.blocks[here].term = Open
  BY DEF OpenBlocks
<1>11. EdgesMatch(g)
  <2> SUFFICES ASSUME NEW b \in DOMAIN f.blocks
               PROVE  /\ Successors(g.blocks[b].term) \subseteq DOMAIN f.blocks
                      /\ g.blocks[b].preds \subseteq DOMAIN f.blocks
                      /\ \A c \in DOMAIN f.blocks :
                            c \in Successors(g.blocks[b].term) <=> b \in g.blocks[c].preds
    BY <1>7 DEF EdgesMatch
  <2>1. /\ Successors(f.blocks[b].term) \subseteq DOMAIN f.blocks
        /\ f.blocks[b].preds \subseteq DOMAIN f.blocks
        /\ \A c \in DOMAIN f.blocks :
              c \in Successors(f.blocks[b].term) <=> b \in f.blocks[c].preds
    BY DEF Shaped, EdgesMatch
  <2>5. \A c \in DOMAIN f.blocks : \A a : a \in g.blocks[c].preds <=>
           a \in f.blocks[c].preds \/ (c \in Successors(term) /\ a = here)
    <3> SUFFICES ASSUME NEW c \in DOMAIN f.blocks, NEW a
                 PROVE  a \in g.blocks[c].preds <=>
                           a \in f.blocks[c].preds \/ (c \in Successors(term) /\ a = here)
      OBVIOUS
    <3>1. CASE c \in Successors(term)
      BY <1>8, <3>1, ZenonT(30)
    <3>2. CASE c \notin Successors(term)
      BY <1>8, <3>2, ZenonT(30)
    <3> QED
      BY <3>1, <3>2
  <2>2. g.blocks[b].preds \subseteq DOMAIN f.blocks
    BY <1>2, <2>1, <2>5
  <2>3. CASE b = here
    <3>1. Successors(g.blocks[b].term) = Successors(term)
      BY <1>8, <2>3
    <3>2. \A c \in DOMAIN f.blocks : b \notin f.blocks[c].preds
      BY OpenEnd, <1>9, <2>1, <2>3
    <3>3. \A c \in DOMAIN f.blocks : b \in g.blocks[c].preds <=> c \in Successors(term)
      BY <2>3, <2>5, <3>2
    <3> QED
      BY <2>2, <3>1, <3>3
  <2>4. CASE b # here
    <3>1. g.blocks[b].term = f.blocks[b].term
      BY <1>8, <2>4
    <3>2. \A c \in DOMAIN f.blocks : b \in g.blocks[c].preds <=> b \in f.blocks[c].preds
      BY <2>4, <2>5
    <3> QED
      BY <2>1, <2>2, <3>1, <3>2
  <2> QED
    BY <2>3, <2>4
<1>12. Shaped(g)
  BY <1>2, <1>6, <1>7, <1>11 DEF Shaped
<1>13. OpenBlocks(g) = OpenBlocks(f) \ {here}
  <2>1. \A b \in DOMAIN f.blocks : g.blocks[b].term = Open <=> b # here /\ f.blocks[b].term = Open
    <3> SUFFICES ASSUME NEW b \in DOMAIN f.blocks
                 PROVE  g.blocks[b].term = Open <=> b # here /\ f.blocks[b].term = Open
      OBVIOUS
    <3>1. CASE b = here
      BY <1>8, <3>1, Zenon
    <3>2. CASE b # here
      BY <1>8, <3>2, Zenon
    <3> QED
      BY <3>1, <3>2
  <2> QED
    BY <1>7, <2>1 DEF OpenBlocks
<1> QED
  BY <1>6, <1>7, <1>8, <1>12, <1>13 DEF g

LEMMA NewBlocksShape ==
    ASSUME NEW f, Shaped(f), NEW n \in Nat
    PROVE  LET g == NewBlocks(f, n)
           IN  /\ Shaped(g)
               /\ OpenBlocks(g) = OpenBlocks(f) \cup NewOnes(f, n)
               /\ g.current = f.current /\ g.values = f.values
               /\ DOMAIN g.blocks = DOMAIN f.blocks \cup NewOnes(f, n)
               /\ DOMAIN f.blocks \cap NewOnes(f, n) = {}
               /\ Len(g.blocks) = Len(f.blocks) + n
               /\ \A b \in DOMAIN f.blocks : g.blocks[b] = f.blocks[b]
               /\ \A b \in NewOnes(f, n) :
                     g.blocks[b].term = Open /\ g.blocks[b].preds = {} /\ g.blocks[b].code = <<>>
<1> DEFINE g == NewBlocks(f, n)
           m == Len(f.blocks)
           new == [i \in 1 .. n |-> EmptyBlock]
<1>1. f \in FunctionSet
  BY DEF Shaped
<1>2. /\ f.blocks \in Seq(BlockSet) /\ f.current \in DOMAIN f.blocks /\ m \in Nat
      /\ DOMAIN f.blocks = 1 .. m
  BY <1>1, FunctionIs DEF Shaped
<1>3. EmptyBlock \in BlockSet /\ EmptyBlock.term = Open /\ EmptyBlock.preds = {} /\ EmptyBlock.code = <<>>
  <2>1. NoEvent \in Event
    BY DEF NoEvent, Event, Phases
  <2>2. Open \in TermSet
    <3>1. <<>> \in Seq(Nat) /\ {} \in SUBSET Nat
      OBVIOUS
    <3> QED
      BY <2>1, <3>1 DEF Open, Term, TermSet, TermOps
  <2>3. <<>> \in Seq(InstrSet) /\ {} \in SUBSET Nat
    OBVIOUS
  <2> QED
    BY <2>2, <2>3 DEF EmptyBlock, BlockSet
<1>4. new \in Seq(BlockSet) /\ Len(new) = n /\ \A i \in 1 .. n : new[i] = EmptyBlock
  <2> HIDE DEF EmptyBlock
  <2>1. new \in [1 .. n -> BlockSet]
    BY <1>3
  <2> QED
    BY <2>1
<1> HIDE DEF new
<1>5. /\ f.blocks \o new \in Seq(BlockSet)
      /\ Len(f.blocks \o new) = m + n
      /\ \A b \in 1 .. m : (f.blocks \o new)[b] = f.blocks[b]
      /\ \A b \in m + 1 .. m + n : (f.blocks \o new)[b] = EmptyBlock
  <2>1. f.blocks \o new \in Seq(BlockSet) /\ Len(f.blocks \o new) = m + n
    BY <1>2, <1>4, ConcatProperties
  <2>2. \A b \in 1 .. m : (f.blocks \o new)[b] = f.blocks[b]
    BY <1>2, <1>4, ConcatProperties
  <2>3. ASSUME NEW b \in m + 1 .. m + n PROVE (f.blocks \o new)[b] = EmptyBlock
    <3>1. b - m \in 1 .. n /\ b \in 1 .. m + n /\ ~(b <= m)
      BY <1>2
    <3>2. (f.blocks \o new)[b] = new[b - m]
      BY <1>2, <1>4, <3>1, ConcatProperties
    <3> QED
      BY <1>4, <3>1, <3>2
  <2> QED
    BY <2>1, <2>2, <2>3
<1>6. /\ g \in FunctionSet /\ g.blocks = f.blocks \o new /\ g.current = f.current
      /\ g.values = f.values
  BY <1>1, <1>5 DEF NewBlocks, FunctionSet, new
<1> HIDE DEF g
<1>7. /\ Len(g.blocks) = m + n /\ DOMAIN g.blocks = 1 .. m + n
  BY <1>2, <1>5, <1>6, SequenceIs
<1>8. /\ DOMAIN g.blocks = DOMAIN f.blocks \cup NewOnes(f, n)
      /\ DOMAIN f.blocks \cap NewOnes(f, n) = {}
  BY <1>2, <1>7 DEF NewOnes
<1>9. /\ \A b \in DOMAIN f.blocks : g.blocks[b] = f.blocks[b]
      /\ \A b \in NewOnes(f, n) :
            g.blocks[b].term = Open /\ g.blocks[b].preds = {} /\ g.blocks[b].code = <<>>
  BY <1>2, <1>3, <1>5, <1>6 DEF NewOnes
<1>10. EdgesMatch(g)
  <2> SUFFICES ASSUME NEW b \in DOMAIN g.blocks
               PROVE  /\ Successors(g.blocks[b].term) \subseteq DOMAIN g.blocks
                      /\ g.blocks[b].preds \subseteq DOMAIN g.blocks
                      /\ \A c \in DOMAIN g.blocks :
                            c \in Successors(g.blocks[b].term) <=> b \in g.blocks[c].preds
    BY DEF EdgesMatch
  <2>1. CASE b \in DOMAIN f.blocks
    <3>1. /\ Successors(g.blocks[b].term) \subseteq DOMAIN f.blocks
          /\ g.blocks[b].preds \subseteq DOMAIN f.blocks
          /\ \A c \in DOMAIN f.blocks :
                c \in Successors(g.blocks[b].term) <=> b \in g.blocks[c].preds
      BY <1>9, <2>1 DEF Shaped, EdgesMatch
    <3> QED
      BY <1>8, <1>9, <3>1
  <2>2. CASE b \in NewOnes(f, n)
    <3>1. g.blocks[b].term = Open /\ g.blocks[b].preds = {}
      BY <1>9, <2>2
    <3>2. \A c \in DOMAIN g.blocks : b \notin g.blocks[c].preds
      BY <1>8, <1>9, <2>2 DEF Shaped, EdgesMatch
    <3> QED
      BY OpenEnd, <3>1, <3>2
  <2> QED
    BY <1>8, <2>1, <2>2
<1>11. Shaped(g)
  BY <1>2, <1>6, <1>8, <1>10 DEF Shaped
<1>12. OpenBlocks(g) = OpenBlocks(f) \cup NewOnes(f, n)
  BY <1>8, <1>9 DEF OpenBlocks
<1> QED
  BY <1>6, <1>7, <1>8, <1>9, <1>11, <1>12 DEF g

LEMMA EmitShape ==
    ASSUME NEW f, Shaped(f), NEW instrs \in Seq(InstrSet)
    PROVE  LET g == Emit(f, instrs)
               l == Len(f.blocks[f.current].code)
               code == g.blocks[f.current].code
           IN  /\ Shaped(g)
               /\ OpenBlocks(g) = OpenBlocks(f)
               /\ g.current = f.current /\ g.values = f.values
               /\ DOMAIN g.blocks = DOMAIN f.blocks
               /\ \A b \in DOMAIN f.blocks :
                     /\ g.blocks[b].term = f.blocks[b].term
                     /\ g.blocks[b].preds = f.blocks[b].preds
                     /\ b # f.current => g.blocks[b].code = f.blocks[b].code
               /\ l \in Nat /\ Len(instrs) \in Nat
               /\ DOMAIN instrs = 1 .. Len(instrs) /\ DOMAIN f.blocks[f.current].code = 1 .. l
               /\ DOMAIN code = 1 .. l + Len(instrs)
               /\ \A k \in 1 .. l : code[k] = f.blocks[f.current].code[k]
               /\ \A k \in 1 .. Len(instrs) : code[l + k] = instrs[k]
<1> DEFINE g == Emit(f, instrs)
           here == f.current
           old == f.blocks[here].code
           l == Len(old)
<1>1. f \in FunctionSet
  BY DEF Shaped
<1>2. /\ f.blocks \in Seq(BlockSet) /\ here \in DOMAIN f.blocks /\ here \in Nat
      /\ DOMAIN f.blocks = 1 .. Len(f.blocks) /\ Len(f.blocks) \in Nat
      /\ f.blocks[here] \in BlockSet
      /\ old \in Seq(InstrSet) /\ l \in Nat /\ DOMAIN old = 1 .. l
      /\ Len(instrs) \in Nat /\ DOMAIN instrs = 1 .. Len(instrs)
  <2>1. here \in DOMAIN f.blocks
    BY DEF Shaped
  <2> QED
    BY <1>1, <2>1, FunctionIs, SequenceIs
<1>3. /\ old \o instrs \in Seq(InstrSet)
      /\ DOMAIN (old \o instrs) = 1 .. l + Len(instrs)
      /\ \A k \in 1 .. l : (old \o instrs)[k] = old[k]
      /\ \A k \in 1 .. Len(instrs) : (old \o instrs)[l + k] = instrs[k]
  <2>1. old \o instrs \in Seq(InstrSet) /\ Len(old \o instrs) = l + Len(instrs)
    BY <1>1, <1>2, ConcatProperties
  <2>2. \A k \in 1 .. l : (old \o instrs)[k] = old[k]
    BY <1>1, <1>2, ConcatProperties
  <2>3. ASSUME NEW k \in 1 .. Len(instrs) PROVE (old \o instrs)[l + k] = instrs[k]
    <3>1. l + k \in 1 .. l + Len(instrs) /\ ~(l + k <= l) /\ l + k - l = k
      BY <1>2
    <3> QED
      BY <1>1, <1>2, <3>1, ConcatProperties
  <2> QED
    BY <2>1, <2>2, <2>3, SequenceIs
<1> DEFINE longer == [f.blocks[here] EXCEPT !.code = old \o instrs]
<1>4. longer \in BlockSet /\ longer.code = old \o instrs
      /\ longer.term = f.blocks[here].term /\ longer.preds = f.blocks[here].preds
  BY <1>2, <1>3 DEF BlockSet
<1>5. g = [f EXCEPT !.blocks = [f.blocks EXCEPT ![here] = longer]]
  BY DEF Emit
<1> HIDE DEF longer, g
<1>6. [f.blocks EXCEPT ![here] = longer] \in Seq(BlockSet)
  BY <1>2, <1>4, ExceptSeq
<1>7. /\ g \in FunctionSet /\ g.blocks = [f.blocks EXCEPT ![here] = longer]
      /\ g.current = here /\ g.values = f.values
  BY <1>1, <1>5, <1>6 DEF FunctionSet
<1>8. /\ DOMAIN g.blocks = DOMAIN f.blocks
      /\ g.blocks[here] = longer
      /\ \A b \in DOMAIN f.blocks : b # here => g.blocks[b] = f.blocks[b]
  BY <1>2, <1>7
<1>9. \A b \in DOMAIN f.blocks :
        /\ g.blocks[b].term = f.blocks[b].term /\ g.blocks[b].preds = f.blocks[b].preds
        /\ b # here => g.blocks[b].code = f.blocks[b].code
  BY <1>4, <1>8
<1>10. Shaped(g)
  <2>1. EdgesMatch(g)
    BY <1>8, <1>9 DEF Shaped, EdgesMatch
  <2> QED
    BY <1>2, <1>7, <1>8, <2>1 DEF Shaped
<1>11. OpenBlocks(g) = OpenBlocks(f)
  BY <1>8, <1>9 DEF OpenBlocks
<1>12. g.blocks[here].code = old \o instrs
  BY <1>4, <1>8
<1> QED
  BY <1>2, <1>3, <1>7, <1>8, <1>9, <1>10, <1>11, <1>12 DEF g

-----------------------------------------------------------------------------
(* From one function under construction to a later one: blocks E are going *)
(* to be entered, blocks N are new, and values D.  A block that dominates  *)
(* the current one and the blocks to come goes on to do so.                *)

Covers(f, a, B) == Guards(f, a, f.current) /\ \A b \in B : Guards(f, a, b)

Moves(f, g, E, N, D) ==
    /\ Good(g)
    /\ DOMAIN f.blocks \subseteq DOMAIN g.blocks
    /\ Defs(g) \subseteq Defs(f) \cup D
    /\ \A v, c : DefinesIn(f, v, c) => DefinesIn(g, v, c)
    /\ \A b \in DOMAIN f.blocks \ OpenBlocks(f) : b \notin OpenBlocks(g) /\ PhisOf(g, b) = PhisOf(f, b)
    /\ \A a \in DOMAIN f.blocks, B \in SUBSET DOMAIN f.blocks :
          E \subseteq B /\ Covers(f, a, B) => Covers(g, a, B \cup N)

LEMMA MovesOn ==
    ASSUME NEW f, NEW g, NEW h, NEW E1, NEW E2, NEW N1, NEW N2, NEW D1, NEW D2,
           Moves(f, g, E1, N1, D1), Moves(g, h, E2, N2, D2), E2 \subseteq E1 \cup N1,
           N1 \subseteq DOMAIN g.blocks
    PROVE  Moves(f, h, E1, N1 \cup N2, D1 \cup D2)
<1>1. Good(h)
  BY DEF Moves
<1>2. DOMAIN f.blocks \subseteq DOMAIN h.blocks
  BY DEF Moves
<1>3. Defs(h) \subseteq Defs(f) \cup (D1 \cup D2)
  BY DEF Moves
<1>4. ASSUME NEW v, NEW c, DefinesIn(f, v, c) PROVE DefinesIn(h, v, c)
  <2>1. DefinesIn(g, v, c)
    BY <1>4 DEF Moves
  <2> QED
    BY <2>1 DEF Moves
<1>5. ASSUME NEW b \in DOMAIN f.blocks \ OpenBlocks(f)
      PROVE  b \notin OpenBlocks(h) /\ PhisOf(h, b) = PhisOf(f, b)
  <2>1. b \in DOMAIN g.blocks \ OpenBlocks(g) /\ PhisOf(g, b) = PhisOf(f, b)
    BY DEF Moves
  <2> QED
    BY <2>1 DEF Moves
<1>6. ASSUME NEW a \in DOMAIN f.blocks, NEW B \in SUBSET DOMAIN f.blocks, E1 \subseteq B, Covers(f, a, B)
      PROVE  Covers(h, a, B \cup (N1 \cup N2))
  <2>1. Covers(g, a, B \cup N1)
    BY <1>6 DEF Moves
  <2>2. a \in DOMAIN g.blocks /\ B \cup N1 \in SUBSET DOMAIN g.blocks /\ E2 \subseteq B \cup N1
    BY <1>6 DEF Moves
  <2>3. Covers(h, a, (B \cup N1) \cup N2)
    BY <2>1, <2>2 DEF Moves
  <2> QED
    BY <2>3 DEF Covers
<1> QED
  BY <1>1, <1>2, <1>3, <1>4, <1>5, <1>6 DEF Moves

LEMMA MovesLess ==
    ASSUME NEW f, NEW g, NEW E, NEW N, NEW D, Moves(f, g, E, N, D),
           NEW E2, E \subseteq E2, NEW N2, N2 \subseteq N, NEW D2, D \subseteq D2
    PROVE  Moves(f, g, E2, N2, D2)
<1>1. ASSUME NEW a \in DOMAIN f.blocks, NEW B \in SUBSET DOMAIN f.blocks, E2 \subseteq B, Covers(f, a, B)
      PROVE  Covers(g, a, B \cup N2)
  <2>1. Covers(g, a, B \cup N)
    BY <1>1 DEF Moves
  <2> QED
    BY <2>1 DEF Covers
<1>2. Defs(g) \subseteq Defs(f) \cup D2
  BY DEF Moves
<1> QED
  BY <1>1, <1>2 DEF Moves

LEMMA MovesNot ==
    ASSUME NEW f, Good(f)
    PROVE  Moves(f, f, {}, {}, {})
  BY DEF Moves

(* What is computed before a use stays so when blocks that are not open,   *)
(* and the current one, keep their guards.                                 *)
KeepsGuards(f, g) ==
    \A a, b \in DOMAIN f.blocks :
        Guards(f, a, b) /\ (b \notin OpenBlocks(f) \/ b = f.current) => Guards(g, a, b)

LEMMA ComputedStays ==
    ASSUME NEW f, NEW g, KeepsGuards(f, g), \A v, c : DefinesIn(f, v, c) => DefinesIn(g, v, c),
           NEW b \in DOMAIN f.blocks, b \notin OpenBlocks(f) \/ b = f.current, NEW v, Computed(f, v, b)
    PROVE  Computed(g, v, b)
<1>1. PICK c : DefinesIn(f, v, c) /\ Guards(f, c, b)
  BY DEF Computed
<1>2. c \in DOMAIN f.blocks
  BY <1>1 DEF DefinesIn
<1> QED
  BY <1>1, <1>2 DEF Computed, KeepsGuards

LEMMA InputsStay ==
    ASSUME NEW f, Shaped(f), NEW g, KeepsGuards(f, g), \A v, c : DefinesIn(f, v, c) => DefinesIn(g, v, c),
           NEW b \in DOMAIN f.blocks, g.blocks[b].preds = f.blocks[b].preds,
           NEW inputs, InputsMatch(f, b, inputs)
    PROVE  InputsMatch(g, b, inputs)
<1>1. ASSUME NEW input \in inputs PROVE Computed(g, input[1], input[2])
  <2>1. input[2] \in f.blocks[b].preds
    BY DEF InputsMatch
  <2>2. input[2] \in DOMAIN f.blocks /\ b \in Successors(f.blocks[input[2]].term)
    BY <2>1 DEF Shaped, EdgesMatch
  <2>3. input[2] \notin OpenBlocks(f)
    BY <2>2, NothingFollows DEF Edges
  <2>4. Computed(f, input[1], input[2])
    BY DEF InputsMatch
  <2> QED
    BY <2>2, <2>3, <2>4, ComputedStays
<1> QED
  BY <1>1 DEF InputsMatch

LEMMA Empty == DOMAIN (<<>>) = {}
  OBVIOUS

(* Entering a block, counting values and reporting an error.               *)
LEMMA SameMove ==
    ASSUME NEW f, Good(f), NEW g \in FunctionSet, g.blocks = f.blocks, g.current \in DOMAIN f.blocks,
           g.current = f.current \/ f.current \notin OpenBlocks(f)
    PROVE  /\ Moves(f, g, {g.current}, {}, {})
           /\ g.current = f.current => Moves(f, g, {}, {}, {})
           /\ OpenBlocks(g) = OpenBlocks(f)
<1>1. OpenBlocks(g) = OpenBlocks(f)
  BY DEF OpenBlocks
<1>2. /\ \A a, b : Guards(f, a, b) <=> Guards(g, a, b)
      /\ \A v, c : DefinesIn(f, v, c) <=> DefinesIn(g, v, c)
      /\ \A b : PhisOf(f, b) = PhisOf(g, b)
  BY DEF Guards, Shuts, Edges, DefinesIn, PhisOf
<1>3. Good(g)
  <2>1. Shaped(g)
    BY DEF Good, Shaped, EdgesMatch
  <2>2. OneDef(g)
    BY DEF Good, OneDef
  <2>3. UsesGuarded(g)
    <3>1. \A v, b : Computed(f, v, b) => Computed(g, v, b)
      BY <1>2 DEF Computed
    <3>2. \A v, b, k : Before(f, v, b, k) => Before(g, v, b, k)
      BY <1>2 DEF Before
    <3> QED
      BY <3>1, <3>2 DEF Good, UsesGuarded
  <2>4. PhisMatch(g)
    BY <1>2 DEF Good, PhisMatch, InputsMatch, Computed
  <2>5. Untouched(g)
    BY <1>1 DEF Good, Untouched
  <2> QED
    BY <2>1, <2>2, <2>3, <2>4, <2>5 DEF Good
<1>4. /\ DOMAIN f.blocks \subseteq DOMAIN g.blocks
      /\ Defs(g) \subseteq Defs(f) \cup {}
      /\ \A b \in DOMAIN f.blocks \ OpenBlocks(f) : b \notin OpenBlocks(g) /\ PhisOf(g, b) = PhisOf(f, b)
  BY <1>1, <1>2 DEF Defs
<1>5. ASSUME NEW a, NEW B, Covers(f, a, B), g.current \in B \/ g.current = f.current
      PROVE  Covers(g, a, B \cup {})
  BY <1>2, <1>5 DEF Covers
<1> QED
  BY <1>1, <1>2, <1>3, <1>4, <1>5 DEF Moves

LEMMA EnterMove ==
    ASSUME NEW f, Good(f), NEW b \in DOMAIN f.blocks, f.current \notin OpenBlocks(f)
    PROVE  LET g == EnterBlock(f, b)
           IN  /\ Moves(f, g, {b}, {}, {}) /\ OpenBlocks(g) = OpenBlocks(f)
               /\ g.blocks = f.blocks /\ g.current = b /\ g.values = f.values
<1> DEFINE g == EnterBlock(f, b)
<1>1. f \in FunctionSet /\ b \in Nat
  BY FunctionIs DEF Good, Shaped
<1>2. g \in FunctionSet /\ g.blocks = f.blocks /\ g.current = b /\ g.values = f.values
  BY <1>1 DEF EnterBlock, FunctionSet
<1> HIDE DEF g
<1>3. Moves(f, g, {g.current}, {}, {}) /\ OpenBlocks(g) = OpenBlocks(f)
  BY <1>2, SameMove
<1> QED
  BY <1>2, <1>3 DEF g

LEMMA NewValuesMove ==
    ASSUME NEW f, Good(f), NEW n \in Nat
    PROVE  LET g == NewValues(f, n)
           IN  /\ Moves(f, g, {}, {}, {}) /\ OpenBlocks(g) = OpenBlocks(f)
               /\ g.blocks = f.blocks /\ g.current = f.current /\ g.values = f.values + n
<1> DEFINE g == NewValues(f, n)
<1>1. f \in FunctionSet /\ f.current \in DOMAIN f.blocks /\ f.values + n \in Nat
  BY FunctionIs DEF Good, Shaped
<1>2. g \in FunctionSet /\ g.blocks = f.blocks /\ g.current = f.current /\ g.values = f.values + n
  BY <1>1 DEF NewValues, FunctionSet
<1> HIDE DEF g
<1>3. Moves(f, g, {}, {}, {}) /\ OpenBlocks(g) = OpenBlocks(f)
  BY <1>1, <1>2, SameMove
<1> QED
  BY <1>2, <1>3 DEF g

LEMMA FailMove ==
    ASSUME NEW f, Good(f), NEW error \in Errors
    PROVE  LET g == Fail(f, error)
           IN  /\ Moves(f, g, {}, {}, {}) /\ OpenBlocks(g) = OpenBlocks(f)
               /\ g.blocks = f.blocks /\ g.current = f.current /\ g.values = f.values
<1> DEFINE g == Fail(f, error)
<1>1. f \in FunctionSet /\ f.current \in DOMAIN f.blocks
  BY DEF Good, Shaped
<1>2. g \in FunctionSet /\ g.blocks = f.blocks /\ g.current = f.current /\ g.values = f.values
  BY <1>1 DEF Fail, FunctionSet
<1> HIDE DEF g
<1>3. Moves(f, g, {}, {}, {}) /\ OpenBlocks(g) = OpenBlocks(f)
  BY <1>1, <1>2, SameMove
<1> QED
  BY <1>2, <1>3 DEF g

LEMMA EndMove ==
    ASSUME NEW f, Good(f), f.current \in OpenBlocks(f), NEW term \in TermSet, term # Open,
           \A t \in Successors(term) :
              /\ t \in DOMAIN f.blocks /\ t # f.current
              /\ t \notin OpenBlocks(f) => PhisOf(f, t) = {} /\ Guards(f, t, f.current),
           \A v \in term.uses : Computed(f, v, f.current)
    PROVE  LET g == SetTerminator(f, term)
           IN  /\ Moves(f, g, {}, {}, {})
               /\ OpenBlocks(g) = OpenBlocks(f) \ {f.current}
               /\ g.current = f.current /\ g.values = f.values
               /\ DOMAIN g.blocks = DOMAIN f.blocks
               /\ \A b \in DOMAIN f.blocks :
                     /\ g.blocks[b].code = f.blocks[b].code
                     /\ g.blocks[b].preds =
                           IF b \in Successors(term) THEN f.blocks[b].preds \cup {f.current}
                                                     ELSE f.blocks[b].preds
<1> DEFINE g == SetTerminator(f, term)
           here == f.current
           T == Successors(term)
<1>1. Shaped(f) /\ here \in DOMAIN f.blocks /\ T \subseteq DOMAIN f.blocks
  BY DEF Good, Shaped
<1>2. /\ Shaped(g)
      /\ OpenBlocks(g) = OpenBlocks(f) \ {here}
      /\ g.current = here /\ g.values = f.values
      /\ DOMAIN g.blocks = DOMAIN f.blocks
      /\ \A b \in DOMAIN f.blocks :
            /\ g.blocks[b].code = f.blocks[b].code
            /\ g.blocks[b].term = IF b = here THEN term ELSE f.blocks[b].term
            /\ g.blocks[b].preds = IF b \in T THEN f.blocks[b].preds \cup {here} ELSE f.blocks[b].preds
  BY <1>1, SetTerminatorShape
<1> HIDE DEF g
<1>12. DOMAIN g.blocks = DOMAIN f.blocks /\ \A b \in DOMAIN f.blocks : g.blocks[b].code = f.blocks[b].code
  BY <1>2
<1>3. ASSUME NEW a, NEW b, Guards(f, a, b), b \in T \cap OpenBlocks(f) => Guards(f, a, here)
      PROVE  Guards(g, a, b)
  <2>1. Edges(f, here) = {} /\ \A t \in OpenBlocks(f) : Edges(f, t) = {}
    BY NothingFollows
  <2>2. Edges(g, here) = T /\ \A x \in DOMAIN f.blocks : x # here => Edges(g, x) = Edges(f, x)
    BY <1>1, <1>2 DEF Edges
  <2>3. \A t \in T : t \in DOMAIN f.blocks /\ t # here
    OBVIOUS
  <2>4. \A t \in T : IF t \in OpenBlocks(f) THEN Edges(f, t) = {} ELSE Guards(f, t, here)
    BY <2>1
  <2>5. DOMAIN g.blocks = DOMAIN f.blocks
    BY <1>2
  <2> HIDE DEF T
  <2> QED
    BY <1>1, <1>3, <2>1, <2>2, <2>3, <2>4, <2>5, GuardsStay, SMTT(60)
<1>4. KeepsGuards(f, g)
  BY <1>3 DEF KeepsGuards
<1>5. /\ \A v, c : DefinesIn(f, v, c) <=> DefinesIn(g, v, c)
      /\ \A b \in DOMAIN f.blocks : PhisOf(f, b) = PhisOf(g, b)
  BY <1>12 DEF DefinesIn, PhisOf
<1>6. OneDef(g)
  BY <1>12 DEF Good, OneDef
<1>7. UsesGuarded(g)
  <2> SUFFICES ASSUME NEW b \in DOMAIN f.blocks
               PROVE  /\ \A k \in DOMAIN g.blocks[b].code : \A v \in g.blocks[b].code[k].uses : Before(g, v, b, k)
                      /\ \A v \in g.blocks[b].term.uses : Computed(g, v, b)
    BY <1>2 DEF UsesGuarded
  <2>1. CASE b \in OpenBlocks(f) \ {here}
    <3>1. g.blocks[b].code = <<>> /\ g.blocks[b].term = Open
      BY <1>2, <2>1 DEF Good, Untouched, OpenBlocks
    <3> QED
      BY <3>1, OpenEnd, Empty
  <2>2. CASE b \notin OpenBlocks(f) \/ b = here
    <3>1. ASSUME NEW k \in DOMAIN f.blocks[b].code, NEW v \in f.blocks[b].code[k].uses
          PROVE  Before(g, v, b, k)
      <4>1. Before(f, v, b, k)
        BY <3>1 DEF Good, UsesGuarded
      <4>2. \A c \in DOMAIN f.blocks : Guards(f, c, b) => Guards(g, c, b)
        BY <1>4, <2>2 DEF KeepsGuards
      <4> QED
        BY <1>2, <4>1, <4>2 DEF Before
    <3>2. ASSUME NEW v \in g.blocks[b].term.uses PROVE Computed(g, v, b)
      <4>1. Computed(f, v, b)
        BY <1>2, <3>2 DEF Good, UsesGuarded
      <4> QED
        BY <1>4, <1>5, <2>2, <4>1, ComputedStays
    <3> QED
      BY <1>2, <3>1, <3>2
  <2> QED
    BY <2>1, <2>2
<1>8. PhisMatch(g)
  <2> SUFFICES ASSUME NEW b \in DOMAIN f.blocks, NEW k \in Phis(g.blocks[b].code)
               PROVE  InputsMatch(g, b, g.blocks[b].code[k].inputs)
    BY <1>2 DEF PhisMatch
  <2>1. k \in Phis(f.blocks[b].code) /\ k \in DOMAIN f.blocks[b].code
    BY <1>2 DEF Phis
  <2>2. b \notin OpenBlocks(f) \ {here}
    BY <2>1, Empty DEF Good, Untouched
  <2>3. PhisOf(f, b) # {}
    BY <2>1 DEF PhisOf
  <2>4. b \notin T
    BY <2>2, <2>3
  <2>5. g.blocks[b].preds = f.blocks[b].preds
    BY <1>2, <2>4
  <2>6. InputsMatch(f, b, f.blocks[b].code[k].inputs)
    BY <2>1 DEF Good, PhisMatch
  <2> QED
    BY <1>1, <1>2, <1>4, <1>5, <2>5, <2>6, InputsStay
<1>9. Good(g)
  <2>1. Untouched(g)
    BY <1>2 DEF Good, Untouched, OpenBlocks
  <2> QED
    BY <1>2, <1>6, <1>7, <1>8, <2>1 DEF Good
<1>10. ASSUME NEW a \in DOMAIN f.blocks, NEW B \in SUBSET DOMAIN f.blocks, Covers(f, a, B)
       PROVE  Covers(g, a, B \cup {})
  BY <1>2, <1>3, <1>10 DEF Covers
<1>11. Moves(f, g, {}, {}, {})
  <2>1. Defs(g) \subseteq Defs(f) \cup {}
    BY <1>5 DEF Defs
  <2> QED
    BY <1>2, <1>5, <1>9, <1>10, <2>1 DEF Moves
<1> QED
  BY <1>2, <1>11 DEF g

LEMMA GrowMove ==
    ASSUME NEW f, Good(f), NEW n \in Nat
    PROVE  LET g == NewBlocks(f, n)
           IN  /\ Moves(f, g, {}, NewOnes(f, n), {})
               /\ OpenBlocks(g) = OpenBlocks(f) \cup NewOnes(f, n)
               /\ g.current = f.current /\ g.values = f.values
               /\ DOMAIN g.blocks = DOMAIN f.blocks \cup NewOnes(f, n)
               /\ DOMAIN f.blocks \cap NewOnes(f, n) = {}
               /\ Len(g.blocks) = Len(f.blocks) + n
               /\ \A b \in NewOnes(f, n) : g.blocks[b].preds = {} /\ \A a : Guards(g, a, b)
<1> DEFINE g == NewBlocks(f, n)
           new == NewOnes(f, n)
<1>1. Shaped(f) /\ f.current \in DOMAIN f.blocks
  BY DEF Good, Shaped
<1>2. /\ Shaped(g)
      /\ OpenBlocks(g) = OpenBlocks(f) \cup new
      /\ g.current = f.current /\ g.values = f.values
      /\ DOMAIN g.blocks = DOMAIN f.blocks \cup new
      /\ DOMAIN f.blocks \cap new = {}
      /\ Len(g.blocks) = Len(f.blocks) + n
      /\ \A b \in DOMAIN f.blocks : g.blocks[b] = f.blocks[b]
      /\ \A b \in new : g.blocks[b].term = Open /\ g.blocks[b].preds = {} /\ g.blocks[b].code = <<>>
  BY <1>1, NewBlocksShape
<1> HIDE DEF g, new
<1>3. (\A a, b : Guards(f, a, b) => Guards(g, a, b)) /\ \A a : \A b \in new : Guards(g, a, b)
  <2>1. /\ \A x \in DOMAIN f.blocks : Edges(g, x) = Edges(f, x)
        /\ \A x \in DOMAIN g.blocks \ DOMAIN f.blocks : Edges(g, x) = {}
    BY <1>2, OpenEnd DEF Edges
  <2>2. DOMAIN f.blocks \subseteq DOMAIN g.blocks /\ new = DOMAIN g.blocks \ DOMAIN f.blocks
    BY <1>2
  <2> QED
    BY <1>1, <1>2, <2>1, <2>2, GuardsGrow
<1>4. KeepsGuards(f, g)
  BY <1>3 DEF KeepsGuards
<1>5. /\ \A v, c : DefinesIn(f, v, c) <=> DefinesIn(g, v, c)
      /\ \A b \in DOMAIN f.blocks : PhisOf(f, b) = PhisOf(g, b)
  <2>1. ASSUME NEW v, NEW c, DefinesIn(g, v, c) PROVE DefinesIn(f, v, c)
    BY <1>2, <2>1, Empty DEF DefinesIn
  <2>2. ASSUME NEW v, NEW c, DefinesIn(f, v, c) PROVE DefinesIn(g, v, c)
    BY <1>2, <2>2 DEF DefinesIn
  <2> QED
    BY <1>2, <2>1, <2>2 DEF PhisOf
<1>6. OneDef(g)
  <2> SUFFICES ASSUME NEW b \in DOMAIN g.blocks, NEW c \in DOMAIN g.blocks,
                      NEW j \in DOMAIN g.blocks[b].code, NEW k \in DOMAIN g.blocks[c].code,
                      g.blocks[b].code[j].def = g.blocks[c].code[k].def, g.blocks[b].code[j].def # 0
               PROVE  b = c /\ j = k
    BY DEF OneDef
  <2>1. b \in DOMAIN f.blocks /\ c \in DOMAIN f.blocks
    BY <1>2, Empty
  <2> QED
    BY <1>2, <2>1 DEF Good, OneDef
<1>7. UsesGuarded(g)
  <2> SUFFICES ASSUME NEW b \in DOMAIN g.blocks
               PROVE  /\ \A k \in DOMAIN g.blocks[b].code : \A v \in g.blocks[b].code[k].uses : Before(g, v, b, k)
                      /\ \A v \in g.blocks[b].term.uses : Computed(g, v, b)
    BY DEF UsesGuarded
  <2>1. CASE b \in new
    BY <1>2, <2>1, OpenEnd, Empty
  <2>2. CASE b \in DOMAIN f.blocks
    <3>1. ASSUME NEW k \in DOMAIN f.blocks[b].code, NEW v \in f.blocks[b].code[k].uses
          PROVE  Before(g, v, b, k)
      <4>1. Before(f, v, b, k)
        BY <2>2, <3>1 DEF Good, UsesGuarded
      <4> QED
        BY <1>2, <1>3, <4>1 DEF Before
    <3>2. ASSUME NEW v \in f.blocks[b].term.uses PROVE Computed(g, v, b)
      <4>1. Computed(f, v, b)
        BY <2>2, <3>2 DEF Good, UsesGuarded
      <4> QED
        BY <1>3, <1>5, <4>1 DEF Computed
    <3> QED
      BY <1>2, <2>2, <3>1, <3>2
  <2> QED
    BY <1>2, <2>1, <2>2
<1>8. PhisMatch(g)
  <2> SUFFICES ASSUME NEW b \in DOMAIN g.blocks, NEW k \in Phis(g.blocks[b].code)
               PROVE  InputsMatch(g, b, g.blocks[b].code[k].inputs)
    BY DEF PhisMatch
  <2>1. b \in DOMAIN f.blocks
    BY <1>2, Empty DEF Phis
  <2>2. InputsMatch(f, b, g.blocks[b].code[k].inputs)
    BY <1>2, <2>1 DEF Good, PhisMatch
  <2> QED
    BY <1>1, <1>2, <1>4, <1>5, <2>1, <2>2, InputsStay
<1>9. Good(g)
  <2>1. Untouched(g)
    BY <1>2 DEF Good, Untouched, OpenBlocks
  <2> QED
    BY <1>2, <1>6, <1>7, <1>8, <2>1 DEF Good
<1>10. ASSUME NEW a \in DOMAIN f.blocks, NEW B \in SUBSET DOMAIN f.blocks, Covers(f, a, B)
       PROVE  Covers(g, a, B \cup new)
  BY <1>2, <1>3, <1>10 DEF Covers
<1>11. Moves(f, g, {}, new, {})
  <2>1. Defs(g) \subseteq Defs(f) \cup {}
    BY <1>5 DEF Defs
  <2>2. \A b \in DOMAIN f.blocks : b \notin OpenBlocks(f) => b \notin OpenBlocks(g)
    BY <1>2
  <2> QED
    BY <1>2, <1>5, <1>9, <1>10, <2>1, <2>2 DEF Moves
<1> QED
  BY <1>2, <1>3, <1>11 DEF g, new

(* Instructions that may be added to the current block. *)
Fits(f, instrs) ==
    /\ instrs \in Seq(InstrSet)
    /\ \A k \in DOMAIN instrs :
          /\ \A v \in instrs[k].uses :
                Computed(f, v, f.current) \/ (v # 0 /\ \E j \in DOMAIN instrs : j < k /\ instrs[j].def = v)
          /\ instrs[k].def # 0 =>
                /\ instrs[k].def \notin Defs(f)
                /\ \A j \in DOMAIN instrs : instrs[j].def = instrs[k].def => j = k
          /\ instrs[k].op = "phi" => InputsMatch(f, f.current, instrs[k].inputs)

LEMMA DefinesIs ==
    ASSUME NEW f, f \in FunctionSet, NEW v, NEW c, DefinesIn(f, v, c)
    PROVE  c \in DOMAIN f.blocks /\ v \in Nat /\ (v # 0 => v \in Defs(f))
<1>1. PICK j \in DOMAIN f.blocks[c].code : f.blocks[c].code[j].def = v
  BY DEF DefinesIn
<1>2. c \in DOMAIN f.blocks
  BY DEF DefinesIn
<1>3. f.blocks[c].code[j] \in InstrSet
  BY <1>1, <1>2, FunctionIs
<1>4. v \in Nat
  BY <1>1, <1>3 DEF InstrSet
<1> QED
  BY <1>2, <1>4 DEF Defs

LEMMA EmitMove ==
    ASSUME NEW f, Good(f), f.current \in OpenBlocks(f), NEW instrs, Fits(f, instrs)
    PROVE  LET g == Emit(f, instrs)
           IN  /\ Moves(f, g, {}, {}, {instrs[k].def : k \in DOMAIN instrs})
               /\ OpenBlocks(g) = OpenBlocks(f)
               /\ g.current = f.current /\ g.values = f.values
               /\ DOMAIN g.blocks = DOMAIN f.blocks
               /\ \A b \in DOMAIN f.blocks : g.blocks[b].preds = f.blocks[b].preds
               /\ \A k \in DOMAIN instrs : DefinesIn(g, instrs[k].def, f.current)
               /\ PhisOf(g, f.current) = PhisOf(f, f.current) \cup {instrs[k].def : k \in Phis(instrs)}
<1> DEFINE g == Emit(f, instrs)
           here == f.current
           l == Len(f.blocks[here].code)
           code == g.blocks[here].code
           D == {instrs[k].def : k \in DOMAIN instrs}
<1>1. Shaped(f) /\ here \in DOMAIN f.blocks /\ f \in FunctionSet /\ instrs \in Seq(InstrSet)
  BY DEF Good, Shaped, Fits
<1>2. /\ Shaped(g)
      /\ OpenBlocks(g) = OpenBlocks(f)
      /\ g.current = here /\ g.values = f.values
      /\ DOMAIN g.blocks = DOMAIN f.blocks
  BY <1>1, EmitShape
<1>3. \A b \in DOMAIN f.blocks :
         /\ g.blocks[b].term = f.blocks[b].term
         /\ g.blocks[b].preds = f.blocks[b].preds
         /\ b # here => g.blocks[b].code = f.blocks[b].code
  BY <1>1, EmitShape
<1>4. /\ l \in Nat /\ Len(instrs) \in Nat
      /\ DOMAIN instrs = 1 .. Len(instrs) /\ DOMAIN f.blocks[here].code = 1 .. l
      /\ DOMAIN code = 1 .. l + Len(instrs)
      /\ \A k \in 1 .. l : code[k] = f.blocks[here].code[k]
      /\ \A k \in 1 .. Len(instrs) : code[l + k] = instrs[k]
  BY <1>1, EmitShape
<1> HIDE DEF g, l
<1>5. \A b \in DOMAIN f.blocks : \A k \in DOMAIN f.blocks[b].code :
         k \in DOMAIN g.blocks[b].code /\ g.blocks[b].code[k] = f.blocks[b].code[k]
  <2>1. \A k \in DOMAIN f.blocks[here].code : k \in DOMAIN code /\ code[k] = f.blocks[here].code[k]
    BY <1>4
  <2> QED
    BY <1>3, <2>1
<1>6. \A k \in DOMAIN instrs : l + k \in DOMAIN code /\ code[l + k] = instrs[k] /\ l + k > l
  <2> HIDE DEF code
  <2> QED
    BY <1>4
<1>7. ASSUME NEW b \in DOMAIN f.blocks, NEW k \in DOMAIN g.blocks[b].code
      PROVE  k \in DOMAIN f.blocks[b].code \/ (b = here /\ \E i \in DOMAIN instrs : k = l + i)
  <2>1. CASE b = here
    <3>1. k \in 1 .. l + Len(instrs)
      BY <1>4, <1>7, <2>1
    <3>2. k <= l \/ (k - l \in 1 .. Len(instrs) /\ k = l + (k - l))
      BY <1>4, <3>1
    <3> QED
      BY <1>4, <2>1, <3>1, <3>2
  <2>2. CASE b # here
    BY <1>3, <2>2
  <2> QED
    BY <2>1, <2>2
<1>8. \A a, b : Guards(f, a, b) <=> Guards(g, a, b)
  <2>1. SameEdges(f, g) /\ SameEdges(g, f)
    BY <1>2, <1>3 DEF SameEdges, Edges
  <2> QED
    BY <2>1, GuardsSame
<1>9. KeepsGuards(f, g)
  BY <1>8 DEF KeepsGuards
<1>10. /\ \A v, c : DefinesIn(f, v, c) => DefinesIn(g, v, c)
       /\ \A k \in DOMAIN instrs : DefinesIn(g, instrs[k].def, here)
  <2>1. ASSUME NEW v, NEW c, DefinesIn(f, v, c) PROVE DefinesIn(g, v, c)
    BY <1>2, <1>5, <2>1 DEF DefinesIn
  <2>2. ASSUME NEW k \in DOMAIN instrs PROVE DefinesIn(g, instrs[k].def, here)
    BY <1>1, <1>2, <1>6 DEF DefinesIn
  <2> QED
    BY <2>1, <2>2
<1>11. ASSUME NEW v, NEW c, DefinesIn(g, v, c) PROVE DefinesIn(f, v, c) \/ v \in D
  <2>1. PICK k \in DOMAIN g.blocks[c].code : g.blocks[c].code[k].def = v
    BY <1>11 DEF DefinesIn
  <2>2. c \in DOMAIN f.blocks
    BY <1>2, <1>11 DEF DefinesIn
  <2>3. CASE k \in DOMAIN f.blocks[c].code
    BY <1>5, <2>1, <2>2, <2>3 DEF DefinesIn
  <2>4. CASE c = here /\ \E i \in DOMAIN instrs : k = l + i
    BY <1>6, <2>1, <2>4
  <2> QED
    BY <1>7, <2>2, <2>3, <2>4
<1>12. Defs(g) \subseteq Defs(f) \cup D
  <2> HIDE DEF D
  <2> QED
    BY <1>11 DEF Defs
<1>13. OneDef(g)
  <2> SUFFICES ASSUME NEW b \in DOMAIN f.blocks, NEW c \in DOMAIN f.blocks,
                      NEW j \in DOMAIN g.blocks[b].code, NEW k \in DOMAIN g.blocks[c].code,
                      g.blocks[b].code[j].def = g.blocks[c].code[k].def, g.blocks[b].code[j].def # 0
               PROVE  b = c /\ j = k
    BY <1>2 DEF OneDef
  <2>1. ASSUME NEW x \in DOMAIN f.blocks, NEW i \in DOMAIN f.blocks[x].code, NEW n \in DOMAIN instrs,
               f.blocks[x].code[i].def = instrs[n].def, instrs[n].def # 0
        PROVE  FALSE
    <3>1. DefinesIn(f, instrs[n].def, x)
      BY <2>1 DEF DefinesIn
    <3>2. instrs[n].def \in Defs(f)
      BY <1>1, <2>1, <3>1, DefinesIs
    <3> QED
      BY <2>1, <3>2 DEF Fits
  <2>2. CASE j \in DOMAIN f.blocks[b].code /\ k \in DOMAIN f.blocks[c].code
    BY <1>5, <2>2 DEF Good, OneDef
  <2>3. CASE j \in DOMAIN f.blocks[b].code /\ c = here /\ \E i \in DOMAIN instrs : k = l + i
    <3>1. PICK i \in DOMAIN instrs : k = l + i
      BY <2>3
    <3>2. g.blocks[c].code[k] = instrs[i] /\ g.blocks[b].code[j] = f.blocks[b].code[j]
      BY <1>5, <1>6, <2>3, <3>1
    <3> QED
      BY <2>1, <2>3, <3>2
  <2>4. CASE k \in DOMAIN f.blocks[c].code /\ b = here /\ \E i \in DOMAIN instrs : j = l + i
    <3>1. PICK i \in DOMAIN instrs : j = l + i
      BY <2>4
    <3>2. g.blocks[b].code[j] = instrs[i] /\ g.blocks[c].code[k] = f.blocks[c].code[k]
      BY <1>5, <1>6, <2>4, <3>1
    <3> QED
      BY <2>1, <2>4, <3>2
  <2>5. CASE b = here /\ c = here /\ (\E i \in DOMAIN instrs : j = l + i) /\ (\E i \in DOMAIN instrs : k = l + i)
    <3>1. PICK i \in DOMAIN instrs, n \in DOMAIN instrs : j = l + i /\ k = l + n
      BY <2>5
    <3>2. g.blocks[b].code[j] = instrs[i] /\ g.blocks[c].code[k] = instrs[n]
      BY <1>6, <2>5, <3>1
    <3>3. i = n
      BY <3>2 DEF Fits
    <3> QED
      BY <2>5, <3>1, <3>3
  <2> QED
    BY <1>7, <2>2, <2>3, <2>4, <2>5
<1>14. UsesGuarded(g)
  <2> SUFFICES ASSUME NEW b \in DOMAIN f.blocks
               PROVE  /\ \A k \in DOMAIN g.blocks[b].code : \A v \in g.blocks[b].code[k].uses : Before(g, v, b, k)
                      /\ \A v \in g.blocks[b].term.uses : Computed(g, v, b)
    BY <1>2 DEF UsesGuarded
  <2>1. ASSUME NEW v \in g.blocks[b].term.uses PROVE Computed(g, v, b)
    <3>1. Computed(f, v, b)
      BY <1>3, <2>1 DEF Good, UsesGuarded
    <3> QED
      BY <1>8, <1>10, <3>1 DEF Computed
  <2>2. ASSUME NEW k \in DOMAIN f.blocks[b].code, NEW v \in g.blocks[b].code[k].uses
        PROVE  Before(g, v, b, k)
    <3>1. Before(f, v, b, k)
      BY <1>5, <2>2 DEF Good, UsesGuarded
    <3>5. PICK c \in DOMAIN f.blocks : \E j \in DOMAIN f.blocks[c].code :
             f.blocks[c].code[j].def = v /\ IF c = b THEN j < k ELSE Guards(f, c, b)
      BY <3>1 DEF Before
    <3>2. PICK j \in DOMAIN f.blocks[c].code :
             f.blocks[c].code[j].def = v /\ IF c = b THEN j < k ELSE Guards(f, c, b)
      BY <3>5
    <3>3. c \in DOMAIN g.blocks /\ j \in DOMAIN g.blocks[c].code /\ g.blocks[c].code[j].def = v
      BY <1>2, <1>5, <3>2
    <3>4. IF c = b THEN j < k ELSE Guards(g, c, b)
      BY <1>8, <3>2
    <3> QED
      BY <3>1, <3>3, <3>4 DEF Before
  <2>3. ASSUME b = here, NEW i \in DOMAIN instrs, NEW v \in g.blocks[b].code[l + i].uses
        PROVE  Before(g, v, b, l + i)
    <3>1. v \in instrs[i].uses
      BY <1>6, <2>3
    <3>2. CASE Computed(f, v, here)
      <4>1. PICK c : DefinesIn(f, v, c) /\ Guards(f, c, here)
        BY <3>2 DEF Computed
      <4>2. PICK j \in DOMAIN f.blocks[c].code : f.blocks[c].code[j].def = v
        BY <4>1 DEF DefinesIn
      <4>3. c \in DOMAIN f.blocks
        BY <4>1 DEF DefinesIn
      <4>4. c \in DOMAIN g.blocks /\ j \in DOMAIN g.blocks[c].code /\ g.blocks[c].code[j].def = v
        BY <1>2, <1>5, <4>2, <4>3
      <4>5. IF c = here THEN j < l + i ELSE Guards(g, c, here)
        <5>1. CASE c = here
          <6>1. j \in 1 .. l /\ i \in 1 .. Len(instrs)
            BY <1>4, <4>2, <5>1
          <6> QED
            BY <1>4, <5>1, <6>1
        <5>2. CASE c # here
          BY <1>8, <4>1, <5>2
        <5> QED
          BY <5>1, <5>2
      <4>6. v # 0
        BY <3>2 DEF Computed
      <4> QED
        BY <2>3, <4>4, <4>5, <4>6 DEF Before
    <3>3. CASE v # 0 /\ \E j \in DOMAIN instrs : j < i /\ instrs[j].def = v
      <4>1. PICK j \in DOMAIN instrs : j < i /\ instrs[j].def = v
        BY <3>3
      <4>2. l \in Nat /\ i \in Nat /\ j \in Nat
        BY <1>4
      <4>3. l + j < l + i
        BY <4>1, <4>2, BothShifted, Zenon
      <4>4. l + j \in DOMAIN g.blocks[here].code /\ g.blocks[here].code[l + j].def = v
        BY <1>6, <4>1
      <4> QED
        BY <1>1, <1>2, <2>3, <3>3, <4>3, <4>4 DEF Before
    <3> QED
      BY <3>1, <3>2, <3>3 DEF Fits
  <2> QED
    BY <1>7, <2>1, <2>2, <2>3
<1>15. PhisMatch(g)
  <2> SUFFICES ASSUME NEW b \in DOMAIN f.blocks, NEW k \in Phis(g.blocks[b].code)
               PROVE  InputsMatch(g, b, g.blocks[b].code[k].inputs)
    BY <1>2 DEF PhisMatch
  <2>1. k \in DOMAIN g.blocks[b].code /\ g.blocks[b].code[k].op = "phi"
    BY DEF Phis
  <2>2. InputsMatch(f, b, g.blocks[b].code[k].inputs)
    <3>1. CASE k \in DOMAIN f.blocks[b].code
      BY <1>5, <2>1, <3>1 DEF Good, PhisMatch, Phis
    <3>2. CASE b = here /\ \E i \in DOMAIN instrs : k = l + i
      <4>1. PICK i \in DOMAIN instrs : k = l + i
        BY <3>2
      <4>2. g.blocks[b].code[k] = instrs[i]
        BY <1>6, <3>2, <4>1
      <4> QED
        BY <2>1, <3>2, <4>2 DEF Fits
    <3> QED
      BY <1>7, <2>1, <3>1, <3>2
  <2> QED
    BY <1>1, <1>3, <1>9, <1>10, <2>2, InputsStay
<1>16. Good(g)
  <2>1. Untouched(g)
    BY <1>2, <1>3 DEF Good, Untouched, OpenBlocks
  <2> QED
    BY <1>2, <1>13, <1>14, <1>15, <2>1 DEF Good
<1>17. ASSUME NEW a \in DOMAIN f.blocks, NEW B \in SUBSET DOMAIN f.blocks, Covers(f, a, B)
       PROVE  Covers(g, a, B \cup {})
  BY <1>2, <1>8, <1>17 DEF Covers
<1>18. Moves(f, g, {}, {}, D)
  <2>1. \A b \in DOMAIN f.blocks : b # here => PhisOf(g, b) = PhisOf(f, b)
    BY <1>3 DEF PhisOf
  <2> HIDE DEF D
  <2> QED
    BY <1>2, <1>10, <1>12, <1>16, <1>17, <2>1 DEF Moves
<1>19. PhisOf(g, here) = PhisOf(f, here) \cup {instrs[k].def : k \in Phis(instrs)}
  <2>1. ASSUME NEW k \in Phis(code)
        PROVE  code[k].def \in PhisOf(f, here) \cup {instrs[i].def : i \in Phis(instrs)}
    <3>1. k \in DOMAIN code /\ code[k].op = "phi"
      BY <2>1 DEF Phis
    <3>2. CASE k \in DOMAIN f.blocks[here].code
      <4>1. code[k] = f.blocks[here].code[k]
        BY <1>1, <1>5, <3>2
      <4> HIDE DEF code
      <4> QED
        BY <3>1, <3>2, <4>1 DEF PhisOf, Phis
    <3>3. CASE \E i \in DOMAIN instrs : k = l + i
      <4>1. PICK i \in DOMAIN instrs : k = l + i
        BY <3>3
      <4>2. code[k] = instrs[i]
        BY <1>6, <4>1
      <4> HIDE DEF code
      <4> QED
        BY <3>1, <4>1, <4>2 DEF Phis
    <3> QED
      BY <1>1, <1>7, <3>1, <3>2, <3>3
  <2>2. ASSUME NEW k \in Phis(f.blocks[here].code) PROVE f.blocks[here].code[k].def \in PhisOf(g, here)
    <3>1. k \in Phis(code) /\ code[k] = f.blocks[here].code[k]
      BY <1>1, <1>5, <2>2 DEF Phis
    <3> QED
      BY <3>1 DEF PhisOf
  <2>3. ASSUME NEW i \in Phis(instrs) PROVE instrs[i].def \in PhisOf(g, here)
    <3>1. l + i \in Phis(code) /\ code[l + i] = instrs[i]
      BY <1>6, <2>3 DEF Phis
    <3> QED
      BY <3>1 DEF PhisOf
  <2> QED
    BY <2>1, <2>2, <2>3 DEF PhisOf
<1> QED
  BY <1>2, <1>3, <1>10, <1>18, <1>19 DEF g

LEMMA CloseMove ==
    ASSUME NEW f, Good(f), NEW term \in TermSet, term # Open, term.uses = {},
           \A t \in Successors(term) : t \in OpenBlocks(f) /\ t # f.current
    PROVE  LET g == Close(f, term)
           IN  /\ Moves(f, g, {}, {}, {})
               /\ OpenBlocks(g) = OpenBlocks(f) \ {f.current}
               /\ g.current = f.current /\ g.values = f.values
               /\ DOMAIN g.blocks = DOMAIN f.blocks
<1>1. CASE Terminated(f)
  <2>1. Close(f, term) = f
    BY <1>1 DEF Close
  <2>2. f.current \notin OpenBlocks(f)
    BY <1>1 DEF Terminated, OpenBlocks
  <2> QED
    BY <2>1, <2>2, MovesNot
<1>2. CASE ~Terminated(f)
  <2>1. Close(f, term) = SetTerminator(f, term)
    BY <1>2 DEF Close
  <2>2. f.current \in OpenBlocks(f)
    BY <1>2 DEF Terminated, OpenBlocks, Good, Shaped
  <2>3. \A t \in Successors(term) : t \in DOMAIN f.blocks
    BY DEF OpenBlocks
  <2> QED
    BY <2>1, <2>2, <2>3, EndMove
<1> QED
  BY <1>1, <1>2

(* What a statement without a body does first.                             *)
LEMMA EnsureMove ==
    ASSUME NEW f, Good(f)
    PROVE  LET g == EnsureOpenBlock(f)
           IN  /\ Moves(f, g, {}, {}, {}) /\ Good(g)
               /\ g.current \in OpenBlocks(g) /\ g.values = f.values
               /\ OpenBlocks(g) \ {g.current} = OpenBlocks(f) \ {f.current}
               /\ g.current = f.current \/ g.current \notin DOMAIN f.blocks
               /\ DOMAIN f.blocks \subseteq DOMAIN g.blocks
<1>1. CASE Terminated(f)
  <2> DEFINE h == NewBlocks(f, 1)
             new == Len(f.blocks) + 1
             g == EnterBlock(h, new)
  <2>1. EnsureOpenBlock(f) = g
    BY <1>1 DEF EnsureOpenBlock
  <2>2. NewOnes(f, 1) = {new} /\ f.current \notin OpenBlocks(f)
    <3>1. Len(f.blocks) \in Nat
      BY BlocksAre DEF Good
    <3> QED
      BY <1>1, <3>1 DEF NewOnes, Terminated, OpenBlocks
  <2> HIDE DEF new
  <2>3. /\ Moves(f, h, {}, {new}, {})
        /\ OpenBlocks(h) = OpenBlocks(f) \cup {new}
        /\ h.current = f.current /\ h.values = f.values
        /\ DOMAIN h.blocks = DOMAIN f.blocks \cup {new}
        /\ DOMAIN f.blocks \cap {new} = {}
    <3>1. 1 \in Nat
      OBVIOUS
    <3>2. /\ Moves(f, h, {}, NewOnes(f, 1), {})
          /\ OpenBlocks(h) = OpenBlocks(f) \cup NewOnes(f, 1)
          /\ h.current = f.current /\ h.values = f.values
          /\ DOMAIN h.blocks = DOMAIN f.blocks \cup NewOnes(f, 1)
          /\ DOMAIN f.blocks \cap NewOnes(f, 1) = {}
      BY <3>1, GrowMove
    <3> HIDE DEF h
    <3> QED
      BY <2>2, <3>2
  <2> HIDE DEF h
  <2>4. Good(h) /\ new \in DOMAIN h.blocks /\ h.current \notin OpenBlocks(h)
    BY <2>2, <2>3 DEF Moves, Good, Shaped
  <2>5. /\ Moves(h, g, {new}, {}, {}) /\ OpenBlocks(g) = OpenBlocks(h)
        /\ g.blocks = h.blocks /\ g.current = new /\ g.values = h.values
    BY <2>4, EnterMove
  <2> HIDE DEF g
  <2>6. Moves(f, g, {}, {}, {})
    <3>1. Moves(f, g, {}, {new} \cup {}, {} \cup {})
      BY <2>3, <2>5, MovesOn
    <3> QED
      BY <3>1, MovesLess
  <2>7. Good(g)
    BY <2>6 DEF Moves
  <2>8. OpenBlocks(g) \ {new} = OpenBlocks(f) \ {f.current}
    BY <2>2, <2>3, <2>5 DEF OpenBlocks
  <2> QED
    BY <2>1, <2>3, <2>5, <2>6, <2>7, <2>8
<1>2. CASE ~Terminated(f)
  <2>1. EnsureOpenBlock(f) = f
    BY <1>2 DEF EnsureOpenBlock
  <2>2. f.current \in OpenBlocks(f)
    BY <1>2 DEF Terminated, OpenBlocks, Good, Shaped
  <2> QED
    BY <2>1, <2>2, MovesNot
<1> QED
  BY <1>1, <1>2

LEMMA FunctionsAre ==
    ASSUME NEW S, NEW n \in Nat, NEW s \in [1 .. n -> S]
    PROVE  s \in Seq(S)
  OBVIOUS

Patched(f, header, index, value, pred, g) ==
    /\ Shaped(g) /\ OpenBlocks(g) = OpenBlocks(f)
    /\ g.current = f.current /\ g.values = f.values
    /\ DOMAIN g.blocks = DOMAIN f.blocks
    /\ \A b \in DOMAIN f.blocks :
          /\ g.blocks[b].term = f.blocks[b].term /\ g.blocks[b].preds = f.blocks[b].preds
          /\ DOMAIN g.blocks[b].code = DOMAIN f.blocks[b].code
          /\ b # header => g.blocks[b].code = f.blocks[b].code
    /\ \A k \in DOMAIN f.blocks[header].code :
          /\ g.blocks[header].code[k].op = f.blocks[header].code[k].op
          /\ g.blocks[header].code[k].def = f.blocks[header].code[k].def
          /\ g.blocks[header].code[k].uses = f.blocks[header].code[k].uses
          /\ f.blocks[header].code[k].op = "phi" /\ f.blocks[header].code[k].def = index =>
                       g.blocks[header].code[k].inputs = f.blocks[header].code[k].inputs \cup {<<value, pred>>}

LEMMA PatchPhiShape ==
    ASSUME NEW f, Shaped(f), NEW header \in DOMAIN f.blocks, NEW index, NEW value \in Nat, NEW pred \in Nat,
           NEW g, Patches(f, header, index, value, pred, g)
    PROVE  Patched(f, header, index, value, pred, g)
<1> DEFINE old == f.blocks[header].code
           new == [i \in DOMAIN old |->
                      IF old[i].op = "phi" /\ old[i].def = index
                      THEN AddInput(old[i], <<value, pred>>)
                      ELSE old[i]]
           patched == [f.blocks[header] EXCEPT !.code = new]
<1>1. f \in FunctionSet
  BY DEF Shaped
<1>2. /\ f.blocks \in Seq(BlockSet) /\ f.current \in DOMAIN f.blocks
      /\ DOMAIN f.blocks = 1 .. Len(f.blocks) /\ Len(f.blocks) \in Nat
      /\ f.blocks[header] \in BlockSet
      /\ old \in Seq(InstrSet) /\ Len(old) \in Nat /\ DOMAIN old = 1 .. Len(old)
      /\ \A k \in DOMAIN old : old[k] \in InstrSet
  BY <1>1, FunctionIs DEF Shaped
<1>3. ASSUME NEW i \in DOMAIN old
      PROVE  /\ new[i] \in InstrSet /\ new[i].op = old[i].op
             /\ new[i].def = old[i].def /\ new[i].uses = old[i].uses
             /\ old[i].op = "phi" /\ old[i].def = index => new[i].inputs = old[i].inputs \cup {<<value, pred>>}
  <2>1. old[i] \in InstrSet
    BY <1>2
  <2>2. new[i] = IF old[i].op = "phi" /\ old[i].def = index
                 THEN AddInput(old[i], <<value, pred>>)
                 ELSE old[i]
    OBVIOUS
  <2> HIDE DEF old, new
  <2>3. old[i].inputs \cup {<<value, pred>>} \in SUBSET (Nat \X Nat)
    BY <2>1 DEF InstrSet
  <2> DEFINE patch == AddInput(old[i], <<value, pred>>)
  <2>4. /\ patch \in InstrSet /\ patch.op = old[i].op /\ patch.def = old[i].def /\ patch.uses = old[i].uses
        /\ patch.inputs = old[i].inputs \cup {<<value, pred>>}
    BY <2>1, <2>3 DEF InstrSet, AddInput
  <2> HIDE DEF patch
  <2>5. new[i] = IF old[i].op = "phi" /\ old[i].def = index THEN patch ELSE old[i]
    BY <2>2 DEF patch
  <2> QED
    BY <2>1, <2>4, <2>5
<1>4. new \in Seq(InstrSet) /\ DOMAIN new = DOMAIN old
  <2>1. DOMAIN new = DOMAIN old /\ new = [i \in DOMAIN new |-> new[i]]
    OBVIOUS
  <2> HIDE DEF new
  <2>2. new \in [1 .. Len(old) -> InstrSet]
    BY <1>2, <1>3, <2>1
  <2> HIDE DEF old
  <2> QED
    BY <1>2, <2>1, <2>2, FunctionsAre
<1>5. g = [f EXCEPT !.blocks = [f.blocks EXCEPT ![header] = patched]]
  BY DEF Patches, PatchPhi
<1> HIDE DEF new
<1>6. /\ patched \in BlockSet /\ patched.code = new
      /\ patched.term = f.blocks[header].term /\ patched.preds = f.blocks[header].preds
  BY <1>2, <1>4 DEF BlockSet
<1> HIDE DEF patched
<1>7. [f.blocks EXCEPT ![header] = patched] \in Seq(BlockSet)
  BY <1>2, <1>6, ExceptSeq
<1>8. /\ g \in FunctionSet /\ g.blocks = [f.blocks EXCEPT ![header] = patched]
      /\ g.current = f.current /\ g.values = f.values
  BY <1>1, <1>5, <1>7 DEF FunctionSet
<1>9. /\ DOMAIN g.blocks = DOMAIN f.blocks
      /\ g.blocks[header] = patched
      /\ \A b \in DOMAIN f.blocks : b # header => g.blocks[b] = f.blocks[b]
  BY <1>2, <1>8
<1>10. \A b \in DOMAIN f.blocks :
          /\ g.blocks[b].term = f.blocks[b].term /\ g.blocks[b].preds = f.blocks[b].preds
          /\ DOMAIN g.blocks[b].code = DOMAIN f.blocks[b].code
          /\ b # header => g.blocks[b].code = f.blocks[b].code
  BY <1>4, <1>6, <1>9
<1>11. Shaped(g)
  <2>1. EdgesMatch(g)
    BY <1>9, <1>10 DEF Shaped, EdgesMatch
  <2> QED
    BY <1>2, <1>8, <1>9, <2>1 DEF Shaped
<1>12. OpenBlocks(g) = OpenBlocks(f)
  BY <1>9, <1>10 DEF OpenBlocks
<1> QED
  BY <1>3, <1>6, <1>8, <1>9, <1>10, <1>11, <1>12 DEF Patched

(* A loop's way back to its header, whose phi takes the index from it.     *)
MayGoBack(f, header, index, v) ==
    /\ Good(f) /\ f.current \in OpenBlocks(f)
    /\ header \in DOMAIN f.blocks /\ header \notin OpenBlocks(f) /\ Guards(f, header, f.current)
    /\ PhisOf(f, header) = {index} /\ v \in Nat /\ v # 0 /\ DefinesIn(f, v, f.current)

LEMMA BackMove ==
    ASSUME NEW f, NEW header, NEW index, NEW v, MayGoBack(f, header, index, v), NEW pred, pred = f.current,
           NEW h, JumpsBack(f, header, h), NEW g, Patches(h, header, index, v, pred, g)
    PROVE  /\ Moves(f, g, {}, {}, {})
           /\ OpenBlocks(g) = OpenBlocks(f) \ {pred}
           /\ g.current = pred /\ DOMAIN g.blocks = DOMAIN f.blocks /\ g.values = f.values
<1> SUFFICES ASSUME Good(f), pred \in OpenBlocks(f), header \in DOMAIN f.blocks, header \notin OpenBlocks(f),
                    Guards(f, header, pred), PhisOf(f, header) = {index},
                    v \in Nat, v # 0, DefinesIn(f, v, pred)
             PROVE  /\ Moves(f, g, {}, {}, {})
                    /\ OpenBlocks(g) = OpenBlocks(f) \ {pred}
                    /\ g.current = pred /\ DOMAIN g.blocks = DOMAIN f.blocks /\ g.values = f.values
  BY DEF MayGoBack
<1> DEFINE t == Jump(header)
<1>1. /\ Shaped(f) /\ pred \in DOMAIN f.blocks /\ header # pred
      /\ header \in Nat /\ pred \in Nat /\ f \in FunctionSet
  <2>1. Shaped(f) /\ DOMAIN f.blocks = 1 .. Len(f.blocks) /\ pred \in DOMAIN f.blocks
    BY BlocksAre DEF Good, Shaped
  <2> QED
    BY <2>1 DEF Shaped
<1>2. t \in TermSet /\ t # Open /\ t.uses = {} /\ Successors(t) = {header}
  BY <1>1, JumpIs
<1>3. h = SetTerminator(f, t)
  BY DEF JumpsBack
<1> HIDE DEF t
<1>4. /\ Shaped(h)
      /\ OpenBlocks(h) = OpenBlocks(f) \ {pred}
      /\ h.current = pred /\ DOMAIN h.blocks = DOMAIN f.blocks /\ h.values = f.values
      /\ \A b \in DOMAIN f.blocks :
            /\ h.blocks[b].code = f.blocks[b].code
            /\ h.blocks[b].term = IF b = pred THEN t ELSE f.blocks[b].term
            /\ h.blocks[b].preds = IF b \in {header} THEN f.blocks[b].preds \cup {pred} ELSE f.blocks[b].preds
  <2>1. Successors(t) \subseteq DOMAIN f.blocks /\ f.current \in OpenBlocks(f)
    BY <1>2
  <2>2. /\ Shaped(h)
        /\ OpenBlocks(h) = OpenBlocks(f) \ {f.current}
        /\ h.current = f.current /\ DOMAIN h.blocks = DOMAIN f.blocks /\ h.values = f.values
        /\ \A b \in DOMAIN f.blocks :
              /\ h.blocks[b].code = f.blocks[b].code
              /\ h.blocks[b].term = IF b = f.current THEN t ELSE f.blocks[b].term
              /\ h.blocks[b].preds = IF b \in Successors(t) THEN f.blocks[b].preds \cup {f.current}
                                                            ELSE f.blocks[b].preds
    BY <1>1, <1>2, <1>3, <2>1, SetTerminatorShape
  <2> QED
    BY <1>2, <2>2
<1>5. /\ Shaped(g) /\ OpenBlocks(g) = OpenBlocks(h)
      /\ g.current = h.current /\ DOMAIN g.blocks = DOMAIN h.blocks /\ g.values = h.values
      /\ \A b \in DOMAIN h.blocks :
            /\ g.blocks[b].term = h.blocks[b].term /\ g.blocks[b].preds = h.blocks[b].preds
            /\ DOMAIN g.blocks[b].code = DOMAIN h.blocks[b].code
            /\ b # header => g.blocks[b].code = h.blocks[b].code
      /\ \A k \in DOMAIN h.blocks[header].code :
            /\ g.blocks[header].code[k].op = h.blocks[header].code[k].op
            /\ g.blocks[header].code[k].def = h.blocks[header].code[k].def
            /\ g.blocks[header].code[k].uses = h.blocks[header].code[k].uses
            /\ h.blocks[header].code[k].op = "phi" /\ h.blocks[header].code[k].def = index =>
                  g.blocks[header].code[k].inputs = h.blocks[header].code[k].inputs \cup {<<v, pred>>}
  <2>1. header \in DOMAIN h.blocks
    BY <1>4
  <2>2. Shaped(h) /\ pred \in Nat /\ v \in Nat
    BY <1>1, <1>4
  <2> QED
    <3>1. Patched(h, header, index, v, pred, g)
      BY <2>1, <2>2, PatchPhiShape
    <3> QED
      BY <3>1 DEF Patched
<1>6. /\ DOMAIN g.blocks = DOMAIN f.blocks /\ g.current = pred /\ g.values = f.values
      /\ OpenBlocks(g) = OpenBlocks(f) \ {pred}
  BY <1>4, <1>5
<1>7. ASSUME NEW b \in DOMAIN f.blocks
      PROVE  /\ DOMAIN g.blocks[b].code = DOMAIN f.blocks[b].code
             /\ b # header => g.blocks[b].code = f.blocks[b].code
             /\ \A k \in DOMAIN f.blocks[b].code :
                   /\ g.blocks[b].code[k].op = f.blocks[b].code[k].op
                   /\ g.blocks[b].code[k].def = f.blocks[b].code[k].def
                   /\ g.blocks[b].code[k].uses = f.blocks[b].code[k].uses
  <2>1. h.blocks[b].code = f.blocks[b].code /\ b \in DOMAIN h.blocks
    BY <1>4
  <2>2. CASE b = header
    BY <1>5, <2>1, <2>2
  <2>3. CASE b # header
    BY <1>5, <2>1, <2>3
  <2> QED
    BY <2>2, <2>3
<1>8. \A k \in DOMAIN f.blocks[header].code :
         f.blocks[header].code[k].op = "phi" /\ f.blocks[header].code[k].def = index =>
            g.blocks[header].code[k].inputs = f.blocks[header].code[k].inputs \cup {<<v, pred>>}
  <2>1. h.blocks[header].code = f.blocks[header].code
    BY <1>4
  <2> QED
    BY <1>5, <2>1
<1>9. /\ \A b \in DOMAIN f.blocks : b # pred => g.blocks[b].term = f.blocks[b].term
      /\ \A b \in DOMAIN f.blocks : b # header => g.blocks[b].preds = f.blocks[b].preds
      /\ g.blocks[pred].term = t /\ g.blocks[header].preds = f.blocks[header].preds \cup {pred}
  BY <1>1, <1>4, <1>5
<1>10. \A a, b : Guards(f, a, b) => Guards(g, a, b)
  <2>1. Edges(f, pred) = {}
    BY NothingFollows
  <2>2. Edges(g, pred) = {header} /\ \A x \in DOMAIN f.blocks : x # pred => Edges(g, x) = Edges(f, x)
    BY <1>2, <1>9 DEF Edges
  <2>3. ASSUME NEW a, NEW b, Guards(f, a, b) PROVE Guards(g, a, b)
    <3>1. PICK T : T = {header}
      OBVIOUS
    <3>2. PICK fresh : fresh = {}
      OBVIOUS
    <3>3. \A x \in T : x \in DOMAIN f.blocks /\ x # pred
      BY <1>1, <3>1
    <3>4. \A x \in T : IF x \in fresh THEN Edges(f, x) = {} ELSE Guards(f, x, pred)
      BY <3>1, <3>2
    <3>5. Edges(g, pred) = T /\ (b \in T \cap fresh => Guards(f, a, pred))
      BY <2>2, <3>1, <3>2
    <3> QED
      BY <1>1, <1>6, <2>1, <2>2, <2>3, <3>3, <3>4, <3>5, GuardsStay
  <2> QED
    BY <2>3
<1>11. KeepsGuards(f, g)
  BY <1>10 DEF KeepsGuards
<1>12. \A v2, c : DefinesIn(f, v2, c) <=> DefinesIn(g, v2, c)
  BY <1>6, <1>7 DEF DefinesIn
<1>13. \A b \in DOMAIN f.blocks : PhisOf(g, b) = PhisOf(f, b)
  <2> SUFFICES ASSUME NEW b \in DOMAIN f.blocks PROVE PhisOf(g, b) = PhisOf(f, b)
    OBVIOUS
  <2>1. Phis(g.blocks[b].code) = Phis(f.blocks[b].code)
    BY <1>7 DEF Phis
  <2>2. \A k \in Phis(f.blocks[b].code) : g.blocks[b].code[k].def = f.blocks[b].code[k].def
    BY <1>7 DEF Phis
  <2> QED
    BY <2>1, <2>2 DEF PhisOf
<1>14. OneDef(g)
  <2> SUFFICES ASSUME NEW b \in DOMAIN f.blocks, NEW c \in DOMAIN f.blocks,
                      NEW j \in DOMAIN f.blocks[b].code, NEW k \in DOMAIN f.blocks[c].code,
                      g.blocks[b].code[j].def = g.blocks[c].code[k].def, g.blocks[b].code[j].def # 0
               PROVE  b = c /\ j = k
    BY <1>6, <1>7 DEF OneDef
  <2>1. f.blocks[b].code[j].def = f.blocks[c].code[k].def /\ f.blocks[b].code[j].def # 0
    BY <1>7
  <2> QED
    BY <2>1 DEF Good, OneDef
<1>15. UsesGuarded(g)
  <2> SUFFICES ASSUME NEW b \in DOMAIN f.blocks
               PROVE  /\ \A k \in DOMAIN g.blocks[b].code : \A x \in g.blocks[b].code[k].uses : Before(g, x, b, k)
                      /\ \A x \in g.blocks[b].term.uses : Computed(g, x, b)
    BY <1>6 DEF UsesGuarded
  <2>1. ASSUME NEW k \in DOMAIN f.blocks[b].code, NEW x \in f.blocks[b].code[k].uses PROVE Before(g, x, b, k)
    <3>1. Before(f, x, b, k)
      BY <2>1 DEF Good, UsesGuarded
    <3>2. PICK c \in DOMAIN f.blocks : \E j \in DOMAIN f.blocks[c].code :
             f.blocks[c].code[j].def = x /\ IF c = b THEN j < k ELSE Guards(f, c, b)
      BY <3>1 DEF Before
    <3>3. PICK j \in DOMAIN f.blocks[c].code :
             f.blocks[c].code[j].def = x /\ IF c = b THEN j < k ELSE Guards(f, c, b)
      BY <3>2
    <3>4. c \in DOMAIN g.blocks /\ j \in DOMAIN g.blocks[c].code /\ g.blocks[c].code[j].def = x
      BY <1>6, <1>7, <3>3
    <3>5. IF c = b THEN j < k ELSE Guards(g, c, b)
      BY <1>10, <3>3
    <3> QED
      BY <3>1, <3>4, <3>5 DEF Before
  <2>2. ASSUME NEW x \in g.blocks[b].term.uses PROVE Computed(g, x, b)
    <3>1. b # pred
      BY <1>2, <1>9, <2>2
    <3>2. Computed(f, x, b)
      BY <1>9, <2>2, <3>1 DEF Good, UsesGuarded
    <3> QED
      BY <1>10, <1>12, <3>2 DEF Computed
  <2> QED
    BY <1>7, <2>1, <2>2
<1>16. PhisMatch(g)
  <2> SUFFICES ASSUME NEW b \in DOMAIN f.blocks, NEW k \in Phis(f.blocks[b].code)
               PROVE  InputsMatch(g, b, g.blocks[b].code[k].inputs)
    <3>1. \A b \in DOMAIN f.blocks : Phis(g.blocks[b].code) = Phis(f.blocks[b].code)
      BY <1>7 DEF Phis
    <3> QED
      BY <1>6, <3>1 DEF PhisMatch
  <2>1. InputsMatch(f, b, f.blocks[b].code[k].inputs)
    BY DEF Good, PhisMatch
  <2>2. CASE b # header
    BY <1>1, <1>7, <1>9, <1>11, <1>12, <2>1, <2>2, InputsStay
  <2>3. CASE b = header
    <3> DEFINE old == f.blocks[header].code[k].inputs
               new == <<v, pred>>
    <3>1. f.blocks[header].code[k].def \in PhisOf(f, header) /\ k \in DOMAIN f.blocks[header].code
          /\ f.blocks[header].code[k].op = "phi"
      BY <2>3 DEF PhisOf, Phis
    <3>2. g.blocks[header].code[k].inputs = old \cup {new}
      BY <1>8, <3>1
    <3>3. pred \notin f.blocks[header].preds
      <4>1. header \notin Successors(f.blocks[pred].term)
        BY NothingFollows DEF Edges
      <4> QED
        BY <1>1, <4>1 DEF Shaped, EdgesMatch
    <3>4. /\ {input[2] : input \in old} = f.blocks[header].preds
          /\ \A i, j \in old : i[2] = j[2] => i = j
          /\ \A input \in old : Computed(f, input[1], input[2])
      BY <2>1, <2>3 DEF InputsMatch
    <3>5. new[1] = v /\ new[2] = pred
      OBVIOUS
    <3>6. \A input \in old : input[2] # pred
      BY <3>3, <3>4
    <3>7. Computed(g, v, pred)
      <4>1. Guards(g, pred, pred)
        BY <1>5, GuardsItself
      <4> QED
        BY <1>12, <4>1 DEF Computed
    <3> HIDE DEF old, new
    <3>8. {input[2] : input \in old \cup {new}} = g.blocks[header].preds
      BY <1>9, <3>4, <3>5
    <3>9. \A i, j \in old \cup {new} : i[2] = j[2] => i = j
      BY <3>4, <3>5, <3>6
    <3>10. ASSUME NEW input \in old PROVE Computed(g, input[1], input[2])
      <4>1. Computed(f, input[1], input[2])
        BY <3>4
      <4> QED
        BY <1>10, <1>12, <4>1 DEF Computed
    <3>11. \A input \in old \cup {new} : Computed(g, input[1], input[2])
      BY <3>5, <3>7, <3>10
    <3> QED
      BY <2>3, <3>2, <3>8, <3>9, <3>11 DEF InputsMatch
  <2> QED
    BY <2>2, <2>3
<1>17. Good(g)
  <2>1. Untouched(g)
    <3> SUFFICES ASSUME NEW b \in OpenBlocks(g) \ {g.current} PROVE g.blocks[b].code = <<>>
      BY DEF Untouched
    <3>1. b \in OpenBlocks(f) \ {pred} /\ b \in DOMAIN f.blocks /\ b # header
      BY <1>6 DEF OpenBlocks
    <3> QED
      BY <1>7, <3>1 DEF Good, Untouched
  <2> QED
    BY <1>5, <1>14, <1>15, <1>16, <2>1 DEF Good
<1>18. Moves(f, g, {}, {}, {})
  <2>1. Defs(g) \subseteq Defs(f) \cup {}
    BY <1>12 DEF Defs
  <2>2. ASSUME NEW a \in DOMAIN f.blocks, NEW B \in SUBSET DOMAIN f.blocks, Covers(f, a, B)
        PROVE  Covers(g, a, B \cup {})
    BY <1>6, <1>10, <2>2 DEF Covers
  <2> QED
    BY <1>6, <1>12, <1>13, <1>17, <2>1, <2>2 DEF Moves
<1> QED
  BY <1>6, <1>18

-----------------------------------------------------------------------------
(* What is known further on *)

(* Value v is computed on every way to the current block, and to blocks B. *)
Known(f, v, B) == v # 0 /\ \E c \in DOMAIN f.blocks : DefinesIn(f, v, c) /\ Covers(f, c, B)

LEMMA KnownMoves ==
    ASSUME NEW f, NEW g, NEW E, NEW N, NEW D, Moves(f, g, E, N, D),
           NEW B \in SUBSET DOMAIN f.blocks, E \subseteq B, NEW v, Known(f, v, B)
    PROVE  Known(g, v, B \cup N)
<1>1. PICK c \in DOMAIN f.blocks : v # 0 /\ DefinesIn(f, v, c) /\ Covers(f, c, B)
  BY DEF Known
<1>2. c \in DOMAIN g.blocks /\ DefinesIn(g, v, c) /\ Covers(g, c, B \cup N)
  BY <1>1 DEF Moves
<1> QED
  BY <1>1, <1>2 DEF Known

LEMMA KnownLess ==
    ASSUME NEW f, NEW v, NEW B, Known(f, v, B), NEW C, C \subseteq B
    PROVE  Known(f, v, C)
  BY DEF Known, Covers

LEMMA KnownComputed ==
    ASSUME NEW f, NEW v, NEW B, Known(f, v, B)
    PROVE  Computed(f, v, f.current) /\ \A b \in B : Computed(f, v, b)
  BY DEF Known, Covers, Computed

LEMMA ComputedKnown ==
    ASSUME NEW f, NEW v
    PROVE  Computed(f, v, f.current) <=> Known(f, v, {})
<1>1. ASSUME Computed(f, v, f.current) PROVE Known(f, v, {})
  <2>1. PICK c : v # 0 /\ DefinesIn(f, v, c) /\ Guards(f, c, f.current)
    BY <1>1 DEF Computed
  <2>2. c \in DOMAIN f.blocks
    BY <2>1 DEF DefinesIn
  <2> QED
    BY <2>1, <2>2 DEF Known, Covers
<1> QED
  BY <1>1, KnownComputed

LEMMA KnownNow ==
    ASSUME NEW f, Good(f), NEW v, v # 0, DefinesIn(f, v, f.current)
    PROVE  Known(f, v, {})
<1>1. f.current \in DOMAIN f.blocks /\ Guards(f, f.current, f.current)
  BY GuardsItself DEF Good, Shaped
<1> QED
  BY <1>1 DEF Known, Covers

LEMMA NoPhis ==
    ASSUME NEW f, Good(f), NEW b \in OpenBlocks(f) \ {f.current}
    PROVE  PhisOf(f, b) = {} /\ f.blocks[b].code = <<>>
  BY Empty DEF Good, Untouched, PhisOf, Phis

(* To new blocks, one of which is entered.                                 *)
Opened(f, k, term, b, g) == g = EnterBlock(SetTerminator(NewBlocks(f, k), term), b)

LEMMA OpenMove ==
    ASSUME NEW f, Good(f), f.current \in OpenBlocks(f), NEW k \in Nat, NEW term \in TermSet, term # Open,
           Successors(term) \subseteq NewOnes(f, k), \A v \in term.uses : Computed(f, v, f.current),
           NEW entered \in NewOnes(f, k), NEW g, Opened(f, k, term, entered, g)
    PROVE  /\ Moves(f, g, {}, NewOnes(f, k), {}) /\ Good(g)
           /\ OpenBlocks(g) = (OpenBlocks(f) \ {f.current}) \cup NewOnes(f, k)
           /\ g.current = entered /\ entered \in OpenBlocks(g) /\ g.values = f.values
           /\ DOMAIN g.blocks = DOMAIN f.blocks \cup NewOnes(f, k)
           /\ DOMAIN f.blocks \cap NewOnes(f, k) = {}
           /\ \A b \in Successors(term) : g.blocks[b].preds = {f.current}
           /\ \A b \in NewOnes(f, k) : PhisOf(g, b) = {}
           /\ \A b \in NewOnes(f, k) \ Successors(term) : \A a : Guards(g, a, b)
<1> DEFINE h == NewBlocks(f, k)
           t == SetTerminator(h, term)
           new == NewOnes(f, k)
<1>1. /\ Moves(f, h, {}, new, {})
      /\ OpenBlocks(h) = OpenBlocks(f) \cup new
      /\ h.current = f.current /\ h.values = f.values
      /\ DOMAIN h.blocks = DOMAIN f.blocks \cup new
      /\ DOMAIN f.blocks \cap new = {}
      /\ \A b \in new : h.blocks[b].preds = {}
  BY GrowMove
<1>g. g = EnterBlock(t, entered)
  BY DEF Opened
<1> HIDE DEF h, new
<1>2. Good(h) /\ f.current \notin new /\ f.current \in DOMAIN f.blocks
  BY <1>1 DEF Moves, Good, Shaped
<1>3. \A v \in term.uses : Computed(h, v, h.current)
  <2> SUFFICES ASSUME NEW v \in term.uses PROVE Computed(h, v, h.current)
    OBVIOUS
  <2>1. Known(f, v, {})
    BY ComputedKnown
  <2>2. Known(h, v, {} \cup new)
    BY <1>1, <2>1, KnownMoves
  <2> QED
    BY <2>2, KnownComputed
<1>4. /\ Moves(h, t, {}, {}, {})
      /\ OpenBlocks(t) = OpenBlocks(h) \ {h.current}
      /\ t.current = h.current /\ t.values = h.values
      /\ DOMAIN t.blocks = DOMAIN h.blocks
      /\ \A b \in DOMAIN h.blocks :
            t.blocks[b].preds = IF b \in Successors(term) THEN h.blocks[b].preds \cup {h.current}
                                                          ELSE h.blocks[b].preds
  <2>1. h.current \in OpenBlocks(h)
    BY <1>1
  <2>2. \A b \in Successors(term) : b \in DOMAIN h.blocks /\ b # h.current /\ b \in OpenBlocks(h)
    BY <1>1, <1>2 DEF new
  <2> QED
    BY <1>2, <1>3, <2>1, <2>2, EndMove
<1> HIDE DEF t
<1>5. Good(t) /\ entered \in DOMAIN t.blocks /\ t.current \notin OpenBlocks(t)
  BY <1>1, <1>4 DEF Moves, new
<1>6. /\ Moves(t, g, {entered}, {}, {}) /\ OpenBlocks(g) = OpenBlocks(t)
      /\ g.blocks = t.blocks /\ g.current = entered /\ g.values = t.values
  BY <1>g, <1>5, EnterMove
<1>7. Moves(f, g, {}, new, {})
  <2>1. Moves(f, t, {}, new, {})
    BY <1>1, <1>4, MovesOn
  <2> QED
    BY <1>4, <1>1, <1>6, <2>1, MovesOn DEF new
<1>8. OpenBlocks(g) = (OpenBlocks(f) \ {f.current}) \cup new
  BY <1>1, <1>2, <1>4, <1>6
<1>9. \A b \in Successors(term) : g.blocks[b].preds = {f.current}
  BY <1>1, <1>4, <1>6 DEF new
<1>10. \A b \in new : PhisOf(g, b) = {}
  <2> SUFFICES ASSUME NEW b \in new PROVE PhisOf(g, b) = {}
    OBVIOUS
  <2>1. b \in OpenBlocks(t) \ {t.current}
    BY <1>1, <1>2, <1>4
  <2>2. PhisOf(t, b) = {}
    BY <1>5, <2>1, NoPhis
  <2> QED
    BY <1>6, <2>2 DEF PhisOf
<1>11. ASSUME NEW b \in new \ Successors(term), NEW a PROVE Guards(g, a, b)
  <2>1. Shaped(g) /\ Shaped(f)
    BY <1>7 DEF Moves, Good
  <2>2. b \in DOMAIN g.blocks /\ g.blocks[b].preds = {}
    BY <1>1, <1>4, <1>6, <1>11
  <2>3. \A x \in DOMAIN g.blocks : b \notin Edges(g, x)
    BY <2>1, <2>2 DEF Shaped, EdgesMatch, Edges
  <2>4. b # 1
    BY <1>1, <1>11, <2>1, BlocksAre
  <2> QED
    BY <2>1, <2>3, <2>4, GuardsUnreached
<1>12. Good(g) /\ entered \in OpenBlocks(g)
  BY <1>7, <1>8 DEF Moves, new
<1>13. g.values = f.values /\ DOMAIN g.blocks = DOMAIN f.blocks \cup new /\ DOMAIN f.blocks \cap new = {}
  BY <1>1, <1>4, <1>6
<1> QED
  BY <1>6, <1>7, <1>8, <1>9, <1>10, <1>11, <1>12, <1>13 DEF new

(* To a block that is there already.                                       *)
MayLeadTo(f, t) ==
    /\ t \in DOMAIN f.blocks /\ t # f.current
    /\ t \notin OpenBlocks(f) => PhisOf(f, t) = {} /\ Guards(f, t, f.current)

MayEnd(f, term) ==
    /\ Good(f) /\ f.current \in OpenBlocks(f) /\ term \in TermSet /\ term # Open
    /\ \A t \in Successors(term) : MayLeadTo(f, t)
    /\ \A v \in term.uses : Computed(f, v, f.current)
Went(f, c, g) ==
    /\ Moves(f, g, {c}, {}, {}) /\ Good(g)
    /\ OpenBlocks(g) = OpenBlocks(f) \ {f.current}
    /\ g.current = c /\ g.values = f.values
    /\ DOMAIN g.blocks = DOMAIN f.blocks
    /\ \A b \in DOMAIN f.blocks : PhisOf(g, b) = PhisOf(f, b)
GoesTo(f, term, c, g) == g = EnterBlock(SetTerminator(f, term), c)

LEMMA TurnMove ==
    ASSUME NEW f, NEW term, MayEnd(f, term), NEW c \in DOMAIN f.blocks, NEW g, GoesTo(f, term, c, g)
    PROVE  Went(f, c, g)
<1> DEFINE t == SetTerminator(f, term)
<1>f. /\ Good(f) /\ f.current \in OpenBlocks(f) /\ term \in TermSet /\ term # Open
      /\ \A b \in Successors(term) : MayLeadTo(f, b)
      /\ \A v \in term.uses : Computed(f, v, f.current)
  BY DEF MayEnd
<1>1. /\ Moves(f, t, {}, {}, {})
      /\ OpenBlocks(t) = OpenBlocks(f) \ {f.current}
      /\ t.current = f.current /\ t.values = f.values
      /\ DOMAIN t.blocks = DOMAIN f.blocks
      /\ \A b \in DOMAIN f.blocks : t.blocks[b].code = f.blocks[b].code
  <2>1. \A b \in Successors(term) :
          /\ b \in DOMAIN f.blocks /\ b # f.current
          /\ b \notin OpenBlocks(f) => PhisOf(f, b) = {} /\ Guards(f, b, f.current)
    BY <1>f DEF MayLeadTo
  <2> QED
    BY <1>f, <2>1, EndMove
<1>g. g = EnterBlock(t, c)
  BY DEF GoesTo
<1> HIDE DEF t
<1>2. Good(t) /\ c \in DOMAIN t.blocks /\ t.current \notin OpenBlocks(t)
  BY <1>1 DEF Moves
<1>3. /\ Moves(t, g, {c}, {}, {}) /\ OpenBlocks(g) = OpenBlocks(t)
      /\ g.blocks = t.blocks /\ g.current = c /\ g.values = t.values
  BY <1>g, <1>2, EnterMove
<1>4. Moves(f, g, {c}, {}, {})
  <2>1. Moves(f, t, {c}, {}, {})
    BY <1>1, MovesLess
  <2>2. Moves(f, g, {c}, {} \cup {}, {} \cup {})
    BY <1>3, <2>1, MovesOn
  <2> QED
    BY <2>2
<1>5. \A b \in DOMAIN f.blocks : PhisOf(g, b) = PhisOf(f, b)
  BY <1>1, <1>3 DEF PhisOf
<1>6. Good(g)
  BY <1>4 DEF Moves
<1> QED
  BY <1>1, <1>3, <1>4, <1>5, <1>6 DEF Went

LEMMA LeaveMove ==
    ASSUME NEW f, Good(f), NEW b \in DOMAIN f.blocks, f.current \in OpenBlocks(f) => MayLeadTo(f, b),
           NEW c \in DOMAIN f.blocks, NEW g, Leaves(f, b, c, g)
    PROVE  Went(f, c, g)
<1>1. f.current \in DOMAIN f.blocks /\ b \in Nat
  BY BlocksAre DEF Good, Shaped
<1>2. CASE f.current \in OpenBlocks(f)
  <2>1. ~Terminated(f)
    BY <1>2 DEF OpenBlocks, Terminated
  <2>2. GoesTo(f, Jump(b), c, g)
    BY <2>1 DEF Leaves, Close, GoesTo
  <2>3. Jump(b) \in TermSet /\ Jump(b) # Open /\ Jump(b).uses = {} /\ Successors(Jump(b)) = {b}
    BY <1>1, JumpIs
  <2>4. MayEnd(f, Jump(b))
    BY <1>2, <2>3 DEF MayEnd
  <2> QED
    BY <1>2, <2>2, <2>4, TurnMove
<1>3. CASE f.current \notin OpenBlocks(f)
  <2>1. Terminated(f)
    BY <1>1, <1>3 DEF OpenBlocks, Terminated
  <2>2. g = EnterBlock(f, c)
    BY <2>1 DEF Leaves, Close
  <2>3. /\ Moves(f, g, {c}, {}, {}) /\ OpenBlocks(g) = OpenBlocks(f)
        /\ g.blocks = f.blocks /\ g.current = c /\ g.values = f.values
    BY <1>3, <2>2, EnterMove
  <2>4. Good(g) /\ \A a \in DOMAIN f.blocks : PhisOf(g, a) = PhisOf(f, a)
    BY <2>3 DEF Moves, PhisOf
  <2> QED
    BY <1>3, <2>3, <2>4 DEF Went
<1> QED
  BY <1>2, <1>3

LEMMA GoMove ==
    ASSUME NEW f, Good(f), f.current \in OpenBlocks(f), NEW b, MayLeadTo(f, b),
           NEW c \in DOMAIN f.blocks, NEW g, GoesOn(f, b, c, g)
    PROVE  Went(f, c, g)
<1>1. b \in Nat
  BY BlocksAre DEF MayLeadTo, Good, Shaped
<1>2. Jump(b) \in TermSet /\ Jump(b) # Open /\ Jump(b).uses = {} /\ Successors(Jump(b)) = {b}
  BY <1>1, JumpIs
<1>3. MayEnd(f, Jump(b))
  BY <1>2 DEF MayEnd
<1>4. GoesTo(f, Jump(b), c, g)
  BY DEF GoesOn, GoesTo
<1> QED
  BY <1>3, <1>4, TurnMove

MayBranch(f, v, b, c, g) ==
    /\ Good(f) /\ f.current \in OpenBlocks(f) /\ Computed(f, v, f.current)
    /\ b \in OpenBlocks(f) /\ b # f.current /\ c \in OpenBlocks(f) /\ c # f.current
    /\ BranchesTo(f, v, b, c, g)

LEMMA BranchMoves ==
    ASSUME NEW f, NEW v, NEW b, NEW c, NEW g, MayBranch(f, v, b, c, g)
    PROVE  Went(f, b, g)
<1> SUFFICES ASSUME Good(f), f.current \in OpenBlocks(f), Computed(f, v, f.current),
                    b \in OpenBlocks(f), b # f.current, c \in OpenBlocks(f), c # f.current,
                    BranchesTo(f, v, b, c, g)
             PROVE  Went(f, b, g)
  BY DEF MayBranch
<1>1. b \in DOMAIN f.blocks /\ c \in DOMAIN f.blocks /\ b \in Nat /\ c \in Nat
  BY BlocksAre DEF OpenBlocks, Good
<1>2. v \in Nat
  BY DefinesIs DEF Computed, Good, Shaped
<1> DEFINE term == Branch(v, b, c)
<1>3. term \in TermSet /\ term # Open /\ term.uses = {v} /\ Successors(term) = {b, c}
  BY <1>1, <1>2, BranchIs
<1>g. GoesTo(f, term, b, g)
  BY DEF BranchesTo, GoesTo
<1> HIDE DEF term
<1>4. MayEnd(f, term)
  BY <1>1, <1>3 DEF MayLeadTo, MayEnd
<1> QED
  BY <1>g, <1>1, <1>4, TurnMove

-----------------------------------------------------------------------------
(* What the state says of the values: the slots in scope j are known in    *)
(* the blocks that the statements opened after it wait for, and the header *)
(* of an open loop guards the blocks to come of the loop and of those in   *)
(* it.                                                                     *)

Later(fs, j) == UNION {Awaited(fs[i]) : i \in {i \in DOMAIN fs : j <= ScopesBelow(fs, i)}}
SlotsGuarded(f, e, fs) == \A j \in DOMAIN e : \A n \in DOMAIN e[j] : Known(f, e[j][n], Later(fs, j))

IsLoop(x) == x.kind \in {"while", "for"}
HeaderOf(x) == IF x.kind = "for" THEN x.other - 2 ELSE x.other
Heads(f, x, B) ==
    /\ HeaderOf(x) \in DOMAIN f.blocks \ OpenBlocks(f)
    /\ Covers(f, HeaderOf(x), B)
    /\ x.kind = "for" => x.index \in Nat \ {0}
    /\ PhisOf(f, HeaderOf(x)) = IF x.kind = "for" THEN {x.index} ELSE {}
HeadersGuard(f, fs) ==
    \A i \in DOMAIN fs : IsLoop(fs[i]) => Heads(f, fs[i], Later(fs, ScopesBelow(fs, i)))
LoopsMatch(ls, fs) ==
    \A m \in DOMAIN ls : \E i \in DOMAIN fs :
        /\ IsLoop(fs[i])
        /\ LoopsBelow(fs, i) = m - 1
        /\ ls[m] = [break |-> fs[i].exit, continue |-> fs[i].other]

Dominated(f, e, fs, ls) ==
    /\ Good(f)
    /\ Defs(f) \subseteq 1 .. f.values
    /\ SlotsGuarded(f, e, fs)
    /\ HeadersGuard(f, fs)
    /\ LoopsMatch(ls, fs)
DomInv == Dominated(fn, env, frames, loops)

LEMMA LaterLonger ==
    ASSUME NEW fs \in Seq(FrameSet), NEW x \in FrameSet, NEW j
    PROVE  Later(Append(fs, x), j) =
              Later(fs, j) \cup IF j <= ScopesBelow(fs, Len(fs) + 1) THEN Awaited(x) ELSE {}
<1> DEFINE gs == Append(fs, x)
           last == Len(fs) + 1
<1>1. /\ DOMAIN gs = DOMAIN fs \cup {last} /\ last \notin DOMAIN fs
      /\ \A i \in DOMAIN fs : gs[i] = fs[i]
      /\ gs[last] = x
  BY AwaitedByLonger
<1>2. DOMAIN fs = 1 .. Len(fs) /\ Len(fs) \in Nat
  BY SequenceIs
<1>3. \A i \in DOMAIN gs : ScopesBelow(gs, i) = ScopesBelow(fs, i)
  BY <1>1, <1>2, ScopesBelowSame
<1> HIDE DEF gs, last
<1>4. \A b : b \in Later(gs, j) <=>
               b \in Later(fs, j) \/ (j <= ScopesBelow(fs, last) /\ b \in Awaited(x))
  BY <1>1, <1>3 DEF Later
<1> QED
  BY <1>4 DEF gs, last

LEMMA LaterNone ==
    ASSUME NEW fs \in Seq(FrameSet), NEW j \in Nat, j >= ScopesBelow(fs, Len(fs) + 1)
    PROVE  Later(fs, j) = {}
<1>1. DOMAIN fs = 1 .. Len(fs) /\ Len(fs) \in Nat
  BY SequenceIs
<1>2. ASSUME NEW i \in DOMAIN fs PROVE ~(j <= ScopesBelow(fs, i))
  <2>1. i \in Nat \ {0} /\ Len(fs) + 1 \in Nat \ {0} /\ i < Len(fs) + 1
    BY <1>1
  <2>2. ScopesBelow(fs, i) < ScopesBelow(fs, Len(fs) + 1)
    BY <2>1, ScopesBelowGrows
  <2>3. ScopesBelow(fs, i) \in Nat /\ ScopesBelow(fs, Len(fs) + 1) \in Nat
    BY <2>1, ScopesBelowIs
  <2> QED
    BY <2>2, <2>3
<1> QED
  BY <1>2 DEF Later

LEMMA LaterOpen ==
    ASSUME NEW f, NEW fs, NEW ahead, WaitsFor(f, fs, ahead), NEW j
    PROVE  Later(fs, j) \subseteq OpenBlocks(f) \ {f.current} /\ Later(fs, j) \subseteq DOMAIN f.blocks
<1>1. Later(fs, j) \subseteq AwaitedBy(fs)
  BY DEF Later, AwaitedBy
<1> QED
  BY <1>1 DEF WaitsFor, OpenBlocks

LEMMA SlotsPass ==
    ASSUME NEW f, NEW g, NEW E, NEW N, NEW D, Moves(f, g, E, N, D),
           NEW e, NEW fs, SlotsGuarded(f, e, fs), NEW d, NEW gs,
           \A j \in DOMAIN d :
              \/ \A n \in DOMAIN d[j] : Known(g, d[j][n], Later(gs, j))
              \/ /\ j \in DOMAIN e /\ d[j] = e[j]
                 /\ Later(fs, j) \subseteq DOMAIN f.blocks
                 /\ E \subseteq Later(fs, j) /\ Later(gs, j) \subseteq Later(fs, j) \cup N
    PROVE  SlotsGuarded(g, d, gs)
<1> SUFFICES ASSUME NEW j \in DOMAIN d, NEW n \in DOMAIN d[j],
                    j \in DOMAIN e, d[j] = e[j], Later(fs, j) \subseteq DOMAIN f.blocks,
                    E \subseteq Later(fs, j), Later(gs, j) \subseteq Later(fs, j) \cup N
             PROVE  Known(g, d[j][n], Later(gs, j))
  BY DEF SlotsGuarded
<1>1. Known(f, d[j][n], Later(fs, j))
  BY DEF SlotsGuarded
<1>2. Known(g, d[j][n], Later(fs, j) \cup N)
  BY <1>1, KnownMoves
<1> QED
  BY <1>2, KnownLess

LEMMA HeadPasses ==
    ASSUME NEW f, NEW g, NEW E, NEW N, NEW D, Moves(f, g, E, N, D), NEW x,
           NEW B \in SUBSET DOMAIN f.blocks, E \subseteq B, Heads(f, x, B), NEW C, C \subseteq B \cup N
    PROVE  Heads(g, x, C)
<1> DEFINE h == HeaderOf(x)
<1>1. h \in DOMAIN f.blocks \ OpenBlocks(f) /\ Covers(f, h, B)
  BY DEF Heads
<1> HIDE DEF h
<1>2. Covers(g, h, B \cup N) /\ h \in DOMAIN g.blocks \ OpenBlocks(g) /\ PhisOf(g, h) = PhisOf(f, h)
  BY <1>1 DEF Moves
<1>3. Covers(g, h, C)
  BY <1>2 DEF Covers
<1> QED
  BY <1>2, <1>3 DEF h, Heads

(* The open statements stay as they are.                                   *)
LEMMA StayDominated ==
    ASSUME Inv, DomInv, NEW g, NEW D, Moves(fn, g, {}, {}, D), Defs(g) \subseteq 1 .. g.values,
           NEW d, \A j \in DOMAIN d :
                     \/ \A n \in DOMAIN d[j] : Known(g, d[j][n], Later(frames, j))
                     \/ j \in DOMAIN env /\ d[j] = env[j]
    PROVE  Dominated(g, d, frames, loops)
<1>1. \A j : Later(frames, j) \subseteq DOMAIN fn.blocks
  BY LaterOpen DEF Inv, KnowsOpenBlocks
<1>2. SlotsGuarded(fn, env, frames) /\ HeadersGuard(fn, frames) /\ LoopsMatch(loops, frames)
  BY DEF DomInv, Dominated
<1>3. SlotsGuarded(g, d, frames)
  BY <1>1, <1>2, SlotsPass
<1>4. ASSUME NEW i \in DOMAIN frames, IsLoop(frames[i])
      PROVE  Heads(g, frames[i], Later(frames, ScopesBelow(frames, i)))
  <2>1. Heads(fn, frames[i], Later(frames, ScopesBelow(frames, i)))
    BY <1>2, <1>4 DEF HeadersGuard
  <2> QED
    BY <1>1, <2>1, HeadPasses
<1>5. HeadersGuard(g, frames)
  BY <1>4 DEF HeadersGuard
<1>6. Good(g)
  BY DEF Moves
<1> QED
  BY <1>2, <1>3, <1>5, <1>6 DEF Dominated

(* What every state says of the statements in progress.                    *)
LEMMA FramesAre ==
    ASSUME Inv, ~done, NEW fs \in Seq(FrameSet), NEW n, n = Len(fs)
    PROVE  /\ n \in Nat /\ DOMAIN fs = 1 .. n
           /\ ScopesBelow(fs, n + 1) \in Nat /\ LoopsBelow(fs, n + 1) \in Nat
           /\ \A i \in DOMAIN fs : ScopesBelow(fs, i) \in Nat /\ ScopesBelow(fs, i) < ScopesBelow(fs, n + 1)
<1>1. n \in Nat /\ DOMAIN fs = 1 .. n
  BY SequenceIs
<1>2. ScopesBelow(fs, n + 1) \in Nat /\ LoopsBelow(fs, n + 1) \in Nat
  BY <1>1, ScopesBelowIs
<1>3. ASSUME NEW i \in DOMAIN fs
      PROVE  ScopesBelow(fs, i) \in Nat /\ ScopesBelow(fs, i) < ScopesBelow(fs, n + 1)
  <2>1. i \in Nat \ {0} /\ n + 1 \in Nat \ {0} /\ i < n + 1
    BY <1>1
  <2> QED
    BY <2>1, ScopesBelowIs, ScopesBelowGrows
<1> QED
  BY <1>1, <1>2, <1>3

(* A statement is opened, whose blocks to come are new.                    *)
LEMMA PushDominated ==
    ASSUME Inv, ~done, DomInv, NEW g, NEW N, NEW D, Moves(fn, g, {}, N, D), Defs(g) \subseteq 1 .. g.values,
           NEW x \in FrameSet, Awaited(x) \subseteq N,
           IsLoop(x) => Heads(g, x, Awaited(x)),
           NEW d \in Seq(ScopeSet),
           \A j \in DOMAIN d : IF j <= Len(env) THEN d[j] = env[j]
                                                ELSE \A name \in DOMAIN d[j] : Known(g, d[j][name], {}),
           NEW ls, ls = IF IsLoop(x) THEN Append(loops, [break |-> x.exit, continue |-> x.other]) ELSE loops
    PROVE  Dominated(g, d, Append(frames, x), ls)
<1> DEFINE gs == Append(frames, x)
           n == Len(frames)
<1>1. frames \in Seq(FrameSet) /\ env \in Seq(ScopeSet) /\ loops \in Seq(Targets)
  BY DEF Inv, IsShaped
<1>2. /\ n \in Nat /\ DOMAIN frames = 1 .. n
      /\ ScopesBelow(frames, n + 1) \in Nat /\ LoopsBelow(frames, n + 1) \in Nat
      /\ \A i \in DOMAIN frames :
            ScopesBelow(frames, i) \in Nat /\ ScopesBelow(frames, i) < ScopesBelow(frames, n + 1)
  BY <1>1, FramesAre
<1>3. Len(env) = ScopesBelow(frames, n + 1) /\ Len(loops) = LoopsBelow(frames, n + 1)
  BY DEF Inv, CountsScopes
<1>4. /\ DOMAIN gs = DOMAIN frames \cup {n + 1} /\ n + 1 \notin DOMAIN frames
      /\ \A i \in DOMAIN frames : gs[i] = frames[i]
      /\ gs[n + 1] = x
  BY <1>1, AwaitedByLonger
<1>5. \A i \in DOMAIN gs : ScopesBelow(gs, i) = ScopesBelow(frames, i) /\ LoopsBelow(gs, i) = LoopsBelow(frames, i)
  BY <1>1, <1>2, <1>4, ScopesBelowSame
<1>6. \A j : Later(gs, j) = Later(frames, j) \cup IF j <= ScopesBelow(frames, n + 1) THEN Awaited(x) ELSE {}
  BY <1>1, LaterLonger
<1>7. \A j \in Nat : j >= ScopesBelow(frames, n + 1) => Later(frames, j) = {}
  BY <1>1, LaterNone
<1>8. \A j : Later(frames, j) \subseteq DOMAIN fn.blocks
  BY LaterOpen DEF Inv, KnowsOpenBlocks
<1>9. SlotsGuarded(fn, env, frames) /\ HeadersGuard(fn, frames) /\ LoopsMatch(loops, frames)
  BY DEF DomInv, Dominated
<1> HIDE DEF gs, n
<1>10. SlotsGuarded(g, d, gs)
  <2>1. ASSUME NEW j \in DOMAIN d
        PROVE  \/ \A name \in DOMAIN d[j] : Known(g, d[j][name], Later(gs, j))
               \/ /\ j \in DOMAIN env /\ d[j] = env[j]
                  /\ Later(frames, j) \subseteq DOMAIN fn.blocks
                  /\ {} \subseteq Later(frames, j) /\ Later(gs, j) \subseteq Later(frames, j) \cup N
    <3>1. j \in Nat \ {0} /\ Len(env) \in Nat /\ DOMAIN env = 1 .. Len(env)
      BY <1>1, SequenceIs
    <3>2. CASE j <= Len(env)
      BY <1>6, <1>8, <3>1, <3>2
    <3>3. CASE ~(j <= Len(env))
      <4>1. Later(gs, j) = {}
        BY <1>2, <1>3, <1>6, <1>7, <3>1, <3>3
      <4> QED
        BY <3>3, <4>1
    <3> QED
      BY <3>2, <3>3
  <2> QED
    BY <1>9, <2>1, SlotsPass
<1>11. HeadersGuard(g, gs)
  <2> SUFFICES ASSUME NEW i \in DOMAIN gs, IsLoop(gs[i])
               PROVE  Heads(g, gs[i], Later(gs, ScopesBelow(gs, i)))
    BY DEF HeadersGuard
  <2>1. CASE i \in DOMAIN frames
    <3>1. Heads(fn, frames[i], Later(frames, ScopesBelow(frames, i))) /\ gs[i] = frames[i]
      BY <1>4, <1>9, <2>1 DEF HeadersGuard
    <3>2. /\ Later(gs, ScopesBelow(gs, i)) \subseteq Later(frames, ScopesBelow(frames, i)) \cup N
          /\ Later(frames, ScopesBelow(frames, i)) \in SUBSET DOMAIN fn.blocks
      BY <1>5, <1>6, <1>8
    <3> QED
      BY <3>1, <3>2, HeadPasses
  <2>2. CASE i = n + 1
    <3>1. gs[i] = x /\ ScopesBelow(gs, i) = ScopesBelow(frames, n + 1)
      BY <1>4, <1>5, <2>2
    <3>2. Later(gs, ScopesBelow(gs, i)) = Awaited(x)
      <4>1. PICK s \in Nat : s = ScopesBelow(frames, n + 1)
        BY <1>2
      <4>2. s >= s /\ s <= s
        BY <4>1
      <4>3. Later(frames, s) = {} /\ Later(gs, s) = Later(frames, s) \cup Awaited(x)
        BY <1>6, <1>7, <4>1, <4>2
      <4> QED
        BY <3>1, <4>1, <4>3
    <3> QED
      BY <3>1, <3>2
  <2> QED
    BY <1>4, <2>1, <2>2
<1>12. LoopsMatch(ls, gs)
  <2>1. ASSUME NEW m \in DOMAIN loops
        PROVE  \E i \in DOMAIN gs : /\ IsLoop(gs[i]) /\ LoopsBelow(gs, i) = m - 1
                                    /\ loops[m] = [break |-> gs[i].exit, continue |-> gs[i].other]
    <3>1. PICK i \in DOMAIN frames : /\ IsLoop(frames[i]) /\ LoopsBelow(frames, i) = m - 1
                                     /\ loops[m] = [break |-> frames[i].exit, continue |-> frames[i].other]
      BY <1>9 DEF LoopsMatch
    <3> QED
      BY <1>4, <1>5, <3>1
  <2>2. CASE ~IsLoop(x)
    BY <2>1, <2>2 DEF LoopsMatch
  <2>3. CASE IsLoop(x)
    <3>1. ls = Append(loops, [break |-> x.exit, continue |-> x.other])
      BY <2>3
    <3>2. Len(loops) \in Nat /\ DOMAIN loops = 1 .. Len(loops)
      BY <1>1, SequenceIs
    <3>3. /\ DOMAIN ls = DOMAIN loops \cup {Len(loops) + 1} /\ Len(loops) + 1 \notin DOMAIN loops
          /\ \A m \in DOMAIN loops : ls[m] = loops[m]
          /\ ls[Len(loops) + 1] = [break |-> x.exit, continue |-> x.other]
      BY <1>1, <3>1, <3>2
    <3>4. /\ n + 1 \in DOMAIN gs /\ IsLoop(gs[n + 1]) /\ LoopsBelow(gs, n + 1) = (Len(loops) + 1) - 1
          /\ ls[Len(loops) + 1] = [break |-> gs[n + 1].exit, continue |-> gs[n + 1].other]
      BY <1>2, <1>3, <1>4, <1>5, <2>3, <3>2, <3>3
    <3> QED
      BY <2>1, <3>3, <3>4 DEF LoopsMatch
  <2> QED
    BY <2>2, <2>3
<1>13. Good(g)
  BY DEF Moves
<1> QED
  BY <1>10, <1>11, <1>12, <1>13 DEF Dominated, gs

(* A statement is left, by way of blocks it waits for.                     *)
LEMMA PopDominated ==
    ASSUME Inv, ~done, DomInv, NEW fs \in Seq(FrameSet), NEW x \in FrameSet, frames = Append(fs, x),
           NEW g, NEW E, NEW D, Moves(fn, g, E, {}, D), E \subseteq Awaited(x), Defs(g) \subseteq 1 .. g.values,
           NEW d \in Seq(ScopeSet), Len(d) <= ScopesBelow(fs, Len(fs) + 1),
           \A j \in DOMAIN d : j \in DOMAIN env /\ d[j] = env[j],
           NEW ls, ls = IF IsLoop(x) THEN Front(loops) ELSE loops
    PROVE  Dominated(g, d, fs, ls)
<1> DEFINE n == Len(fs)
<1>1. env \in Seq(ScopeSet) /\ loops \in Seq(Targets) /\ frames \in Seq(FrameSet)
  BY DEF Inv, IsShaped
<1>2. /\ n \in Nat /\ DOMAIN fs = 1 .. n
      /\ ScopesBelow(fs, n + 1) \in Nat /\ LoopsBelow(fs, n + 1) \in Nat
      /\ \A i \in DOMAIN fs : ScopesBelow(fs, i) \in Nat /\ ScopesBelow(fs, i) < ScopesBelow(fs, n + 1)
  BY FramesAre
<1>3. Len(loops) = LoopsBelow(fs, n + 1) + IF IsLoop(x) THEN 1 ELSE 0
  BY <1>2, LastCounts DEF IsLoop
<1>4. /\ DOMAIN frames = DOMAIN fs \cup {n + 1} /\ n + 1 \notin DOMAIN fs
      /\ \A i \in DOMAIN fs : frames[i] = fs[i]
      /\ frames[n + 1] = x
  BY AwaitedByLonger
<1>5. \A i \in DOMAIN frames : ScopesBelow(frames, i) = ScopesBelow(fs, i) /\ LoopsBelow(frames, i) = LoopsBelow(fs, i)
  BY <1>2, <1>4, ScopesBelowSame
<1>6. \A j : Later(frames, j) = Later(fs, j) \cup IF j <= ScopesBelow(fs, n + 1) THEN Awaited(x) ELSE {}
  BY LaterLonger
<1>7. \A j : Later(frames, j) \subseteq DOMAIN fn.blocks
  BY LaterOpen DEF Inv, KnowsOpenBlocks
<1>8. SlotsGuarded(fn, env, frames) /\ HeadersGuard(fn, frames) /\ LoopsMatch(loops, frames)
  BY DEF DomInv, Dominated
<1> HIDE DEF n
<1>9. SlotsGuarded(g, d, fs)
  <2>1. ASSUME NEW j \in DOMAIN d
        PROVE  /\ j \in DOMAIN env /\ d[j] = env[j]
               /\ Later(frames, j) \subseteq DOMAIN fn.blocks
               /\ E \subseteq Later(frames, j) /\ Later(fs, j) \subseteq Later(frames, j) \cup {}
    <3>1. DOMAIN d = 1 .. Len(d) /\ Len(d) \in Nat
      BY SequenceIs
    <3>2. j <= ScopesBelow(fs, n + 1)
      BY <1>2, <3>1 DEF n
    <3> QED
      BY <1>6, <1>7, <3>2
  <2> QED
    BY <1>8, <2>1, SlotsPass
<1>10. HeadersGuard(g, fs)
  <2> SUFFICES ASSUME NEW i \in DOMAIN fs, IsLoop(fs[i])
               PROVE  Heads(g, fs[i], Later(fs, ScopesBelow(fs, i)))
    BY DEF HeadersGuard
  <2>1. Heads(fn, fs[i], Later(frames, ScopesBelow(fs, i)))
    BY <1>4, <1>5, <1>8 DEF HeadersGuard
  <2>2. /\ E \subseteq Later(frames, ScopesBelow(fs, i))
        /\ Later(fs, ScopesBelow(fs, i)) \subseteq Later(frames, ScopesBelow(fs, i)) \cup {}
    BY <1>2, <1>6
  <2>3. Later(frames, ScopesBelow(fs, i)) \in SUBSET DOMAIN fn.blocks
    BY <1>7
  <2> QED
    BY <2>1, <2>2, <2>3, HeadPasses
<1>11. LoopsMatch(ls, fs)
  <2> SUFFICES ASSUME NEW m \in DOMAIN ls
               PROVE  \E i \in DOMAIN fs : /\ IsLoop(fs[i]) /\ LoopsBelow(fs, i) = m - 1
                                           /\ ls[m] = [break |-> fs[i].exit, continue |-> fs[i].other]
    BY DEF LoopsMatch
  <2>1. /\ m \in DOMAIN loops /\ ls[m] = loops[m]
        /\ IsLoop(x) => m - 1 # LoopsBelow(fs, n + 1)
    <3>1. CASE IsLoop(x)
      <4>1. loops # <<>>
        BY <1>1, <1>2, <1>3, <3>1
      <4>2. /\ Len(loops) \in Nat \ {0} /\ DOMAIN loops = 1 .. Len(loops)
            /\ Front(loops) \in Seq(Targets) /\ Len(Front(loops)) = Len(loops) - 1
            /\ \A i \in 1 .. Len(loops) - 1 : Front(loops)[i] = loops[i]
        BY <1>1, <4>1, FrontLast, SequenceIs
      <4>3. DOMAIN Front(loops) = 1 .. Len(loops) - 1
        BY <4>2, SequenceIs
      <4> QED
        BY <1>2, <1>3, <3>1, <4>2, <4>3
    <3> QED
      BY <3>1
  <2>2. PICK i \in DOMAIN frames : /\ IsLoop(frames[i]) /\ LoopsBelow(frames, i) = m - 1
                                   /\ loops[m] = [break |-> frames[i].exit, continue |-> frames[i].other]
    BY <1>8, <2>1 DEF LoopsMatch
  <2>3. i # n + 1
    BY <1>4, <1>5, <2>1, <2>2
  <2> QED
    BY <1>4, <1>5, <2>1, <2>2, <2>3
<1>12. Good(g)
  BY DEF Moves
<1> QED
  BY <1>9, <1>10, <1>11, <1>12 DEF Dominated

-----------------------------------------------------------------------------
(* Instructions *)

Works(i, def, uses) == Made(i, def, uses, {}) /\ i.op # "phi"

LEMMA WorksIs ==
    ASSUME NEW op \in InstrOps, op # "phi", NEW def \in Nat, NEW uses \in SUBSET Nat, NEW event \in Event
    PROVE  Works(Instr(op, def, uses, event), def, uses)
<1>1. Made(Instr(op, def, uses, event), def, uses, {})
  BY MadeIs
<1> QED
  BY <1>1 DEF Works, Instr

(* A value that is new to f. *)
Fresh(f, v) == v \in Nat \ {0} /\ v \notin Defs(f)

LEMMA EmitsMove ==
    ASSUME NEW f, Good(f), f.current \in OpenBlocks(f), NEW instrs, Fits(f, instrs),
           NEW g, Emits(f, instrs, g)
    PROVE  /\ Moves(f, g, {}, {}, {instrs[k].def : k \in DOMAIN instrs}) /\ Good(g)
           /\ OpenBlocks(g) = OpenBlocks(f)
           /\ g.current = f.current /\ g.values = f.values
           /\ DOMAIN g.blocks = DOMAIN f.blocks
           /\ \A k \in DOMAIN instrs : DefinesIn(g, instrs[k].def, f.current)
           /\ PhisOf(g, f.current) = PhisOf(f, f.current) \cup {instrs[k].def : k \in Phis(instrs)}
  BY EmitMove DEF Emits, Moves

(* An instruction that may be added to the current block.                  *)
Plain(f, i) == i \in InstrSet /\ i.op # "phi" /\ \A v \in i.uses : Computed(f, v, f.current)

LEMMA OneMove ==
    ASSUME NEW f, Good(f), f.current \in OpenBlocks(f), NEW i, Plain(f, i), i.def = 0 \/ Fresh(f, i.def),
           NEW g, Emits(f, <<i>>, g)
    PROVE  /\ Moves(f, g, {}, {}, {i.def}) /\ Good(g)
           /\ OpenBlocks(g) = OpenBlocks(f)
           /\ g.current = f.current /\ g.values = f.values
           /\ DOMAIN g.blocks = DOMAIN f.blocks
           /\ DefinesIn(g, i.def, f.current)
           /\ PhisOf(g, f.current) = PhisOf(f, f.current)
<1> DEFINE s == <<i>>
<1>1. i \in InstrSet /\ i.op # "phi" /\ \A v \in i.uses : Computed(f, v, f.current)
  BY DEF Plain
<1>2. s \in Seq(InstrSet) /\ DOMAIN s = {1} /\ s[1] = i
  BY <1>1
<1> HIDE DEF s
<1>3. Fits(f, s)
  BY <1>1, <1>2 DEF Fits, Fresh
<1>4. /\ Moves(f, g, {}, {}, {s[k].def : k \in DOMAIN s})
      /\ OpenBlocks(g) = OpenBlocks(f)
      /\ g.current = f.current /\ g.values = f.values
      /\ DOMAIN g.blocks = DOMAIN f.blocks
      /\ \A k \in DOMAIN s : DefinesIn(g, s[k].def, f.current)
      /\ PhisOf(g, f.current) = PhisOf(f, f.current) \cup {s[k].def : k \in Phis(s)}
  <2>1. Emits(f, s, g)
    BY DEF s
  <2> QED
    BY <1>3, <2>1, EmitsMove
<1>5. {s[k].def : k \in DOMAIN s} = {i.def} /\ {s[k].def : k \in Phis(s)} = {}
  BY <1>1, <1>2 DEF Phis
<1> QED
  BY <1>1, <1>2, <1>4, <1>5 DEF Moves

(* Instructions are added to the current block, which compute values D.    *)
Adds(f, g, D) ==
    /\ Moves(f, g, {}, {}, D) /\ Good(g)
    /\ OpenBlocks(g) = OpenBlocks(f)
    /\ g.current = f.current /\ g.values = f.values
    /\ DOMAIN g.blocks = DOMAIN f.blocks

(* Two instructions, of which the second may use the first. *)
Pair(f, i, j) ==
    /\ Plain(f, i) /\ Fresh(f, i.def)
    /\ j \in InstrSet /\ j.op # "phi" /\ \A v \in j.uses : v = i.def \/ Computed(f, v, f.current)
    /\ j.def = 0 \/ (Fresh(f, j.def) /\ j.def # i.def)
EmitsPair(f, i, j, g) == Emits(f, <<i, j>>, g)
Paired(f, i, j, g) ==
    /\ Adds(f, g, {i.def, j.def})
    /\ DefinesIn(g, i.def, f.current) /\ DefinesIn(g, j.def, f.current)
    /\ PhisOf(g, f.current) = PhisOf(f, f.current)

LEMMA TwoMove ==
    ASSUME NEW f, Good(f), f.current \in OpenBlocks(f), NEW i, NEW j, Pair(f, i, j), NEW g, EmitsPair(f, i, j, g)
    PROVE  Paired(f, i, j, g)
<1> DEFINE s == <<i, j>>
<1>1. /\ i \in InstrSet /\ i.op # "phi" /\ \A v \in i.uses : Computed(f, v, f.current)
      /\ j \in InstrSet /\ j.op # "phi" /\ \A v \in j.uses : v = i.def \/ Computed(f, v, f.current)
      /\ Fresh(f, i.def) /\ (j.def = 0 \/ (Fresh(f, j.def) /\ j.def # i.def))
  BY DEF Plain, Pair
<1>2. s \in Seq(InstrSet) /\ DOMAIN s = {1, 2} /\ s[1] = i /\ s[2] = j
  BY <1>1
<1> HIDE DEF s
<1>3. Fits(f, s)
  <2>1. i.def # 0 /\ 1 < 2
    BY <1>1 DEF Fresh
  <2>2. \A v \in j.uses : Computed(f, v, f.current) \/ (v # 0 /\ \E m \in DOMAIN s : m < 2 /\ s[m].def = v)
    BY <1>1, <1>2, <2>1
  <2> QED
    BY <1>1, <1>2, <2>2 DEF Fits, Fresh
<1>4. /\ Moves(f, g, {}, {}, {s[k].def : k \in DOMAIN s})
      /\ OpenBlocks(g) = OpenBlocks(f)
      /\ g.current = f.current /\ g.values = f.values
      /\ DOMAIN g.blocks = DOMAIN f.blocks
      /\ \A k \in DOMAIN s : DefinesIn(g, s[k].def, f.current)
      /\ PhisOf(g, f.current) = PhisOf(f, f.current) \cup {s[k].def : k \in Phis(s)}
  <2>1. Emits(f, s, g)
    BY DEF s, EmitsPair
  <2> QED
    BY <1>3, <2>1, EmitsMove
<1>5. {s[k].def : k \in DOMAIN s} = {i.def, j.def} /\ {s[k].def : k \in Phis(s)} = {}
  BY <1>1, <1>2 DEF Phis
<1> QED
  BY <1>1, <1>2, <1>4, <1>5 DEF Moves, Adds, Paired

LEMMA DefsWithin ==
    ASSUME NEW f, NEW g, NEW E, NEW N, NEW D, Moves(f, g, E, N, D), NEW m \in Nat, NEW n \in Nat, m <= n,
           Defs(f) \subseteq 1 .. m, \A v \in D : v = 0 \/ v \in m + 1 .. n
    PROVE  Defs(g) \subseteq 1 .. n
<1>1. \A v \in Defs(g) : v # 0 /\ (v \in 1 .. m \/ v \in D)
  BY DEF Moves, Defs
<1> QED
  BY <1>1

LEMMA FreshOnes ==
    ASSUME NEW f, NEW m \in Nat, Defs(f) \subseteq 1 .. m
    PROVE  \A k \in Nat \ {0} : Fresh(f, m + k)
  BY DEF Fresh

(* What a statement without a body, and a `for`, does first.               *)
LEMMA Prepared ==
    ASSUME Inv, DomInv, NEW f, f = EnsureOpenBlock(fn)
    PROVE  /\ Moves(fn, f, {}, {}, {}) /\ Good(f)
           /\ f.current \in OpenBlocks(f) /\ f.values = fn.values /\ f.values \in Nat
           /\ f.current = fn.current \/ f.current \notin DOMAIN fn.blocks
           /\ OpenBlocks(f) \ {f.current} = OpenBlocks(fn) \ {fn.current}
           /\ Defs(f) \subseteq 1 .. f.values
           /\ \A k \in Nat \ {0} : Fresh(f, f.values + k)
<1>1. Good(fn) /\ Defs(fn) \subseteq 1 .. fn.values
  BY DEF DomInv, Dominated
<1>2. /\ Moves(fn, f, {}, {}, {}) /\ Good(f)
      /\ f.current \in OpenBlocks(f) /\ f.values = fn.values
      /\ OpenBlocks(f) \ {f.current} = OpenBlocks(fn) \ {fn.current}
      /\ f.current = fn.current \/ f.current \notin DOMAIN fn.blocks
  BY <1>1, EnsureMove
<1>3. f.values \in Nat
  BY <1>2, BlocksAre DEF Good
<1>4. Defs(f) \subseteq 1 .. f.values
  <2>1. Defs(f) \subseteq Defs(fn)
    BY <1>2 DEF Moves
  <2> QED
    BY <1>1, <1>2, <2>1
<1> QED
  BY <1>2, <1>3, <1>4, FreshOnes

(* A slot that a name in scope stands for is known further on.             *)
LEMMA LookupKnown ==
    ASSUME Inv, DomInv, NEW g, NEW D, Moves(fn, g, {}, {}, D), NEW name, Bound(env, name) # {}
    PROVE  Known(g, Lookup(env, name), {}) /\ Lookup(env, name) \in Nat
<1>1. PICK j \in DOMAIN env : name \in DOMAIN env[j] /\ Lookup(env, name) = env[j][name]
  BY LookupFinds DEF Inv, IsShaped
<1>2. Known(fn, Lookup(env, name), Later(frames, j))
  BY <1>1 DEF DomInv, Dominated, SlotsGuarded
<1>3. Known(fn, Lookup(env, name), {})
  BY <1>2, KnownLess
<1>4. Known(g, Lookup(env, name), {} \cup {})
  BY <1>3, KnownMoves
<1>5. Lookup(env, name) \in Nat
  BY <1>1, SlotsIn DEF Inv, IsShaped
<1> QED
  BY <1>4, <1>5

-----------------------------------------------------------------------------
(* Statements without a body *)

LEMMA MovesThen ==
    ASSUME NEW f, NEW g, NEW h, NEW D1, NEW D2, Moves(f, g, {}, {}, D1), Moves(g, h, {}, {}, D2)
    PROVE  Moves(f, h, {}, {}, D1 \cup D2)
<1>1. Moves(f, h, {}, {} \cup {}, D1 \cup D2)
  BY MovesOn
<1> QED
  BY <1>1

LEMMA KnownStays ==
    ASSUME NEW f, NEW g, NEW D, Moves(f, g, {}, {}, D), NEW v, Known(f, v, {})
    PROVE  Known(g, v, {})
<1>1. Known(g, v, {} \cup {})
  BY KnownMoves
<1> QED
  BY <1>1

LEMMA LetDominated ==
    ASSUME Inv, DomInv, NEW name \in Names, Let(name)
    PROVE  DomInv'
<1> DEFINE f == EnsureOpenBlock(fn)
           v == f.values
           a == Instr("const", v + 1, {}, NoEvent)
           b == Instr("alloc", v + 2, {}, <<Here, "slot">>)
           c == Instr("store", 0, {v + 2, v + 1}, <<Here, "do">>)
           s == <<a, b, c>>
           g == Emit(f, s)
           h == NewValues(g, 2)
           d == Insert(env, name, v + 2)
<1>1. /\ Moves(fn, f, {}, {}, {}) /\ Good(f)
      /\ f.current \in OpenBlocks(f) /\ f.values = fn.values /\ v \in Nat
      /\ Defs(f) \subseteq 1 .. v
      /\ \A k \in Nat \ {0} : Fresh(f, v + k)
  BY Prepared
<1>2. fn' = h /\ env' = d /\ ~done /\ UNCHANGED <<loops, frames>>
  BY DEF Let, Room
<1> HIDE DEF f
<1>3. Works(a, v + 1, {}) /\ Works(b, v + 2, {}) /\ Works(c, 0, {v + 2, v + 1})
  <2>1. /\ NoEvent \in Event /\ <<Here, "slot">> \in Event /\ <<Here, "do">> \in Event
        /\ {"const", "alloc", "store"} \subseteq InstrOps
    BY EventIs DEF Phases, InstrOps
  <2>2. v + 1 \in Nat /\ v + 2 \in Nat /\ {v + 2, v + 1} \in SUBSET Nat /\ {} \in SUBSET Nat /\ 0 \in Nat
    BY <1>1
  <2> QED
    BY <2>1, <2>2, WorksIs
<1> HIDE DEF a, b, c
<1>4. Fresh(f, v + 1) /\ Fresh(f, v + 2) /\ v + 1 # v + 2
  BY <1>1
<1> HIDE DEF v
<1>5. /\ a \in InstrSet /\ a.def = v + 1 /\ a.uses = {} /\ a.op # "phi"
      /\ b \in InstrSet /\ b.def = v + 2 /\ b.uses = {} /\ b.op # "phi"
      /\ c \in InstrSet /\ c.def = 0 /\ c.uses = {v + 2, v + 1} /\ c.op # "phi"
  BY <1>3 DEF Works, Made
<1>6. s \in Seq(InstrSet) /\ DOMAIN s = {1, 2, 3} /\ s[1] = a /\ s[2] = b /\ s[3] = c
  BY <1>5
<1>s. g = Emit(f, s)
  OBVIOUS
<1> HIDE DEF s, g
<1>7. Fits(f, s)
  <2>1. v + 1 # 0 /\ v + 2 # 0
    BY <1>4 DEF Fresh
  <2>2. \A w \in c.uses : w # 0 /\ \E m \in DOMAIN s : m < 3 /\ s[m].def = w
    <3>1. 1 < 3 /\ 2 < 3
      OBVIOUS
    <3> QED
      BY <1>5, <1>6, <2>1, <3>1
  <2>3. \A k \in DOMAIN s : s[k].op # "phi"
    BY <1>5, <1>6
  <2>4. ASSUME NEW k \in DOMAIN s, s[k].def # 0
        PROVE  s[k].def \notin Defs(f) /\ \A j \in DOMAIN s : s[j].def = s[k].def => j = k
    BY <1>4, <1>5, <1>6, <2>1, <2>4 DEF Fresh
  <2> QED
    BY <1>5, <1>6, <2>2, <2>3, <2>4 DEF Fits
<1>8. /\ Moves(f, g, {}, {}, {v + 1, v + 2, 0})
      /\ g.current = f.current /\ g.values = f.values /\ Good(g)
      /\ DefinesIn(g, v + 2, f.current)
  <2>1. /\ Moves(f, g, {}, {}, {s[k].def : k \in DOMAIN s})
        /\ g.current = f.current /\ g.values = f.values
        /\ \A k \in DOMAIN s : DefinesIn(g, s[k].def, f.current)
    BY <1>1, <1>s, <1>7, EmitMove
  <2>2. {s[k].def : k \in DOMAIN s} = {v + 1, v + 2, 0}
    BY <1>5, <1>6
  <2>3. DefinesIn(g, v + 2, f.current)
    BY <1>5, <1>6, <2>1
  <2> QED
    BY <2>1, <2>2, <2>3 DEF Moves
<1>9. Moves(g, h, {}, {}, {}) /\ h.current = g.current /\ h.values = v + 2
  BY <1>8, NewValuesMove DEF v
<1> HIDE DEF h
<1>10. Moves(fn, h, {}, {}, {v + 1, v + 2, 0})
  <2>1. Moves(fn, g, {}, {}, {} \cup {v + 1, v + 2, 0})
    BY <1>1, <1>8, MovesThen
  <2>2. Moves(fn, h, {}, {}, ({} \cup {v + 1, v + 2, 0}) \cup {})
    BY <1>9, <2>1, MovesThen
  <2>3. ({} \cup {v + 1, v + 2, 0}) \cup {} = {v + 1, v + 2, 0}
    OBVIOUS
  <2> QED
    BY <2>2, <2>3
<1>11. Defs(h) \subseteq 1 .. h.values
  <2>1. v \in Nat /\ v + 2 \in Nat /\ v <= v + 2 /\ \A w \in {v + 1, v + 2, 0} : w = 0 \/ w \in v + 1 .. v + 2
    BY <1>1 DEF v
  <2>2. Defs(fn) \subseteq 1 .. v
    BY <1>1 DEF v, DomInv, Dominated
  <2> QED
    BY <1>9, <1>10, <2>1, <2>2, DefsWithin
<1>12. Known(h, v + 2, {})
  <2>1. Known(g, v + 2, {})
    BY <1>4, <1>8, KnownNow DEF Fresh
  <2> QED
    BY <1>9, <2>1, KnownStays
<1>13. ASSUME NEW j \in DOMAIN d
       PROVE  \/ \A n \in DOMAIN d[j] : Known(h, d[j][n], Later(frames, j))
              \/ j \in DOMAIN env /\ d[j] = env[j]
  <2>1. env \in Seq(ScopeSet) /\ Len(env) > 0 /\ v + 2 \in Nat /\ DOMAIN env = 1 .. Len(env) /\ Len(env) \in Nat
    <3>1. env \in Seq(ScopeSet)
      BY DEF Inv, IsShaped
    <3>2. DOMAIN env = 1 .. Len(env) /\ Len(env) \in Nat /\ Len(env) > 1
      BY <1>2, Indices
    <3>3. v + 2 \in Nat
      BY <1>1 DEF v
    <3> QED
      BY <3>1, <3>2, <3>3
  <2>2. /\ d \in Seq(ScopeSet) /\ Len(d) = Len(env)
        /\ \A k \in DOMAIN env : k # Len(env) => d[k] = env[k]
        /\ \A n \in DOMAIN d[Len(env)] :
              \/ n = name /\ d[Len(env)][n] = v + 2
              \/ n \in DOMAIN env[Len(env)] /\ d[Len(env)][n] = env[Len(env)][n]
    BY <2>1, InsertIs
  <2>3. DOMAIN d = 1 .. Len(env)
    BY <2>2, SequenceIs
  <2> HIDE DEF d
  <2>4. CASE j # Len(env)
    BY <2>1, <2>2, <2>3, <2>4
  <2>5. CASE j = Len(env)
    <3>1. Later(frames, j) = {}
      <4>1. Len(env) = ScopesBelow(frames, Len(frames) + 1) /\ frames \in Seq(FrameSet)
        BY <1>2 DEF Inv, CountsScopes, IsShaped
      <4>2. j >= j
        BY <2>1, <2>5
      <4> QED
        BY <2>1, <2>5, <4>1, <4>2, LaterNone
    <3>2. ASSUME NEW n \in DOMAIN env[j] PROVE Known(h, env[j][n], {})
      <4>1. j \in DOMAIN env
        BY <2>1, <2>5
      <4>2. Known(fn, env[j][n], {})
        BY <3>1, <4>1 DEF DomInv, Dominated, SlotsGuarded
      <4> QED
        BY <1>10, <4>2, KnownStays
    <3> QED
      BY <1>12, <2>2, <2>5, <3>1, <3>2
  <2> QED
    BY <2>4, <2>5
<1> HIDE DEF d
<1>14. Dominated(h, d, frames, loops)
  BY <1>10, <1>11, <1>13, StayDominated
<1> QED
  BY <1>2, <1>14 DEF DomInv

LEMMA FreshStays ==
    ASSUME NEW f, NEW g, NEW E, NEW N, NEW D, Moves(f, g, E, N, D), NEW v, Fresh(f, v), v \notin D
    PROVE  Fresh(g, v)
  BY DEF Moves, Fresh

(* A value is computed and counted.                                        *)
LEMMA CalcMove ==
    ASSUME Inv, DomInv, NEW f, Moves(fn, f, {}, {}, {}), f.current \in OpenBlocks(f), f.values = fn.values,
           NEW i, Plain(f, i), i.def = f.values + 1, NEW g, Emits(f, <<i>>, g), NEW h, Counts(g, 1, h)
    PROVE  /\ Moves(fn, h, {}, {}, {i.def}) /\ Good(h)
           /\ OpenBlocks(h) = OpenBlocks(f)
           /\ h.current = f.current /\ h.values = i.def
           /\ Defs(h) \subseteq 1 .. h.values
           /\ Known(h, i.def, {}) /\ Computed(h, i.def, h.current)
<1> DEFINE v == f.values
<1>1. Good(f) /\ Defs(fn) \subseteq 1 .. v /\ v \in Nat
  <2>1. Good(f) /\ Defs(fn) \subseteq 1 .. v
    BY DEF Moves, DomInv, Dominated
  <2> QED
    BY <2>1, BlocksAre DEF Good
<1> HIDE DEF v
<1>2. Fresh(f, i.def)
  <2>1. Fresh(fn, v + 1)
    BY <1>1 DEF Fresh
  <2>2. Fresh(f, v + 1)
    BY <2>1, FreshStays
  <2> QED
    BY <2>2 DEF v
<1>3. /\ Moves(f, g, {}, {}, {i.def}) /\ Good(g)
      /\ OpenBlocks(g) = OpenBlocks(f)
      /\ g.current = f.current /\ g.values = f.values
      /\ DefinesIn(g, i.def, f.current)
  BY <1>1, <1>2, OneMove
<1>4. /\ Moves(g, h, {}, {}, {}) /\ OpenBlocks(h) = OpenBlocks(g)
      /\ h.current = g.current /\ h.values = g.values + 1
  <2>1. h = NewValues(g, 1)
    BY DEF Counts
  <2> QED
    BY <1>3, <2>1, NewValuesMove
<1>5. Moves(fn, h, {}, {}, {i.def})
  <2>1. Moves(fn, g, {}, {}, {} \cup {i.def})
    BY <1>3, MovesThen
  <2>2. Moves(fn, h, {}, {}, ({} \cup {i.def}) \cup {})
    BY <1>4, <2>1, MovesThen
  <2>3. ({} \cup {i.def}) \cup {} = {i.def}
    OBVIOUS
  <2> QED
    BY <2>2, <2>3
<1>6. Defs(h) \subseteq 1 .. h.values
  <2>1. v + 1 \in Nat /\ v <= v + 1 /\ \A w \in {i.def} : w = 0 \/ w \in v + 1 .. v + 1
    BY <1>1 DEF v
  <2>2. h.values = v + 1
    BY <1>3, <1>4 DEF v
  <2> QED
    BY <1>1, <1>5, <2>1, <2>2, DefsWithin
<1>7. Known(h, i.def, {})
  <2>1. Known(g, i.def, {})
    BY <1>2, <1>3, KnownNow DEF Fresh
  <2> QED
    BY <1>4, <2>1, KnownStays
<1>8. Computed(h, i.def, h.current)
  BY <1>7, KnownComputed
<1>9. Good(h)
  BY <1>4 DEF Moves
<1> QED
  BY <1>3, <1>4, <1>5, <1>6, <1>7, <1>8, <1>9

(* The scopes and the statements stay as they are.                         *)
LEMMA OnlyBlocks ==
    ASSUME Inv, DomInv, NEW g, NEW D, Moves(fn, g, {}, {}, D), Defs(g) \subseteq 1 .. g.values
    PROVE  Dominated(g, env, frames, loops)
  BY StayDominated

LEMMA EndDominated ==
    ASSUME Inv, DomInv, NEW f, NEW D, Moves(fn, f, {}, {}, D), Defs(f) \subseteq 1 .. f.values,
           f.current \in OpenBlocks(f), NEW term \in TermSet, term # Open,
           \A t \in Successors(term) : MayLeadTo(f, t), \A v \in term.uses : Computed(f, v, f.current)
    PROVE  Dominated(SetTerminator(f, term), env, frames, loops)
<1> DEFINE g == SetTerminator(f, term)
<1>1. Good(f)
  BY DEF Moves
<1>2. Moves(f, g, {}, {}, {}) /\ g.values = f.values
  <2>1. \A t \in Successors(term) :
           /\ t \in DOMAIN f.blocks /\ t # f.current
           /\ t \notin OpenBlocks(f) => PhisOf(f, t) = {} /\ Guards(f, t, f.current)
    BY DEF MayLeadTo
  <2> QED
    BY <1>1, <2>1, EndMove
<1> HIDE DEF g
<1>3. Moves(fn, g, {}, {}, D \cup {})
  BY <1>2, MovesThen
<1>4. Defs(g) \subseteq 1 .. g.values
  <2>1. Defs(g) \subseteq Defs(f)
    BY <1>2 DEF Moves
  <2> QED
    BY <1>2, <2>1
<1>5. Dominated(g, env, frames, loops)
  BY <1>3, <1>4, OnlyBlocks
<1> QED
  BY <1>5 DEF g

(* An error is reported.                                                   *)
LEMMA FailStays ==
    ASSUME NEW f, NEW D, Moves(fn, f, {}, {}, D), f.current \in OpenBlocks(f), NEW error \in Errors,
           NEW g, g = Fail(f, error)
    PROVE  /\ Moves(fn, g, {}, {}, D) /\ Good(g) /\ g.current \in OpenBlocks(g)
           /\ g.blocks = f.blocks /\ g.current = f.current /\ g.values = f.values
           /\ Defs(f) \subseteq 1 .. f.values => Defs(g) \subseteq 1 .. g.values
<1>1. Good(f)
  BY DEF Moves
<1>2. /\ Moves(f, g, {}, {}, {}) /\ OpenBlocks(g) = OpenBlocks(f)
      /\ g.blocks = f.blocks /\ g.current = f.current /\ g.values = f.values
  BY <1>1, FailMove
<1>3. Moves(fn, g, {}, {}, D \cup {})
  BY <1>2, MovesThen
<1>4. Defs(f) \subseteq 1 .. f.values => Defs(g) \subseteq 1 .. g.values
  <2>1. Defs(g) \subseteq Defs(f)
    BY <1>2 DEF Moves
  <2> QED
    BY <1>2, <2>1
<1>5. Moves(fn, g, {}, {}, D) /\ Good(g)
  <2>1. D \cup {} = D
    OBVIOUS
  <2> QED
    BY <1>3, <2>1 DEF Moves
<1> QED
  BY <1>2, <1>4, <1>5

LEMMA ConstPlain ==
    ASSUME NEW f, NEW v \in Nat, NEW event \in Event
    PROVE  LET i == Instr("const", v, {}, event)
           IN  Plain(f, i) /\ i.def = v
<1> DEFINE i == Instr("const", v, {}, event)
<1>1. i \in InstrSet /\ i.def = v /\ i.uses = {}
  BY ConstIs
<1>2. i.op # "phi"
  BY DEF Instr
<1> HIDE DEF i
<1>3. Plain(f, i) /\ i.def = v
  BY <1>1, <1>2 DEF Plain
<1> QED
  BY <1>3 DEF i

LEMMA UseDominated ==
    ASSUME Inv, DomInv, NEW name \in Names, Use(name)
    PROVE  DomInv'
<1> DEFINE f == EnsureOpenBlock(fn)
           v == f.values
           known == name \in Consts \/ Bound(env, name) # {}
           k == IF known THEN f ELSE Fail(f, "unknown identifier")
           i == IF name \in Consts \/ ~known
                THEN Instr("const", v + 1, {}, <<Here, "do">>)
                ELSE Instr("load", v + 1, {Lookup(env, name)}, <<Here, "do">>)
           g == Emit(k, <<i>>)
           h == NewValues(g, 1)
<1>1. /\ Moves(fn, f, {}, {}, {}) /\ Good(f)
      /\ f.current \in OpenBlocks(f) /\ f.values = fn.values /\ v \in Nat
  BY Prepared
<1>2. <<Here, "do">> \in Event
  BY EventIs DEF Phases
<1>3. fn' = h /\ UNCHANGED <<env, loops, frames>>
  <2>1. i = Instr("const", v + 1, {}, <<Here, "do">>) \/ i = Instr("load", v + 1, {Lookup(env, name)}, <<Here, "do">>)
    OBVIOUS
  <2>2. <<i>> = IF name \in Consts \/ ~known
                THEN <<Instr("const", v + 1, {}, <<Here, "do">>)>>
                ELSE <<Instr("load", v + 1, {Lookup(env, name)}, <<Here, "do">>)>>
    OBVIOUS
  <2> HIDE DEF i
  <2> QED
    BY <2>2 DEF Use
<1> HIDE DEF f
<1>4. Moves(fn, k, {}, {}, {}) /\ k.current \in OpenBlocks(k) /\ k.values = v
  <2>1. CASE known
    BY <1>1, <2>1
  <2>2. CASE ~known
    <3>1. "unknown identifier" \in Errors
      BY DEF Errors
    <3>2. k = Fail(f, "unknown identifier")
      BY <2>2
    <3> HIDE DEF k
    <3> QED
      BY <1>1, <3>1, <3>2, FailStays
  <2> QED
    BY <2>1, <2>2
<1>5. Plain(k, i) /\ i.def = v + 1
  <2>1. CASE name \in Consts \/ ~known
    <3>1. i = Instr("const", v + 1, {}, <<Here, "do">>)
      BY <2>1
    <3>2. v + 1 \in Nat
      BY <1>1
    <3> HIDE DEF i, k
    <3> QED
      BY <1>2, <3>1, <3>2, ConstPlain
  <2>2. CASE ~(name \in Consts \/ ~known)
    <3>1. i = Instr("load", v + 1, {Lookup(env, name)}, <<Here, "do">>) /\ Bound(env, name) # {}
      BY <2>2
    <3> HIDE DEF i, k
    <3>2. Known(k, Lookup(env, name), {}) /\ Lookup(env, name) \in Nat
      BY <1>4, <3>1, LookupKnown
    <3>3. Computed(k, Lookup(env, name), k.current)
      BY <3>2, KnownComputed
    <3>4. i \in InstrSet /\ i.def = v + 1 /\ i.uses = {Lookup(env, name)}
      <4>1. PICK slot \in Nat : slot = Lookup(env, name)
        BY <3>2
      <4>2. PICK value \in Nat, event \in Event : value = v + 1 /\ event = <<Here, "do">>
        BY <1>1, <1>2
      <4>3. i = Instr("load", value, {slot}, event)
        BY <3>1, <4>1, <4>2
      <4>4. LET made == Instr("load", value, {slot}, event)
            IN  made \in InstrSet /\ made.def = value /\ made.uses = {slot} /\ made.inputs = {}
        BY LoadIs
      <4>5. i \in InstrSet /\ i.def = value /\ i.uses = {slot}
        BY <4>3, <4>4
      <4> QED
        BY <4>1, <4>2, <4>5
    <3>5. i.op # "phi"
      BY <3>1 DEF Instr
    <3> QED
      BY <3>3, <3>4, <3>5 DEF Plain
  <2> QED
    BY <2>1, <2>2
<1> HIDE DEF k, i
<1>6. Moves(fn, h, {}, {}, {i.def}) /\ Defs(h) \subseteq 1 .. h.values
  <2>1. Emits(k, <<i>>, g) /\ Counts(g, 1, h)
    BY DEF Emits, Counts
  <2> HIDE DEF g, h
  <2>2. k.values = fn.values /\ i.def = k.values + 1
    BY <1>1, <1>4, <1>5
  <2> QED
    BY <1>4, <1>5, <2>1, <2>2, CalcMove
<1> HIDE DEF h
<1>7. Dominated(h, env, frames, loops)
  BY <1>6, OnlyBlocks
<1> QED
  BY <1>3, <1>7 DEF DomInv

LEMMA AssignDominated ==
    ASSUME Inv, DomInv, NEW name \in Names, Assign(name)
    PROVE  DomInv'
<1> DEFINE f == EnsureOpenBlock(fn)
           v == f.values
           i == Instr("const", v + 1, {}, NoEvent)
           g == Emit(f, <<i>>)
           h == NewValues(g, 1)
           j == Instr("store", 0, {Lookup(env, name), v + 1}, <<Here, "do">>)
           k == Fail(h, "unknown identifier")
           t == Term("unreachable", <<>>, {}, <<Here, "stuck">>)
<1>1. /\ Moves(fn, f, {}, {}, {}) /\ Good(f)
      /\ f.current \in OpenBlocks(f) /\ f.values = fn.values /\ v \in Nat
  BY Prepared
<1>2. /\ fn' = IF Bound(env, name) # {} THEN Emit(h, <<j>>) ELSE SetTerminator(k, t)
      /\ UNCHANGED <<env, loops, frames>>
  BY DEF Assign
<1>3. <<Here, "do">> \in Event /\ NoEvent \in Event
  BY EventIs DEF Phases
<1> HIDE DEF f
<1>4. Plain(f, i) /\ i.def = v + 1
  <2>1. v + 1 \in Nat
    BY <1>1
  <2> QED
    BY <1>3, <2>1, ConstPlain
<1> HIDE DEF i
<1>5. /\ Moves(fn, h, {}, {}, {v + 1}) /\ Good(h)
      /\ h.current \in OpenBlocks(h) /\ h.values = v + 1
      /\ Defs(h) \subseteq 1 .. h.values
      /\ Computed(h, v + 1, h.current)
  <2>1. Emits(f, <<i>>, g) /\ Counts(g, 1, h)
    BY DEF Emits, Counts
  <2> HIDE DEF g, h
  <2> QED
    BY <1>1, <1>4, <2>1, CalcMove
<1> HIDE DEF h
<1>6. CASE Bound(env, name) # {}
  <2>1. PICK slot \in Nat : slot = Lookup(env, name) /\ Known(h, slot, {})
    BY <1>5, <1>6, LookupKnown
  <2>2. Plain(h, j) /\ j.def = 0
    <3>1. PICK value \in Nat, event \in Event : value = v + 1 /\ event = <<Here, "do">>
      BY <1>1, <1>3
    <3>2. j = Instr("store", 0, {slot, value}, event)
      BY <2>1, <3>1
    <3>3. j.op # "phi" /\ j.def = 0
      BY DEF Instr
    <3> HIDE DEF j
    <3>4. j \in InstrSet /\ j.uses = {slot, value}
      BY <3>2, StoreIs
    <3>5. Computed(h, slot, h.current)
      BY <2>1, KnownComputed
    <3> QED
      BY <1>5, <3>1, <3>3, <3>4, <3>5 DEF Plain
  <2> HIDE DEF j
  <2>3. PICK last : Emits(h, <<j>>, last)
    BY DEF Emits
  <2>4. /\ Moves(h, last, {}, {}, {j.def}) /\ last.values = h.values
    BY <1>5, <2>2, <2>3, OneMove
  <2>5. Moves(fn, last, {}, {}, {v + 1} \cup {j.def})
    BY <1>5, <2>4, MovesThen
  <2>6. Defs(last) \subseteq 1 .. last.values
    <3>1. Defs(last) \subseteq Defs(h) /\ 0 \notin Defs(last)
      BY <2>2, <2>4 DEF Moves, Defs
    <3> QED
      BY <1>5, <2>4, <3>1
  <2>7. Dominated(last, env, frames, loops)
    BY <2>5, <2>6, OnlyBlocks
  <2> QED
    BY <1>2, <1>6, <2>3, <2>7 DEF DomInv, Emits
<1>7. CASE Bound(env, name) = {}
  <2>1. "unknown identifier" \in Errors
    BY DEF Errors
  <2>2. /\ Moves(fn, k, {}, {}, {v + 1}) /\ k.current \in OpenBlocks(k)
        /\ Defs(k) \subseteq 1 .. k.values
    BY <1>5, <2>1, FailStays
  <2> HIDE DEF k
  <2>3. t \in TermSet /\ t # Open /\ t.uses = {} /\ Successors(t) = {}
    <3>1. {} \in SUBSET Nat /\ "stuck" \in Phases /\ Here \in Nat
      BY Indices DEF Phases
    <3> QED
      BY <3>1, ExitIs
  <2> HIDE DEF t
  <2>4. Dominated(SetTerminator(k, t), env, frames, loops)
    BY <2>2, <2>3, EndDominated
  <2> QED
    BY <1>2, <1>7, <2>4 DEF DomInv
<1> QED
  BY <1>6, <1>7

LEMMA ReturnDominated ==
    ASSUME Inv, DomInv, Return
    PROVE  DomInv'
<1> DEFINE f == EnsureOpenBlock(fn)
           v == f.values
           i == Instr("const", v + 1, {}, NoEvent)
           g == Emit(f, <<i>>)
           h == NewValues(g, 1)
           s == Term("return", <<>>, {}, <<Here, "return">>)
           t == Term("return", <<>>, {v + 1}, <<Here, "return">>)
<1>1. /\ Moves(fn, f, {}, {}, {}) /\ Good(f)
      /\ f.current \in OpenBlocks(f) /\ f.values = fn.values /\ v \in Nat
      /\ Defs(f) \subseteq 1 .. f.values
  BY Prepared
<1>2. /\ fn' = IF unit THEN SetTerminator(f, s) ELSE SetTerminator(h, t)
      /\ UNCHANGED <<env, loops, frames>>
  BY DEF Return
<1>3. NoEvent \in Event /\ "return" \in Phases /\ Here \in Nat
  BY EventIs, Indices DEF Phases
<1> HIDE DEF f
<1>4. CASE unit
  <2>1. s \in TermSet /\ s # Open /\ s.uses = {} /\ Successors(s) = {}
    <3>1. {} \in SUBSET Nat
      OBVIOUS
    <3> QED
      BY <1>3, <3>1, ExitIs
  <2> HIDE DEF s
  <2>2. Dominated(SetTerminator(f, s), env, frames, loops)
    BY <1>1, <2>1, EndDominated
  <2> QED
    BY <1>2, <1>4, <2>2 DEF DomInv
<1>5. CASE ~unit
  <2>1. Plain(f, i) /\ i.def = v + 1
    <3>1. v + 1 \in Nat
      BY <1>1
    <3> QED
      BY <1>3, <3>1, ConstPlain
  <2> HIDE DEF i
  <2>2. /\ Moves(fn, h, {}, {}, {v + 1}) /\ Good(h)
        /\ h.current \in OpenBlocks(h) /\ h.values = v + 1
        /\ Defs(h) \subseteq 1 .. h.values
        /\ Computed(h, v + 1, h.current)
    <3>1. Emits(f, <<i>>, g) /\ Counts(g, 1, h)
      BY DEF Emits, Counts
    <3> HIDE DEF g, h
    <3> QED
      BY <1>1, <2>1, <3>1, CalcMove, ZenonT(30)
  <2> HIDE DEF h
  <2>3. t \in TermSet /\ t # Open /\ t.uses = {v + 1} /\ Successors(t) = {}
    <3>1. {v + 1} \in SUBSET Nat
      BY <1>1
    <3> QED
      BY <1>3, <3>1, ExitIs
  <2> HIDE DEF t
  <2>4. Dominated(SetTerminator(h, t), env, frames, loops)
    BY <2>2, <2>3, EndDominated
  <2> QED
    BY <1>2, <1>5, <2>4 DEF DomInv
<1> QED
  BY <1>4, <1>5

(* A loop's break leads to its exit, which is still open; its continue to  *)
(* the block of the step, open too, or to the header, which has no phi and *)
(* guards the current block.                                               *)
LEMMA LoopTargets ==
    ASSUME Inv, DomInv, loops # <<>>, NEW f, f = EnsureOpenBlock(fn),
           NEW target \in {Last(loops).break, Last(loops).continue}
    PROVE  MayLeadTo(f, target)
<1>1. /\ Moves(fn, f, {}, {}, {}) /\ Good(f) /\ f.current \in OpenBlocks(f)
      /\ OpenBlocks(f) \ {f.current} = OpenBlocks(fn) \ {fn.current}
  BY Prepared
<1>2. WaitsFor(fn, frames, StagesAhead) /\ frames \in Seq(FrameSet) /\ loops \in Seq(Targets)
  BY DEF Inv, KnowsOpenBlocks, IsShaped
<1>3. Len(loops) \in DOMAIN loops /\ Last(loops) = loops[Len(loops)]
  <2>1. Len(loops) \in Nat \ {0} /\ Last(loops) = loops[Len(loops)]
    BY <1>2, FrontLast
  <2> QED
    BY <1>2, <2>1, SequenceIs
<1>4. PICK i \in DOMAIN frames :
         IsLoop(frames[i]) /\ Last(loops) = [break |-> frames[i].exit, continue |-> frames[i].other]
  BY <1>3 DEF DomInv, Dominated, LoopsMatch
<1>5. PICK x \in FrameSet : x = frames[i]
  BY <1>2, SequenceIs
<1>6. /\ x.exit \in Awaited(x)
      /\ x.kind = "for" => Awaited(x) = {x.other, x.exit}
      /\ target = x.exit \/ target = x.other
  BY <1>4, <1>5, AwaitedIs
<1>7. Awaited(x) \subseteq OpenBlocks(f) \ {f.current}
  <2>1. Awaited(x) \subseteq AwaitedBy(frames)
    BY <1>5 DEF AwaitedBy
  <2> QED
    BY <1>1, <1>2, <2>1 DEF WaitsFor
<1>8. CASE target \in Awaited(x)
  BY <1>7, <1>8 DEF MayLeadTo, OpenBlocks
<1>9. CASE target \notin Awaited(x)
  <2>1. x.kind = "while" /\ target = x.other
    BY <1>4, <1>5, <1>6, <1>9 DEF IsLoop
  <2>2. PICK B : B = Later(frames, ScopesBelow(frames, i))
    OBVIOUS
  <2>3. Heads(fn, x, B) /\ HeaderOf(x) = target
    BY <1>4, <1>5, <2>1, <2>2 DEF DomInv, Dominated, HeadersGuard, HeaderOf
  <2>4. /\ target \in DOMAIN fn.blocks \ OpenBlocks(fn) /\ Covers(fn, target, B)
        /\ PhisOf(fn, target) = {}
    BY <2>1, <2>3 DEF Heads
  <2>5. B \in SUBSET DOMAIN fn.blocks
    BY <1>2, <2>2, LaterOpen
  <2>6. /\ target \in DOMAIN f.blocks /\ target \notin OpenBlocks(f) /\ PhisOf(f, target) = {}
        /\ Covers(f, target, B \cup {})
    BY <1>1, <2>4, <2>5 DEF Moves
  <2> QED
    BY <1>1, <2>6 DEF MayLeadTo, Covers
<1> QED
  BY <1>8, <1>9

LEMMA LeaveForDominated ==
    ASSUME Inv, DomInv, NEW kind, NEW target, LeaveFor(kind, target),
           loops # <<>> => target \in {Last(loops).break, Last(loops).continue}
    PROVE  DomInv'
<1> DEFINE f == EnsureOpenBlock(fn)
           k == Fail(f, "outside of a loop")
           t == Term("unreachable", <<>>, {}, <<Here, "stuck">>)
<1>1. /\ Moves(fn, f, {}, {}, {}) /\ Good(f)
      /\ f.current \in OpenBlocks(f) /\ Defs(f) \subseteq 1 .. f.values
  BY Prepared
<1>2. /\ fn' = IF loops # <<>> THEN SetTerminator(f, Jump(target)) ELSE SetTerminator(k, t)
      /\ UNCHANGED <<env, loops, frames>>
  BY DEF LeaveFor
<1>3. loops # <<>> => MayLeadTo(f, target)
  BY LoopTargets
<1> HIDE DEF f
<1>4. CASE loops # <<>>
  <2>1. target \in Nat
    BY <1>1, <1>3, <1>4, BlocksAre DEF MayLeadTo, Good
  <2>2. /\ Jump(target) \in TermSet /\ Jump(target) # Open
        /\ Jump(target).uses = {} /\ Successors(Jump(target)) = {target}
    BY <2>1, JumpIs
  <2>3. /\ \A b \in Successors(Jump(target)) : MayLeadTo(f, b)
        /\ \A v \in Jump(target).uses : Computed(f, v, f.current)
    BY <1>3, <1>4, <2>2
  <2>4. Dominated(SetTerminator(f, Jump(target)), env, frames, loops)
    BY <1>1, <2>2, <2>3, EndDominated
  <2> QED
    BY <1>2, <1>4, <2>4 DEF DomInv
<1>5. CASE loops = <<>>
  <2>1. "outside of a loop" \in Errors
    BY DEF Errors
  <2>2. Moves(fn, k, {}, {}, {}) /\ k.current \in OpenBlocks(k) /\ Defs(k) \subseteq 1 .. k.values
    BY <1>1, <2>1, FailStays
  <2> HIDE DEF k
  <2>3. t \in TermSet /\ t # Open /\ t.uses = {} /\ Successors(t) = {}
    <3>1. {} \in SUBSET Nat /\ "stuck" \in Phases /\ Here \in Nat
      BY Indices DEF Phases
    <3> QED
      BY <3>1, ExitIs
  <2> HIDE DEF t
  <2>4. Dominated(SetTerminator(k, t), env, frames, loops)
    BY <2>2, <2>3, EndDominated
  <2> QED
    BY <1>2, <1>5, <2>4 DEF DomInv
<1> QED
  BY <1>4, <1>5

-----------------------------------------------------------------------------
(* Opening a statement *)

LEMMA PushedScope ==
    ASSUME NEW e \in Seq(ScopeSet)
    PROVE  /\ PushScope(e) \in Seq(ScopeSet)
           /\ \A j \in DOMAIN PushScope(e) : IF j <= Len(e) THEN PushScope(e)[j] = e[j]
                                                            ELSE DOMAIN PushScope(e)[j] = {}
<1> DEFINE d == PushScope(e)
<1>1. /\ d \in Seq(ScopeSet) /\ Len(d) = Len(e) + 1
      /\ \A j \in DOMAIN e : d[j] = e[j]
      /\ DOMAIN d[Len(e) + 1] = {}
  BY PushIs
<1> HIDE DEF d
<1>2. DOMAIN d = 1 .. Len(e) + 1 /\ Len(e) \in Nat /\ DOMAIN e = 1 .. Len(e)
  BY <1>1, SequenceIs
<1>3. \A j \in DOMAIN d : IF j <= Len(e) THEN d[j] = e[j] ELSE DOMAIN d[j] = {}
  BY <1>1, <1>2
<1> QED
  BY <1>1, <1>3 DEF d

LEMMA BeginIfDominated ==
    ASSUME Inv, DomInv, BeginIf
    PROVE  DomInv'
<1> DEFINE f == EnsureOpenBlock(fn)
           v == f.values
           i == Instr("const", v + 1, {}, <<Here, "test">>)
           e == Emit(f, <<i>>)
           h == NewValues(e, 1)
           n == Len(f.blocks)
           t == Branch(v + 1, n + 1, n + 2)
           g == EnterBlock(SetTerminator(NewBlocks(h, 3), t), n + 1)
           x == Frame("then", n + 2, n + 3)
           new == NewOnes(h, 3)
<1>1. /\ Moves(fn, f, {}, {}, {}) /\ Good(f)
      /\ f.current \in OpenBlocks(f) /\ f.values = fn.values /\ v \in Nat
  BY Prepared
<1>2. /\ fn' = g /\ RoomForBody /\ env' = PushScope(env)
      /\ frames' = Append(frames, x) /\ loops' = loops
  BY DEF BeginIf, Opens
<1>3. <<Here, "test">> \in Event
  BY EventIs DEF Phases
<1> HIDE DEF f
<1>4. Plain(f, i) /\ i.def = v + 1
  <2>1. v + 1 \in Nat
    BY <1>1
  <2> QED
    BY <1>3, <2>1, ConstPlain
<1> HIDE DEF i
<1>5. /\ Moves(fn, h, {}, {}, {v + 1}) /\ Good(h) /\ OpenBlocks(h) = OpenBlocks(f)
      /\ h.current = f.current /\ h.values = v + 1
      /\ Defs(h) \subseteq 1 .. h.values
      /\ Computed(h, v + 1, h.current)
  <2>1. Emits(f, <<i>>, e) /\ Counts(e, 1, h)
    BY DEF Emits, Counts
  <2> HIDE DEF e, h
  <2> QED
    BY <1>1, <1>4, <2>1, CalcMove
<1>6. Len(h.blocks) = n /\ n \in Nat
  <2>1. DOMAIN e.blocks = DOMAIN f.blocks
    <3>1. Emits(f, <<i>>, e) /\ (i.def = 0 \/ Fresh(f, i.def))
      <4>1. Fresh(f, v + 1)
        BY Prepared DEF f
      <4> QED
        BY <1>4, <4>1 DEF Emits
    <3> HIDE DEF e
    <3> QED
      BY <1>1, <1>4, <3>1, OneMove
  <2>2. h.blocks = e.blocks
    BY DEF NewValues
  <2> HIDE DEF e, h
  <2>3. /\ DOMAIN f.blocks = 1 .. Len(f.blocks) /\ Len(f.blocks) \in Nat
        /\ DOMAIN h.blocks = 1 .. Len(h.blocks) /\ Len(h.blocks) \in Nat
    BY <1>1, <1>5, BlocksAre DEF Good
  <2> QED
    BY <2>1, <2>2, <2>3
<1> HIDE DEF h, n
<1>7. new = n + 1 .. n + 3
  BY <1>6 DEF NewOnes
<1>8. t \in TermSet /\ t # Open /\ t.uses = {v + 1} /\ Successors(t) = {n + 1, n + 2}
  BY <1>1, <1>6, BranchIs
<1> HIDE DEF t, new
<1>9. /\ Moves(h, g, {}, new, {}) /\ g.values = h.values
  <2>1. Successors(t) \subseteq new /\ n + 1 \in new /\ \A w \in t.uses : Computed(h, w, h.current)
    BY <1>5, <1>6, <1>7, <1>8
  <2>2. PICK k \in Nat : k = 3
    OBVIOUS
  <2>3. PICK b : b = n + 1
    OBVIOUS
  <2>4. b \in NewOnes(h, k) /\ Opened(h, k, t, b, g) /\ NewOnes(h, k) = new
    BY <2>1, <2>2, <2>3 DEF new, Opened
  <2> HIDE DEF g
  <2>5. h.current \in OpenBlocks(h) /\ Successors(t) \subseteq NewOnes(h, k)
    BY <1>1, <1>5, <2>1, <2>4
  <2>6. Moves(h, g, {}, NewOnes(h, k), {}) /\ g.values = h.values
    BY <1>5, <1>8, <2>1, <2>4, <2>5, OpenMove
  <2> QED
    BY <2>4, <2>6
<1> HIDE DEF g
<1>10. Moves(fn, g, {}, new, {v + 1})
  <2>1. Moves(fn, g, {}, {} \cup new, {v + 1} \cup {})
    BY <1>5, <1>9, MovesOn
  <2>2. {} \cup new = new /\ {v + 1} \cup {} = {v + 1}
    OBVIOUS
  <2> QED
    BY <2>1, <2>2
<1>11. Defs(g) \subseteq 1 .. g.values
  <2>1. Defs(g) \subseteq Defs(h)
    BY <1>9 DEF Moves
  <2> QED
    BY <1>5, <1>9, <2>1
<1>12. x \in FrameSet /\ ~IsLoop(x) /\ Awaited(x) \subseteq new
  <2>1. n + 2 \in Nat /\ n + 3 \in Nat /\ {n + 2, n + 3} \subseteq new
    BY <1>6, <1>7
  <2>2. x \in FrameSet /\ x.kind = "then" /\ x.other = n + 2 /\ x.exit = n + 3
    BY <2>1, FrameIs
  <2> HIDE DEF x
  <2> QED
    BY <2>1, <2>2, AwaitedIs DEF IsLoop
<1> HIDE DEF x
<1>13. PushScope(env) \in Seq(ScopeSet) /\
       \A j \in DOMAIN PushScope(env) :
          IF j <= Len(env) THEN PushScope(env)[j] = env[j]
                           ELSE \A name \in DOMAIN PushScope(env)[j] : Known(g, PushScope(env)[j][name], {})
  <2>1. env \in Seq(ScopeSet)
    BY DEF Inv, IsShaped
  <2> QED
    BY <2>1, PushedScope
<1>14. Dominated(g, PushScope(env), Append(frames, x), loops)
  <2>1. ~done
    BY <1>2 DEF RoomForBody
  <2> QED
    BY <1>10, <1>11, <1>12, <1>13, <2>1, PushDominated
<1> QED
  BY <1>2, <1>14 DEF DomInv

LEMMA MovesFurther ==
    ASSUME NEW f, NEW g, NEW h, NEW E, NEW N, NEW D1, NEW F, NEW D2,
           Moves(f, g, E, N, D1), Moves(g, h, F, {}, D2), F \subseteq E \cup N, N \subseteq DOMAIN g.blocks
    PROVE  Moves(f, h, E, N, D1 \cup D2)
<1>1. Moves(f, h, E, N \cup {}, D1 \cup D2)
  BY MovesOn
<1> QED
  BY <1>1

(* The header of a loop guards all blocks of the loop.                     *)
LEMMA HeaderMove ==
    ASSUME NEW f, Good(f), f.current \in OpenBlocks(f), NEW k \in Nat,
           NEW b \in NewOnes(f, k), NEW g, JumpsTo(f, k, b, g)
    PROVE  /\ Moves(f, g, {}, NewOnes(f, k), {}) /\ Good(g)
           /\ OpenBlocks(g) = (OpenBlocks(f) \ {f.current}) \cup NewOnes(f, k)
           /\ g.current = b /\ b \in OpenBlocks(g) /\ g.values = f.values
           /\ DOMAIN g.blocks = DOMAIN f.blocks \cup NewOnes(f, k)
           /\ g.blocks[b].preds = {f.current} /\ PhisOf(g, b) = {}
           /\ Covers(g, b, NewOnes(f, k))
<1> DEFINE t == Jump(b)
<1>1. t \in TermSet /\ t # Open /\ t.uses = {} /\ Successors(t) = {b}
  <2>1. b \in Nat
    BY BlocksAre DEF Good, NewOnes
  <2> QED
    BY <2>1, JumpIs
<1>2. Opened(f, k, t, b, g)
  BY DEF JumpsTo, Opened
<1> HIDE DEF t
<1>3. Successors(t) \subseteq NewOnes(f, k) /\ \A v \in t.uses : Computed(f, v, f.current)
  BY <1>1
<1>4. /\ Moves(f, g, {}, NewOnes(f, k), {}) /\ Good(g)
      /\ OpenBlocks(g) = (OpenBlocks(f) \ {f.current}) \cup NewOnes(f, k)
      /\ g.current = b /\ b \in OpenBlocks(g) /\ g.values = f.values
      /\ DOMAIN g.blocks = DOMAIN f.blocks \cup NewOnes(f, k)
      /\ \A c \in Successors(t) : g.blocks[c].preds = {f.current}
      /\ \A c \in NewOnes(f, k) : PhisOf(g, c) = {}
      /\ \A c \in NewOnes(f, k) \ Successors(t) : \A a : Guards(g, a, c)
  BY <1>1, <1>2, <1>3, OpenMove
<1>5. Covers(g, b, NewOnes(f, k))
  <2>1. Guards(g, b, b)
    BY <1>4, GuardsItself DEF Good
  <2> QED
    BY <1>1, <1>4, <2>1 DEF Covers
<1> QED
  BY <1>1, <1>4, <1>5

LEMMA CountsMove ==
    ASSUME NEW f, Good(f), NEW n \in Nat, NEW g, Counts(f, n, g)
    PROVE  /\ Moves(f, g, {}, {}, {}) /\ Good(g) /\ OpenBlocks(g) = OpenBlocks(f)
           /\ g.blocks = f.blocks /\ g.current = f.current /\ g.values = f.values + n
  BY NewValuesMove DEF Counts, Moves

LEMMA BeginWhileDominated ==
    ASSUME Inv, DomInv, BeginWhile
    PROVE  DomInv'
<1> DEFINE f == EnsureOpenBlock(fn)
           n == Len(f.blocks)
           v == f.values
           i == Instr("const", v + 1, {}, <<Here, "test">>)
           entered == EnterBlock(SetTerminator(NewBlocks(f, 3), Jump(n + 1)), n + 1)
           emitted == Emit(entered, <<i>>)
           tested == NewValues(emitted, 1)
           g == EnterBlock(SetTerminator(tested, Branch(v + 1, n + 2, n + 3)), n + 2)
           x == Frame("while", n + 1, n + 3)
           new == NewOnes(f, 3)
<1>1. /\ Moves(fn, f, {}, {}, {}) /\ Good(f)
      /\ f.current \in OpenBlocks(f) /\ f.values = fn.values /\ v \in Nat
      /\ Defs(f) \subseteq 1 .. v
      /\ Fresh(f, v + 1)
  BY Prepared
<1>2. /\ fn' = g /\ RoomForBody /\ env' = PushScope(env)
      /\ frames' = Append(frames, x)
      /\ loops' = Append(loops, [break |-> n + 3, continue |-> n + 1])
  BY DEF BeginWhile, Opens
<1>3. <<Here, "test">> \in Event
  BY EventIs DEF Phases
<1> HIDE DEF f
<1>4. Plain(entered, i) /\ i.def = v + 1
  <2>1. v + 1 \in Nat
    BY <1>1
  <2> HIDE DEF entered
  <2> QED
    BY <1>3, <2>1, ConstPlain
<1> HIDE DEF i
<1>5. n \in Nat /\ new = n + 1 .. n + 3 /\ n + 1 \in new /\ n + 2 \in new /\ n + 3 \in new
  <2>1. n \in Nat
    BY <1>1, BlocksAre DEF Good
  <2> HIDE DEF n
  <2>2. new = n + 1 .. n + 3
    BY DEF NewOnes, n
  <2> QED
    BY <2>1, <2>2
<1>6. /\ Moves(f, entered, {}, new, {}) /\ Good(entered)
      /\ OpenBlocks(entered) = (OpenBlocks(f) \ {f.current}) \cup new
      /\ entered.current = n + 1 /\ entered.current \in OpenBlocks(entered) /\ entered.values = v
      /\ new \subseteq DOMAIN entered.blocks
      /\ PhisOf(entered, n + 1) = {} /\ Covers(entered, n + 1, new)
  <2>1. PICK k \in Nat : k = 3
    OBVIOUS
  <2>2. PICK b : b = n + 1
    OBVIOUS
  <2>3. b \in NewOnes(f, k) /\ JumpsTo(f, k, b, entered) /\ new = NewOnes(f, k)
    BY <1>5, <2>1, <2>2 DEF JumpsTo
  <2> HIDE DEF entered, n, new
  <2>4. /\ Moves(f, entered, {}, NewOnes(f, k), {}) /\ Good(entered)
        /\ OpenBlocks(entered) = (OpenBlocks(f) \ {f.current}) \cup NewOnes(f, k)
        /\ entered.current = b /\ b \in OpenBlocks(entered) /\ entered.values = f.values
        /\ DOMAIN entered.blocks = DOMAIN f.blocks \cup NewOnes(f, k)
        /\ PhisOf(entered, b) = {} /\ Covers(entered, b, NewOnes(f, k))
    BY <1>1, <2>3, HeaderMove
  <2> QED
    BY <2>2, <2>3, <2>4
<1> HIDE DEF entered, n, new
<1>7. /\ Moves(entered, emitted, {}, {}, {v + 1}) /\ Good(emitted)
      /\ OpenBlocks(emitted) = OpenBlocks(entered)
      /\ emitted.current = n + 1 /\ emitted.values = v
      /\ DOMAIN emitted.blocks = DOMAIN entered.blocks
      /\ PhisOf(emitted, n + 1) = {}
      /\ Computed(emitted, v + 1, n + 1)
  <2>1. Fresh(entered, v + 1)
    BY <1>1, <1>6, FreshStays
  <2>2. Emits(entered, <<i>>, emitted) /\ Fresh(entered, i.def)
    BY <1>4, <2>1 DEF Emits
  <2> HIDE DEF emitted
  <2>3. /\ Moves(entered, emitted, {}, {}, {i.def}) /\ Good(emitted)
        /\ OpenBlocks(emitted) = OpenBlocks(entered)
        /\ emitted.current = entered.current /\ emitted.values = entered.values
        /\ DOMAIN emitted.blocks = DOMAIN entered.blocks
        /\ DefinesIn(emitted, i.def, entered.current)
        /\ PhisOf(emitted, entered.current) = PhisOf(entered, entered.current)
    BY <1>4, <1>6, <2>2, OneMove
  <2>4. Known(emitted, i.def, {})
    BY <2>2, <2>3, KnownNow DEF Fresh
  <2> QED
    BY <1>4, <1>6, <2>3, <2>4, KnownComputed
<1> HIDE DEF emitted
<1>8. /\ Moves(emitted, tested, {}, {}, {}) /\ Good(tested)
      /\ OpenBlocks(tested) = OpenBlocks(emitted)
      /\ tested.blocks = emitted.blocks /\ tested.current = n + 1 /\ tested.values = v + 1
  <2>1. PICK k \in Nat : k = 1
    OBVIOUS
  <2>2. Counts(emitted, k, tested)
    BY <2>1 DEF Counts
  <2> HIDE DEF tested
  <2> QED
    BY <1>7, <2>1, <2>2, CountsMove
<1>9. Computed(tested, v + 1, tested.current) /\ PhisOf(tested, n + 1) = {}
  <2>1. Known(emitted, v + 1, {})
    BY <1>7, ComputedKnown
  <2>2. Known(tested, v + 1, {})
    BY <1>8, <2>1, KnownStays
  <2> HIDE DEF tested
  <2>3. PhisOf(tested, n + 1) = {}
    BY <1>7, <1>8 DEF PhisOf
  <2> QED
    BY <2>2, <2>3, KnownComputed
<1> HIDE DEF tested
<1>10. /\ Moves(tested, g, {n + 2}, {}, {}) /\ Good(g)
       /\ OpenBlocks(g) = OpenBlocks(tested) \ {n + 1}
       /\ g.values = v + 1 /\ DOMAIN g.blocks = DOMAIN tested.blocks
       /\ PhisOf(g, n + 1) = {}
  <2>1. PICK value, b, c : value = v + 1 /\ b = n + 2 /\ c = n + 3
    OBVIOUS
  <2>2. BranchesTo(tested, value, b, c, g)
    BY <2>1 DEF BranchesTo
  <2> HIDE DEF g
  <2>3. /\ b \in OpenBlocks(tested) /\ b # tested.current /\ c \in OpenBlocks(tested) /\ c # tested.current
        /\ tested.current \in OpenBlocks(tested) /\ n + 1 \in DOMAIN tested.blocks
    BY <1>5, <1>6, <1>7, <1>8, <2>1
  <2>4. Computed(tested, value, tested.current) /\ Good(tested)
    BY <1>8, <1>9, <2>1
  <2>5. MayBranch(tested, value, b, c, g)
    BY <2>2, <2>3, <2>4 DEF MayBranch
  <2>6. Went(tested, b, g)
    BY <2>5, BranchMoves
  <2> QED
    BY <1>8, <1>9, <2>1, <2>3, <2>6 DEF Went
<1> HIDE DEF g
<1>11. Moves(entered, g, {n + 2}, {}, {v + 1})
  <2>1. Moves(entered, tested, {}, {}, {v + 1} \cup {})
    BY <1>7, <1>8, MovesThen
  <2>2. Moves(entered, tested, {n + 2}, {}, {v + 1})
    BY <2>1, MovesLess
  <2>3. Moves(entered, g, {n + 2}, {}, {v + 1} \cup {})
    BY <1>10, <2>2, MovesFurther
  <2>4. {v + 1} \cup {} = {v + 1}
    OBVIOUS
  <2> QED
    BY <2>3, <2>4
<1>12. Moves(fn, g, {}, new, {v + 1})
  <2>1. Moves(fn, entered, {}, {} \cup new, {} \cup {})
    BY <1>1, <1>6, MovesOn
  <2>2. {} \cup new = new /\ {} \cup {} = {}
    OBVIOUS
  <2>3. Moves(fn, g, {}, new, {} \cup {v + 1})
    BY <1>5, <1>6, <1>11, <2>1, <2>2, MovesFurther
  <2>4. {} \cup {v + 1} = {v + 1}
    OBVIOUS
  <2> QED
    BY <2>3, <2>4
<1>13. Defs(g) \subseteq 1 .. g.values
  <2>1. v + 1 \in Nat /\ v <= v + 1 /\ \A w \in {v + 1} : w = 0 \/ w \in v + 1 .. v + 1
    BY <1>1
  <2>2. Defs(fn) \subseteq 1 .. v
    BY <1>1 DEF DomInv, Dominated
  <2> QED
    BY <1>1, <1>10, <1>12, <2>1, <2>2, DefsWithin
<1>14. /\ x \in FrameSet /\ IsLoop(x) /\ x.kind = "while" /\ x.other = n + 1 /\ x.exit = n + 3
       /\ Awaited(x) = {n + 3}
  <2>1. n + 1 \in Nat /\ n + 3 \in Nat
    BY <1>5
  <2>2. x \in FrameSet /\ x.kind = "while" /\ x.other = n + 1 /\ x.exit = n + 3
    BY <2>1, FrameIs
  <2> HIDE DEF x
  <2> QED
    BY <2>2, AwaitedIs DEF IsLoop
<1> HIDE DEF x
<1>15. Heads(g, x, Awaited(x))
  <2>1. Covers(g, n + 1, new \cup {})
    <3>1. n + 1 \in DOMAIN entered.blocks /\ new \in SUBSET DOMAIN entered.blocks /\ {n + 2} \subseteq new
      BY <1>5, <1>6
    <3> QED
      BY <1>6, <1>11, <3>1 DEF Moves
  <2>2. Covers(g, n + 1, {n + 3})
    BY <1>5, <2>1 DEF Covers
  <2>3. n + 1 \in DOMAIN g.blocks \ OpenBlocks(g)
    BY <1>5, <1>6, <1>7, <1>8, <1>10
  <2> QED
    BY <1>10, <1>14, <2>2, <2>3 DEF Heads, HeaderOf
<1>16. PushScope(env) \in Seq(ScopeSet) /\
       \A j \in DOMAIN PushScope(env) :
          IF j <= Len(env) THEN PushScope(env)[j] = env[j]
                           ELSE \A name \in DOMAIN PushScope(env)[j] : Known(g, PushScope(env)[j][name], {})
  <2>1. env \in Seq(ScopeSet)
    BY DEF Inv, IsShaped
  <2> QED
    BY <2>1, PushedScope
<1>17. Dominated(g, PushScope(env), Append(frames, x), loops')
  <2>1. ~done /\ Awaited(x) \subseteq new
    BY <1>2, <1>5, <1>14 DEF RoomForBody
  <2>2. loops' = IF IsLoop(x) THEN Append(loops, [break |-> x.exit, continue |-> x.other]) ELSE loops
    BY <1>2, <1>14
  <2> QED
    BY <1>12, <1>13, <1>14, <1>15, <1>16, <2>1, <2>2, PushDominated
<1> QED
  BY <1>2, <1>17 DEF DomInv

LEMMA AddsFits ==
    ASSUME NEW f, Good(f), f.current \in OpenBlocks(f), NEW instrs, Fits(f, instrs), NEW g, Emits(f, instrs, g),
           NEW D, D = {instrs[k].def : k \in DOMAIN instrs}
    PROVE  Adds(f, g, D)
<1>1. /\ Moves(f, g, {}, {}, {instrs[k].def : k \in DOMAIN instrs}) /\ Good(g)
      /\ OpenBlocks(g) = OpenBlocks(f)
      /\ g.current = f.current /\ g.values = f.values
      /\ DOMAIN g.blocks = DOMAIN f.blocks
  BY EmitsMove
<1> QED
  BY <1>1 DEF Adds

LEMMA FitsKnown ==
    ASSUME NEW f, Good(f), f.current \in OpenBlocks(f), NEW instrs, Fits(f, instrs), NEW g, Emits(f, instrs, g),
           NEW k \in DOMAIN instrs, instrs[k].def # 0
    PROVE  Known(g, instrs[k].def, {})
<1>1. Good(g) /\ g.current = f.current /\ DefinesIn(g, instrs[k].def, f.current)
  BY EmitsMove
<1> QED
  BY <1>1, KnownNow

(* What a `for` computes before its header.                                *)
LEMMA IterMove ==
    ASSUME NEW f, Good(f), f.current \in OpenBlocks(f),
           NEW v1, NEW v2, NEW v3, NEW v4, Fresh(f, v1), Fresh(f, v2), Fresh(f, v3), Fresh(f, v4),
           v1 # v2, v1 # v3, v1 # v4, v2 # v3, v2 # v4, v3 # v4,
           NEW a, NEW b, NEW c, NEW d,
           Works(a, v1, {}), Works(b, v2, {v1}), Works(c, v3, {}), Works(d, v4, {}),
           NEW g, Emits(f, <<a, b, c, d>>, g)
    PROVE  /\ Adds(f, g, {v1, v2, v3, v4})
           /\ Known(g, v1, {}) /\ Known(g, v2, {}) /\ Known(g, v3, {}) /\ DefinesIn(g, v4, f.current)
<1> DEFINE s == <<a, b, c, d>>
<1>1. /\ a \in InstrSet /\ a.def = v1 /\ a.uses = {} /\ a.op # "phi"
      /\ b \in InstrSet /\ b.def = v2 /\ b.uses = {v1} /\ b.op # "phi"
      /\ c \in InstrSet /\ c.def = v3 /\ c.uses = {} /\ c.op # "phi"
      /\ d \in InstrSet /\ d.def = v4 /\ d.uses = {} /\ d.op # "phi"
  BY DEF Works, Made
<1>2. s \in Seq(InstrSet) /\ DOMAIN s = {1, 2, 3, 4} /\ s[1] = a /\ s[2] = b /\ s[3] = c /\ s[4] = d
  BY <1>1
<1>3. Emits(f, s, g)
  OBVIOUS
<1> HIDE DEF s
<1>4. v1 # 0 /\ v2 # 0 /\ v3 # 0 /\ v4 # 0
  BY DEF Fresh
<1>5. Fits(f, s)
  <2>1. \A w \in b.uses : w # 0 /\ \E m \in DOMAIN s : m < 2 /\ s[m].def = w
    <3>1. 1 < 2
      OBVIOUS
    <3> QED
      BY <1>1, <1>2, <1>4, <3>1
  <2>2. \A k \in DOMAIN s : s[k].op # "phi"
    BY <1>1, <1>2
  <2>3. ASSUME NEW k \in DOMAIN s
        PROVE  s[k].def \notin Defs(f) /\ \A j \in DOMAIN s : s[j].def = s[k].def => j = k
    BY <1>1, <1>2 DEF Fresh
  <2> QED
    BY <1>1, <1>2, <2>1, <2>2, <2>3 DEF Fits
<1>6. Adds(f, g, {v1, v2, v3, v4})
  <2>1. {s[k].def : k \in DOMAIN s} = {v1, v2, v3, v4}
    BY <1>1, <1>2
  <2> QED
    BY <1>3, <1>5, <2>1, AddsFits
<1>7. \A k \in DOMAIN s : s[k].def # 0 => Known(g, s[k].def, {})
  BY <1>3, <1>5, FitsKnown
<1>8. \A k \in DOMAIN s : DefinesIn(g, s[k].def, f.current)
  BY <1>3, <1>5, EmitsMove
<1> QED
  BY <1>1, <1>2, <1>4, <1>6, <1>7, <1>8

(* The header of a `for`: the phi of the index, and the test.              *)
IsPhi(i, w, u, p) == Made(i, w, {}, {<<u, p>>}) /\ i.op = "phi"
UsesTwo(j, t, w, z) == Works(j, t, {w, z})
HasPhi(f, w, t, g) ==
    /\ Adds(f, g, {w, t}) /\ PhisOf(g, f.current) = {w}
    /\ DefinesIn(g, w, f.current) /\ Known(g, t, {})

LEMMA PhiMove ==
    ASSUME NEW f, Good(f), f.current \in OpenBlocks(f), NEW p, f.blocks[f.current].preds = {p},
           PhisOf(f, f.current) = {},
           NEW w, NEW t, Fresh(f, w), Fresh(f, t), w # t, NEW u, Computed(f, u, p), NEW z, Known(f, z, {}),
           NEW i, IsPhi(i, w, u, p), NEW j, UsesTwo(j, t, w, z), NEW g, EmitsPair(f, i, j, g)
    PROVE  HasPhi(f, w, t, g)
<1> DEFINE s == <<i, j>>
<1>1. /\ i \in InstrSet /\ i.def = w /\ i.uses = {} /\ i.inputs = {<<u, p>>} /\ i.op = "phi"
      /\ j \in InstrSet /\ j.def = t /\ j.uses = {w, z} /\ j.op # "phi"
  BY DEF Works, Made, IsPhi, UsesTwo
<1>2. s \in Seq(InstrSet) /\ DOMAIN s = {1, 2} /\ s[1] = i /\ s[2] = j
  BY <1>1
<1>3. Emits(f, s, g)
  BY DEF EmitsPair
<1> HIDE DEF s
<1>4. w # 0 /\ t # 0
  BY DEF Fresh
<1>5. Fits(f, s)
  <2>1. \A v \in j.uses : Computed(f, v, f.current) \/ (v # 0 /\ \E m \in DOMAIN s : m < 2 /\ s[m].def = v)
    <3>1. 1 < 2 /\ Computed(f, z, f.current)
      BY ComputedKnown
    <3> QED
      BY <1>1, <1>2, <1>4, <3>1
  <2>2. InputsMatch(f, f.current, i.inputs)
    <3>1. /\ {input[2] : input \in {<<u, p>>}} = {p}
          /\ \A a, b \in {<<u, p>>} : a[2] = b[2] => a = b
          /\ \A input \in {<<u, p>>} : input[1] = u /\ input[2] = p
      OBVIOUS
    <3> QED
      BY <1>1, <3>1 DEF InputsMatch
  <2>3. ASSUME NEW k \in DOMAIN s
        PROVE  s[k].def \notin Defs(f) /\ \A m \in DOMAIN s : s[m].def = s[k].def => m = k
    BY <1>1, <1>2 DEF Fresh
  <2>4. \A k \in DOMAIN s : s[k].op = "phi" => InputsMatch(f, f.current, s[k].inputs)
    BY <1>1, <1>2, <2>2
  <2>5. \A k \in DOMAIN s : \A v \in s[k].uses :
           Computed(f, v, f.current) \/ (v # 0 /\ \E m \in DOMAIN s : m < k /\ s[m].def = v)
    BY <1>1, <1>2, <2>1
  <2> QED
    BY <1>2, <2>3, <2>4, <2>5 DEF Fits
<1>6. Adds(f, g, {w, t})
  <2>1. {s[k].def : k \in DOMAIN s} = {w, t}
    BY <1>1, <1>2
  <2> QED
    BY <1>3, <1>5, <2>1, AddsFits
<1>7. \A k \in DOMAIN s : s[k].def # 0 => Known(g, s[k].def, {})
  BY <1>3, <1>5, FitsKnown
<1>8. PhisOf(g, f.current) = {w}
  <2>1. PhisOf(g, f.current) = PhisOf(f, f.current) \cup {s[k].def : k \in Phis(s)}
    BY <1>3, <1>5, EmitsMove
  <2>2. Phis(s) = {1}
    BY <1>1, <1>2 DEF Phis
  <2>3. {s[k].def : k \in Phis(s)} = {w}
    BY <1>1, <1>2, <2>2
  <2> QED
    BY <2>1, <2>3
<1>9. \A k \in DOMAIN s : DefinesIn(g, s[k].def, f.current)
  BY <1>3, <1>5, EmitsMove
<1> QED
  BY <1>1, <1>2, <1>4, <1>6, <1>7, <1>8, <1>9 DEF HasPhi

LEMMA KnownFurther ==
    ASSUME NEW f, NEW g, NEW E, NEW N, NEW D, Moves(f, g, E, N, D), NEW v,
           NEW B \in SUBSET DOMAIN f.blocks, E \subseteq B, Known(f, v, B), NEW C, C \subseteq B \cup N
    PROVE  Known(g, v, C)
<1>1. Known(g, v, B \cup N)
  BY KnownMoves
<1> QED
  BY <1>1, KnownLess

(* From before the header of a `for` to its body.                          *)
ForMoved(h, g, N, D, slot, header, index) ==
    /\ Moves(h, g, {}, N, D) /\ Good(g) /\ g.values = h.values
    /\ Known(g, slot, {}) /\ header \in DOMAIN g.blocks \ OpenBlocks(g)
    /\ PhisOf(g, header) = {index} /\ Covers(g, header, N)

LEMMA ForMove ==
    ASSUME NEW h, Good(h), h.current \in OpenBlocks(h),
           NEW u, DefinesIn(h, u, h.current), u # 0, NEW z, Known(h, z, {}),
           NEW v1, Known(h, v1, {}), NEW v3, Known(h, v3, {}),
           NEW w, NEW t, NEW m, Fresh(h, w), Fresh(h, t), Fresh(h, m), w # t, w # m, t # m,
           NEW k \in Nat, NEW N, N = NewOnes(h, k), NEW n1 \in N, NEW n2 \in N, NEW n4 \in N, n1 # n2, n1 # n4,
           NEW i, IsPhi(i, w, u, h.current), NEW j, UsesTwo(j, t, w, z),
           NEW item, UsesTwo(item, m, v1, w), NEW store, UsesTwo(store, 0, v3, m), NEW D, D = {w, t, m, 0},
           NEW entered, JumpsTo(h, k, n1, entered), NEW header, EmitsPair(entered, i, j, header),
           NEW turned, BranchesTo(header, t, n2, n4, turned), NEW g, EmitsPair(turned, item, store, g)
    PROVE  ForMoved(h, g, N, D, v3, n1, w)
<1>1. /\ Moves(h, entered, {}, N, {}) /\ Good(entered)
      /\ OpenBlocks(entered) = (OpenBlocks(h) \ {h.current}) \cup N
      /\ entered.current = n1 /\ n1 \in OpenBlocks(entered) /\ entered.values = h.values
      /\ DOMAIN entered.blocks = DOMAIN h.blocks \cup N
      /\ entered.blocks[n1].preds = {h.current} /\ PhisOf(entered, n1) = {}
      /\ Covers(entered, n1, N)
  BY HeaderMove
<1>2. Computed(entered, u, h.current) /\ Fresh(entered, w) /\ Fresh(entered, t) /\ Fresh(entered, m)
  <2>1. DefinesIn(entered, u, h.current)
    BY <1>1 DEF Moves
  <2>2. Guards(entered, h.current, h.current)
    BY <1>1, GuardsItself DEF Good
  <2>3. Computed(entered, u, h.current)
    BY <2>1, <2>2 DEF Computed
  <2>4. w \notin {} /\ t \notin {} /\ m \notin {}
    OBVIOUS
  <2> QED
    BY <1>1, <2>3, <2>4, FreshStays
<1>3. Known(entered, z, N) /\ Known(entered, v1, N) /\ Known(entered, v3, N) /\ Known(entered, z, {})
  <2>1. {} \in SUBSET DOMAIN h.blocks /\ {} \subseteq {} /\ N \subseteq {} \cup N /\ {} \subseteq N
    OBVIOUS
  <2>2. Known(entered, z, N) /\ Known(entered, v1, N) /\ Known(entered, v3, N)
    BY <1>1, <2>1, KnownFurther
  <2> QED
    BY <2>1, <2>2, KnownLess
<1>4. /\ Adds(entered, header, {w, t}) /\ PhisOf(header, n1) = {w}
      /\ DefinesIn(header, w, n1) /\ Known(header, t, {})
  <2>1. PICK b : b = h.current
    OBVIOUS
  <2>2. /\ entered.blocks[entered.current].preds = {b} /\ PhisOf(entered, entered.current) = {}
        /\ entered.current \in OpenBlocks(entered) /\ Computed(entered, u, b) /\ IsPhi(i, w, u, b)
    BY <1>1, <1>2, <2>1
  <2>3. HasPhi(entered, w, t, header)
    BY <1>1, <1>2, <1>3, <2>2, PhiMove
  <2> QED
    BY <1>1, <2>3 DEF HasPhi
<1>5. /\ Moves(entered, header, {}, {}, {w, t}) /\ Good(header)
      /\ OpenBlocks(header) = OpenBlocks(entered)
      /\ header.current = n1 /\ header.values = h.values
      /\ DOMAIN header.blocks = DOMAIN entered.blocks /\ N \in SUBSET DOMAIN header.blocks
  BY <1>1, <1>4 DEF Adds
<1>6. Covers(header, n1, N) /\ Known(header, v1, N) /\ Known(header, v3, N) /\ Known(header, w, N)
  <2>1. N \in SUBSET DOMAIN entered.blocks /\ {} \subseteq N /\ N \subseteq N \cup {} /\ N \cup {} = N
    BY <1>1
  <2>2. Covers(header, n1, N)
    <3>1. n1 \in DOMAIN entered.blocks
      BY <1>1
    <3>2. Covers(header, n1, N \cup {})
      BY <1>1, <1>5, <2>1, <3>1 DEF Moves
    <3> QED
      BY <2>1, <3>2
  <2>3. Known(header, v1, N) /\ Known(header, v3, N)
    BY <1>3, <1>5, <2>1, KnownFurther
  <2>4. Known(header, w, N)
    BY <1>4, <1>5, <2>2 DEF Known, Fresh
  <2> QED
    BY <2>2, <2>3, <2>4
<1>7. Went(header, n2, turned)
  <2>1. Computed(header, t, header.current)
    BY <1>4, ComputedKnown
  <2>2. MayBranch(header, t, n2, n4, turned)
    BY <1>1, <1>5, <2>1 DEF MayBranch
  <2> QED
    BY <2>2, BranchMoves
<1>8. /\ Moves(header, turned, {n2}, {}, {}) /\ Good(turned)
      /\ OpenBlocks(turned) = OpenBlocks(header) \ {n1}
      /\ turned.current = n2 /\ turned.values = h.values
      /\ DOMAIN turned.blocks = DOMAIN header.blocks
      /\ PhisOf(turned, n1) = {w}
  BY <1>4, <1>5, <1>7 DEF Went
<1>9. /\ turned.current \in OpenBlocks(turned)
      /\ Covers(turned, n1, N) /\ Known(turned, v1, {}) /\ Known(turned, v3, {}) /\ Known(turned, w, {})
  <2>1. {n2} \subseteq N /\ N \subseteq N \cup {} /\ N \cup {} = N /\ {} \subseteq N \cup {}
    OBVIOUS
  <2>2. Covers(turned, n1, N)
    <3>1. n1 \in DOMAIN header.blocks
      BY <1>5
    <3>2. Covers(turned, n1, N \cup {})
      BY <1>5, <1>6, <1>8, <2>1, <3>1 DEF Moves
    <3> QED
      BY <2>1, <3>2
  <2>3. Known(turned, v1, {}) /\ Known(turned, v3, {}) /\ Known(turned, w, {})
    BY <1>5, <1>6, <1>8, <2>1, KnownFurther
  <2>4. turned.current \in OpenBlocks(turned)
    BY <1>1, <1>5, <1>8
  <2> QED
    BY <2>2, <2>3, <2>4
<1>10. Fresh(turned, m)
  <2>1. Fresh(header, m)
    BY <1>2, <1>5, FreshStays
  <2>2. m \notin {}
    OBVIOUS
  <2> QED
    BY <1>8, <2>1, <2>2, FreshStays
<1>11. /\ Moves(turned, g, {}, {}, {m, 0}) /\ Good(g)
       /\ OpenBlocks(g) = OpenBlocks(turned)
       /\ g.current = n2 /\ g.values = h.values
       /\ DOMAIN g.blocks = DOMAIN turned.blocks
  <2>1. /\ item \in InstrSet /\ item.def = m /\ item.uses = {v1, w} /\ item.op # "phi"
        /\ store \in InstrSet /\ store.def = 0 /\ store.uses = {v3, m} /\ store.op # "phi"
    BY DEF Works, Made, UsesTwo
  <2>2. Plain(turned, item) /\ \A v \in store.uses : v = item.def \/ Computed(turned, v, turned.current)
    BY <1>9, <2>1, ComputedKnown DEF Plain
  <2>3. Pair(turned, item, store)
    BY <1>10, <2>1, <2>2 DEF Pair
  <2>4. Paired(turned, item, store, g)
    BY <1>8, <1>9, <2>3, TwoMove
  <2> QED
    BY <1>8, <2>1, <2>4 DEF Paired, Adds
<1>12. Known(g, v3, {}) /\ Covers(g, n1, N) /\ PhisOf(g, n1) = {w} /\ n1 \in DOMAIN g.blocks \ OpenBlocks(g)
  <2>1. /\ Known(g, v3, {})
    BY <1>9, <1>11, KnownStays
  <2>2. n1 \in DOMAIN turned.blocks /\ n1 \notin OpenBlocks(turned) /\ N \in SUBSET DOMAIN turned.blocks
    BY <1>5, <1>8
  <2>3. Covers(g, n1, N \cup {})
    BY <1>9, <1>11, <2>2 DEF Moves
  <2>4. PhisOf(g, n1) = PhisOf(turned, n1)
    BY <1>11, <2>2 DEF Moves
  <2>5. N \cup {} = N
    OBVIOUS
  <2> QED
    BY <1>8, <1>11, <2>1, <2>2, <2>3, <2>4, <2>5
<1>13. Moves(h, g, {}, N, {w, t, m, 0})
  <2>1. Moves(h, header, {}, N, {} \cup {w, t})
    BY <1>1, <1>5, MovesFurther
  <2>2. Moves(h, turned, {}, N, ({} \cup {w, t}) \cup {})
    BY <1>5, <1>8, <2>1, MovesFurther
  <2>3. Moves(h, g, {}, N, (({} \cup {w, t}) \cup {}) \cup {m, 0})
    BY <1>5, <1>8, <1>11, <2>2, MovesFurther
  <2>4. (({} \cup {w, t}) \cup {}) \cup {m, 0} = {w, t, m, 0}
    OBVIOUS
  <2> QED
    BY <2>3, <2>4
<1> QED
  BY <1>11, <1>12, <1>13 DEF ForMoved

(* The scopes of a `for`: that of its name, and that of its body.          *)
LEMMA ForScopes ==
    ASSUME NEW e \in Seq(ScopeSet), NEW g, NEW slot \in Nat, Known(g, slot, {}), NEW name \in Names,
           NEW d, d = PushScope(Insert(PushScope(e), name, slot))
    PROVE  /\ d \in Seq(ScopeSet)
           /\ \A j \in DOMAIN d : IF j <= Len(e) THEN d[j] = e[j]
                                                ELSE \A n \in DOMAIN d[j] : Known(g, d[j][n], {})
<1> DEFINE p == PushScope(e)
           i == Insert(p, name, slot)
           m == Len(e) + 1
<1>1. /\ p \in Seq(ScopeSet)
      /\ \A j \in DOMAIN p : IF j <= Len(e) THEN p[j] = e[j] ELSE DOMAIN p[j] = {}
  BY PushedScope
<1>2. Len(p) = m /\ Len(e) \in Nat /\ Len(p) > 0 /\ DOMAIN p = 1 .. m /\ ~(m <= Len(e))
  BY SequenceIs DEF PushScope
<1>3. d = PushScope(i)
  OBVIOUS
<1> HIDE DEF p
<1>4. /\ i \in Seq(ScopeSet) /\ Len(i) = m
      /\ \A j \in DOMAIN p : j # m => i[j] = p[j]
      /\ \A n \in DOMAIN i[m] : i[m][n] = slot \/ n \in DOMAIN p[m]
  <2>1. /\ i \in Seq(ScopeSet) /\ Len(i) = Len(p)
        /\ \A j \in DOMAIN p : j # Len(p) => i[j] = p[j]
        /\ \A n \in DOMAIN i[Len(p)] :
              \/ n = name /\ i[Len(p)][n] = slot
              \/ n \in DOMAIN p[Len(p)] /\ i[Len(p)][n] = p[Len(p)][n]
    BY <1>1, <1>2, InsertIs
  <2> HIDE DEF i
  <2> QED
    BY <1>2, <2>1
<1>5. DOMAIN p[m] = {}
  BY <1>1, <1>2
<1> HIDE DEF i
<1>6. /\ d \in Seq(ScopeSet)
      /\ \A j \in DOMAIN d : IF j <= m THEN d[j] = i[j] ELSE DOMAIN d[j] = {}
      /\ DOMAIN d = 1 .. m + 1
  <2>1. d \in Seq(ScopeSet) /\ \A j \in DOMAIN d : IF j <= Len(i) THEN d[j] = i[j] ELSE DOMAIN d[j] = {}
    BY <1>3, <1>4, PushedScope
  <2>2. DOMAIN d = 1 .. m + 1
    BY <1>2, <1>3, <1>4, SequenceIs DEF PushScope
  <2> QED
    BY <1>4, <2>1, <2>2
<1>7. ASSUME NEW j \in DOMAIN d
      PROVE  IF j <= Len(e) THEN d[j] = e[j] ELSE \A n \in DOMAIN d[j] : Known(g, d[j][n], {})
  <2>1. CASE j <= Len(e)
    <3>1. j \in DOMAIN p /\ j # m /\ j <= m
      BY <1>2, <1>6, <2>1
    <3> QED
      BY <1>1, <1>4, <1>6, <2>1, <3>1
  <2>2. CASE j = m
    BY <1>2, <1>4, <1>5, <1>6, <2>2
  <2>3. CASE j = m + 1
    BY <1>2, <1>6, <2>3
  <2> QED
    BY <1>2, <1>6, <2>1, <2>2, <2>3
<1> QED
  BY <1>6, <1>7

LEMMA BeginForDominated ==
    ASSUME Inv, DomInv, NEW name \in Names, BeginFor(name)
    PROVE  DomInv'
<1> DEFINE f == EnsureOpenBlock(fn)
           n == Len(f.blocks)
           v == f.values
           a == Instr("const", v + 1, {}, NoEvent)
           b == Instr("call", v + 2, {v + 1}, <<Here, "iter">>)
           c == Instr("alloc", v + 3, {}, <<Here, "slot">>)
           d == Instr("const", v + 4, {}, NoEvent)
           e == Emit(f, <<a, b, c, d>>)
           h == NewValues(e, 7)
           entered == EnterBlock(SetTerminator(NewBlocks(h, 4), Jump(n + 1)), n + 1)
           phi == Phi(v + 5, {<<v + 4, f.current>>})
           test == Instr("binop", v + 6, {v + 5, v + 2}, <<Here, "test">>)
           header == Emit(entered, <<phi, test>>)
           turned == EnterBlock(SetTerminator(header, Branch(v + 6, n + 2, n + 4)), n + 2)
           item == Instr("index", v + 7, {v + 1, v + 5}, <<Here, "item">>)
           store == Instr("store", 0, {v + 3, v + 7}, NoEvent)
           g == Emit(turned, <<item, store>>)
           x == [Frame("for", n + 3, n + 4) EXCEPT !.index = v + 5]
<1>1. /\ Moves(fn, f, {}, {}, {}) /\ Good(f)
      /\ f.current \in OpenBlocks(f) /\ f.values = fn.values /\ v \in Nat
      /\ Defs(f) \subseteq 1 .. v
      /\ \A k \in Nat \ {0} : Fresh(f, v + k)
  BY Prepared
<1>2. /\ fn' = g /\ RoomForBody /\ env' = PushScope(Insert(PushScope(env), name, v + 3))
      /\ frames' = Append(frames, x)
      /\ loops' = Append(loops, [break |-> n + 4, continue |-> n + 3])
  BY DEF BeginFor, Opens
<1>3. /\ Emits(f, <<a, b, c, d>>, e) /\ JumpsTo(h, 4, n + 1, entered)
      /\ EmitsPair(entered, phi, test, header) /\ BranchesTo(header, v + 6, n + 2, n + 4, turned)
      /\ EmitsPair(turned, item, store, g) /\ Counts(e, 7, h)
  BY DEF Emits, EmitsPair, JumpsTo, BranchesTo, Counts
<1> HIDE DEF f, e, h, entered, header, turned, g
<1>v1. PICK v1 \in Nat : v1 = v + 1
  BY <1>1
<1>v2. PICK v2 \in Nat : v2 = v + 2
  BY <1>1
<1>v3. PICK v3 \in Nat : v3 = v + 3
  BY <1>1
<1>v4. PICK v4 \in Nat : v4 = v + 4
  BY <1>1
<1>v5. PICK v5 \in Nat : v5 = v + 5
  BY <1>1
<1>v6. PICK v6 \in Nat : v6 = v + 6
  BY <1>1
<1>v7. PICK v7 \in Nat : v7 = v + 7
  BY <1>1
<1>4. v1 = v + 1 /\ v2 = v + 2 /\ v3 = v + 3 /\ v4 = v + 4 /\ v5 = v + 5 /\ v6 = v + 6 /\ v7 = v + 7
  BY <1>v1, <1>v2, <1>v3, <1>v4, <1>v5, <1>v6, <1>v7
<1>5. /\ Fresh(f, v1) /\ Fresh(f, v2) /\ Fresh(f, v3) /\ Fresh(f, v4)
      /\ Fresh(f, v5) /\ Fresh(f, v6) /\ Fresh(f, v7)
  BY <1>1, <1>4
<1>6. /\ v1 # v2 /\ v1 # v3 /\ v1 # v4 /\ v2 # v3 /\ v2 # v4 /\ v3 # v4
      /\ v5 # v6 /\ v5 # v7 /\ v6 # v7
      /\ v5 \notin {v1, v2, v3, v4} /\ v6 \notin {v1, v2, v3, v4} /\ v7 \notin {v1, v2, v3, v4}
  BY <1>1, <1>4
<1>7. /\ Works(a, v1, {}) /\ Works(b, v2, {v1}) /\ Works(c, v3, {}) /\ Works(d, v4, {})
      /\ UsesTwo(test, v6, v5, v2) /\ UsesTwo(item, v7, v1, v5) /\ UsesTwo(store, 0, v3, v7)
  <2>1. /\ <<Here, "iter">> \in Event /\ <<Here, "slot">> \in Event /\ <<Here, "test">> \in Event
        /\ <<Here, "item">> \in Event /\ NoEvent \in Event
    BY EventIs DEF Phases
  <2>2. {"const", "call", "alloc", "binop", "index", "store"} \subseteq InstrOps
    BY DEF InstrOps
  <2>3. /\ {} \in SUBSET Nat /\ {v1} \in SUBSET Nat /\ {v5, v2} \in SUBSET Nat
        /\ {v1, v5} \in SUBSET Nat /\ {v3, v7} \in SUBSET Nat /\ 0 \in Nat
    OBVIOUS
  <2>4. /\ a = Instr("const", v1, {}, NoEvent) /\ b = Instr("call", v2, {v1}, <<Here, "iter">>)
        /\ c = Instr("alloc", v3, {}, <<Here, "slot">>) /\ d = Instr("const", v4, {}, NoEvent)
        /\ test = Instr("binop", v6, {v5, v2}, <<Here, "test">>)
        /\ item = Instr("index", v7, {v1, v5}, <<Here, "item">>)
        /\ store = Instr("store", 0, {v3, v7}, NoEvent)
    BY <1>4
  <2> HIDE DEF a, b, c, d, test, item, store
  <2>5. Works(a, v1, {}) /\ Works(d, v4, {}) /\ Works(b, v2, {v1})
    BY <2>1, <2>2, <2>3, <2>4, WorksIs
  <2>6. Works(c, v3, {}) /\ Works(test, v6, {v5, v2})
    BY <2>1, <2>2, <2>3, <2>4, WorksIs
  <2>7. Works(item, v7, {v1, v5}) /\ Works(store, 0, {v3, v7})
    BY <2>1, <2>2, <2>3, <2>4, WorksIs
  <2> QED
    BY <2>5, <2>6, <2>7 DEF UsesTwo
<1>8. IsPhi(phi, v5, v4, f.current)
  <2>1. phi = Phi(v5, {<<v4, f.current>>}) /\ f.current \in Nat
    BY <1>1, <1>4, BlocksAre DEF Good
  <2>2. phi.op = "phi"
    BY DEF Phi, Instr
  <2> HIDE DEF phi
  <2> QED
    BY <2>1, <2>2, PhiIs DEF Made, IsPhi
<1> HIDE DEF a, b, c, d, phi, test, item, store
<1>9. /\ Adds(f, e, {v1, v2, v3, v4})
      /\ Known(e, v1, {}) /\ Known(e, v2, {}) /\ Known(e, v3, {}) /\ DefinesIn(e, v4, f.current)
  BY <1>1, <1>3, <1>5, <1>6, <1>7, IterMove
<1>10. /\ Moves(e, h, {}, {}, {}) /\ Good(h) /\ OpenBlocks(h) = OpenBlocks(f)
       /\ h.current = f.current /\ h.blocks = e.blocks /\ h.values = v + 7
       /\ DOMAIN h.blocks = DOMAIN f.blocks
  <2>1. PICK k \in Nat : k = 7
    OBVIOUS
  <2>2. Counts(e, k, h)
    BY <1>3, <2>1
  <2>3. /\ Moves(e, h, {}, {}, {}) /\ Good(h) /\ OpenBlocks(h) = OpenBlocks(e)
        /\ h.blocks = e.blocks /\ h.current = e.current /\ h.values = e.values + k
    BY <1>9, <2>2, CountsMove DEF Adds
  <2> QED
    BY <1>9, <2>1, <2>3 DEF Adds
<1>11. /\ Known(h, v1, {}) /\ Known(h, v2, {}) /\ Known(h, v3, {}) /\ DefinesIn(h, v4, h.current)
       /\ Fresh(h, v5) /\ Fresh(h, v6) /\ Fresh(h, v7) /\ v4 # 0
  <2>1. Known(h, v1, {}) /\ Known(h, v2, {}) /\ Known(h, v3, {})
    BY <1>9, <1>10, KnownStays
  <2>2. DefinesIn(h, v4, h.current)
    BY <1>9, <1>10 DEF Moves
  <2>3. Moves(f, e, {}, {}, {v1, v2, v3, v4})
    BY <1>9 DEF Adds
  <2>4. Fresh(e, v5) /\ Fresh(e, v6) /\ Fresh(e, v7)
    BY <1>5, <1>6, <2>3, FreshStays
  <2>5. v5 \notin {} /\ v6 \notin {} /\ v7 \notin {} /\ v4 # 0
    BY <1>5 DEF Fresh
  <2> QED
    BY <1>10, <2>1, <2>2, <2>4, <2>5, FreshStays
<1>12. n \in Nat /\ Len(h.blocks) = n
  <2>1. /\ DOMAIN h.blocks = 1 .. Len(h.blocks) /\ Len(h.blocks) \in Nat
        /\ DOMAIN f.blocks = 1 .. Len(f.blocks) /\ Len(f.blocks) \in Nat
    BY <1>1, <1>10, BlocksAre DEF Good
  <2>2. PICK i : i = Len(h.blocks)
    OBVIOUS
  <2>3. PICK j : j = Len(f.blocks)
    OBVIOUS
  <2>4. i \in Nat /\ j \in Nat /\ 1 .. i = 1 .. j
    BY <1>10, <2>1, <2>2, <2>3
  <2>5. i = j
    BY <2>4
  <2> QED
    BY <2>2, <2>3, <2>4, <2>5
<1> HIDE DEF n
<1>13. PICK n1 \in Nat, n2 \in Nat, n3 \in Nat, n4 \in Nat :
         n1 = n + 1 /\ n2 = n + 2 /\ n3 = n + 3 /\ n4 = n + 4
  BY <1>12
<1>14. PICK k \in Nat : k = 4
  OBVIOUS
<1> DEFINE N == NewOnes(h, k)
<1>15. /\ n1 \in N /\ n2 \in N /\ n3 \in N /\ n4 \in N /\ n1 # n2 /\ n1 # n4
       /\ JumpsTo(h, k, n1, entered) /\ BranchesTo(header, v6, n2, n4, turned)
       /\ IsPhi(phi, v5, v4, h.current)
  BY <1>3, <1>4, <1>8, <1>10, <1>12, <1>13, <1>14 DEF NewOnes
<1> HIDE DEF N
<1>16. /\ Moves(h, g, {}, N, {v5, v6, v7, 0}) /\ Good(g) /\ g.values = h.values
       /\ Known(g, v3, {}) /\ n1 \in DOMAIN g.blocks \ OpenBlocks(g)
       /\ PhisOf(g, n1) = {v5} /\ Covers(g, n1, N)
  <2>1. h.current \in OpenBlocks(h) /\ N = NewOnes(h, k)
    BY <1>1, <1>10 DEF N
  <2>2. PICK D : D = {v5, v6, v7, 0}
    OBVIOUS
  <2>3. ForMoved(h, g, N, D, v3, n1, v5)
    BY <1>3, <1>6, <1>7, <1>10, <1>11, <1>15, <2>1, <2>2, ForMove
  <2> QED
    BY <2>2, <2>3 DEF ForMoved
<1>17. Moves(fn, g, {}, N, {v1, v2, v3, v4} \cup {v5, v6, v7, 0})
  <2>1. Moves(f, e, {}, {}, {v1, v2, v3, v4})
    BY <1>9 DEF Adds
  <2>2. Moves(fn, h, {}, {}, ({} \cup {v1, v2, v3, v4}) \cup {})
    BY <1>1, <1>10, <2>1, MovesThen
  <2>3. ({} \cup {v1, v2, v3, v4}) \cup {} = {v1, v2, v3, v4} /\ {} \cup N = N
    OBVIOUS
  <2>4. Moves(fn, h, {}, {}, {v1, v2, v3, v4})
    BY <2>2, <2>3
  <2>5. Moves(fn, g, {}, {} \cup N, {v1, v2, v3, v4} \cup {v5, v6, v7, 0})
    BY <1>16, <2>4, MovesOn
  <2> QED
    BY <2>3, <2>5
<1>18. Defs(g) \subseteq 1 .. g.values
  <2>d. PICK D : D = {v1, v2, v3, v4} \cup {v5, v6, v7, 0}
    OBVIOUS
  <2>1. v + 7 \in Nat /\ v <= v + 7 /\ \A w \in D : w = 0 \/ w \in v + 1 .. v + 7
    BY <1>1, <1>4, <2>d
  <2>2. Defs(fn) \subseteq 1 .. v
    BY <1>1 DEF DomInv, Dominated
  <2>3. g.values = v + 7
    BY <1>10, <1>16
  <2>4. Moves(fn, g, {}, N, D)
    BY <1>17, <2>d
  <2> QED
    BY <1>1, <2>1, <2>2, <2>3, <2>4, DefsWithin
<1>19. /\ x \in FrameSet /\ x.kind = "for" /\ x.other = n3 /\ x.exit = n4 /\ x.index = v5
       /\ Awaited(x) = {n3, n4}
  <2> DEFINE y == Frame("for", n + 3, n + 4)
  <2>1. y \in FrameSet /\ y.kind = "for" /\ y.other = n3 /\ y.exit = n4
    BY <1>13, FrameIs
  <2>2. x = [y EXCEPT !.index = v5]
    BY <1>4
  <2> HIDE DEF x, y
  <2>3. x \in FrameSet /\ x.kind = "for" /\ x.other = n3 /\ x.exit = n4 /\ x.index = v5
    BY <2>1, <2>2 DEF FrameSet
  <2> QED
    BY <2>3, AwaitedIs
<1> HIDE DEF x
<1>20. Heads(g, x, Awaited(x))
  <2>1. HeaderOf(x) = n1
    BY <1>12, <1>13, <1>19 DEF HeaderOf
  <2>2. Covers(g, n1, Awaited(x))
    BY <1>15, <1>16, <1>19 DEF Covers
  <2>3. v5 \in Nat \ {0}
    BY <1>11 DEF Fresh
  <2> QED
    BY <1>16, <1>19, <2>1, <2>2, <2>3 DEF Heads
<1>21. /\ env' \in Seq(ScopeSet)
       /\ \A j \in DOMAIN env' : IF j <= Len(env) THEN env'[j] = env[j]
                                 ELSE \A m \in DOMAIN env'[j] : Known(g, env'[j][m], {})
  <2>1. env \in Seq(ScopeSet)
    BY DEF Inv, IsShaped
  <2>2. env' = PushScope(Insert(PushScope(env), name, v3))
    BY <1>2, <1>4
  <2> QED
    BY <1>16, <2>1, <2>2, ForScopes
<1>22. Dominated(g, env', Append(frames, x), loops')
  <2>1. ~done /\ Awaited(x) \subseteq N
    BY <1>2, <1>15, <1>19 DEF RoomForBody
  <2>2. loops' = IF IsLoop(x) THEN Append(loops, [break |-> x.exit, continue |-> x.other]) ELSE loops
    BY <1>2, <1>13, <1>19 DEF IsLoop
  <2> QED
    BY <1>17, <1>18, <1>19, <1>20, <1>21, <2>1, <2>2, PushDominated
<1> QED
  BY <1>2, <1>22 DEF DomInv

-----------------------------------------------------------------------------
(* Closing a statement *)

LEMMA WentOn ==
    ASSUME NEW f, NEW g, NEW h, NEW E, NEW D, Moves(f, g, E, {}, D), NEW c, c \in E, Went(g, c, h)
    PROVE  Moves(f, h, E, {}, D)
<1>1. Moves(g, h, {c}, {}, {})
  BY DEF Went
<1>2. {c} \subseteq E \cup {} /\ {} \subseteq DOMAIN g.blocks /\ D \cup {} = D
  OBVIOUS
<1>3. Moves(f, h, E, {}, D \cup {})
  BY <1>1, <1>2, MovesFurther
<1> QED
  BY <1>2, <1>3

LEMMA SameDefs ==
    ASSUME DomInv, NEW g, NEW E, NEW N, Moves(fn, g, E, N, {}), g.values = fn.values, fn.values \in Nat
    PROVE  Defs(g) \subseteq 1 .. g.values
<1>1. Defs(g) \subseteq Defs(fn) \cup {} /\ Defs(fn) \subseteq 1 .. fn.values
  BY DEF Moves, DomInv, Dominated
<1> QED
  BY <1>1

(* The innermost statement ends. *)
LEMMA EndsDominated ==
    ASSUME Inv, ~done, frames # <<>>, DomInv, NEW x, x = Last(frames),
           NEW g, NEW E, NEW D, Moves(fn, g, E, {}, D), E \subseteq Awaited(x), Defs(g) \subseteq 1 .. g.values,
           NEW d, d = IF x.kind = "for" THEN PopScope(PopScope(env)) ELSE PopScope(env),
           NEW ls, ls = IF IsLoop(x) THEN Front(loops) ELSE loops
    PROVE  Dominated(g, d, Front(frames), ls)
<1>1. PICK fs : fs = Front(frames)
  OBVIOUS
<1>2. fs \in Seq(FrameSet) /\ x \in FrameSet /\ frames = Append(fs, x) /\ Len(fs) \in Nat
  BY <1>1, LastFrame
<1>3. PICK n \in Nat : n = Len(fs)
  BY <1>2
<1>4. /\ Len(env) = ScopesBelow(fs, n + 1) + IF x.kind = "for" THEN 2 ELSE 1
      /\ ScopesBelow(fs, n + 1) \in Nat /\ ScopesBelow(fs, n + 1) >= 2
  BY <1>2, <1>3, LastCounts
<1>5. /\ d \in Seq(ScopeSet) /\ Len(d) = ScopesBelow(fs, n + 1) /\ \A j \in DOMAIN d : d[j] = env[j]
  <2>1. CASE x.kind = "for"
    <3>1. Len(env) > 2 /\ Len(env) - 2 = ScopesBelow(fs, n + 1) /\ d = PopScope(PopScope(env))
      BY <1>4, <2>1
    <3> QED
      BY <3>1, PoppedTwice
  <2>2. CASE x.kind # "for"
    <3>1. Len(env) - 1 = ScopesBelow(fs, n + 1) /\ d = PopScope(env)
      BY <1>4, <2>2
    <3> QED
      BY <3>1, PoppedScope
  <2> QED
    BY <2>1, <2>2
<1>6. \A j \in DOMAIN d : j \in DOMAIN env
  <2>1. env \in Seq(ScopeSet)
    BY DEF Inv, IsShaped
  <2>2. DOMAIN d = 1 .. Len(d) /\ DOMAIN env = 1 .. Len(env)
    BY <1>5, <2>1, SequenceIs
  <2> QED
    BY <1>4, <1>5, <2>2
<1>7. Len(d) <= ScopesBelow(fs, Len(fs) + 1)
  BY <1>3, <1>4, <1>5
<1>8. \A j \in DOMAIN d : j \in DOMAIN env /\ d[j] = env[j]
  BY <1>5, <1>6
<1>9. Dominated(g, d, fs, ls)
  BY <1>2, <1>5, <1>7, <1>8, PopDominated
<1> QED
  BY <1>1, <1>9

(* What the lowerer knows of the blocks the innermost statement waits for. *)
LEMMA LastBlocks ==
    ASSUME Inv, ~done, frames # <<>>, DomInv, NEW x, x = Last(frames)
    PROVE  /\ x \in FrameSet /\ Good(fn) /\ fn.values \in Nat
           /\ x.other \in DOMAIN fn.blocks /\ x.exit \in DOMAIN fn.blocks /\ x.other # x.exit
           /\ x.exit \in Awaited(x) /\ MayLeadTo(fn, x.exit)
           /\ Awaited(x) \subseteq OpenBlocks(fn) \ {fn.current}
           /\ x.kind \in {"then", "for"} => x.other \in Awaited(x) /\ MayLeadTo(fn, x.other)
           /\ IsLoop(x) => Heads(fn, x, Awaited(x))
<1>1. PICK fs : fs = Front(frames)
  OBVIOUS
<1>2. /\ fs \in Seq(FrameSet) /\ x \in FrameSet /\ frames = Append(fs, x) /\ Len(fs) \in Nat
      /\ x.other < x.exit /\ x.other \in DOMAIN fn.blocks /\ x.exit \in DOMAIN fn.blocks
      /\ Awaited(x) \subseteq OpenBlocks(fn) /\ fn.current \notin Awaited(x)
  BY <1>1, LastFrame
<1>3. /\ x.other \in Nat /\ x.exit \in Nat /\ x.exit \in Awaited(x)
      /\ x.kind \in {"then", "for"} => Awaited(x) = {x.other, x.exit}
  BY <1>2, AwaitedIs
<1>4. Good(fn) /\ fn.values \in Nat
  <2>1. Good(fn)
    BY DEF DomInv, Dominated
  <2> QED
    BY <2>1, BlocksAre DEF Good
<1>5. \A b \in Awaited(x) : MayLeadTo(fn, b)
  BY <1>2, NothingFollows DEF MayLeadTo
<1>6. ASSUME IsLoop(x) PROVE Heads(fn, x, Awaited(x))
  <2>1. PICK n \in Nat : n = Len(fs) + 1
    BY <1>2
  <2>2. n \in DOMAIN frames /\ frames[n] = x
    BY <1>2, <2>1
  <2>3. Heads(fn, x, Later(frames, ScopesBelow(frames, n)))
    BY <1>6, <2>2 DEF DomInv, Dominated, HeadersGuard
  <2>4. Awaited(x) \subseteq Later(frames, ScopesBelow(frames, n))
    <3>1. ScopesBelow(frames, n) <= ScopesBelow(frames, n)
      <4>1. frames \in Seq(FrameSet)
        BY DEF Inv, IsShaped
      <4>2. ScopesBelow(frames, n) \in Nat
        BY <2>2, <4>1, FramesAre
      <4> QED
        BY <4>2
    <3> QED
      BY <2>2, <3>1 DEF Later
  <2> QED
    BY <2>3, <2>4 DEF Heads, Covers
<1> QED
  BY <1>2, <1>3, <1>4, <1>5, <1>6

LEMMA EndIfDominated ==
    ASSUME Inv, DomInv, EndIf
    PROVE  DomInv'
<1> DEFINE x == Last(frames)
           t == EnterBlock(Close(fn, Jump(x.exit)), x.other)
<1>1. /\ ~done /\ frames # <<>> /\ x.kind \in {"then", "else"}
      /\ x.kind = "else" => fn' = EnterBlock(Close(fn, Jump(x.exit)), x.exit)
      /\ x.kind = "then" =>
            fn' = EnterBlock(SetTerminator(EnterBlock(Close(fn, Jump(x.exit)), x.other), Jump(x.exit)), x.exit)
      /\ env' = PopScope(env) /\ frames' = Front(frames) /\ loops' = loops
  BY DEF EndIf, Ends
<1>2. PICK g : g = fn'
  OBVIOUS
<1>3. /\ x.kind = "else" => Leaves(fn, x.exit, x.exit, g)
      /\ x.kind = "then" => Leaves(fn, x.exit, x.other, t) /\ GoesOn(t, x.exit, x.exit, g)
  BY <1>1, <1>2 DEF Leaves, GoesOn, EnterBlock
<1> HIDE DEF x, t
<1>4. /\ x \in FrameSet /\ Good(fn) /\ fn.values \in Nat
      /\ x.other \in DOMAIN fn.blocks /\ x.exit \in DOMAIN fn.blocks /\ x.other # x.exit
      /\ x.exit \in Awaited(x) /\ MayLeadTo(fn, x.exit)
      /\ Awaited(x) \subseteq OpenBlocks(fn) \ {fn.current}
      /\ x.kind = "then" => x.other \in Awaited(x)
  BY <1>1, LastBlocks DEF x
<1>5. PICK E : E = Awaited(x)
  OBVIOUS
<1>6. Moves(fn, g, E, {}, {}) /\ g.values = fn.values
  <2>1. CASE x.kind = "else"
    <3>1. Went(fn, x.exit, g)
      BY <1>3, <1>4, <2>1, LeaveMove
    <3>2. Moves(fn, g, {x.exit}, {}, {}) /\ {x.exit} \subseteq E /\ g.values = fn.values
      BY <1>4, <1>5, <3>1 DEF Went
    <3> QED
      BY <3>2, MovesLess
  <2>2. CASE x.kind = "then"
    <3>1. Went(fn, x.other, t)
      BY <1>3, <1>4, <2>2, LeaveMove
    <3>2. /\ Moves(fn, t, {x.other}, {}, {}) /\ {x.other} \subseteq E /\ t.values = fn.values
          /\ Good(t) /\ t.current = x.other /\ OpenBlocks(t) = OpenBlocks(fn) \ {fn.current}
          /\ DOMAIN t.blocks = DOMAIN fn.blocks
      BY <1>4, <1>5, <2>2, <3>1 DEF Went
    <3>3. Moves(fn, t, E, {}, {})
      BY <3>2, MovesLess
    <3>4. t.current \in OpenBlocks(t) /\ MayLeadTo(t, x.exit)
      BY <1>4, <2>2, <3>2 DEF MayLeadTo
    <3>5. Went(t, x.exit, g)
      BY <1>3, <1>4, <2>2, <3>2, <3>4, GoMove
    <3>6. Moves(fn, g, E, {}, {})
      BY <1>4, <1>5, <3>3, <3>5, WentOn
    <3> QED
      BY <3>2, <3>5, <3>6 DEF Went
  <2> QED
    BY <1>1, <2>1, <2>2
<1>7. Defs(g) \subseteq 1 .. g.values
  BY <1>4, <1>6, SameDefs
<1>8. Dominated(g, env', Front(frames), loops')
  <2>1. /\ E \subseteq Awaited(x) /\ x = Last(frames)
        /\ env' = IF x.kind = "for" THEN PopScope(PopScope(env)) ELSE PopScope(env)
        /\ loops' = IF IsLoop(x) THEN Front(loops) ELSE loops
    BY <1>1, <1>5 DEF x, IsLoop
  <2> QED
    BY <1>1, <1>6, <1>7, <2>1, EndsDominated
<1> QED
  BY <1>1, <1>2, <1>8 DEF DomInv

LEMMA EndWhileDominated ==
    ASSUME Inv, DomInv, EndWhile
    PROVE  DomInv'
<1> DEFINE x == Last(frames)
<1>1. /\ ~done /\ frames # <<>> /\ x.kind = "while"
      /\ fn' = EnterBlock(Close(fn, Jump(x.other)), x.exit)
      /\ env' = PopScope(env) /\ frames' = Front(frames) /\ loops' = Front(loops)
  BY DEF EndWhile, Ends
<1>2. PICK g : g = fn'
  OBVIOUS
<1>3. Leaves(fn, x.other, x.exit, g)
  BY <1>1, <1>2 DEF Leaves
<1> HIDE DEF x
<1>4. /\ x \in FrameSet /\ Good(fn) /\ fn.values \in Nat
      /\ x.other \in DOMAIN fn.blocks /\ x.exit \in DOMAIN fn.blocks
      /\ x.exit \in Awaited(x) /\ (IsLoop(x) => Heads(fn, x, Awaited(x)))
  BY <1>1, LastBlocks DEF x
<1>5. IsLoop(x) /\ HeaderOf(x) = x.other
  BY <1>1 DEF IsLoop, HeaderOf
<1>6. fn.current \in OpenBlocks(fn) => MayLeadTo(fn, x.other)
  <2>1. /\ x.other \in DOMAIN fn.blocks \ OpenBlocks(fn) /\ Covers(fn, x.other, Awaited(x))
        /\ PhisOf(fn, x.other) = {}
    BY <1>1, <1>4, <1>5 DEF Heads
  <2> QED
    BY <2>1 DEF Covers, MayLeadTo
<1>7. Went(fn, x.exit, g)
  BY <1>3, <1>4, <1>6, LeaveMove
<1>8. PICK E : E = {x.exit}
  OBVIOUS
<1>9. Moves(fn, g, E, {}, {}) /\ g.values = fn.values
  BY <1>7, <1>8 DEF Went
<1>10. Defs(g) \subseteq 1 .. g.values
  BY <1>4, <1>9, SameDefs
<1>11. Dominated(g, env', Front(frames), loops')
  <2>1. /\ E \subseteq Awaited(x) /\ x = Last(frames)
        /\ env' = IF x.kind = "for" THEN PopScope(PopScope(env)) ELSE PopScope(env)
        /\ loops' = IF IsLoop(x) THEN Front(loops) ELSE loops
    BY <1>1, <1>4, <1>5, <1>8 DEF x
  <2> QED
    BY <1>1, <1>9, <1>10, <2>1, EndsDominated
<1> QED
  BY <1>1, <1>2, <1>11 DEF DomInv

(* The step of a `for`: the next index is computed and counted.            *)
Stepped(f, g, D, sum, n) ==
    /\ Moves(f, g, {}, {}, D) /\ Good(g) /\ OpenBlocks(g) = OpenBlocks(f)
    /\ g.current = f.current /\ DOMAIN g.blocks = DOMAIN f.blocks
    /\ g.values = f.values + n /\ DefinesIn(g, sum, f.current)

LEMMA StepMove ==
    ASSUME NEW f, Good(f), f.current \in OpenBlocks(f), NEW v1, NEW v2, Fresh(f, v1), Fresh(f, v2), v1 # v2,
           NEW index, Known(f, index, {}),
           NEW i, Works(i, v1, {}), NEW j, UsesTwo(j, v2, v1, index),
           NEW e, EmitsPair(f, i, j, e), NEW n \in Nat, NEW g, Counts(e, n, g), NEW D, D = {v1, v2}
    PROVE  Stepped(f, g, D, v2, n)
<1>1. /\ i \in InstrSet /\ i.def = v1 /\ i.uses = {} /\ i.op # "phi"
      /\ j \in InstrSet /\ j.def = v2 /\ j.uses = {v1, index} /\ j.op # "phi"
  BY DEF Works, Made, UsesTwo
<1>2. Pair(f, i, j)
  <2>1. Computed(f, index, f.current)
    BY ComputedKnown
  <2>2. Plain(f, i) /\ \A v \in j.uses : v = i.def \/ Computed(f, v, f.current)
    BY <1>1, <2>1 DEF Plain
  <2> QED
    BY <1>1, <2>2 DEF Pair
<1>3. Paired(f, i, j, e)
  BY <1>2, TwoMove
<1>4. /\ Moves(f, e, {}, {}, D) /\ Good(e) /\ OpenBlocks(e) = OpenBlocks(f)
      /\ e.current = f.current /\ DOMAIN e.blocks = DOMAIN f.blocks /\ e.values = f.values
      /\ DefinesIn(e, v2, f.current)
  BY <1>1, <1>3 DEF Paired, Adds
<1>5. /\ Moves(e, g, {}, {}, {}) /\ Good(g) /\ OpenBlocks(g) = OpenBlocks(e)
      /\ g.blocks = e.blocks /\ g.current = e.current /\ g.values = e.values + n
  BY <1>4, CountsMove
<1>6. Moves(f, g, {}, {}, D)
  <2>1. Moves(f, g, {}, {}, D \cup {})
    BY <1>4, <1>5, MovesThen
  <2>2. D \cup {} = D
    OBVIOUS
  <2> QED
    BY <2>1, <2>2
<1>7. DefinesIn(g, v2, f.current)
  BY <1>4, <1>5 DEF DefinesIn
<1> QED
  BY <1>4, <1>5, <1>6, <1>7 DEF Stepped

(* The way back of a `for`, and on to its exit.                            *)
LEMMA BackOn ==
    ASSUME NEW f, NEW header, NEW index, NEW v, MayGoBack(f, header, index, v),
           NEW pred, pred = f.current,
           NEW h, JumpsBack(f, header, h), NEW p, Patches(h, header, index, v, pred, p),
           NEW exit \in DOMAIN f.blocks, NEW g, Enters(p, exit, g), NEW E, E = {exit}
    PROVE  Moves(f, g, E, {}, {}) /\ g.values = f.values
<1>2. /\ Moves(f, p, {}, {}, {})
      /\ OpenBlocks(p) = OpenBlocks(f) \ {pred}
      /\ p.current = pred /\ DOMAIN p.blocks = DOMAIN f.blocks /\ p.values = f.values
  BY BackMove
<1>3. Good(p) /\ p.current \notin OpenBlocks(p) /\ exit \in DOMAIN p.blocks
  BY <1>2 DEF Moves
<1>4. Moves(p, g, {exit}, {}, {}) /\ g.values = p.values
  BY <1>3, EnterMove DEF Enters
<1>5. Moves(f, p, E, {}, {})
  <2>1. {} \subseteq E /\ {} \subseteq {}
    OBVIOUS
  <2> QED
    BY <1>2, <2>1, MovesLess
<1>6. Moves(f, g, E, {}, {} \cup {})
  <2>1. {exit} \subseteq E \cup {} /\ {} \subseteq DOMAIN p.blocks
    OBVIOUS
  <2> QED
    BY <1>4, <1>5, <2>1, MovesFurther
<1> QED
  BY <1>2, <1>4, <1>6

LEMMA EndForDominated ==
    ASSUME Inv, DomInv, EndFor
    PROVE  DomInv'
<1> DEFINE x == Last(frames)
           v == fn.values
           one == Instr("const", v + 1, {}, NoEvent)
           sum == Instr("binop", v + 2, {v + 1, x.index}, <<x.at, "step">>)
           e == EnterBlock(Close(fn, Jump(x.other)), x.other)
           stepped == Emit(e, <<one, sum>>)
           counted == NewValues(stepped, 2)
           h == SetTerminator(counted, Jump(x.other - 2))
           patched == PatchPhi(h, x.other - 2, x.index, v + 2, x.other)
           g == EnterBlock(patched, x.exit)
<1>1. /\ ~done /\ frames # <<>> /\ x.kind = "for" /\ fn' = g
      /\ env' = PopScope(PopScope(env)) /\ loops' = Front(loops) /\ frames' = Front(frames)
  BY DEF EndFor, Ends
<1>2. /\ Leaves(fn, x.other, x.other, e) /\ EmitsPair(e, one, sum, stepped)
      /\ Counts(stepped, 2, counted) /\ JumpsBack(counted, x.other - 2, h)
      /\ Patches(h, x.other - 2, x.index, v + 2, x.other, patched)
      /\ Enters(patched, x.exit, g)
  BY DEF Leaves, Emits, EmitsPair, Counts, JumpsBack, Patches, Enters
<1>3. v = fn.values
  OBVIOUS
<1> HIDE DEF x, v, e, stepped, counted, h, patched, g
<1>4. /\ x \in FrameSet /\ Good(fn) /\ v \in Nat
      /\ x.other \in DOMAIN fn.blocks /\ x.exit \in DOMAIN fn.blocks /\ x.other # x.exit
      /\ x.exit \in Awaited(x) /\ x.other \in Awaited(x) /\ MayLeadTo(fn, x.other)
      /\ Awaited(x) \subseteq OpenBlocks(fn) \ {fn.current}
      /\ (IsLoop(x) => Heads(fn, x, Awaited(x)))
  BY <1>1, <1>3, LastBlocks DEF x
<1>5. /\ IsLoop(x) /\ HeaderOf(x) = x.other - 2
      /\ x.other \in Nat /\ x.exit \in Nat /\ x.index \in Nat /\ x.at \in Nat
  BY <1>1, <1>4, AwaitedIs DEF IsLoop, HeaderOf
<1>6. PICK header : header = x.other - 2
  OBVIOUS
<1>7. /\ header \in DOMAIN fn.blocks /\ header \notin OpenBlocks(fn) /\ Covers(fn, header, Awaited(x))
      /\ x.index \in Nat \ {0} /\ PhisOf(fn, header) = {x.index}
  BY <1>1, <1>4, <1>5, <1>6 DEF Heads
<1>v1. PICK v1 \in Nat : v1 = v + 1
  BY <1>4
<1>v2. PICK v2 \in Nat : v2 = v + 2
  BY <1>4
<1>8. Works(one, v1, {}) /\ UsesTwo(sum, v2, v1, x.index)
  <2>1. NoEvent \in Event /\ <<x.at, "step">> \in Event
    BY <1>5 DEF NoEvent, Event, Phases
  <2>2. "const" \in InstrOps /\ "binop" \in InstrOps
    BY DEF InstrOps
  <2>3. {} \in SUBSET Nat /\ {v1, x.index} \in SUBSET Nat
    BY <1>5
  <2>4. one = Instr("const", v1, {}, NoEvent) /\ sum = Instr("binop", v2, {v1, x.index}, <<x.at, "step">>)
    BY <1>v1, <1>v2
  <2> HIDE DEF one, sum
  <2>5. Works(one, v1, {})
    BY <2>1, <2>2, <2>3, <2>4, WorksIs
  <2>6. Works(sum, v2, {v1, x.index})
    BY <2>1, <2>2, <2>3, <2>4, WorksIs
  <2> QED
    BY <2>5, <2>6 DEF UsesTwo
<1> HIDE DEF one, sum
<1>9. Went(fn, x.other, e)
  BY <1>2, <1>4, LeaveMove
<1>10. PICK E : E = Awaited(x)
  OBVIOUS
<1>11. /\ Moves(fn, e, E, {}, {}) /\ Good(e) /\ OpenBlocks(e) = OpenBlocks(fn) \ {fn.current}
       /\ e.current = x.other /\ e.current \in OpenBlocks(e)
       /\ e.values = v /\ DOMAIN e.blocks = DOMAIN fn.blocks
       /\ \A b \in DOMAIN fn.blocks : PhisOf(e, b) = PhisOf(fn, b)
  <2>1. Moves(fn, e, {x.other}, {}, {}) /\ {x.other} \subseteq E
    BY <1>4, <1>9, <1>10 DEF Went
  <2>2. Moves(fn, e, E, {}, {})
    BY <2>1, MovesLess
  <2> QED
    BY <1>3, <1>4, <1>9, <2>2 DEF Went
<1>12. Covers(e, header, E) /\ Known(e, x.index, {})
  <2>1. E \in SUBSET DOMAIN fn.blocks /\ E \subseteq E
    BY <1>4, <1>10, NothingFollows
  <2>2. Covers(e, header, E \cup {})
    BY <1>7, <1>10, <1>11, <2>1 DEF Moves
  <2>3. Covers(e, header, E) /\ Covers(e, header, {})
    BY <2>2 DEF Covers
  <2>4. DefinesIn(fn, x.index, header)
    BY <1>7 DEF PhisOf, Phis, DefinesIn
  <2>5. DefinesIn(e, x.index, header)
    BY <1>11, <2>4 DEF Moves
  <2> QED
    BY <1>7, <1>11, <2>3, <2>5 DEF Known
<1>13. Fresh(e, v1) /\ Fresh(e, v2) /\ v1 # v2
  <2>1. Defs(e) \subseteq 1 .. v
    BY <1>3, <1>4, <1>11, SameDefs
  <2> QED
    BY <1>4, <1>v1, <1>v2, <2>1, FreshOnes
<1>14. PICK D : D = {v1, v2}
  OBVIOUS
<1>15. /\ Moves(e, counted, {}, {}, D) /\ Good(counted) /\ OpenBlocks(counted) = OpenBlocks(e)
       /\ counted.current = x.other /\ DOMAIN counted.blocks = DOMAIN e.blocks
       /\ counted.values = v2 /\ DefinesIn(counted, v2, x.other)
  <2>1. PICK n \in Nat : n = 2
    OBVIOUS
  <2>2. Counts(stepped, n, counted)
    BY <1>2, <2>1
  <2>3. Stepped(e, counted, D, v2, n)
    BY <1>2, <1>8, <1>11, <1>12, <1>13, <1>14, <2>2, StepMove
  <2> QED
    BY <1>11, <1>v2, <2>1, <2>3 DEF Stepped
<1>16. MayGoBack(counted, header, x.index, v2)
  <2>1. header \in DOMAIN e.blocks /\ header \notin OpenBlocks(e) /\ PhisOf(e, header) = {x.index}
    BY <1>7, <1>11
  <2>2. PhisOf(counted, header) = {x.index} /\ header \notin OpenBlocks(counted)
    BY <1>15, <2>1 DEF Moves
  <2>3. Guards(counted, header, counted.current)
    <3>1. E \in SUBSET DOMAIN e.blocks /\ {} \subseteq E
      BY <1>4, <1>10, <1>11, NothingFollows
    <3>2. Covers(counted, header, E \cup {})
      BY <1>12, <1>15, <2>1, <3>1 DEF Moves
    <3> QED
      BY <3>2 DEF Covers
  <2>4. v2 # 0
    BY <1>13 DEF Fresh
  <2> QED
    BY <1>11, <1>15, <2>1, <2>2, <2>3, <2>4 DEF MayGoBack
<1>17. PICK F : F = {x.exit}
  OBVIOUS
<1>18. Moves(counted, g, F, {}, {}) /\ g.values = v2
  <2>1. PICK exit \in DOMAIN counted.blocks : exit = x.exit
    BY <1>4, <1>11, <1>15
  <2>2. PICK index : index = x.index
    OBVIOUS
  <2>3. PICK pred : pred = counted.current
    OBVIOUS
  <2>4. /\ MayGoBack(counted, header, index, v2) /\ JumpsBack(counted, header, h)
        /\ Patches(h, header, index, v2, pred, patched) /\ Enters(patched, exit, g) /\ F = {exit}
    BY <1>2, <1>6, <1>v2, <1>15, <1>16, <1>17, <2>1, <2>2, <2>3
  <2> QED
    BY <1>15, <2>3, <2>4, BackOn
<1>19. Moves(fn, g, E, {}, D)
  <2>1. {} \subseteq E \cup {} /\ {} \subseteq DOMAIN e.blocks /\ {} \subseteq DOMAIN counted.blocks
        /\ F \subseteq E \cup {} /\ {} \cup D = D /\ D \cup {} = D
    BY <1>4, <1>10, <1>17
  <2>2. Moves(fn, counted, E, {}, {} \cup D)
    BY <1>11, <1>15, <2>1, MovesFurther
  <2>3. Moves(fn, g, E, {}, D \cup {})
    BY <1>18, <2>1, <2>2, MovesFurther
  <2> QED
    BY <2>1, <2>3
<1>20. Defs(g) \subseteq 1 .. g.values
  <2>1. v <= v2 /\ \A w \in D : w = 0 \/ w \in v + 1 .. v2
    BY <1>4, <1>v1, <1>v2, <1>14
  <2>2. Defs(fn) \subseteq 1 .. v
    BY <1>3 DEF DomInv, Dominated
  <2> QED
    BY <1>4, <1>18, <1>19, <2>1, <2>2, DefsWithin
<1>21. Dominated(g, env', Front(frames), loops')
  <2>1. /\ E \subseteq Awaited(x) /\ x = Last(frames)
        /\ env' = IF x.kind = "for" THEN PopScope(PopScope(env)) ELSE PopScope(env)
        /\ loops' = IF IsLoop(x) THEN Front(loops) ELSE loops
    BY <1>1, <1>5, <1>10 DEF x
  <2> QED
    BY <1>1, <1>19, <1>20, <2>1, EndsDominated
<1> QED
  BY <1>1, <1>21 DEF DomInv

(* A branch of an `if` is turned from to the other.                        *)
LEMMA ElseDominated ==
    ASSUME Inv, DomInv, Else
    PROVE  DomInv'
<1> DEFINE x == Last(frames)
           fs == Front(frames)
           y == [x EXCEPT !.kind = "else", !.scope = Here]
           n == Len(fs)
<1>1. /\ ~done /\ frames # <<>> /\ x.kind = "then"
      /\ fn' = EnterBlock(Close(fn, Jump(x.exit)), x.other)
      /\ env' = PushScope(PopScope(env))
      /\ frames' = [frames EXCEPT ![Len(frames)] = y]
      /\ loops' = loops
  <2>1. [frames EXCEPT ![Len(frames)] = [@ EXCEPT !.kind = "else", !.scope = Here]]
          = [frames EXCEPT ![Len(frames)] = y]
    BY DEF Last
  <2> QED
    BY <2>1 DEF Else
<1>2. PICK g : g = fn'
  OBVIOUS
<1>3. Leaves(fn, x.exit, x.other, g)
  BY <1>1, <1>2 DEF Leaves
<1>4. Here \in Nat
  <2>1. Len(program) \in Nat
    BY ProgramIs DEF Inv, IsShaped
  <2> QED
    BY <2>1 DEF Here
<1>5. /\ x \in FrameSet /\ Good(fn) /\ fn.values \in Nat
      /\ x.other \in DOMAIN fn.blocks /\ x.exit \in DOMAIN fn.blocks
      /\ x.other \in Awaited(x) /\ MayLeadTo(fn, x.exit)
  BY <1>1, LastBlocks
<1>6. fs \in Seq(FrameSet) /\ frames = Append(fs, x)
  BY <1>1, LastFrame
<1> HIDE DEF x, fs
<1>7. Turned(x, y)
  BY <1>1, <1>4, <1>5, TurnedIs
<1> HIDE DEF y
<1>8. /\ y \in FrameSet /\ Awaited(x) = {x.other, x.exit} /\ Awaited(y) = {x.exit}
      /\ ~IsLoop(x) /\ ~IsLoop(y) /\ x.kind # "for"
  BY <1>7, TurnedAwaits DEF IsLoop
<1>9. frames' = Append(fs, y)
  <2>1. frames \in Seq(FrameSet) /\ frames # <<>>
    BY <1>1 DEF Inv, IsShaped
  <2> HIDE DEF n
  <2>2. [frames EXCEPT ![Len(frames)] = y] = Append(Front(frames), y)
    BY <1>8, <2>1, FrontAndLast
  <2> QED
    BY <1>1, <2>2 DEF fs
<1>10. /\ n \in Nat /\ DOMAIN fs = 1 .. n
       /\ ScopesBelow(fs, n + 1) \in Nat
       /\ \A i \in DOMAIN fs : ScopesBelow(fs, i) \in Nat /\ ScopesBelow(fs, i) < ScopesBelow(fs, n + 1)
  BY <1>1, <1>6, FramesAre
<1> DEFINE gs == Append(fs, y)
           last == n + 1
<1>11. /\ DOMAIN frames = DOMAIN fs \cup {last} /\ last \notin DOMAIN fs /\ frames[last] = x
       /\ \A i \in DOMAIN fs : frames[i] = fs[i]
  BY <1>5, <1>6, AwaitedByLonger
<1>12. /\ DOMAIN gs = DOMAIN fs \cup {last} /\ gs[last] = y
       /\ \A i \in DOMAIN fs : gs[i] = fs[i]
  BY <1>6, <1>8, AwaitedByLonger
<1>13. \A i \in DOMAIN fs :
          /\ ScopesBelow(frames, i) = ScopesBelow(fs, i) /\ LoopsBelow(frames, i) = LoopsBelow(fs, i)
          /\ ScopesBelow(gs, i) = ScopesBelow(fs, i) /\ LoopsBelow(gs, i) = LoopsBelow(fs, i)
  <2>1. \A i \in DOMAIN fs : i \in 1 .. Len(fs) + 1
    BY <1>10
  <2> QED
    BY <1>5, <1>6, <1>8, <2>1, ScopesBelowSame
<1>14. \A j : /\ Later(frames, j) = Later(fs, j) \cup IF j <= ScopesBelow(fs, last) THEN Awaited(x) ELSE {}
              /\ Later(gs, j) = Later(fs, j) \cup IF j <= ScopesBelow(fs, last) THEN Awaited(y) ELSE {}
  BY <1>5, <1>6, <1>8, LaterLonger
<1>15. \A j : Later(gs, j) \subseteq Later(frames, j) \cup {}
  BY <1>8, <1>14
<1>16. \A j : Later(frames, j) \subseteq DOMAIN fn.blocks
  BY LaterOpen DEF Inv, KnowsOpenBlocks
<1>17. SlotsGuarded(fn, env, frames) /\ HeadersGuard(fn, frames) /\ LoopsMatch(loops, frames)
  BY DEF DomInv, Dominated
<1> HIDE DEF gs, last
<1>18. PICK E : E = {x.other}
  OBVIOUS
<1>19. Moves(fn, g, E, {}, {}) /\ Good(g) /\ g.values = fn.values
  <2>1. Went(fn, x.other, g)
    BY <1>3, <1>5, LeaveMove
  <2> QED
    BY <1>18, <2>1 DEF Went
<1>20. \A j : j <= ScopesBelow(fs, last) => E \subseteq Later(frames, j)
  BY <1>5, <1>14, <1>18
<1>21. /\ Len(env) = ScopesBelow(fs, last) + 1
       /\ PopScope(env) \in Seq(ScopeSet)
       /\ DOMAIN PopScope(env) = 1 .. ScopesBelow(fs, last) /\ Len(PopScope(env)) = ScopesBelow(fs, last)
       /\ \A j \in DOMAIN PopScope(env) : j \in DOMAIN env /\ PopScope(env)[j] = env[j]
  <2>1. PICK k \in Nat : k = n
    BY <1>10
  <2>2. Len(env) = ScopesBelow(fs, k + 1) + IF x.kind = "for" THEN 2 ELSE 1
    BY <1>1, <1>5, <1>6, <2>1, LastCounts
  <2>3. Len(env) = ScopesBelow(fs, last) + 1 /\ Len(env) - 1 = ScopesBelow(fs, last)
    BY <1>8, <1>10, <2>1, <2>2 DEF last
  <2>4. /\ PopScope(env) \in Seq(ScopeSet) /\ Len(PopScope(env)) = Len(env) - 1
        /\ DOMAIN PopScope(env) = 1 .. Len(env) - 1
        /\ \A j \in DOMAIN PopScope(env) : PopScope(env)[j] = env[j]
    BY <1>1, PoppedScope
  <2>5. DOMAIN env = 1 .. Len(env)
    <3>1. env \in Seq(ScopeSet)
      BY DEF Inv, IsShaped
    <3> QED
      BY <3>1, SequenceIs
  <2>6. \A j \in DOMAIN PopScope(env) : j \in DOMAIN env
    BY <1>10, <2>3, <2>4, <2>5 DEF last
  <2> QED
    BY <2>3, <2>4, <2>6
<1>22. SlotsGuarded(g, env', gs)
  <2>1. ASSUME NEW j \in DOMAIN env'
        PROVE  \/ \A name \in DOMAIN env'[j] : Known(g, env'[j][name], Later(gs, j))
               \/ /\ j \in DOMAIN env /\ env'[j] = env[j]
                  /\ Later(frames, j) \subseteq DOMAIN fn.blocks
                  /\ E \subseteq Later(frames, j) /\ Later(gs, j) \subseteq Later(frames, j) \cup {}
    <3>1. PICK d \in Seq(ScopeSet) : d = PopScope(env)
      BY <1>21
    <3>2. /\ PushScope(d) \in Seq(ScopeSet)
          /\ \A i \in DOMAIN PushScope(d) : IF i <= Len(d) THEN PushScope(d)[i] = d[i]
                                                           ELSE DOMAIN PushScope(d)[i] = {}
      BY PushedScope
    <3>3. env' = PushScope(d)
      BY <1>1, <3>1
    <3>4. IF j <= Len(d) THEN env'[j] = d[j] ELSE DOMAIN env'[j] = {}
      BY <2>1, <3>2, <3>3
    <3>5. j \in Nat \ {0}
      <4>1. DOMAIN PushScope(d) = 1 .. Len(PushScope(d)) /\ Len(PushScope(d)) \in Nat
        BY <3>2, SequenceIs
      <4> QED
        BY <2>1, <3>3, <4>1
    <3>6. CASE j <= Len(d)
      <4>1. j \in DOMAIN d /\ j <= ScopesBelow(fs, last)
        BY <1>10, <1>21, <3>1, <3>5, <3>6 DEF last
      <4>2. j \in DOMAIN env /\ env'[j] = env[j]
        BY <1>21, <3>1, <3>4, <3>6, <4>1
      <4> QED
        BY <1>15, <1>16, <1>20, <4>1, <4>2
    <3>7. CASE ~(j <= Len(d))
      BY <3>4, <3>7
    <3> QED
      BY <3>6, <3>7
  <2> QED
    BY <1>17, <1>19, <2>1, SlotsPass
<1>23. HeadersGuard(g, gs)
  <2> SUFFICES ASSUME NEW i \in DOMAIN gs, IsLoop(gs[i])
               PROVE  Heads(g, gs[i], Later(gs, ScopesBelow(gs, i)))
    BY DEF HeadersGuard
  <2>1. i \in DOMAIN fs /\ i \in DOMAIN frames /\ gs[i] = frames[i]
    BY <1>8, <1>11, <1>12
  <2>2. /\ ScopesBelow(gs, i) = ScopesBelow(frames, i) /\ ScopesBelow(frames, i) <= ScopesBelow(fs, last)
    BY <1>10, <1>13, <2>1 DEF last
  <2>3. Heads(fn, gs[i], Later(frames, ScopesBelow(frames, i)))
    BY <1>17, <2>1 DEF HeadersGuard
  <2>4. Later(frames, ScopesBelow(frames, i)) \in SUBSET DOMAIN fn.blocks
    BY <1>16
  <2>5. E \subseteq Later(frames, ScopesBelow(frames, i))
    BY <1>20, <2>2
  <2>6. Later(gs, ScopesBelow(gs, i)) \subseteq Later(frames, ScopesBelow(frames, i)) \cup {}
    BY <1>15, <2>2
  <2> QED
    BY <1>19, <2>3, <2>4, <2>5, <2>6, HeadPasses
<1>24. LoopsMatch(loops, gs)
  <2> SUFFICES ASSUME NEW m \in DOMAIN loops
               PROVE  \E i \in DOMAIN gs : /\ IsLoop(gs[i]) /\ LoopsBelow(gs, i) = m - 1
                                           /\ loops[m] = [break |-> gs[i].exit, continue |-> gs[i].other]
    BY DEF LoopsMatch
  <2>1. PICK i \in DOMAIN frames : /\ IsLoop(frames[i]) /\ LoopsBelow(frames, i) = m - 1
                                   /\ loops[m] = [break |-> frames[i].exit, continue |-> frames[i].other]
    BY <1>17 DEF LoopsMatch
  <2>2. i \in DOMAIN fs
    BY <1>8, <1>11, <2>1
  <2> QED
    BY <1>11, <1>12, <1>13, <2>1, <2>2
<1>25. Defs(g) \subseteq 1 .. g.values
  BY <1>5, <1>19, SameDefs
<1>26. Dominated(g, env', gs, loops)
  BY <1>19, <1>22, <1>23, <1>24, <1>25 DEF Dominated
<1> QED
  BY <1>1, <1>2, <1>9, <1>26 DEF DomInv, gs

-----------------------------------------------------------------------------
(* Between the statements of the outermost block *)

LEMMA NothingOpen ==
    ASSUME NEW g, Good(g), Defs(g) \subseteq 1 .. g.values,
           NEW d, \A j \in DOMAIN d : DOMAIN d[j] = {}, NEW ls, DOMAIN ls = {}
    PROVE  Dominated(g, d, <<>>, ls)
<1>1. SlotsGuarded(g, d, <<>>)
  BY DEF SlotsGuarded
<1>2. HeadersGuard(g, <<>>) /\ LoopsMatch(ls, <<>>)
  BY NoFrames DEF HeadersGuard, LoopsMatch
<1> QED
  BY <1>1, <1>2 DEF Dominated

(* The next stage is entered. *)
LEMMA EntersStage ==
    ASSUME Inv, DomInv, ~done, frames = <<>>, NEW b \in StagesAhead, NEW g, Leaves(fn, b, b, g)
    PROVE  Went(fn, b, g) /\ Defs(g) \subseteq 1 .. g.values
<1>1. OpenBlocks(fn) \ {fn.current} = StagesAhead /\ fn.current \notin StagesAhead
  BY Outermost
<1>2. Good(fn) /\ fn.values \in Nat
  <2>1. Good(fn)
    BY DEF DomInv, Dominated
  <2> QED
    BY <2>1, BlocksAre DEF Good
<1>3. b \in DOMAIN fn.blocks /\ MayLeadTo(fn, b)
  BY <1>1, NothingFollows DEF MayLeadTo
<1>4. Went(fn, b, g)
  BY <1>2, <1>3, LeaveMove
<1>5. PICK E : E = {b}
  OBVIOUS
<1>6. Moves(fn, g, E, {}, {}) /\ g.values = fn.values
  BY <1>4, <1>5 DEF Went
<1> QED
  BY <1>2, <1>4, <1>6, SameDefs

LEMMA NextStageDominated ==
    ASSUME Inv, DomInv, NextStage
    PROVE  DomInv'
<1>1. /\ ~done /\ frames = <<>> /\ stage < stages
      /\ fn' = EnterBlock(Close(fn, Jump(StageBlock(stage))), stage + 2)
      /\ env' = PushScope(PopScope(env))
      /\ loops' = loops /\ frames' = frames
  BY DEF NextStage, Room
<1>2. PICK g : g = fn'
  OBVIOUS
<1>3. /\ env \in Seq(ScopeSet) /\ Len(env) = 2 /\ env[1] = NewScope
      /\ loops \in Seq(Targets) /\ Len(loops) = 0
      /\ stages \in Nat /\ stage \in Nat
  BY <1>1, Outermost
<1>4. PICK b \in Nat : b = stage + 2
  BY <1>3
<1>5. b \in StagesAhead
  <2>1. stages # 0 /\ b \in stage + 2 .. stages + 2
    BY <1>1, <1>3, <1>4
  <2> QED
    BY <1>1, <2>1 DEF StagesAhead
<1>6. Leaves(fn, b, b, g)
  <2>1. StageBlock(stage) = b
    BY <1>1, <1>3, <1>4 DEF StageBlock
  <2> QED
    BY <1>1, <1>2, <1>4, <2>1 DEF Leaves
<1>7. Good(g) /\ Defs(g) \subseteq 1 .. g.values
  BY <1>1, <1>5, <1>6, EntersStage DEF Went
<1>8. \A j \in DOMAIN env' : DOMAIN env'[j] = {}
  <2>1. PICK d \in Seq(ScopeSet) : d = PopScope(env)
    BY <1>1, PoppedScope
  <2>2. DOMAIN d = 1 .. 1 /\ d[1] = NewScope
    <3>1. DOMAIN d = 1 .. Len(env) - 1 /\ \A j \in DOMAIN d : d[j] = env[j]
      BY <1>1, <2>1, PoppedScope
    <3>2. Len(env) - 1 = 1 /\ 1 \in 1 .. 1
      BY <1>3
    <3> QED
      BY <1>3, <3>1, <3>2
  <2>3. DOMAIN NewScope = {}
    BY DEF NewScope
  <2>4. PICK e : e = PushScope(d)
    OBVIOUS
  <2>5. /\ e \in Seq(ScopeSet)
        /\ \A j \in DOMAIN e : IF j <= Len(d) THEN e[j] = d[j] ELSE DOMAIN e[j] = {}
    BY <2>4, PushedScope
  <2>6. \A j \in DOMAIN e : j <= Len(d) => j = 1
    <3>1. DOMAIN e = 1 .. Len(e) /\ DOMAIN d = 1 .. Len(d) /\ Len(e) \in Nat /\ Len(d) \in Nat
      BY <2>5, SequenceIs
    <3> QED
      BY <2>2, <3>1
  <2>7. \A j \in DOMAIN e : DOMAIN e[j] = {}
    BY <2>2, <2>3, <2>5, <2>6
  <2> QED
    BY <1>1, <2>1, <2>4, <2>7
<1>9. DOMAIN loops = {}
  BY <1>3, SequenceIs
<1>10. Dominated(g, env', <<>>, loops)
  BY <1>7, <1>8, <1>9, NothingOpen
<1> QED
  BY <1>1, <1>2, <1>10 DEF DomInv

LEMMA FinishDominated ==
    ASSUME Inv, DomInv, Finish
    PROVE  DomInv'
<1> DEFINE h == IF stages = 0 THEN fn ELSE EnterBlock(Close(fn, Jump(StageExit)), StageExit)
<1>1. /\ ~done /\ frames = <<>> /\ stage = stages
      /\ fn' = Close(h, DefaultTerminator)
      /\ env' = PopScope(env)
      /\ loops' = loops /\ frames' = frames
  BY DEF Finish
<1>2. PICK g : g = fn'
  OBVIOUS
<1>3. /\ env \in Seq(ScopeSet) /\ Len(env) = 2 /\ env[1] = NewScope
      /\ loops \in Seq(Targets) /\ Len(loops) = 0
      /\ stages \in Nat /\ stage \in Nat
  BY <1>1, Outermost
<1>4. Good(h) /\ Defs(h) \subseteq 1 .. h.values
  <2>1. CASE stages = 0
    BY <2>1 DEF DomInv, Dominated
  <2>2. CASE stages # 0
    <3>1. PICK b \in Nat : b = stages + 2
      BY <1>3
    <3>2. b \in StagesAhead
      <4>1. b \in stage + 2 .. stages + 2
        BY <1>1, <1>3, <3>1
      <4> QED
        BY <1>1, <2>2, <4>1 DEF StagesAhead
    <3>3. Leaves(fn, b, b, h)
      BY <2>2, <3>1 DEF Leaves, StageExit
    <3> HIDE DEF h
    <3> QED
      BY <1>1, <3>2, <3>3, EntersStage DEF Went
  <2> QED
    BY <2>1, <2>2
<1> HIDE DEF h
<1>5. PICK t : t = DefaultTerminator
  OBVIOUS
<1>6. t \in TermSet /\ t # Open /\ t.uses = {} /\ Successors(t) = {}
  BY <1>5, DefaultIs
<1>7. Moves(h, g, {}, {}, {}) /\ g.values = h.values
  <2>1. \A c \in Successors(t) : c \in OpenBlocks(h) /\ c # h.current
    BY <1>6
  <2>2. g = Close(h, t)
    BY <1>1, <1>2, <1>5
  <2> QED
    BY <1>4, <1>6, <2>1, <2>2, CloseMove
<1>8. Good(g) /\ Defs(g) \subseteq 1 .. g.values
  BY <1>4, <1>7 DEF Moves
<1>9. \A j \in DOMAIN env' : DOMAIN env'[j] = {}
  <2>1. PICK d \in Seq(ScopeSet) : d = PopScope(env)
    BY <1>1, PoppedScope
  <2>2. DOMAIN d = 1 .. Len(env) - 1 /\ \A j \in DOMAIN d : d[j] = env[j]
    BY <1>1, <2>1, PoppedScope
  <2>3. Len(env) - 1 = 1 /\ \A j \in 1 .. 1 : j = 1
    BY <1>3
  <2>4. \A j \in DOMAIN d : d[j] = NewScope
    BY <1>3, <2>2, <2>3
  <2>5. DOMAIN NewScope = {}
    BY DEF NewScope
  <2> QED
    BY <1>1, <2>1, <2>4, <2>5
<1>10. DOMAIN loops = {}
  BY <1>3, SequenceIs
<1>11. Dominated(g, env', <<>>, loops)
  BY <1>8, <1>9, <1>10, NothingOpen
<1> QED
  BY <1>1, <1>2, <1>11 DEF DomInv

-----------------------------------------------------------------------------
(* The invariant *)

LEMMA StartGood ==
    ASSUME NEW f, f = [blocks |-> <<EmptyBlock>>, current |-> 1, values |-> 0, errors |-> {}]
    PROVE  Good(f) /\ Defs(f) = {} /\ f.values = 0
<1>1. Shaped(f) /\ OpenBlocks(f) = {1} /\ f.current = 1 /\ DOMAIN f.blocks = {1}
  BY StartIs DEF Sound, Shaped
<1>2. f.blocks[1].code = <<>> /\ f.blocks[1].term = Open
  BY DEF EmptyBlock
<1>3. DOMAIN f.blocks[1].code = {}
  BY <1>2, Empty
<1>4. Open.uses = {}
  BY OpenEnd
<1>5. OneDef(f)
  BY <1>1, <1>3 DEF OneDef
<1>6. UsesGuarded(f)
  BY <1>1, <1>2, <1>3, <1>4 DEF UsesGuarded
<1>7. PhisMatch(f)
  BY <1>1, <1>3 DEF PhisMatch, Phis
<1>8. Untouched(f)
  BY <1>1 DEF Untouched
<1>9. Defs(f) = {}
  BY <1>1, <1>3 DEF Defs, DefinesIn
<1> QED
  BY <1>1, <1>5, <1>6, <1>7, <1>8, <1>9 DEF Good

LEMMA InitDominated ==
    ASSUME Init
    PROVE  DomInv
<1>1. PICK f : f = [blocks |-> <<EmptyBlock>>, current |-> 1, values |-> 0, errors |-> {}]
  OBVIOUS
<1>2. Good(f) /\ Defs(f) = {} /\ f.values = 0
  BY <1>1, StartGood
<1>3. OpenBlocks(f) = {1} /\ f.current = 1 /\ DOMAIN f.blocks = {1} /\ Len(f.blocks) = 1
  BY <1>1, StartIs
<1>4. /\ stages \in Nat
      /\ stages = 0 => fn = f
      /\ stages # 0 => fn = EnterBlock(SetTerminator(NewBlocks(f, stages + 1), Jump(2)), 2)
      /\ env = PushScope(<<NewScope>>) /\ loops = <<>> /\ frames = <<>>
  BY <1>1, LoweringAssumption DEF Init
<1>5. PICK g : g = fn
  OBVIOUS
<1>6. Good(g) /\ Defs(g) = {}
  <2>1. CASE stages = 0
    BY <1>2, <1>4, <1>5, <2>1
  <2>2. CASE stages # 0
    <3>1. PICK n \in Nat : n = stages + 1
      BY <1>4
    <3>2. PICK h : h = NewBlocks(f, n)
      OBVIOUS
    <3>3. /\ Moves(f, h, {}, NewOnes(f, n), {})
          /\ OpenBlocks(h) = OpenBlocks(f) \cup NewOnes(f, n)
          /\ h.current = f.current /\ DOMAIN h.blocks = DOMAIN f.blocks \cup NewOnes(f, n)
      BY <1>2, <3>2, GrowMove
    <3>4. PICK k \in Nat : k = 2
      OBVIOUS
    <3>5. k \in NewOnes(f, n) /\ k # 1
      <4>1. NewOnes(f, n) = 1 + 1 .. 1 + n
        BY <1>3 DEF NewOnes
      <4> QED
        BY <1>4, <2>2, <3>1, <3>4, <4>1
    <3>6. h.current \in OpenBlocks(h) /\ k \in DOMAIN h.blocks /\ MayLeadTo(h, k)
      BY <1>3, <3>3, <3>5 DEF MayLeadTo
    <3>7. GoesOn(h, k, k, g)
      BY <1>4, <1>5, <2>2, <3>1, <3>2, <3>4 DEF GoesOn
    <3>8. Good(h) /\ Defs(h) \subseteq Defs(f) \cup {}
      BY <3>3 DEF Moves
    <3>9. Went(h, k, g)
      BY <3>6, <3>7, <3>8, GoMove
    <3>10. Good(g) /\ Defs(g) \subseteq Defs(h) \cup {}
      BY <3>9 DEF Went, Moves
    <3> QED
      BY <1>2, <3>8, <3>10
  <2> QED
    BY <2>1, <2>2
<1>7. \A j \in DOMAIN env : DOMAIN env[j] = {}
  <2>1. NewScope \in ScopeSet /\ DOMAIN NewScope = {}
    <3>1. NewScope \in [{} -> Nat] /\ DOMAIN NewScope = {}
      BY DEF NewScope
    <3> QED
      BY <3>1 DEF ScopeSet
  <2>2. PICK d : d = <<NewScope>>
    OBVIOUS
  <2>3. d \in Seq(ScopeSet) /\ \A j \in DOMAIN d : DOMAIN d[j] = {}
    BY <2>1, <2>2
  <2>4. PICK e : e = PushScope(d)
    OBVIOUS
  <2>5. /\ e \in Seq(ScopeSet)
        /\ \A j \in DOMAIN e : IF j <= Len(d) THEN e[j] = d[j] ELSE DOMAIN e[j] = {}
    BY <2>3, <2>4, PushedScope
  <2>6. \A j \in DOMAIN e : j <= Len(d) => j \in DOMAIN d
    <3>1. DOMAIN e = 1 .. Len(e) /\ DOMAIN d = 1 .. Len(d) /\ Len(e) \in Nat /\ Len(d) \in Nat
      BY <2>3, <2>5, SequenceIs
    <3> QED
      BY <3>1
  <2>7. \A j \in DOMAIN e : DOMAIN e[j] = {}
    BY <2>3, <2>5, <2>6
  <2> QED
    BY <1>4, <2>2, <2>4, <2>7
<1>8. DOMAIN loops = {}
  BY <1>4, Empty
<1>9. Dominated(g, env, <<>>, loops)
  BY <1>6, <1>7, <1>8, NothingOpen
<1> QED
  BY <1>4, <1>5, <1>9 DEF DomInv

LEMMA NextDominated ==
    ASSUME Inv, DomInv, [Next]_vars
    PROVE  DomInv'
<1>1. CASE UNCHANGED vars
  BY <1>1 DEF vars, DomInv
<1>2. ASSUME NEW name \in Names, Let(name) PROVE DomInv'
  BY <1>2, LetDominated
<1>3. ASSUME NEW name \in Names, Use(name) PROVE DomInv'
  BY <1>3, UseDominated
<1>4. ASSUME NEW name \in Names, Assign(name) PROVE DomInv'
  BY <1>4, AssignDominated
<1>5. ASSUME NEW name \in Names, BeginFor(name) PROVE DomInv'
  BY <1>5, BeginForDominated
<1>6. CASE Return
  BY <1>6, ReturnDominated
<1>7. CASE Break
  <2> DEFINE target == IF loops = <<>> THEN 0 ELSE Last(loops).break
  <2>1. LeaveFor("break", target)
    BY <1>7 DEF Break
  <2>2. loops # <<>> => target \in {Last(loops).break, Last(loops).continue}
    OBVIOUS
  <2> HIDE DEF target
  <2> QED
    BY <2>1, <2>2, LeaveForDominated
<1>8. CASE Continue
  <2> DEFINE target == IF loops = <<>> THEN 0 ELSE Last(loops).continue
  <2>1. LeaveFor("continue", target)
    BY <1>8 DEF Continue
  <2>2. loops # <<>> => target \in {Last(loops).break, Last(loops).continue}
    OBVIOUS
  <2> HIDE DEF target
  <2> QED
    BY <2>1, <2>2, LeaveForDominated
<1>9. CASE BeginIf
  BY <1>9, BeginIfDominated
<1>10. CASE Else
  BY <1>10, ElseDominated
<1>11. CASE EndIf
  BY <1>11, EndIfDominated
<1>12. CASE BeginWhile
  BY <1>12, BeginWhileDominated
<1>13. CASE EndWhile
  BY <1>13, EndWhileDominated
<1>14. CASE EndFor
  BY <1>14, EndForDominated
<1>15. CASE NextStage
  BY <1>15, NextStageDominated
<1>16. CASE Finish
  BY <1>16, FinishDominated
<1> QED
  BY <1>1, <1>2, <1>3, <1>4, <1>5, <1>6, <1>7, <1>8, <1>9, <1>10, <1>11, <1>12, <1>13,
     <1>14, <1>15, <1>16 DEF Next

LEMMA Dominance == Spec => [](Inv /\ DomInv)
<1>1. Init => Inv /\ DomInv
  BY InitInv, InitDominated
<1>2. (Inv /\ DomInv) /\ [Next]_vars => (Inv /\ DomInv)'
  BY NextPreserves, NextDominated
<1> QED
  BY <1>1, <1>2, PTL DEF Spec

-----------------------------------------------------------------------------
(* Dominance by paths *)

LastBlock == Len(fn.blocks)
NextTo(S, cut) == (UNION {Edges(fn, b) : b \in S}) \ {cut}
Stepwise(cut, s) ==
    s = [n \in 0 .. LastBlock |-> IF n = 0 THEN {1} \ {cut} ELSE s[n - 1] \cup NextTo(s[n - 1], cut)]

LEMMA StepsIs ==
    ASSUME NEW cut
    PROVE  Steps(cut) = CHOOSE s : Stepwise(cut, s)
BY DEF Steps, Stepwise, LastBlock, NextTo, Edges, BlockTerm

(* A way from the entry to b in n steps, some of which may stay. *)
Walks(cut, n, b, p) ==
    /\ p \in [0 .. n -> DOMAIN fn.blocks \ {cut}]
    /\ p[0] = 1 /\ p[n] = b
    /\ \A i \in 0 .. n - 1 : p[i + 1] = p[i] \/ p[i + 1] \in Edges(fn, p[i])
WalkTo(cut, n) == {b \in DOMAIN fn.blocks : \E p : Walks(cut, n, b, p)}

LEMMA WalkFurther ==
    ASSUME NEW cut, NEW n \in Nat, NEW a \in WalkTo(cut, n),
           NEW b \in DOMAIN fn.blocks \ {cut}, b = a \/ b \in Edges(fn, a)
    PROVE  b \in WalkTo(cut, n + 1)
<1>1. PICK p : Walks(cut, n, a, p)
  BY DEF WalkTo
<1> DEFINE q == [i \in 0 .. n + 1 |-> IF i = n + 1 THEN b ELSE p[i]]
<1>2. q \in [0 .. n + 1 -> DOMAIN fn.blocks \ {cut}]
  BY <1>1 DEF Walks
<1>3. q[0] = 1 /\ q[n + 1] = b
  BY <1>1 DEF Walks
<1>4. ASSUME NEW i \in 0 .. (n + 1) - 1 PROVE q[i + 1] = q[i] \/ q[i + 1] \in Edges(fn, q[i])
  <2>1. CASE i = n
    <3>1. q[i] = a /\ q[i + 1] = b
      BY <1>1, <2>1 DEF Walks
    <3> QED
      BY <3>1
  <2>2. CASE i # n
    <3>1. i \in 0 .. n - 1 /\ q[i] = p[i] /\ q[i + 1] = p[i + 1]
      BY <2>2
    <3> QED
      BY <1>1, <3>1 DEF Walks
  <2> QED
    BY <2>1, <2>2
<1> HIDE DEF q
<1>5. Walks(cut, n + 1, b, q)
  BY <1>2, <1>3, <1>4 DEF Walks
<1> QED
  BY <1>5 DEF WalkTo

LEMMA WalkBefore ==
    ASSUME NEW cut, NEW n \in Nat, NEW b \in WalkTo(cut, n + 1)
    PROVE  b # cut /\ \E a \in WalkTo(cut, n) : b = a \/ b \in Edges(fn, a)
<1>1. PICK p : Walks(cut, n + 1, b, p)
  BY DEF WalkTo
<1> DEFINE q == [i \in 0 .. n |-> p[i]]
           a == p[n]
<1>2. /\ a \in DOMAIN fn.blocks /\ b # cut
      /\ b = a \/ b \in Edges(fn, a)
  <2>1. n \in 0 .. (n + 1) - 1 /\ n \in 0 .. n + 1 /\ n + 1 \in 0 .. n + 1
    OBVIOUS
  <2>2. p[n] \in DOMAIN fn.blocks /\ p[n + 1] # cut /\ p[n + 1] = b
    BY <1>1, <2>1 DEF Walks
  <2>3. p[n + 1] = p[n] \/ p[n + 1] \in Edges(fn, p[n])
    BY <1>1, <2>1 DEF Walks
  <2> QED
    BY <2>2, <2>3
<1>3. q \in [0 .. n -> DOMAIN fn.blocks \ {cut}] /\ q[0] = 1 /\ q[n] = a
  BY <1>1 DEF Walks
<1>4. ASSUME NEW i \in 0 .. n - 1 PROVE q[i + 1] = q[i] \/ q[i + 1] \in Edges(fn, q[i])
  <2>1. i \in 0 .. (n + 1) - 1 /\ q[i] = p[i] /\ q[i + 1] = p[i + 1]
    OBVIOUS
  <2> QED
    BY <1>1, <2>1 DEF Walks
<1> HIDE DEF q, a
<1>5. Walks(cut, n, a, q)
  BY <1>3, <1>4 DEF Walks
<1>6. a \in WalkTo(cut, n)
  BY <1>2, <1>5 DEF WalkTo
<1> QED
  BY <1>2, <1>6

LEMMA WalksStart ==
    ASSUME NEW cut, 1 \in DOMAIN fn.blocks
    PROVE  WalkTo(cut, 0) = {1} \ {cut}
<1>1. ASSUME NEW b \in WalkTo(cut, 0) PROVE b = 1 /\ b # cut
  <2>1. PICK p : Walks(cut, 0, b, p)
    BY <1>1 DEF WalkTo
  <2>2. 0 \in 0 .. 0
    OBVIOUS
  <2> QED
    BY <2>1, <2>2 DEF Walks
<1>2. ASSUME 1 # cut PROVE 1 \in WalkTo(cut, 0)
  <2> DEFINE p == [i \in 0 .. 0 |-> 1]
  <2>1. p \in [0 .. 0 -> DOMAIN fn.blocks \ {cut}] /\ p[0] = 1 /\ 0 .. 0 - 1 = {}
    BY <1>2
  <2> HIDE DEF p
  <2>2. Walks(cut, 0, 1, p)
    BY <2>1 DEF Walks
  <2> QED
    BY <2>2 DEF WalkTo
<1> QED
  BY <1>1, <1>2

LEMMA StepsTaken ==
    ASSUME Good(fn), NEW cut
    PROVE  Stepwise(cut, Steps(cut))
<1>1. 1 \in DOMAIN fn.blocks /\ \A b \in DOMAIN fn.blocks : Edges(fn, b) \subseteq DOMAIN fn.blocks
  BY BlocksAre DEF Good
<1>2. LastBlock \in Nat
  BY BlocksAre DEF Good, LastBlock
<1>3. ASSUME NEW n \in Nat PROVE WalkTo(cut, n + 1) = WalkTo(cut, n) \cup NextTo(WalkTo(cut, n), cut)
  <2>1. ASSUME NEW b \in WalkTo(cut, n) PROVE b # cut /\ b \in DOMAIN fn.blocks
    <3>1. PICK p : Walks(cut, n, b, p)
      BY <2>1 DEF WalkTo
    <3>2. n \in 0 .. n
      OBVIOUS
    <3> QED
      BY <3>1, <3>2 DEF Walks
  <2>2. ASSUME NEW b \in WalkTo(cut, n) PROVE b \in WalkTo(cut, n + 1)
    BY <2>1, <2>2, WalkFurther
  <2>3. ASSUME NEW b \in NextTo(WalkTo(cut, n), cut) PROVE b \in WalkTo(cut, n + 1)
    <3>1. PICK a \in WalkTo(cut, n) : b \in Edges(fn, a) /\ b # cut
      BY <2>3 DEF NextTo
    <3>2. b \in DOMAIN fn.blocks \ {cut}
      BY <1>1, <2>1, <3>1
    <3> QED
      BY <3>1, <3>2, WalkFurther
  <2>4. ASSUME NEW b \in WalkTo(cut, n + 1) PROVE b \in WalkTo(cut, n) \cup NextTo(WalkTo(cut, n), cut)
    <3>1. b # cut /\ \E a \in WalkTo(cut, n) : b = a \/ b \in Edges(fn, a)
      BY <2>4, WalkBefore
    <3> QED
      BY <3>1 DEF NextTo
  <2> QED
    BY <2>2, <2>3, <2>4
<1> DEFINE s == [n \in 0 .. LastBlock |-> WalkTo(cut, n)]
<1>4. ASSUME NEW n \in 0 .. LastBlock
      PROVE  s[n] = IF n = 0 THEN {1} \ {cut} ELSE s[n - 1] \cup NextTo(s[n - 1], cut)
  <2>1. CASE n = 0
    BY <1>1, <2>1, WalksStart
  <2>2. CASE n # 0
    <3>1. PICK m \in Nat : n = m + 1
      BY <1>2, <2>2
    <3>2. m \in 0 .. LastBlock /\ n - 1 = m
      BY <1>2, <3>1
    <3>3. s[n] = WalkTo(cut, m + 1) /\ s[n - 1] = WalkTo(cut, m)
      BY <3>1, <3>2
    <3> QED
      BY <1>3, <2>2, <3>3
  <2> QED
    BY <2>1, <2>2
<1>5. DOMAIN s = 0 .. LastBlock /\ s = [n \in DOMAIN s |-> s[n]]
  OBVIOUS
<1> HIDE DEF s
<1>6. Stepwise(cut, s)
  BY <1>4, <1>5 DEF Stepwise
<1> QED
  BY <1>6, StepsIs

(* A block that guards another dominates it.                               *)
LEMMA GuardsDominates ==
    ASSUME Good(fn), NEW a, NEW b, Guards(fn, a, b)
    PROVE  Dominates(a, b)
<1>1. PICK s : s = Steps(a)
  OBVIOUS
<1>2. Stepwise(a, s) /\ LastBlock \in Nat
  BY <1>1, StepsTaken, BlocksAre DEF Good, LastBlock
<1>3. /\ s[0] = {1} \ {a}
      /\ \A n \in 0 .. LastBlock : n # 0 => s[n] = s[n - 1] \cup NextTo(s[n - 1], a)
  <2>1. 0 \in 0 .. LastBlock
    BY <1>2
  <2>2. PICK d : d = 0 .. LastBlock
    OBVIOUS
  <2>3. \A n \in d : s[n] = IF n = 0 THEN {1} \ {a} ELSE s[n - 1] \cup NextTo(s[n - 1], a)
    BY <1>2, <2>2 DEF Stepwise
  <2> QED
    BY <2>1, <2>2, <2>3
<1>4. PICK S : Shuts(fn, a, S) /\ b \notin S
  BY DEF Guards
<1> DEFINE T == {n \in 0 .. LastBlock : s[n] \subseteq S}
<1>5. 0 \in T
  BY <1>2, <1>3, <1>4 DEF Shuts
<1>6. ASSUME NEW n \in T, n # LastBlock PROVE n + 1 \in T
  <2>1. n \in Nat /\ n + 1 \in 0 .. LastBlock /\ n + 1 # 0 /\ (n + 1) - 1 = n
    BY <1>2, <1>6
  <2>2. s[n + 1] = s[n] \cup NextTo(s[n], a)
    BY <1>3, <2>1
  <2>3. NextTo(s[n], a) \subseteq S
    <3>1. \A x \in s[n] : Edges(fn, x) \subseteq S \cup {a}
      BY <1>4 DEF Shuts
    <3> QED
      BY <3>1 DEF NextTo
  <2> QED
    BY <2>1, <2>2, <2>3
<1>7. LastBlock \in T
  <2> DEFINE U == {n \in 0 .. LastBlock : \A k \in 0 .. n : k \in T}
  <2>1. U \in SUBSET Nat /\ IsFiniteSet(U)
    <3>1. IsFiniteSet(0 .. LastBlock)
      BY <1>2, FS_Interval
    <3>2. U \subseteq 0 .. LastBlock
      OBVIOUS
    <3>3. U \in SUBSET Nat
      BY <1>2, <3>2
    <3> HIDE DEF U
    <3> QED
      BY <3>1, <3>2, <3>3, FS_Subset
  <2>2. 0 \in U
    BY <1>2, <1>5
  <2>3. PICK m \in U : \A k \in U : k <= m
    BY <2>1, <2>2, GreatestExists
  <2>4. m \in Nat /\ m \in T
    BY <1>2, <2>3
  <2>5. ASSUME m # LastBlock PROVE FALSE
    <3>1. m + 1 \in T
      BY <1>6, <2>4, <2>5
    <3>2. m + 1 \in 0 .. LastBlock
      BY <3>1
    <3>3. \A k \in 0 .. m + 1 : k \in 0 .. m \/ k = m + 1
      BY <2>4
    <3>4. m + 1 \in U
      BY <2>3, <3>1, <3>2, <3>3
    <3> QED
      BY <2>3, <2>4, <3>4
  <2> QED
    BY <2>4, <2>5
<1>8. Reachable(a) = s[LastBlock]
  BY <1>1 DEF Reachable, LastBlock
<1> QED
  BY <1>4, <1>7, <1>8 DEF Dominates

-----------------------------------------------------------------------------
(* What the code generator relies on *)

LEMMA SitesAre ==
    /\ \A b \in Blocks : \A i \in DOMAIN Code(b) : <<b, i>> \in Sites /\ InstrAt(<<b, i>>) = Code(b)[i]
    /\ \A s \in Sites : \E b \in Blocks : \E i \in DOMAIN Code(b) : s = <<b, i>>
BY DEF Sites, InstrAt

(* A value is computed at one site.                                        *)
LEMMA DefSiteIs ==
    ASSUME Good(fn), NEW b \in Blocks, NEW i \in DOMAIN Code(b), NEW v, v # 0, Code(b)[i].def = v
    PROVE  IsDefined(v) /\ DefSite(v) = <<b, i>>
<1>1. PICK t : t = <<b, i>>
  OBVIOUS
<1>2. t \in Sites /\ InstrAt(t).def = v
  BY <1>1, SitesAre
<1>3. PICK d : d = DefSite(v)
  OBVIOUS
<1>4. d \in Sites /\ InstrAt(d).def = v
  BY <1>2, <1>3 DEF DefSite
<1>5. PICK c \in Blocks : \E j \in DOMAIN Code(c) : d = <<c, j>>
  BY <1>4, SitesAre
<1>6. PICK j \in DOMAIN Code(c) : d = <<c, j>>
  BY <1>5
<1>7. Code(c)[j].def = v
  BY <1>4, <1>6, SitesAre
<1>8. b = c /\ i = j
  <2>1. OneDef(fn)
    BY DEF Good
  <2> QED
    BY <1>7, <2>1 DEF OneDef, Blocks, Code
<1> QED
  BY <1>1, <1>2, <1>3, <1>6, <1>8 DEF IsDefined

LEMMA ComputedDominates ==
    ASSUME Good(fn), NEW v, NEW b, Computed(fn, v, b)
    PROVE  IsDefined(v) /\ Dominates(DefSite(v)[1], b)
<1>1. PICK c : DefinesIn(fn, v, c) /\ Guards(fn, c, b)
  BY DEF Computed
<1>2. c \in Blocks /\ \E j \in DOMAIN Code(c) : Code(c)[j].def = v
  BY <1>1 DEF DefinesIn, Blocks, Code
<1>3. PICK j \in DOMAIN Code(c) : Code(c)[j].def = v
  BY <1>2
<1>4. v # 0
  BY DEF Computed
<1>5. IsDefined(v) /\ DefSite(v) = <<c, j>>
  BY <1>2, <1>3, <1>4, DefSiteIs
<1>6. Dominates(c, b)
  BY <1>1, GuardsDominates
<1> QED
  BY <1>5, <1>6

(* Every input of a phi has a predecessor of its own.                      *)
LEMMA OneInputEach ==
    ASSUME NEW inputs, NEW preds, IsFiniteSet(preds), {input[2] : input \in inputs} = preds,
           \A i, j \in inputs : i[2] = j[2] => i = j
    PROVE  Cardinality(inputs) = Cardinality(preds)
<1> DEFINE pick == [p \in preds |-> CHOOSE i \in inputs : i[2] = p]
<1>1. ASSUME NEW p \in preds PROVE pick[p] \in inputs /\ pick[p][2] = p
  OBVIOUS
<1>2. ASSUME NEW i \in inputs PROVE i[2] \in preds /\ pick[i[2]] = i
  <2>1. i[2] \in preds
    OBVIOUS
  <2> QED
    BY <1>1, <2>1
<1>3. pick \in [preds -> inputs]
  BY <1>1
<1> HIDE DEF pick
<1>4. pick \in Injection(preds, inputs)
  BY <1>1, <1>3, Fun_IsInj
<1>5. pick \in Surjection(preds, inputs)
  BY <1>2, <1>3, Fun_IsSurj
<1>6. pick \in Bijection(preds, inputs)
  BY <1>4, <1>5 DEF Bijection
<1>7. ExistsBijection(preds, inputs)
  BY <1>6 DEF ExistsBijection
<1> QED
  BY <1>7, FS_Bijection

LEMMA GoodIsDominated ==
    ASSUME Good(fn)
    PROVE  ValuesDominateUses
<1>1. UsesGuarded(fn) /\ PhisMatch(fn) /\ EdgesMatch(fn)
  BY DEF Good, Shaped
<1>2. ASSUME NEW s \in Sites, NEW v \in InstrAt(s).uses
      PROVE  /\ IsDefined(v)
             /\ IF DefSite(v)[1] = s[1] THEN DefSite(v)[2] < s[2] ELSE Dominates(DefSite(v)[1], s[1])
  <2>1. PICK b \in Blocks : \E k \in DOMAIN Code(b) : s = <<b, k>>
    BY SitesAre
  <2>2. PICK k \in DOMAIN Code(b) : s = <<b, k>>
    BY <2>1
  <2>3. v \in Code(b)[k].uses /\ s[1] = b /\ s[2] = k
    BY <1>2, <2>2, SitesAre
  <2>4. Before(fn, v, b, k)
    BY <1>1, <2>3 DEF UsesGuarded, Blocks, Code
  <2>5. PICK c \in Blocks : \E j \in DOMAIN Code(c) : /\ Code(c)[j].def = v
                                                      /\ IF c = b THEN j < k ELSE Guards(fn, c, b)
    BY <2>4 DEF Before, Blocks, Code
  <2>6. PICK j \in DOMAIN Code(c) : /\ Code(c)[j].def = v
                                    /\ IF c = b THEN j < k ELSE Guards(fn, c, b)
    BY <2>5
  <2>7. v # 0
    BY <2>4 DEF Before
  <2>8. PICK d : d = DefSite(v)
    OBVIOUS
  <2>9. IsDefined(v) /\ d[1] = c /\ d[2] = j
    BY <2>6, <2>7, <2>8, DefSiteIs
  <2>10. c # b => Dominates(c, b)
    BY <2>6, GuardsDominates
  <2> QED
    BY <2>3, <2>6, <2>8, <2>9, <2>10
<1>3. ASSUME NEW b \in Blocks, NEW v \in BlockTerm(b).uses
      PROVE  IsDefined(v) /\ Dominates(DefSite(v)[1], b)
  <2>1. Computed(fn, v, b)
    BY <1>1, <1>3 DEF UsesGuarded, Blocks, BlockTerm
  <2> QED
    BY <2>1, ComputedDominates
<1>4. ASSUME NEW s \in Sites, InstrAt(s).op = "phi"
      PROVE  /\ {input[2] : input \in InstrAt(s).inputs} = fn.blocks[s[1]].preds
             /\ Cardinality(InstrAt(s).inputs) = Cardinality(fn.blocks[s[1]].preds)
             /\ \A input \in InstrAt(s).inputs : Dominates(DefSite(input[1])[1], input[2])
  <2>1. PICK b \in Blocks : \E k \in DOMAIN Code(b) : s = <<b, k>>
    BY SitesAre
  <2>2. PICK k \in DOMAIN Code(b) : s = <<b, k>>
    BY <2>1
  <2>3. InstrAt(s) = Code(b)[k] /\ s[1] = b
    BY <2>2, SitesAre
  <2>4. InputsMatch(fn, b, Code(b)[k].inputs)
    BY <1>1, <1>4, <2>3 DEF PhisMatch, Phis, Blocks, Code
  <2>5. PICK inputs : inputs = Code(b)[k].inputs
    OBVIOUS
  <2>6. PICK preds : preds = fn.blocks[b].preds
    OBVIOUS
  <2>7. /\ {input[2] : input \in inputs} = preds
        /\ \A i, j \in inputs : i[2] = j[2] => i = j
        /\ \A input \in inputs : Computed(fn, input[1], input[2])
    BY <2>4, <2>5, <2>6 DEF InputsMatch
  <2>8. IsFiniteSet(preds)
    <3>1. DOMAIN fn.blocks = 1 .. Len(fn.blocks) /\ Len(fn.blocks) \in Nat
      BY BlocksAre DEF Good
    <3>2. IsFiniteSet(1 .. Len(fn.blocks))
      <4>1. 1 \in Int /\ Len(fn.blocks) \in Int
        BY <3>1
      <4> QED
        BY <4>1, FS_Interval
    <3>3. preds \subseteq DOMAIN fn.blocks
      BY <1>1, <2>6 DEF EdgesMatch, Blocks
    <3> QED
      BY <3>1, <3>2, <3>3, FS_Subset
  <2>9. Cardinality(inputs) = Cardinality(preds)
    BY <2>7, <2>8, OneInputEach
  <2>10. \A input \in inputs : Dominates(DefSite(input[1])[1], input[2])
    BY <2>7, ComputedDominates
  <2> QED
    BY <2>3, <2>5, <2>6, <2>7, <2>9, <2>10
<1> QED
  BY <1>2, <1>3, <1>4 DEF ValuesDominateUses

(* What the code generator is handed is valid, whatever the program: next  *)
(* to what validate_function asks for, every value is computed on every    *)
(* path to its uses, across branches, loops and stages and after a return, *)
(* a break or a continue, and the phi of a `for` has exactly one input for *)
(* each predecessor of its header, the end of the step among them, which   *)
(* is computed on the way there (lower_for, lower_while, lower_if and      *)
(* resolve_binding in lower.rs; validate_function does not look at paths). *)
THEOREM BlocksAreRight == Spec => []BlocksAreValid
<1>1. ASSUME DomInv PROVE ValuesDominateUses
  BY <1>1, GoodIsDominated DEF DomInv, Dominated
<1>2. Spec => []ValuesDominateUses
  <2>1. Inv /\ DomInv => ValuesDominateUses
    BY <1>1
  <2> QED
    BY <2>1, Dominance, PTL
<1>3. Validates /\ ValuesDominateUses => BlocksAreValid
  BY DEF BlocksAreValid
<1> QED
  BY <1>2, <1>3, BlocksValidate, PTL

=============================================================================
