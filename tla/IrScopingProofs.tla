-------------------------- MODULE IrScopingProofs --------------------------
(***************************************************************************)
(* Proofs about IrLowering: for programs of any size and nesting, errors   *)
(* are reported for exactly the programs that deserve them, and a variable *)
(* that is read or written is the one in scope.                            *)
(***************************************************************************)
EXTENDS IrLoweringProofs

-----------------------------------------------------------------------------
(* What the program says of where the lowerer is: the blocks around the    *)
(* next token are those of the open statements.                            *)

OpensBlock == {"if", "else", "while", "for"}
TokenKinds == {"let", "use", "assign", "return", "break", "continue", "if", "else", "endif",
               "while", "endwhile", "for", "endfor", "stage"}
TokenSet == [kind : TokenKinds, name : Names \cup {NoName}, scope : Nat, opener : Nat]

Outer == LatestOf(StagesBefore(Here) \cup {0})
FrameFits(x) ==
    /\ x.at \in Tokens /\ x.scope \in Tokens
    /\ IF x.kind = "else"
       THEN /\ x.at < x.scope /\ Kind(x.at) = "if"
            /\ Kind(x.scope) = "else" /\ program[x.scope].opener = x.at
       ELSE x.scope = x.at /\ Kind(x.at) = (IF x.kind = "then" THEN "if" ELSE x.kind)
FramesNest(fs) == \A i, j \in DOMAIN fs : i < j => fs[i].scope < fs[j].at
ScopesIn(fs) == {fs[i].scope : i \in DOMAIN fs}
KnowsBlocks ==
    /\ program \in Seq(TokenSet)
    /\ \A p \in Tokens : program[p].scope < p
    /\ \A i \in DOMAIN frames : FrameFits(frames[i]) /\ Outer < frames[i].at
    /\ FramesNest(frames)
    /\ Around(Here) = ScopesIn(frames)

-----------------------------------------------------------------------------
(* A scope holds the names declared in a block, each with the slot of its  *)
(* last declaration; a loop's name has a scope of its own.                 *)

(* What an instruction does, but for the inputs of a phi. *)
MarkOf(instr) == <<instr.op, instr.def, instr.uses, instr.event>>
MarksOf(instrs) == {MarkOf(instrs[k]) : k \in DOMAIN instrs}
Marks(f) == UNION {MarksOf(f.blocks[b].code) : b \in DOMAIN f.blocks}

Slots(marks, q) == {m[2] : m \in {m \in marks : m[1] = "alloc" /\ m[4][1] = q}}
LetsIn(s, name) == {q \in Tokens : Kind(q) = "let" /\ program[q].name = name /\ program[q].scope = s}
HoldsLets(scope, s) ==
    \A name \in Names :
        /\ name \in DOMAIN scope <=> LetsIn(s, name) # {}
        /\ name \in DOMAIN scope => Slots(Marks(fn), LatestOf(LetsIn(s, name))) = {scope[name]}
HoldsCounter(scope, q) ==
    /\ DOMAIN scope = {program[q].name}
    /\ Slots(Marks(fn), q) = {scope[program[q].name]}

NamesIn(fs, e, outer) ==
    /\ HoldsLets(e[2], outer)
    /\ \A i \in DOMAIN fs :
          /\ HoldsLets(e[ScopesBelow(fs, i + 1)], fs[i].scope)
          /\ fs[i].kind = "for" => HoldsCounter(e[ScopesBelow(fs, i) + 1], fs[i].at)
KnowsNames == ~done => NamesIn(frames, env, Outer)

-----------------------------------------------------------------------------
(* What was lowered so far *)

(* The marks that matter: the slots that were made, and the accesses. *)
Matters(m) == m[1] = "alloc" \/ m[4][2] = "do"
Accesses(p, m) ==
    /\ m[4] = <<p, "do">>
    /\ Kind(p) = "assign" \/ (Kind(p) = "use" /\ m[1] = "load")
Resolves(p, m) == \E q \in Declarations(p), slot \in m[3] : Slots(Marks(fn), q) = {slot}
KnowsAccesses ==
    /\ \A m \in Marks(fn) : Matters(m) => m[4][1] \in Tokens
    /\ \A p \in Tokens : \A m \in Marks(fn) : Accesses(p, m) => Resolves(p, m)

ScopeInv == KnowsBlocks /\ KnowsNames /\ KnowsAccesses /\ ErrorsAreJustified

-----------------------------------------------------------------------------
(* Tokens *)

LEMMA LatestIs ==
    ASSUME NEW S \in SUBSET Nat, IsFiniteSet(S), S # {}
    PROVE  LatestOf(S) \in S /\ \A r \in S : r <= LatestOf(S)
  BY GreatestExists DEF LatestOf

LEMMA LatestIsOnly ==
    ASSUME NEW S \in SUBSET Nat, NEW q \in S, \A r \in S : r <= q
    PROVE  LatestOf(S) = q
<1>1. LatestOf(S) \in S /\ \A r \in S : r <= LatestOf(S)
  BY DEF LatestOf
<1>2. LatestOf(S) \in Nat /\ q \in Nat /\ q <= LatestOf(S) /\ LatestOf(S) <= q
  BY <1>1
<1> QED
  BY <1>2

Adds(t) ==
    /\ KnowsBlocks
    /\ t \in TokenSet /\ t.scope < Here
    /\ program' = Append(program, t)

LEMMA TokensAre ==
    ASSUME KnowsBlocks
    PROVE  /\ Len(program) \in Nat /\ Here \in Nat /\ Here = Len(program) + 1
           /\ Tokens = 1 .. Len(program) /\ IsFiniteSet(Tokens)
           /\ \A p \in Tokens : p \in Nat /\ p >= 1 /\ p < Here /\ program[p] \in TokenSet
<1>1. program \in Seq(TokenSet)
  BY DEF KnowsBlocks
<1>2. Len(program) \in Nat /\ Tokens = 1 .. Len(program) /\ \A p \in Tokens : program[p] \in TokenSet
  BY <1>1, SequenceIs DEF Tokens
<1>3. IsFiniteSet(1 .. Len(program))
  BY <1>2, FS_Interval
<1> QED
  BY <1>2, <1>3 DEF Here

LEMMA Added ==
    ASSUME NEW t, Adds(t), NEW h, h = Here
    PROVE  /\ h \in Nat \ {0} /\ Tokens = 1 .. h - 1 /\ Tokens' = Tokens \cup {h} /\ h \notin Tokens
           /\ Here' = h + 1 /\ Tokens' = 1 .. h
           /\ \A p \in Tokens : program'[p] = program[p] /\ Kind(p)' = Kind(p) /\ p < h
           /\ program'[h] = t /\ Kind(h)' = t.kind
<1>1. program \in Seq(TokenSet) /\ t \in TokenSet
  BY DEF Adds, KnowsBlocks
<1>2. Len(program) \in Nat /\ Tokens = 1 .. Len(program) /\ h = Len(program) + 1
  BY TokensAre DEF Adds
<1>3. /\ program' \in Seq(TokenSet) /\ Len(program') = Len(program) + 1
      /\ \A p \in 1 .. Len(program) : program'[p] = program[p]
      /\ program'[Len(program) + 1] = t
  BY <1>1, AppendProperties DEF Adds
<1>4. DOMAIN program' = 1 .. Len(program')
  BY <1>3, SequenceIs
<1>5. Tokens' = 1 .. h /\ Here' = h + 1
  BY <1>2, <1>3, <1>4 DEF Tokens, Here
<1> QED
  BY <1>2, <1>3, <1>5 DEF Kind

LEMMA PastKept ==
    ASSUME NEW t, Adds(t), NEW p \in Tokens
    PROVE  /\ Around(p)' = Around(p) /\ StagesBefore(p)' = StagesBefore(p)
           /\ ScopesOf(p)' = ScopesOf(p) /\ LoopsAround(p)' = LoopsAround(p)
<1> DEFINE h == Here
<1>1. /\ Tokens' = Tokens \cup {h} /\ \A q \in Tokens : program'[q] = program[q] /\ Kind(q)' = Kind(q) /\ q < h
      /\ h \in Nat /\ p \in Nat /\ p < h /\ \A q \in Tokens : q \in Nat
  BY Added, TokensAre DEF Adds
<1>h. ~(h <= p) /\ ~(h < p)
  BY <1>1
<1> HIDE DEF h
<1>2. \A q, r \in Tokens : EndsBlock(r, q)' <=> EndsBlock(r, q)
  BY <1>1 DEF EndsBlock
<1>3. Around(p)' = Around(p)
  BY <1>1, <1>h, <1>2 DEF Around
<1>4. StagesBefore(p)' = StagesBefore(p)
  BY <1>1, <1>h DEF StagesBefore
<1>5. \A q \in Around(p) : Kind(q)' = Kind(q)
  BY <1>1 DEF Around
<1> QED
  BY <1>3, <1>4, <1>5 DEF ScopesOf, LoopsAround

(* The block that q opens is what a token with this opener ends. *)
Opening(q) == IF Kind(q) = "else" THEN program[q].opener ELSE q

LEMMA PresentAround ==
    ASSUME NEW t, Adds(t), NEW h, h = Here
    PROVE  /\ Around(h)' = {q \in Around(h) : t.opener # Opening(q)}
           /\ StagesBefore(h)' = StagesBefore(h)
           /\ Around(h + 1)' = Around(h)' \cup (IF t.kind \in OpensBlock THEN {h} ELSE {})
           /\ StagesBefore(h + 1)' = StagesBefore(h) \cup (IF t.kind = "stage" THEN {h} ELSE {})
           /\ \A q \in Around(h) : Kind(q)' = Kind(q)
<1>1. /\ h \in Nat /\ Tokens' = Tokens \cup {h} /\ h \notin Tokens
      /\ \A q \in Tokens : program'[q] = program[q] /\ Kind(q)' = Kind(q) /\ q < h /\ q \in Nat /\ q <= h /\ q < h + 1
      /\ program'[h] = t /\ Kind(h)' = t.kind
  BY Added, TokensAre DEF Adds
<1>a. h < h + 1 /\ h <= h /\ h <= h + 1 /\ ~(h < h) /\ \A q \in Tokens : q <= h + 1 /\ ~(h < q)
  BY <1>1
<1>2. \A q, r \in Tokens : EndsBlock(r, q)' <=> EndsBlock(r, q)
  BY <1>1 DEF EndsBlock
<1>3. \A q \in Tokens : EndsBlock(h, q)' <=> t.opener = Opening(q)
  BY <1>1 DEF EndsBlock, Opening
<1>4. \A r \in Tokens' : ~EndsBlock(r, h)'
  BY <1>1, <1>a DEF EndsBlock
<1>5. Around(h)' = {q \in Around(h) : t.opener # Opening(q)}
  BY <1>1, <1>a, <1>2, <1>3 DEF Around
<1>6. Around(h + 1)' = Around(h)' \cup (IF t.kind \in OpensBlock THEN {h} ELSE {})
  BY <1>1, <1>a, <1>4 DEF Around, OpensBlock
<1>7. /\ StagesBefore(h)' = StagesBefore(h)
      /\ StagesBefore(h + 1)' = StagesBefore(h) \cup (IF t.kind = "stage" THEN {h} ELSE {})
  BY <1>1, <1>a DEF StagesBefore
<1> QED
  BY <1>1, <1>5, <1>6, <1>7 DEF Around

(* A statement that opens nothing and ends nothing leaves the blocks       *)
(* around what comes next as they are.                                     *)
LEMMA OuterIs ==
    ASSUME NEW t, Adds(t), NEW h, h = Here
    PROVE  /\ Outer \in Nat /\ Outer < h
           /\ Outer' = IF t.kind = "stage" THEN h ELSE Outer
<1>1. /\ h \in Nat \ {0} /\ Tokens \subseteq Nat /\ \A q \in Tokens : q < h /\ q <= h
      /\ IsFiniteSet(Tokens) /\ Here' = h + 1
  BY Added, TokensAre DEF Adds
<1>2. StagesBefore(h) \subseteq Tokens /\ \A q \in StagesBefore(h) : q \in Nat /\ q < h /\ q <= h
  <2>1. StagesBefore(h) \subseteq Tokens
    BY DEF StagesBefore
  <2> QED
    BY <1>1, <2>1
<1>z. 0 < h /\ 0 <= h /\ h <= h
  BY <1>1
<1>3. IsFiniteSet(StagesBefore(h) \cup {0})
  BY <1>1, <1>2, FS_Subset, FS_AddElement
<1>4. Outer \in StagesBefore(h) \cup {0}
  <2>1. StagesBefore(h) \cup {0} \in SUBSET Nat /\ StagesBefore(h) \cup {0} # {}
    BY <1>2
  <2> QED
    BY <1>3, <2>1, LatestIs DEF Outer
<1>5. Outer \in Nat /\ Outer < h
  BY <1>2, <1>4, <1>z
<1>6. StagesBefore(h + 1)' = StagesBefore(h) \cup (IF t.kind = "stage" THEN {h} ELSE {})
  BY PresentAround
<1>7. Outer' = LatestOf(StagesBefore(h + 1)' \cup {0})
  <2>1. \A S, T : S = T => LatestOf(S) = LatestOf(T)
    OBVIOUS
  <2> QED
    BY <1>1, <2>1 DEF Outer, StagesBefore, LatestOf
<1>8. CASE t.kind = "stage"
  <2>1. StagesBefore(h + 1)' \cup {0} = StagesBefore(h) \cup {h, 0}
    BY <1>6, <1>8
  <2>2. \A r \in StagesBefore(h) \cup {h, 0} : r <= h
    BY <1>2, <1>z
  <2>3. LatestOf(StagesBefore(h) \cup {h, 0}) = h
    BY <1>1, <1>2, <2>2, LatestIsOnly
  <2> QED
    BY <1>5, <1>7, <1>8, <2>1, <2>3
<1>9. CASE t.kind # "stage"
  BY <1>5, <1>6, <1>7, <1>9 DEF Outer
<1> QED
  BY <1>8, <1>9

LEMMA FrameFitsStill ==
    ASSUME NEW t, Adds(t), NEW x \in FrameSet, FrameFits(x)
    PROVE  /\ FrameFits(x)' /\ x.at \in Nat /\ x.scope \in Nat /\ x.at <= x.scope /\ x.at > 0
           /\ x.scope < Here /\ Opening(x.scope) = x.at
           /\ Kind(x.scope) \in OpensBlock /\ Kind(x.at) \in OpensBlock
<1>1. /\ Tokens' = Tokens \cup {Here}
      /\ \A q \in Tokens : program'[q] = program[q] /\ Kind(q)' = Kind(q)
  BY Added
<1>2. \A q \in Tokens : q \in Nat /\ q >= 1 /\ q < Here
  BY TokensAre DEF Adds
<1>3. FrameFits(x)'
  BY <1>1 DEF FrameFits
<1>4. x.at \in Nat /\ x.scope \in Nat /\ x.at <= x.scope /\ x.at > 0 /\ x.scope < Here
  BY <1>2 DEF FrameFits
<1>5. x.kind \in {"then", "else", "while", "for"}
  BY DEF FrameSet
<1>6. CASE x.kind = "else"
  BY <1>3, <1>4, <1>6 DEF FrameFits, Opening, OpensBlock
<1>7. CASE x.kind # "else"
  <2>1. x.scope = x.at /\ Kind(x.scope) \in {"if", "while", "for"}
    BY <1>5, <1>7 DEF FrameFits
  <2> QED
    BY <1>3, <1>4, <2>1 DEF Opening, OpensBlock
<1> QED
  BY <1>6, <1>7

LEMMA ScopesInLonger ==
    ASSUME NEW fs \in Seq(FrameSet), NEW x \in FrameSet
    PROVE  /\ ScopesIn(Append(fs, x)) = ScopesIn(fs) \cup {x.scope}
           /\ FramesNest(Append(fs, x)) <=> FramesNest(fs) /\ \A i \in DOMAIN fs : fs[i].scope < x.at
<1>1. /\ DOMAIN Append(fs, x) = DOMAIN fs \cup {Len(fs) + 1}
      /\ \A i \in DOMAIN fs : Append(fs, x)[i] = fs[i]
      /\ Append(fs, x)[Len(fs) + 1] = x
  BY AwaitedByLonger
<1>2. \A i \in DOMAIN fs : i < Len(fs) + 1 /\ ~(Len(fs) + 1 < i)
  BY SequenceIs
<1>3. ~(Len(fs) + 1 < Len(fs) + 1)
  BY LenProperties
<1>4. ScopesIn(Append(fs, x)) = ScopesIn(fs) \cup {x.scope}
  BY <1>1 DEF ScopesIn
<1> HIDE DEF ScopesIn
<1>5. FramesNest(Append(fs, x)) <=> FramesNest(fs) /\ \A i \in DOMAIN fs : fs[i].scope < x.at
  BY <1>1, <1>2, <1>3 DEF FramesNest
<1> QED
  BY <1>4, <1>5

FramesFit(fs) == \A i \in DOMAIN fs : FrameFits(fs[i]) /\ Outer < fs[i].at

LEMMA TokensStay ==
    ASSUME NEW t, Adds(t)
    PROVE  program' \in Seq(TokenSet) /\ \A p \in Tokens' : program[p].scope' < p
<1>1. program' \in Seq(TokenSet)
  BY AppendProperties DEF Adds, KnowsBlocks
<1>2. /\ Tokens' = Tokens \cup {Here} /\ \A p \in Tokens : program'[p] = program[p]
      /\ program'[Here] = t
  BY Added
<1> QED
  BY <1>1, <1>2 DEF Adds, KnowsBlocks

LEMMA KnowsBlocksNext ==
    ASSUME NEW t, Adds(t), NEW h, h = Here, NEW fs, frames' = fs,
           FramesFit(fs)', FramesNest(fs), Around(h + 1)' = ScopesIn(fs)
    PROVE  KnowsBlocks'
<1>1. Here' = h + 1
  BY Added
<1>2. Around(Here)' = ScopesIn(fs)
  BY <1>1 DEF Around
<1> QED
  BY <1>2, TokensStay DEF KnowsBlocks, FramesFit, FramesNest, ScopesIn

(* The open statements are still where they were. *)
LEMMA FramesFitStill ==
    ASSUME NEW t, Adds(t), t.kind # "stage", NEW fs \in Seq(FrameSet), FramesFit(fs)
    PROVE  /\ FramesFit(fs)' /\ Outer' = Outer
           /\ \A i \in DOMAIN fs : /\ Opening(fs[i].scope) = fs[i].at /\ fs[i].at # 0
                                   /\ fs[i].at < Here /\ fs[i].scope < Here
<1>1. \A i \in DOMAIN fs : fs[i] \in FrameSet /\ FrameFits(fs[i]) /\ Outer < fs[i].at
  BY SequenceIs DEF FramesFit
<1>2. \A i \in DOMAIN fs : FrameFits(fs[i])'
  BY <1>1, FrameFitsStill
<1>3. ASSUME NEW i \in DOMAIN fs
      PROVE  Opening(fs[i].scope) = fs[i].at /\ fs[i].at # 0 /\ fs[i].at < Here /\ fs[i].scope < Here
  <2>1. /\ fs[i].at \in Nat /\ fs[i].scope \in Nat /\ fs[i].at <= fs[i].scope /\ fs[i].at > 0
        /\ fs[i].scope < Here /\ Opening(fs[i].scope) = fs[i].at
    BY <1>1, FrameFitsStill
  <2>2. Here \in Nat
    BY TokensAre DEF Adds
  <2> QED
    BY <2>1, <2>2
<1>4. Outer' = Outer
  BY OuterIs
<1> QED
  BY <1>1, <1>2, <1>3, <1>4 DEF FramesFit

LEMMA BlocksStay ==
    ASSUME NEW t, Adds(t), t.opener = 0, t.kind \notin OpensBlock, t.kind # "stage",
           frames \in Seq(FrameSet), frames' = frames
    PROVE  KnowsBlocks' /\ Outer' = Outer
<1>0. PICK h, fs : h = Here /\ fs = frames
  OBVIOUS
<1>1. FramesFit(fs) /\ FramesNest(fs) /\ Around(h) = ScopesIn(fs) /\ fs \in Seq(FrameSet)
  BY <1>0 DEF Adds, KnowsBlocks, FramesFit
<1>2. FramesFit(fs)' /\ Outer' = Outer /\ \A i \in DOMAIN fs : Opening(fs[i].scope) # 0
  BY <1>1, FramesFitStill
<1>3. Around(h + 1)' = ScopesIn(fs)
  <2>1. /\ Around(h)' = {q \in Around(h) : t.opener # Opening(q)}
        /\ Around(h + 1)' = Around(h)' \cup (IF t.kind \in OpensBlock THEN {h} ELSE {})
    BY <1>0, PresentAround
  <2>2. {q \in Around(h) : t.opener # Opening(q)} = Around(h)
    BY <1>1, <1>2 DEF ScopesIn
  <2> QED
    BY <1>1, <2>1, <2>2
<1> QED
  BY <1>0, <1>1, <1>2, <1>3, KnowsBlocksNext

LEMMA BlocksOpen ==
    ASSUME NEW t, Adds(t), t.opener = 0, t.kind \in OpensBlock, t.kind # "else",
           NEW h, h = Here, frames \in Seq(FrameSet), NEW x \in FrameSet, frames' = Append(frames, x),
           x.at = h, x.scope = h, x.kind = (IF t.kind = "if" THEN "then" ELSE t.kind)
    PROVE  KnowsBlocks' /\ Outer' = Outer
<1>0. PICK fs : fs = frames
  OBVIOUS
<1>k. t.kind # "stage"
  BY DEF OpensBlock
<1>1. FramesFit(fs) /\ FramesNest(fs) /\ Around(h) = ScopesIn(fs) /\ fs \in Seq(FrameSet)
  BY <1>0 DEF Adds, KnowsBlocks, FramesFit
<1>2. /\ FramesFit(fs)' /\ Outer' = Outer
      /\ \A i \in DOMAIN fs : Opening(fs[i].scope) # 0 /\ fs[i].scope < h
  BY <1>1, <1>k, FramesFitStill
<1>3. Around(h + 1)' = ScopesIn(fs) \cup {h}
  <2>1. /\ Around(h)' = {q \in Around(h) : t.opener # Opening(q)}
        /\ Around(h + 1)' = Around(h)' \cup (IF t.kind \in OpensBlock THEN {h} ELSE {})
    BY PresentAround
  <2>2. {q \in Around(h) : t.opener # Opening(q)} = Around(h)
    BY <1>1, <1>2 DEF ScopesIn
  <2> QED
    BY <1>1, <2>1, <2>2
<1>4. FrameFits(x)'
  <2>1. Kind(h)' = t.kind /\ h \in Tokens'
    BY Added
  <2> QED
    BY <2>1 DEF FrameFits, OpensBlock
<1>5. Outer' < x.at
  BY <1>2, <1>k, OuterIs
<1>6. FramesFit(Append(fs, x))'
  <2>1. /\ DOMAIN Append(fs, x) = DOMAIN fs \cup {Len(fs) + 1}
        /\ \A i \in DOMAIN fs : Append(fs, x)[i] = fs[i]
        /\ Append(fs, x)[Len(fs) + 1] = x
    BY <1>1, AwaitedByLonger
  <2> QED
    BY <1>2, <1>4, <1>5, <2>1 DEF FramesFit
<1>7. FramesNest(Append(fs, x)) /\ ScopesIn(Append(fs, x)) = ScopesIn(fs) \cup {h}
  BY <1>1, <1>2, ScopesInLonger
<1> QED
  BY <1>0, <1>2, <1>3, <1>6, <1>7, KnowsBlocksNext

(* What continues or ends the innermost statement ends its block and no    *)
(* other.                                                                  *)
LEMMA InnermostEnds ==
    ASSUME NEW t, Adds(t), t.kind # "stage", NEW h, h = Here, NEW fs \in Seq(FrameSet), NEW x \in FrameSet,
           frames = Append(fs, x), t.opener = x.at
    PROVE  /\ FramesFit(fs)' /\ FrameFits(x) /\ Outer' = Outer /\ FramesNest(fs)
           /\ \A i \in DOMAIN fs : fs[i].scope < x.at
           /\ x.at < h /\ x.at \in Nat /\ Outer < x.at
           /\ Around(h + 1)' = ScopesIn(fs) \cup (IF t.kind \in OpensBlock THEN {h} ELSE {})
<1>1. FramesFit(fs) /\ FrameFits(x) /\ Outer < x.at
  <2>1. FramesFit(Append(fs, x))
    BY DEF Adds, KnowsBlocks, FramesFit
  <2>2. /\ \A i \in DOMAIN fs : i \in DOMAIN Append(fs, x) /\ Append(fs, x)[i] = fs[i]
        /\ Len(fs) + 1 \in DOMAIN Append(fs, x) /\ Append(fs, x)[Len(fs) + 1] = x
    BY AwaitedByLonger
  <2> QED
    BY <2>1, <2>2 DEF FramesFit
<1>2. /\ FramesNest(fs) /\ \A i \in DOMAIN fs : fs[i].scope < x.at
      /\ Around(h) = ScopesIn(fs) \cup {x.scope}
  BY ScopesInLonger DEF Adds, KnowsBlocks
<1>3. /\ FramesFit(fs)' /\ Outer' = Outer
      /\ \A i \in DOMAIN fs : Opening(fs[i].scope) = fs[i].at
  BY <1>1, FramesFitStill
<1>4. x.at \in Nat /\ Opening(x.scope) = x.at /\ x.at < h
  <2>1. x.at \in Nat /\ x.scope \in Nat /\ x.at <= x.scope /\ x.scope < h /\ Opening(x.scope) = x.at
    BY <1>1, FrameFitsStill
  <2>2. h \in Nat
    BY TokensAre DEF Adds
  <2> QED
    BY <2>1, <2>2
<1>5. \A i \in DOMAIN fs : fs[i].at # x.at
  <2>1. \A i \in DOMAIN fs : fs[i].at \in Nat /\ fs[i].scope \in Nat /\ fs[i].at <= fs[i].scope
    <3>1. \A i \in DOMAIN fs : fs[i] \in FrameSet /\ FrameFits(fs[i])
      BY <1>1, SequenceIs DEF FramesFit
    <3> QED
      BY <3>1, FrameFitsStill
  <2> QED
    BY <1>2, <1>4, <2>1
<1>6. Around(h)' = ScopesIn(fs)
  <2>1. Around(h)' = {q \in ScopesIn(fs) \cup {x.scope} : x.at # Opening(q)}
    BY <1>2, PresentAround
  <2>2. \A q \in ScopesIn(fs) : x.at # Opening(q)
    BY <1>3, <1>5 DEF ScopesIn
  <2> QED
    BY <1>4, <2>1, <2>2
<1>7. Around(h + 1)' = ScopesIn(fs) \cup (IF t.kind \in OpensBlock THEN {h} ELSE {})
  BY <1>6, PresentAround
<1> QED
  BY <1>1, <1>2, <1>3, <1>4, <1>7

LEMMA BlocksEnd ==
    ASSUME NEW t, Adds(t), t.kind # "stage", t.kind \notin OpensBlock,
           NEW fs \in Seq(FrameSet), NEW x \in FrameSet,
           frames = Append(fs, x), frames' = fs, t.opener = x.at
    PROVE  KnowsBlocks' /\ Outer' = Outer
<1>1. PICK h : h = Here
  OBVIOUS
<1>2. FramesFit(fs)' /\ FramesNest(fs) /\ Around(h + 1)' = ScopesIn(fs) /\ Outer' = Outer
  BY <1>1, InnermostEnds
<1> QED
  BY <1>1, <1>2, KnowsBlocksNext

LEMMA BlocksElse ==
    ASSUME NEW t, Adds(t), t.kind = "else", NEW h, h = Here,
           NEW fs \in Seq(FrameSet), NEW x \in FrameSet, x.kind = "then",
           frames = Append(fs, x), t.opener = x.at,
           NEW y \in FrameSet, y.kind = "else", y.at = x.at, y.scope = h, frames' = Append(fs, y)
    PROVE  KnowsBlocks' /\ Outer' = Outer
<1>1. /\ FramesFit(fs)' /\ FrameFits(x) /\ FramesNest(fs) /\ Outer' = Outer
      /\ \A i \in DOMAIN fs : fs[i].scope < x.at
      /\ x.at < h /\ Outer < x.at /\ Around(h + 1)' = ScopesIn(fs) \cup {h}
  BY InnermostEnds DEF OpensBlock
<1>2. FrameFits(y)'
  <2>1. /\ Tokens' = Tokens \cup {h} /\ program'[h] = t /\ Kind(h)' = t.kind
        /\ \A p \in Tokens : Kind(p)' = Kind(p)
    BY Added
  <2>2. x.at \in Tokens /\ Kind(x.at) = "if"
    BY <1>1 DEF FrameFits
  <2> QED
    BY <1>1, <2>1, <2>2 DEF FrameFits
<1>3. FramesFit(Append(fs, y))'
  <2>1. /\ DOMAIN Append(fs, y) = DOMAIN fs \cup {Len(fs) + 1}
        /\ \A i \in DOMAIN fs : Append(fs, y)[i] = fs[i]
        /\ Append(fs, y)[Len(fs) + 1] = y
    BY AwaitedByLonger
  <2> QED
    BY <1>1, <1>2, <2>1 DEF FramesFit
<1>4. FramesNest(Append(fs, y)) /\ ScopesIn(Append(fs, y)) = ScopesIn(fs) \cup {h}
  BY <1>1, ScopesInLonger
<1> QED
  BY <1>1, <1>3, <1>4, KnowsBlocksNext

LEMMA BlocksStage ==
    ASSUME NEW t, Adds(t), t.kind = "stage", t.opener = 0, frames = <<>>, frames' = <<>>
    PROVE  KnowsBlocks' /\ Outer' = Here
<1>1. PICK h : h = Here
  OBVIOUS
<1>2. Outer' = h
  BY <1>1, OuterIs
<1>3. FramesFit(<<>>)' /\ FramesNest(<<>>) /\ ScopesIn(<<>>) = {}
  BY NoFrames DEF FramesFit, FramesNest, ScopesIn
<1>4. Around(h) = {}
  BY <1>1, <1>3 DEF Adds, KnowsBlocks
<1>5. Around(h + 1)' = {}
  BY <1>1, <1>4, PresentAround DEF OpensBlock
<1> QED
  BY <1>1, <1>2, <1>3, <1>5, KnowsBlocksNext

-----------------------------------------------------------------------------
(* What the moves of the lowerer leave in the blocks *)

Shaped(f) == f \in FunctionSet /\ f.current \in DOMAIN f.blocks
Told(f) == f.errors \ {"duplicate terminator"}
Does(f, g, marks, told) ==
    /\ Shaped(g) /\ DOMAIN f.blocks \subseteq DOMAIN g.blocks
    /\ Marks(g) = Marks(f) \cup marks
    /\ Told(g) = Told(f) \cup told

LEMMA SoundIsShaped == \A f : Sound(f) => Shaped(f)
  BY DEF Sound, Shaped

LEMMA DoesFurther ==
    ASSUME NEW f, NEW g, NEW h, NEW m, NEW n, NEW told, NEW more, Does(f, g, m, told), Does(g, h, n, more)
    PROVE  Does(f, h, m \cup n, told \cup more)
  BY DEF Does

LEMMA MarksSame ==
    ASSUME NEW f, NEW g, DOMAIN g.blocks = DOMAIN f.blocks,
           \A b \in DOMAIN f.blocks : g.blocks[b].code = f.blocks[b].code
    PROVE  Marks(g) = Marks(f)
<1>1. \A b \in DOMAIN f.blocks : MarksOf(g.blocks[b].code) = MarksOf(f.blocks[b].code)
  OBVIOUS
<1> QED
  BY <1>1 DEF Marks

LEMMA EnterDoes ==
    ASSUME NEW f, Shaped(f), NEW b \in DOMAIN f.blocks
    PROVE  Does(f, EnterBlock(f, b), {}, {})
<1> DEFINE g == EnterBlock(f, b)
<1>1. DOMAIN f.blocks \subseteq Nat
  BY FunctionIs DEF Shaped
<1>2. g \in FunctionSet /\ g.blocks = f.blocks /\ g.current = b /\ g.errors = f.errors
  BY <1>1 DEF Shaped, FunctionSet, EnterBlock
<1> HIDE DEF g
<1>3. Marks(g) = Marks(f)
  BY <1>2, MarksSame
<1>4. Does(f, g, {}, {})
  BY <1>2, <1>3 DEF Does, Shaped, Told
<1> QED
  BY <1>4 DEF g

LEMMA ValuesDo ==
    ASSUME NEW f, Shaped(f), NEW n \in Nat
    PROVE  Does(f, NewValues(f, n), {}, {})
<1> DEFINE g == NewValues(f, n)
<1>2. g \in FunctionSet /\ g.blocks = f.blocks /\ g.current = f.current /\ g.errors = f.errors
  BY DEF Shaped, FunctionSet, NewValues
<1> HIDE DEF g
<1>3. Marks(g) = Marks(f)
  BY <1>2, MarksSame
<1>4. Does(f, g, {}, {})
  BY <1>2, <1>3 DEF Does, Shaped, Told
<1> QED
  BY <1>4 DEF g

LEMMA FailDoes ==
    ASSUME NEW f, Shaped(f), NEW error \in Errors, error # "duplicate terminator"
    PROVE  Does(f, Fail(f, error), {}, {error})
<1> DEFINE g == Fail(f, error)
<1>2. g \in FunctionSet /\ g.blocks = f.blocks /\ g.current = f.current /\ g.errors = f.errors \cup {error}
  BY DEF Shaped, FunctionSet, Fail
<1> HIDE DEF g
<1>3. Marks(g) = Marks(f)
  BY <1>2, MarksSame
<1>4. Does(f, g, {}, {error})
  BY <1>2, <1>3 DEF Does, Shaped, Told
<1> QED
  BY <1>4 DEF g

LEMMA BlocksDo ==
    ASSUME NEW f, Shaped(f), NEW n \in Nat
    PROVE  LET g == NewBlocks(f, n)
           IN  Does(f, g, {}, {}) /\ Len(g.blocks) = Len(f.blocks) + n /\ g.current = f.current
                  /\ DOMAIN g.blocks = 1 .. Len(f.blocks) + n /\ g.values = f.values
<1> DEFINE g == NewBlocks(f, n)
           more == [i \in 1 .. n |-> EmptyBlock]
<1>1. EmptyBlock \in BlockSet
  BY DEF EmptyBlock, BlockSet, TermSet, TermOps, Open, Term, NoEvent, Event, Phases
<1>2. more \in Seq(BlockSet) /\ Len(more) = n
  BY <1>1
<1>3. /\ f.blocks \in Seq(BlockSet) /\ Len(f.blocks) \in Nat /\ DOMAIN f.blocks = 1 .. Len(f.blocks)
  BY FunctionIs DEF Shaped
<1>4. /\ g \in FunctionSet /\ g.blocks = f.blocks \o more /\ g.current = f.current /\ g.errors = f.errors
      /\ g.values = f.values
  BY <1>2, <1>3, ConcatProperties DEF Shaped, FunctionSet, NewBlocks
<1>5. /\ Len(g.blocks) = Len(f.blocks) + n
      /\ DOMAIN g.blocks = 1 .. Len(f.blocks) + n
      /\ \A b \in DOMAIN f.blocks : b \in DOMAIN g.blocks /\ g.blocks[b] = f.blocks[b]
      /\ \A b \in DOMAIN g.blocks : b \in DOMAIN f.blocks \/ g.blocks[b] = EmptyBlock
  BY <1>2, <1>3, <1>4, ConcatProperties
<1>6. MarksOf(EmptyBlock.code) = {}
  BY DEF MarksOf, EmptyBlock
<1> HIDE DEF g
<1>7. Marks(g) = Marks(f)
  BY <1>5, <1>6 DEF Marks
<1>8. Does(f, g, {}, {})
  BY <1>4, <1>5, <1>7 DEF Does, Shaped, Told
<1> QED
  BY <1>4, <1>5, <1>8 DEF g

LEMMA TerminatorDoes ==
    ASSUME NEW f, Shaped(f), NEW term \in TermSet
    PROVE  LET g == SetTerminator(f, term)
           IN  Does(f, g, {}, {}) /\ g.current = f.current /\ DOMAIN g.blocks = DOMAIN f.blocks
                  /\ Len(g.blocks) = Len(f.blocks)
<1> DEFINE g == SetTerminator(f, term)
           other(b) == [f.blocks[b] EXCEPT
                           !.term = IF b = f.current THEN term ELSE @,
                           !.preds = IF b \in Successors(term) THEN @ \cup {f.current} ELSE @]
<1>0. /\ f \in FunctionSet /\ f.current \in Nat /\ Len(f.blocks) \in Nat /\ DOMAIN f.blocks = 1 .. Len(f.blocks)
      /\ f.errors \in SUBSET Errors
      /\ \A b \in DOMAIN f.blocks : f.blocks[b] \in BlockSet
  BY FunctionIs DEF Shaped
<1>1. CASE Terminated(f)
  <2>1. /\ g \in FunctionSet /\ g.blocks = f.blocks /\ g.current = f.current
        /\ g.errors = f.errors \cup {"duplicate terminator"}
    BY <1>0, <1>1 DEF FunctionSet, SetTerminator, Errors
  <2> HIDE DEF g
  <2>2. Marks(g) = Marks(f)
    BY <2>1, MarksSame
  <2>3. Does(f, g, {}, {})
    BY <2>1, <2>2 DEF Does, Shaped, Told
  <2> QED
    BY <2>1, <2>3 DEF g
<1>2. CASE ~Terminated(f)
  <2>1. ASSUME NEW b \in DOMAIN f.blocks
        PROVE  other(b) \in BlockSet /\ other(b).code = f.blocks[b].code
    <3>1. f.blocks[b] \in BlockSet
      BY <1>0
    <3> QED
      BY <1>0, <3>1 DEF BlockSet
  <2> DEFINE bs == [b \in DOMAIN f.blocks |-> other(b)]
  <2>2. g = [f EXCEPT !.blocks = bs]
    BY <1>2 DEF SetTerminator
  <2>3. bs \in Seq(BlockSet) /\ Len(bs) = Len(f.blocks) /\ DOMAIN bs = DOMAIN f.blocks
    <3>1. \A b \in 1 .. Len(f.blocks) : other(b) \in BlockSet
      BY <1>0, <2>1
    <3>2. bs = [b \in 1 .. Len(f.blocks) |-> other(b)]
      BY <1>0
    <3> HIDE DEF other
    <3> QED
      BY <1>0, <3>1, <3>2
  <2>4. \A b \in DOMAIN f.blocks : bs[b].code = f.blocks[b].code
    BY <2>1
  <2> HIDE DEF bs
  <2>5. g \in FunctionSet /\ g.blocks = bs /\ g.current = f.current /\ g.errors = f.errors
    BY <1>0, <2>2, <2>3 DEF FunctionSet
  <2> HIDE DEF g
  <2>6. Marks(g) = Marks(f)
    BY <2>3, <2>4, <2>5, MarksSame
  <2>7. Does(f, g, {}, {})
    BY <2>3, <2>5, <2>6 DEF Does, Shaped, Told
  <2> QED
    BY <2>3, <2>5, <2>7 DEF g
<1> QED
  BY <1>1, <1>2

LEMMA CloseDoes ==
    ASSUME NEW f, Shaped(f), NEW term \in TermSet
    PROVE  LET g == Close(f, term)
           IN  Does(f, g, {}, {}) /\ g.current = f.current /\ DOMAIN g.blocks = DOMAIN f.blocks
<1>1. Does(f, f, {}, {})
  BY DEF Does
<1> QED
  BY <1>1, TerminatorDoes DEF Close

LEMMA EmitDoes ==
    ASSUME NEW f, Shaped(f), NEW instrs \in Seq(InstrSet)
    PROVE  LET g == Emit(f, instrs)
           IN  Does(f, g, MarksOf(instrs), {}) /\ g.current = f.current /\ g.values = f.values
                  /\ DOMAIN g.blocks = DOMAIN f.blocks /\ Len(g.blocks) = Len(f.blocks)
<1> DEFINE g == Emit(f, instrs)
           old == f.blocks[f.current].code
           now == [f.blocks[f.current] EXCEPT !.code = old \o instrs]
           bs == [f.blocks EXCEPT ![f.current] = now]
<1>0. /\ f \in FunctionSet /\ f.current \in DOMAIN f.blocks /\ Len(f.blocks) \in Nat /\ DOMAIN f.blocks = 1 .. Len(f.blocks)
      /\ f.blocks \in Seq(BlockSet) /\ f.blocks[f.current] \in BlockSet /\ old \in Seq(InstrSet)
  BY FunctionIs DEF Shaped
<1>1. g = [f EXCEPT !.blocks = bs]
  BY <1>0 DEF Emit, FunctionSet
<1>2. /\ old \o instrs \in Seq(InstrSet) /\ Len(old \o instrs) = Len(old) + Len(instrs)
      /\ \A k \in 1 .. Len(old) : (old \o instrs)[k] = old[k]
      /\ \A k \in 1 .. Len(instrs) : (old \o instrs)[Len(old) + k] = instrs[k]
  BY <1>0, ConcatProperties
<1>3. now \in BlockSet /\ now.code = old \o instrs
  BY <1>0, <1>2 DEF BlockSet
<1>4. bs \in Seq(BlockSet) /\ Len(bs) = Len(f.blocks) /\ DOMAIN bs = DOMAIN f.blocks
  <2> HIDE DEF now
  <2> QED
    BY <1>0, <1>3, ExceptSeq
<1>5. bs[f.current] = now /\ \A b \in DOMAIN f.blocks : b # f.current => bs[b] = f.blocks[b]
  BY <1>0
<1>6. MarksOf(old \o instrs) = MarksOf(old) \cup MarksOf(instrs)
  <2> DEFINE both == old \o instrs
             m == Len(old)
             n == Len(instrs)
  <2>1. m \in Nat /\ n \in Nat /\ DOMAIN old = 1 .. m /\ DOMAIN instrs = 1 .. n /\ DOMAIN both = 1 .. m + n
    BY <1>0, <1>2, SequenceIs
  <2>2. /\ \A k \in DOMAIN old : both[k] = old[k] /\ k \in DOMAIN both
        /\ \A k \in DOMAIN instrs : both[m + k] = instrs[k] /\ m + k \in DOMAIN both
    <3>1. \A k \in 1 .. m : k \in 1 .. m + n
      BY <2>1
    <3>2. \A k \in 1 .. n : m + k \in 1 .. m + n
      BY <2>1, Shifted
    <3>3. \A k \in 1 .. n : both[m + k] = instrs[k]
      BY <1>2
    <3> QED
      BY <1>2, <2>1, <3>1, <3>2, <3>3
  <2>3. \A k \in DOMAIN both : k \in DOMAIN old \/ (k - m \in DOMAIN instrs /\ both[k] = instrs[k - m])
    <3>1. \A k \in 1 .. m + n : k \in 1 .. m \/ (k - m \in 1 .. n /\ m + (k - m) = k)
      BY <2>1
    <3> QED
      BY <2>1, <2>2, <3>1
  <2> HIDE DEF both, m, n
  <2>4. MarksOf(both) = MarksOf(old) \cup MarksOf(instrs)
    BY <2>2, <2>3 DEF MarksOf
  <2> QED
    BY <2>4 DEF both
<1> HIDE DEF bs, now
<1>7. g \in FunctionSet /\ g.blocks = bs /\ g.current = f.current /\ g.errors = f.errors /\ g.values = f.values
  BY <1>0, <1>1, <1>4 DEF FunctionSet
<1> HIDE DEF g
<1>8. Marks(g) = Marks(f) \cup MarksOf(instrs)
  <2>1. \A b \in DOMAIN f.blocks : MarksOf(g.blocks[b].code) =
            MarksOf(f.blocks[b].code) \cup (IF b = f.current THEN MarksOf(instrs) ELSE {})
    BY <1>3, <1>5, <1>6, <1>7
  <2>2. DOMAIN g.blocks = DOMAIN f.blocks
    BY <1>4, <1>7
  <2>3. \A x : x \in Marks(g) <=> \E b \in DOMAIN f.blocks : x \in MarksOf(g.blocks[b].code)
    BY <2>2 DEF Marks
  <2>4. \A x : x \in Marks(f) <=> \E b \in DOMAIN f.blocks : x \in MarksOf(f.blocks[b].code)
    BY DEF Marks
  <2>5. \A x : x \in Marks(g) <=> x \in Marks(f) \/ x \in MarksOf(instrs)
    BY <1>0, <2>1, <2>3, <2>4
  <2> QED
    BY <2>5
<1>9. Does(f, g, MarksOf(instrs), {})
  BY <1>0, <1>4, <1>7, <1>8 DEF Does, Shaped, Told
<1> QED
  BY <1>4, <1>7, <1>9 DEF g

LEMMA PatchDoes ==
    ASSUME NEW f, Shaped(f), NEW header \in DOMAIN f.blocks, NEW index, NEW value \in Nat, NEW pred \in Nat
    PROVE  LET g == PatchPhi(f, header, index, value, pred)
           IN  Does(f, g, {}, {}) /\ DOMAIN g.blocks = DOMAIN f.blocks
<1> DEFINE g == PatchPhi(f, header, index, value, pred)
           old == f.blocks[header].code
           patched(k) == IF old[k].op = "phi" /\ old[k].def = index
                         THEN AddInput(old[k], <<value, pred>>) ELSE old[k]
           code == [k \in DOMAIN old |-> patched(k)]
           now == [f.blocks[header] EXCEPT !.code = code]
           bs == [f.blocks EXCEPT ![header] = now]
<1>0. /\ f \in FunctionSet /\ f.current \in DOMAIN f.blocks /\ Len(f.blocks) \in Nat /\ DOMAIN f.blocks = 1 .. Len(f.blocks)
      /\ f.blocks \in Seq(BlockSet) /\ f.blocks[header] \in BlockSet
      /\ old \in Seq(InstrSet) /\ Len(old) \in Nat /\ DOMAIN old = 1 .. Len(old)
      /\ \A k \in DOMAIN old : old[k] \in InstrSet
  BY FunctionIs DEF Shaped
<1>1. g = [f EXCEPT !.blocks = bs]
  BY <1>0 DEF PatchPhi, FunctionSet, BlockSet
<1>2. ASSUME NEW k \in DOMAIN old
      PROVE  patched(k) \in InstrSet /\ MarkOf(patched(k)) = MarkOf(old[k])
  <2>1. PICK i \in InstrSet : i = old[k]
    BY <1>0
  <2>2. AddInput(i, <<value, pred>>) \in InstrSet
    <3>1. i.inputs \cup {<<value, pred>>} \in SUBSET (Nat \X Nat)
      BY DEF InstrSet
    <3> QED
      BY <3>1 DEF AddInput, InstrSet
  <2>3. MarkOf(AddInput(i, <<value, pred>>)) = MarkOf(i)
    BY DEF AddInput, InstrSet, MarkOf
  <2> QED
    BY <2>1, <2>2, <2>3
<1> HIDE DEF patched
<1>3. code \in Seq(InstrSet) /\ DOMAIN code = DOMAIN old /\ MarksOf(code) = MarksOf(old)
  <2>1. \A k \in 1 .. Len(old) : patched(k) \in InstrSet
    BY <1>0, <1>2
  <2>2. code \in Seq(InstrSet) /\ DOMAIN code = DOMAIN old
    BY <1>0, <2>1
  <2>3. MarksOf(code) = MarksOf(old)
    BY <1>2 DEF MarksOf
  <2> QED
    BY <2>2, <2>3
<1> HIDE DEF code
<1>4. now \in BlockSet /\ now.code = code
  BY <1>0, <1>3 DEF BlockSet
<1> HIDE DEF now
<1>5. bs \in Seq(BlockSet) /\ Len(bs) = Len(f.blocks) /\ DOMAIN bs = DOMAIN f.blocks
  BY <1>0, <1>4, ExceptSeq
<1>6. bs[header] = now /\ \A b \in DOMAIN f.blocks : b # header => bs[b] = f.blocks[b]
  BY <1>0
<1> HIDE DEF bs
<1>7. g \in FunctionSet /\ g.blocks = bs /\ g.current = f.current /\ g.errors = f.errors
  BY <1>0, <1>1, <1>5 DEF FunctionSet
<1> HIDE DEF g
<1>8. Marks(g) = Marks(f)
  <2>1. \A b \in DOMAIN f.blocks : MarksOf(g.blocks[b].code) = MarksOf(f.blocks[b].code)
    BY <1>3, <1>4, <1>6, <1>7
  <2>2. DOMAIN g.blocks = DOMAIN f.blocks
    BY <1>5, <1>7
  <2> QED
    BY <2>1, <2>2 DEF Marks
<1>9. Does(f, g, {}, {})
  BY <1>0, <1>5, <1>7, <1>8 DEF Does, Shaped, Told
<1> QED
  BY <1>5, <1>7, <1>9 DEF g

LEMMA EnsureDoes ==
    ASSUME NEW f, Shaped(f)
    PROVE  LET g == EnsureOpenBlock(f)
           IN  Does(f, g, {}, {}) /\ g.values = f.values
<1>1. CASE ~Terminated(f)
  BY <1>1 DEF Does, EnsureOpenBlock
<1>2. CASE Terminated(f)
  <2> DEFINE m == NewBlocks(f, 1)
             g == EnterBlock(m, Len(f.blocks) + 1)
  <2>1. Does(f, m, {}, {}) /\ DOMAIN m.blocks = 1 .. Len(f.blocks) + 1 /\ m.values = f.values
    BY BlocksDo
  <2>2. Len(f.blocks) + 1 \in DOMAIN m.blocks
    BY <2>1, FunctionIs DEF Shaped
  <2>3. Does(m, g, {}, {})
    BY <2>1, <2>2, EnterDoes DEF Does
  <2>4. Does(f, g, {}, {})
    BY <2>1, <2>3, DoesFurther
  <2>5. g.values = f.values
    <3>1. m \in FunctionSet
      BY <2>1 DEF Does, Shaped
    <3> QED
      BY <2>1, <3>1 DEF EnterBlock, FunctionSet
  <2>6. EnsureOpenBlock(f) = g
    BY <1>2 DEF EnsureOpenBlock
  <2> QED
    BY <2>4, <2>5, <2>6
<1> QED
  BY <1>1, <1>2

(* Moves that touch no variable *)
Quiet(marks) == \A m \in marks : m[1] # "alloc" /\ m[4][2] # "do"
Quietly(f, g) == Shaped(f) /\ \E marks : Quiet(marks) /\ Does(f, g, marks, {})

LEMMA QuietlyDone ==
    ASSUME NEW f, NEW g, Quietly(f, g), NEW h, Does(g, h, {}, {})
    PROVE  Quietly(f, h) /\ Shaped(h) /\ DOMAIN g.blocks \subseteq DOMAIN h.blocks
<1>1. PICK marks : Quiet(marks) /\ Does(f, g, marks, {})
  BY DEF Quietly
<1>2. Does(f, h, marks \cup {}, {} \cup {})
  BY <1>1, DoesFurther
<1>3. marks \cup {} = marks /\ {} \cup {} = {}
  OBVIOUS
<1>4. Does(f, h, marks, {})
  BY <1>2, <1>3
<1> QED
  BY <1>1, <1>4 DEF Quietly, Does

LEMMA QuietlyShaped ==
    ASSUME NEW f, NEW g, Quietly(f, g)
    PROVE  Shaped(g) /\ DOMAIN f.blocks \subseteq DOMAIN g.blocks
  BY DEF Quietly, Does

LEMMA QuietlyEnters ==
    ASSUME NEW f, NEW g, Quietly(f, g), NEW b \in DOMAIN g.blocks
    PROVE  Quietly(f, EnterBlock(g, b)) /\ EnterBlock(g, b).blocks = g.blocks
<1>1. Shaped(g)
  BY QuietlyShaped
<1>2. EnterBlock(g, b).blocks = g.blocks
  BY <1>1 DEF EnterBlock, Shaped, FunctionSet
<1> QED
  BY <1>1, <1>2, EnterDoes, QuietlyDone

LEMMA QuietlyCounts ==
    ASSUME NEW f, NEW g, Quietly(f, g), NEW n \in Nat
    PROVE  Quietly(f, NewValues(g, n)) /\ NewValues(g, n).blocks = g.blocks
<1>1. Shaped(g)
  BY QuietlyShaped
<1>2. NewValues(g, n).blocks = g.blocks
  BY <1>1 DEF NewValues, Shaped, FunctionSet
<1> QED
  BY <1>1, <1>2, ValuesDo, QuietlyDone

LEMMA QuietlyBuilds ==
    ASSUME NEW f, NEW g, Quietly(f, g), NEW n \in Nat
    PROVE  /\ Quietly(f, NewBlocks(g, n)) /\ DOMAIN NewBlocks(g, n).blocks = 1 .. Len(g.blocks) + n
           /\ Len(g.blocks) \in Nat /\ NewBlocks(g, n).current = g.current
<1>1. Shaped(g)
  BY QuietlyShaped
<1>2. Len(g.blocks) \in Nat
  BY <1>1, FunctionIs DEF Shaped
<1> QED
  BY <1>1, <1>2, BlocksDo, QuietlyDone

LEMMA QuietlyEnds ==
    ASSUME NEW f, NEW g, Quietly(f, g), NEW term \in TermSet
    PROVE  /\ Quietly(f, SetTerminator(g, term)) /\ DOMAIN SetTerminator(g, term).blocks = DOMAIN g.blocks
           /\ Quietly(f, Close(g, term)) /\ DOMAIN Close(g, term).blocks = DOMAIN g.blocks
<1>1. Shaped(g)
  BY QuietlyShaped
<1> QED
  BY <1>1, TerminatorDoes, CloseDoes, QuietlyDone

LEMMA QuietlyPatches ==
    ASSUME NEW f, NEW g, Quietly(f, g), NEW header \in DOMAIN g.blocks, NEW index, NEW value \in Nat, NEW pred \in Nat
    PROVE  /\ Quietly(f, PatchPhi(g, header, index, value, pred))
           /\ DOMAIN PatchPhi(g, header, index, value, pred).blocks = DOMAIN g.blocks
<1>1. Shaped(g)
  BY QuietlyShaped
<1> QED
  BY <1>1, PatchDoes, QuietlyDone

LEMMA QuietlyEmits ==
    ASSUME NEW f, NEW g, Quietly(f, g), NEW instrs \in Seq(InstrSet), Quiet(MarksOf(instrs))
    PROVE  Quietly(f, Emit(g, instrs)) /\ DOMAIN Emit(g, instrs).blocks = DOMAIN g.blocks
<1>1. PICK marks : Quiet(marks) /\ Does(f, g, marks, {})
  BY DEF Quietly
<1>2. Shaped(f) /\ Shaped(g)
  BY DEF Quietly, Does
<1>3. Does(g, Emit(g, instrs), MarksOf(instrs), {}) /\ DOMAIN Emit(g, instrs).blocks = DOMAIN g.blocks
  BY <1>2, EmitDoes
<1>4. Does(f, Emit(g, instrs), marks \cup MarksOf(instrs), {} \cup {})
  BY <1>1, <1>3, DoesFurther
<1>5. Quiet(marks \cup MarksOf(instrs)) /\ {} \cup {} = {}
  BY <1>1 DEF Quiet
<1> QED
  BY <1>2, <1>3, <1>4, <1>5 DEF Quietly

LEMMA QuietlyStarts ==
    ASSUME NEW f, Shaped(f)
    PROVE  Quietly(f, f) /\ Quietly(f, EnsureOpenBlock(f)) /\ EnsureOpenBlock(f).values = f.values
<1>1. Quiet({}) /\ Does(f, f, {}, {})
  BY DEF Quiet, Does
<1>2. Quietly(f, f)
  BY <1>1 DEF Quietly
<1> QED
  BY <1>2, EnsureDoes, QuietlyDone

LEMMA QuietInstr ==
    ASSUME NEW op \in InstrOps, op # "alloc", NEW def \in Nat, NEW uses \in SUBSET Nat,
           NEW p \in Nat, NEW phase \in Phases, phase # "do"
    PROVE  LET i == Instr(op, def, uses, <<p, phase>>)
           IN  i \in InstrSet /\ MarkOf(i)[1] # "alloc" /\ MarkOf(i)[4][2] # "do"
<1>1. <<p, phase>> \in Event
  BY DEF Event
<1>2. Instr(op, def, uses, <<p, phase>>) \in InstrSet
  BY <1>1, InstrIs
<1> QED
  BY <1>2 DEF Instr, MarkOf

-----------------------------------------------------------------------------
(* What the actions leave in the blocks *)

LEMMA StartsQuietly ==
    ASSUME Inv
    PROVE  LET f == EnsureOpenBlock(fn)
           IN  /\ Shaped(fn) /\ Quietly(fn, fn) /\ Quietly(fn, f) /\ f.values = fn.values
               /\ fn.values \in Nat /\ Shaped(f) /\ f.current \in Nat /\ Len(f.blocks) \in Nat
               /\ DOMAIN fn.blocks \subseteq DOMAIN f.blocks
<1> DEFINE f == EnsureOpenBlock(fn)
<1>1. Shaped(fn)
  BY SoundIsShaped DEF Inv
<1>2. Quietly(fn, fn) /\ Quietly(fn, f) /\ f.values = fn.values
  BY <1>1, QuietlyStarts
<1> HIDE DEF f
<1>3. Shaped(f) /\ DOMAIN fn.blocks \subseteq DOMAIN f.blocks
  BY <1>2, QuietlyShaped
<1>4. fn.values \in Nat /\ f.current \in Nat /\ Len(f.blocks) \in Nat
  BY <1>1, <1>3, FunctionIs DEF Shaped
<1> QED
  BY <1>1, <1>2, <1>3, <1>4 DEF f

LEMMA QuietOne ==
    ASSUME NEW i \in InstrSet, MarkOf(i)[1] # "alloc", MarkOf(i)[4][2] # "do"
    PROVE  <<i>> \in Seq(InstrSet) /\ Quiet(MarksOf(<<i>>))
<1>1. MarksOf(<<i>>) = {MarkOf(i)}
  BY DEF MarksOf
<1> HIDE DEF MarksOf
<1> QED
  BY <1>1 DEF Quiet

LEMMA ReturnIsQuiet ==
    ASSUME Inv, Return
    PROVE  Quietly(fn, fn')
<1> DEFINE f == EnsureOpenBlock(fn)
           v == f.values + 1
           i == Instr("const", v, {}, NoEvent)
<1>1. Quietly(fn, f) /\ v \in Nat /\ Here \in Nat
  <2>1. f.values = fn.values /\ fn.values \in Nat /\ Quietly(fn, f)
    BY StartsQuietly
  <2> QED
    BY <2>1, Indices
<1>2. \A uses \in SUBSET Nat : Term("return", <<>>, uses, <<Here, "return">>) \in TermSet
  BY <1>1, ExitIs DEF Phases
<1>3. <<i>> \in Seq(InstrSet) /\ Quiet(MarksOf(<<i>>))
  <2>1. i \in InstrSet /\ MarkOf(i)[1] # "alloc" /\ MarkOf(i)[4][2] # "do"
    BY <1>1, QuietInstr DEF NoEvent, InstrOps, Phases
  <2> HIDE DEF i
  <2> QED
    BY <2>1, QuietOne
<1>4. fn' = IF unit
            THEN SetTerminator(f, Term("return", <<>>, {}, <<Here, "return">>))
            ELSE SetTerminator(NewValues(Emit(f, <<i>>), 1), Term("return", <<>>, {v}, <<Here, "return">>))
  BY DEF Return
<1> HIDE DEF f, i
<1>5. CASE unit
  BY <1>1, <1>2, <1>4, <1>5, QuietlyEnds
<1>6. CASE ~unit
  <2>1. Quietly(fn, NewValues(Emit(f, <<i>>), 1))
    BY <1>1, <1>3, QuietlyEmits, QuietlyCounts
  <2>2. Term("return", <<>>, {v}, <<Here, "return">>) \in TermSet
    BY <1>1, <1>2
  <2> QED
    BY <1>4, <1>6, <2>1, <2>2, QuietlyEnds
<1> QED
  BY <1>5, <1>6

LEMMA LeaveForDoes ==
    ASSUME Inv, NEW kind, NEW target, loops # <<>> => target \in Nat, LeaveFor(kind, target)
    PROVE  IF loops # <<>> THEN Quietly(fn, fn')
           ELSE \E marks : Quiet(marks) /\ Does(fn, fn', marks, {"outside of a loop"})
<1> DEFINE f == EnsureOpenBlock(fn)
           stuck == Term("unreachable", <<>>, {}, <<Here, "stuck">>)
<1>1. Quietly(fn, f) /\ Here \in Nat /\ Shaped(f)
  BY StartsQuietly, Indices
<1>2. CASE loops # <<>>
  <2>1. fn' = SetTerminator(f, Jump(target)) /\ Jump(target) \in TermSet
    BY <1>2, JumpIs DEF LeaveFor
  <2> HIDE DEF f
  <2> QED
    BY <1>1, <1>2, <2>1, QuietlyEnds
<1>3. CASE loops = <<>>
  <2> DEFINE g == Fail(f, "outside of a loop")
  <2>1. fn' = SetTerminator(g, stuck)
    BY <1>3 DEF LeaveFor
  <2>2. stuck \in TermSet
    BY <1>1, ExitIs DEF Phases
  <2> HIDE DEF f, stuck
  <2>3. PICK marks : Quiet(marks) /\ Does(fn, f, marks, {})
    BY <1>1 DEF Quietly
  <2>4. Does(f, g, {}, {"outside of a loop"}) /\ Shaped(g)
    <3>1. Does(f, g, {}, {"outside of a loop"})
      BY <1>1, FailDoes DEF Errors
    <3> QED
      BY <3>1 DEF Does
  <2> HIDE DEF g
  <2>5. Does(g, fn', {}, {})
    BY <2>1, <2>2, <2>4, TerminatorDoes
  <2>6. Does(fn, g, marks \cup {}, {} \cup {"outside of a loop"})
    BY <2>3, <2>4, DoesFurther
  <2>7. Does(fn, fn', (marks \cup {}) \cup {}, ({} \cup {"outside of a loop"}) \cup {})
    BY <2>5, <2>6, DoesFurther
  <2>8. (marks \cup {}) \cup {} = marks /\ ({} \cup {"outside of a loop"}) \cup {} = {"outside of a loop"}
    OBVIOUS
  <2>9. Does(fn, fn', marks, {"outside of a loop"})
    BY <2>7, <2>8
  <2> QED
    BY <1>3, <2>3, <2>9
<1> QED
  BY <1>2, <1>3

LEMMA BeginIfIsQuiet ==
    ASSUME Inv, BeginIf
    PROVE  Quietly(fn, fn')
<1> DEFINE f == EnsureOpenBlock(fn)
           v == f.values + 1
           n == Len(f.blocks)
           i == Instr("const", v, {}, <<Here, "test">>)
           e == NewValues(Emit(f, <<i>>), 1)
           tested == NewBlocks(e, 3)
           t == Branch(v, n + 1, n + 2)
<1>1. Quietly(fn, f) /\ v \in Nat /\ Here \in Nat /\ n \in Nat /\ Shaped(f)
  <2>1. f.values = fn.values /\ fn.values \in Nat /\ Quietly(fn, f) /\ n \in Nat /\ Shaped(f)
    BY StartsQuietly
  <2> QED
    BY <2>1, Indices
<1>2. <<i>> \in Seq(InstrSet) /\ Quiet(MarksOf(<<i>>))
  <2>1. i \in InstrSet /\ MarkOf(i)[1] # "alloc" /\ MarkOf(i)[4][2] # "do"
    BY <1>1, QuietInstr, ZenonT(30) DEF InstrOps, Phases
  <2> HIDE DEF i
  <2> QED
    BY <2>1, QuietOne
<1>3. fn' = EnterBlock(SetTerminator(tested, t), n + 1)
  BY DEF BeginIf
<1>4. t \in TermSet
  BY <1>1, BranchIs
<1>5. Len(Emit(f, <<i>>).blocks) = n
  BY <1>1, <1>2, EmitDoes
<1> HIDE DEF f, i, t, n
<1>6. Quietly(fn, e) /\ e.blocks = Emit(f, <<i>>).blocks
  BY <1>1, <1>2, QuietlyEmits, QuietlyCounts
<1> HIDE DEF e
<1>7. Quietly(fn, tested) /\ DOMAIN tested.blocks = 1 .. n + 3
  <2>1. Len(e.blocks) = n
    BY <1>5, <1>6
  <2>2. 3 \in Nat
    OBVIOUS
  <2>3. Quietly(fn, NewBlocks(e, 3)) /\ DOMAIN NewBlocks(e, 3).blocks = 1 .. Len(e.blocks) + 3
    BY <1>6, <2>2, QuietlyBuilds
  <2> QED
    BY <2>1, <2>3
<1> HIDE DEF tested
<1>8. Quietly(fn, SetTerminator(tested, t)) /\ n + 1 \in DOMAIN SetTerminator(tested, t).blocks
  BY <1>1, <1>4, <1>7, QuietlyEnds
<1> QED
  BY <1>3, <1>8, QuietlyEnters

LEMMA TargetsOf ==
    ASSUME Inv, ~done, frames # <<>>, NEW x, x = Last(frames)
    PROVE  /\ x \in FrameSet /\ x.other \in DOMAIN fn.blocks /\ x.exit \in DOMAIN fn.blocks
           /\ x.other \in Nat /\ x.exit \in Nat /\ x.index \in Nat /\ x.at \in Nat
           /\ Jump(x.other) \in TermSet /\ Jump(x.exit) \in TermSet
           /\ x.kind = "for" => x.other - 2 \in DOMAIN fn.blocks /\ x.other - 2 \in Nat
<1>1. /\ x \in FrameSet /\ x.other \in DOMAIN fn.blocks /\ x.exit \in DOMAIN fn.blocks
      /\ x.kind = "for" => x.other > 2
  BY LastFrame
<1>2. x.other \in Nat /\ x.exit \in Nat /\ x.index \in Nat /\ x.at \in Nat
  BY <1>1, AwaitedIs
<1>3. Jump(x.other) \in TermSet /\ Jump(x.exit) \in TermSet
  BY <1>2, JumpIs
<1>4. DOMAIN fn.blocks = 1 .. Len(fn.blocks) /\ Len(fn.blocks) \in Nat
  BY FunctionIs DEF Inv, Sound
<1>5. x.kind = "for" => x.other - 2 \in DOMAIN fn.blocks /\ x.other - 2 \in Nat
  BY <1>1, <1>2, <1>4
<1> QED
  BY <1>1, <1>2, <1>3, <1>5

LEMMA ElseIsQuiet ==
    ASSUME Inv, Else
    PROVE  Quietly(fn, fn')
<1>1. PICK x : x = Last(frames)
  OBVIOUS
<1>2. /\ ~done /\ frames # <<>> /\ fn' = EnterBlock(Close(fn, Jump(x.exit)), x.other)
  BY <1>1 DEF Else
<1>3. x.other \in DOMAIN fn.blocks /\ Jump(x.exit) \in TermSet
  BY <1>1, <1>2, TargetsOf
<1>4. /\ Quietly(fn, Close(fn, Jump(x.exit)))
      /\ DOMAIN Close(fn, Jump(x.exit)).blocks = DOMAIN fn.blocks
  BY <1>3, StartsQuietly, QuietlyEnds
<1> QED
  BY <1>2, <1>3, <1>4, QuietlyEnters

LEMMA EndIfIsQuiet ==
    ASSUME Inv, EndIf
    PROVE  Quietly(fn, fn')
<1>1. PICK x : x = Last(frames)
  OBVIOUS
<1>2. PICK c : c = Close(fn, Jump(x.exit))
  OBVIOUS
<1>3. /\ ~done /\ frames # <<>>
      /\ fn' = EnterBlock(IF x.kind = "else" THEN c ELSE SetTerminator(EnterBlock(c, x.other), Jump(x.exit)), x.exit)
  BY <1>1, <1>2 DEF EndIf
<1>4. /\ x.other \in DOMAIN fn.blocks /\ x.exit \in DOMAIN fn.blocks /\ Jump(x.exit) \in TermSet
  BY <1>1, <1>3, TargetsOf
<1>5. Quietly(fn, c) /\ DOMAIN c.blocks = DOMAIN fn.blocks
  BY <1>2, <1>4, StartsQuietly, QuietlyEnds
<1>6. CASE x.kind = "else"
  BY <1>3, <1>4, <1>5, <1>6, QuietlyEnters
<1>7. CASE x.kind # "else"
  <2>1. PICK e : e = EnterBlock(c, x.other)
    OBVIOUS
  <2>2. Quietly(fn, e) /\ e.blocks = c.blocks
    BY <1>4, <1>5, <2>1, QuietlyEnters
  <2>3. Quietly(fn, SetTerminator(e, Jump(x.exit))) /\ DOMAIN SetTerminator(e, Jump(x.exit)).blocks = DOMAIN e.blocks
    BY <1>4, <2>2, QuietlyEnds
  <2> QED
    BY <1>3, <1>4, <1>5, <1>7, <2>1, <2>2, <2>3, QuietlyEnters
<1> QED
  BY <1>6, <1>7

LEMMA EndWhileIsQuiet ==
    ASSUME Inv, EndWhile
    PROVE  Quietly(fn, fn')
<1>1. PICK x : x = Last(frames)
  OBVIOUS
<1>2. /\ ~done /\ frames # <<>> /\ fn' = EnterBlock(Close(fn, Jump(x.other)), x.exit)
  BY <1>1 DEF EndWhile
<1>3. x.exit \in DOMAIN fn.blocks /\ Jump(x.other) \in TermSet
  BY <1>1, <1>2, TargetsOf
<1>4. /\ Quietly(fn, Close(fn, Jump(x.other)))
      /\ DOMAIN Close(fn, Jump(x.other)).blocks = DOMAIN fn.blocks
  BY <1>3, StartsQuietly, QuietlyEnds
<1> QED
  BY <1>2, <1>3, <1>4, QuietlyEnters

LEMMA QuietTwo ==
    ASSUME NEW i \in InstrSet, MarkOf(i)[1] # "alloc", MarkOf(i)[4][2] # "do",
           NEW j \in InstrSet, MarkOf(j)[1] # "alloc", MarkOf(j)[4][2] # "do"
    PROVE  <<i, j>> \in Seq(InstrSet) /\ Quiet(MarksOf(<<i, j>>))
<1>1. MarksOf(<<i, j>>) = {MarkOf(i), MarkOf(j)}
  BY DEF MarksOf
<1> HIDE DEF MarksOf
<1> QED
  BY <1>1 DEF Quiet

LEMMA EndForIsQuiet ==
    ASSUME Inv, EndFor
    PROVE  Quietly(fn, fn')
<1>1. PICK x : x = Last(frames)
  OBVIOUS
<1>2. PICK v, i, j : /\ v = fn.values /\ i = Instr("const", v + 1, {}, NoEvent)
                     /\ j = Instr("binop", v + 2, {v + 1, x.index}, <<x.at, "step">>)
  OBVIOUS
<1>3. PICK c, e, s, k, d, p :
         /\ c = Close(fn, Jump(x.other)) /\ e = EnterBlock(c, x.other) /\ s = Emit(e, <<i, j>>)
         /\ k = NewValues(s, 2) /\ d = SetTerminator(k, Jump(x.other - 2))
         /\ p = PatchPhi(d, x.other - 2, x.index, v + 2, x.other)
  OBVIOUS
<1>4. ~done /\ frames # <<>> /\ x.kind = "for" /\ fn' = EnterBlock(p, x.exit)
  BY <1>1, <1>2, <1>3 DEF EndFor
<1>5. /\ x.other \in DOMAIN fn.blocks /\ x.exit \in DOMAIN fn.blocks /\ Jump(x.other) \in TermSet
      /\ x.other \in Nat /\ x.index \in Nat /\ x.at \in Nat
      /\ x.other - 2 \in DOMAIN fn.blocks /\ x.other - 2 \in Nat
  BY <1>1, <1>4, TargetsOf
<1>6. Quietly(fn, c) /\ DOMAIN c.blocks = DOMAIN fn.blocks
  BY <1>3, <1>5, StartsQuietly, QuietlyEnds
<1>7. Quietly(fn, e) /\ DOMAIN e.blocks = DOMAIN fn.blocks
  BY <1>3, <1>5, <1>6, QuietlyEnters
<1>8. v \in Nat /\ v + 1 \in Nat /\ v + 2 \in Nat
  BY <1>2, StartsQuietly
<1>9. <<i, j>> \in Seq(InstrSet) /\ Quiet(MarksOf(<<i, j>>))
  <2>1. i \in InstrSet /\ MarkOf(i)[1] # "alloc" /\ MarkOf(i)[4][2] # "do"
    <3>1. "const" \in InstrOps /\ {} \in SUBSET Nat /\ 0 \in Nat /\ "none" \in Phases /\ NoEvent = <<0, "none">>
      BY DEF NoEvent, InstrOps, Phases
    <3> QED
      BY <1>2, <1>8, <3>1, QuietInstr
  <2>2. j \in InstrSet /\ MarkOf(j)[1] # "alloc" /\ MarkOf(j)[4][2] # "do"
    <3>1. {v + 1, x.index} \in SUBSET Nat /\ "binop" \in InstrOps /\ "step" \in Phases
      BY <1>5, <1>8 DEF InstrOps, Phases
    <3> QED
      BY <1>2, <1>5, <1>8, <3>1, QuietInstr
  <2> QED
    BY <2>1, <2>2, QuietTwo
<1>10. Quietly(fn, s) /\ DOMAIN s.blocks = DOMAIN fn.blocks
  BY <1>3, <1>7, <1>9, QuietlyEmits
<1>11. Quietly(fn, k) /\ DOMAIN k.blocks = DOMAIN fn.blocks
  BY <1>3, <1>10, QuietlyCounts
<1>12. Quietly(fn, d) /\ DOMAIN d.blocks = DOMAIN fn.blocks
  <2>1. Jump(x.other - 2) \in TermSet
    BY <1>5, JumpIs
  <2> QED
    BY <1>3, <1>11, <2>1, QuietlyEnds
<1>13. Quietly(fn, p) /\ DOMAIN p.blocks = DOMAIN fn.blocks
  BY <1>3, <1>5, <1>8, <1>12, QuietlyPatches
<1> QED
  BY <1>4, <1>5, <1>13, QuietlyEnters

LEMMA BeginWhileIsQuiet ==
    ASSUME Inv, BeginWhile
    PROVE  Quietly(fn, fn')
<1>1. PICK f, n, v : f = EnsureOpenBlock(fn) /\ n = Len(f.blocks) /\ v = f.values + 1
  OBVIOUS
<1>2. PICK i, t : i = Instr("const", v, {}, <<Here, "test">>) /\ t = Branch(v, n + 2, n + 3)
  OBVIOUS
<1>3. PICK b, j, e, s, k, d :
         /\ b = NewBlocks(f, 3) /\ j = SetTerminator(b, Jump(n + 1)) /\ e = EnterBlock(j, n + 1)
         /\ s = Emit(e, <<i>>) /\ k = NewValues(s, 1) /\ d = SetTerminator(k, t)
  OBVIOUS
<1>4. fn' = EnterBlock(d, n + 2)
  BY <1>1, <1>2, <1>3 DEF BeginWhile
<1>5. Quietly(fn, f) /\ v \in Nat /\ Here \in Nat /\ n \in Nat
  <2>1. f.values = fn.values /\ fn.values \in Nat /\ Quietly(fn, f) /\ n \in Nat
    BY <1>1, StartsQuietly
  <2> QED
    BY <1>1, <2>1, Indices
<1>6. n + 1 \in Nat /\ n + 2 \in Nat /\ n + 3 \in Nat /\ n + 1 \in 1 .. n + 3 /\ n + 2 \in 1 .. n + 3
  BY <1>5
<1>7. Jump(n + 1) \in TermSet /\ t \in TermSet
  BY <1>2, <1>5, <1>6, JumpIs, BranchIs
<1>8. <<i>> \in Seq(InstrSet) /\ Quiet(MarksOf(<<i>>))
  <2>1. "const" \in InstrOps /\ {} \in SUBSET Nat /\ "test" \in Phases
    BY DEF InstrOps, Phases
  <2>2. i \in InstrSet /\ MarkOf(i)[1] # "alloc" /\ MarkOf(i)[4][2] # "do"
    BY <1>2, <1>5, <2>1, QuietInstr
  <2> QED
    BY <2>2, QuietOne
<1>9. Quietly(fn, b) /\ DOMAIN b.blocks = 1 .. n + 3
  <2>1. /\ Quietly(fn, NewBlocks(f, 3)) /\ DOMAIN NewBlocks(f, 3).blocks = 1 .. Len(f.blocks) + 3
    BY <1>5, QuietlyBuilds
  <2> QED
    BY <1>1, <1>3, <2>1
<1>10. Quietly(fn, j) /\ DOMAIN j.blocks = 1 .. n + 3
  <2>1. Quietly(fn, SetTerminator(b, Jump(n + 1))) /\ DOMAIN SetTerminator(b, Jump(n + 1)).blocks = DOMAIN b.blocks
    BY <1>7, <1>9, QuietlyEnds
  <2> QED
    BY <1>3, <1>9, <2>1
<1>11. Quietly(fn, e) /\ DOMAIN e.blocks = 1 .. n + 3
  BY <1>3, <1>6, <1>10, QuietlyEnters
<1>12. Quietly(fn, s) /\ DOMAIN s.blocks = 1 .. n + 3
  BY <1>3, <1>8, <1>11, QuietlyEmits
<1>13. Quietly(fn, k) /\ DOMAIN k.blocks = 1 .. n + 3
  BY <1>3, <1>12, QuietlyCounts
<1>14. Quietly(fn, d) /\ DOMAIN d.blocks = 1 .. n + 3
  <2>1. Quietly(fn, SetTerminator(k, t)) /\ DOMAIN SetTerminator(k, t).blocks = DOMAIN k.blocks
    BY <1>7, <1>13, QuietlyEnds
  <2> QED
    BY <1>3, <1>13, <2>1
<1> QED
  BY <1>4, <1>6, <1>14, QuietlyEnters

LEMMA NextStageIsQuiet ==
    ASSUME Inv, NextStage
    PROVE  Quietly(fn, fn')
<1>1. PICK c : c = Close(fn, Jump(StageBlock(stage)))
  OBVIOUS
<1>2. ~done /\ frames = <<>> /\ stage < stages /\ fn' = EnterBlock(c, stage + 2)
  BY <1>1 DEF NextStage, Room
<1>3. /\ OpenBlocks(fn) \ {fn.current} = StagesAhead
      /\ stages \in Nat /\ stage \in Nat
  BY <1>2, Outermost
<1>4. StageBlock(stage) \in Nat
  BY <1>3 DEF StageBlock, StageExit
<1>5. stage + 2 \in DOMAIN fn.blocks
  <2>1. stage + 2 \in StagesAhead
    BY <1>2, <1>3 DEF StagesAhead
  <2> QED
    BY <1>3, <2>1 DEF OpenBlocks
<1>6. Quietly(fn, c) /\ DOMAIN c.blocks = DOMAIN fn.blocks
  BY <1>1, <1>4, JumpIs, StartsQuietly, QuietlyEnds
<1> QED
  BY <1>2, <1>5, <1>6, QuietlyEnters

LEMMA FinishIsQuiet ==
    ASSUME Inv, Finish
    PROVE  Quietly(fn, fn')
<1>1. PICK c, e, g : /\ c = Close(fn, Jump(StageExit)) /\ e = EnterBlock(c, StageExit)
                     /\ g = IF stages = 0 THEN fn ELSE e
  OBVIOUS
<1>2. ~done /\ frames = <<>> /\ stage = stages /\ fn' = Close(g, DefaultTerminator)
  BY <1>1 DEF Finish
<1>3. OpenBlocks(fn) \ {fn.current} = StagesAhead /\ stages \in Nat /\ stage \in Nat
  BY <1>2, Outermost
<1>4. DefaultTerminator \in TermSet
  BY DefaultIs
<1>5. Quietly(fn, g)
  <2>1. CASE stages = 0
    BY <1>1, <2>1, StartsQuietly
  <2>2. CASE stages # 0
    <3>1. StageExit \in StagesAhead
      BY <1>2, <1>3, <2>2 DEF StagesAhead, StageExit
    <3>2. StageExit \in DOMAIN fn.blocks /\ StageExit \in Nat
      BY <1>3, <3>1 DEF OpenBlocks, StageExit
    <3>3. Quietly(fn, c) /\ DOMAIN c.blocks = DOMAIN fn.blocks
      BY <1>1, <3>2, JumpIs, StartsQuietly, QuietlyEnds
    <3> QED
      BY <1>1, <2>2, <3>2, <3>3, QuietlyEnters
  <2> QED
    BY <2>1, <2>2
<1> QED
  BY <1>2, <1>4, <1>5, QuietlyEnds

Makes(f, g, made, told) ==
    /\ Shaped(g) /\ Told(g) = Told(f) \cup told
    /\ \A m : Matters(m) => (m \in Marks(g) <=> m \in Marks(f) \cup made)

LEMMA QuietMakes ==
    ASSUME NEW f, NEW g, NEW marks, Quiet(marks), NEW made, NEW told, Does(f, g, marks \cup made, told)
    PROVE  Makes(f, g, made, told)
<1>1. \A m : Matters(m) => m \notin marks
  BY DEF Quiet, Matters
<1> QED
  BY <1>1 DEF Does, Makes

LEMMA QuietlyMakes ==
    ASSUME NEW f, NEW g, Quietly(f, g)
    PROVE  Makes(f, g, {}, {})
<1>1. PICK marks : Quiet(marks) /\ Does(f, g, marks, {})
  BY DEF Quietly
<1>2. marks \cup {} = marks
  OBVIOUS
<1> QED
  BY <1>1, <1>2, QuietMakes

(* Values and instructions of a declaration or an access *)
LEMMA EmitsMake ==
    ASSUME NEW f0, NEW f, Quietly(f0, f), NEW instrs \in Seq(InstrSet), NEW n \in Nat,
           NEW g, g = NewValues(Emit(f, instrs), n)
    PROVE  Makes(f0, g, MarksOf(instrs), {})
<1>1. PICK marks : Quiet(marks) /\ Does(f0, f, marks, {}) /\ Shaped(f)
  BY DEF Quietly, Does
<1>2. PICK e : e = Emit(f, instrs)
  OBVIOUS
<1>3. Does(f, e, MarksOf(instrs), {}) /\ Shaped(e)
  BY <1>1, <1>2, EmitDoes DEF Does
<1>4. Does(e, g, {}, {})
  BY <1>2, <1>3, ValuesDo
<1>5. Does(f0, e, marks \cup MarksOf(instrs), {} \cup {})
  BY <1>1, <1>3, DoesFurther
<1>6. Does(f0, g, (marks \cup MarksOf(instrs)) \cup {}, ({} \cup {}) \cup {})
  BY <1>4, <1>5, DoesFurther
<1>7. (marks \cup MarksOf(instrs)) \cup {} = marks \cup MarksOf(instrs) /\ ({} \cup {}) \cup {} = {}
  OBVIOUS
<1> HIDE DEF MarksOf
<1> QED
  BY <1>1, <1>6, <1>7, QuietMakes

LEMMA MarkIs ==
    ASSUME NEW op, NEW def, NEW uses, NEW event
    PROVE  MarkOf(Instr(op, def, uses, event)) = <<op, def, uses, event>>
  BY DEF MarkOf, Instr

LEMMA LetMakes ==
    ASSUME Inv, NEW name \in Names, Let(name)
    PROVE  \E slot, made :
              /\ slot \in Nat /\ Makes(fn, fn', made, {}) /\ env' = Insert(env, name, slot)
              /\ \A m : Matters(m) => (m \in made <=>
                    \/ m = <<"alloc", slot, {}, <<Here, "slot">>>>
                    \/ m[1] = "store" /\ m[4] = <<Here, "do">> /\ m \in made)
<1>1. PICK f, value, slot : f = EnsureOpenBlock(fn) /\ value = f.values + 1 /\ slot = f.values + 2
  OBVIOUS
<1>2. Quietly(fn, f) /\ value \in Nat /\ slot \in Nat /\ Here \in Nat
  <2>1. f.values = fn.values /\ fn.values \in Nat /\ Quietly(fn, f)
    BY <1>1, StartsQuietly
  <2> QED
    BY <1>1, <2>1, Indices, SMTT(30)
<1>3. PICK a, b, c : /\ a = Instr("const", value, {}, NoEvent) /\ b = Instr("alloc", slot, {}, <<Here, "slot">>)
                     /\ c = Instr("store", 0, {slot, value}, <<Here, "do">>)
  OBVIOUS
<1>4. a \in InstrSet /\ b \in InstrSet /\ c \in InstrSet
  <2>1. /\ {"const", "alloc", "store"} \subseteq InstrOps /\ {} \in SUBSET Nat /\ {slot, value} \in SUBSET Nat /\ 0 \in Nat
        /\ NoEvent \in Event /\ <<Here, "slot">> \in Event /\ <<Here, "do">> \in Event
    BY <1>2 DEF InstrOps, Event, Phases, NoEvent
  <2> QED
    BY <1>2, <1>3, <2>1, InstrIs
<1>5. <<a, b, c>> \in Seq(InstrSet)
  BY <1>4
<1>6. MarksOf(<<a, b, c>>) = {MarkOf(a), MarkOf(b), MarkOf(c)}
  BY DEF MarksOf
<1>7. /\ MarkOf(a) = <<"const", value, {}, NoEvent>> /\ MarkOf(b) = <<"alloc", slot, {}, <<Here, "slot">>>>
      /\ MarkOf(c) = <<"store", 0, {slot, value}, <<Here, "do">>>>
  BY <1>3, MarkIs
<1>8. fn' = NewValues(Emit(f, <<a, b, c>>), 2) /\ env' = Insert(env, name, slot)
  BY <1>1, <1>3 DEF Let
<1>9. Makes(fn, fn', MarksOf(<<a, b, c>>), {})
  BY <1>2, <1>5, <1>8, EmitsMake
<1> QED
  BY <1>2, <1>6, <1>7, <1>8, <1>9 DEF Matters, NoEvent

-----------------------------------------------------------------------------
(* The tokens that the actions add *)

LEMMA LastIn ==
    ASSUME NEW S, NEW s \in Seq(S), s # <<>>
    PROVE  Len(s) \in DOMAIN s /\ s[Len(s)] = Last(s)
<1>1. Len(s) \in Nat \ {0} /\ Last(s) = s[Len(s)]
  BY FrontLast
<1>2. DOMAIN s = 1 .. Len(s)
  BY SequenceIs
<1> QED
  BY <1>1, <1>2

LEMMA InScopeIs ==
    ASSUME KnowsBlocks, frames \in Seq(FrameSet)
    PROVE  /\ InScope = IF frames = <<>> THEN Outer ELSE Last(frames).scope
           /\ InScope \in Nat /\ InScope < Here
           /\ Outer \in Nat /\ Outer < Here
<1>1. PICK S : S = StagesBefore(Here)
  OBVIOUS
<1>2. Tokens \subseteq Nat /\ IsFiniteSet(Tokens) /\ Here \in Nat /\ Here > 0 /\ \A p \in Tokens : p < Here
  BY TokensAre
<1>3. S \subseteq Tokens /\ S = StageTokens
  BY <1>1, <1>2 DEF StagesBefore, StageTokens, Tokens, Kind
<1>4. S \cup {0} \in SUBSET Nat /\ S \in SUBSET Nat /\ IsFiniteSet(S \cup {0}) /\ IsFiniteSet(S)
  <2>1. IsFiniteSet(S)
    BY <1>2, <1>3, FS_Subset
  <2>2. IsFiniteSet(S \cup {0})
    BY <2>1, FS_AddElement
  <2>3. S \in SUBSET Nat
    BY <1>2, <1>3
  <2> QED
    BY <2>1, <2>2, <2>3
<1>5. Outer = LatestOf(S \cup {0})
  BY <1>1 DEF Outer
<1>6. Outer \in S \cup {0} /\ \A r \in S \cup {0} : r <= Outer
  BY <1>4, <1>5, LatestIs
<1>7. Outer \in Nat /\ Outer < Here
  BY <1>2, <1>3, <1>6
<1>8. CASE frames # <<>>
  <2>1. InScope = Last(frames).scope
    BY <1>8 DEF InScope
  <2>2. PICK i \in DOMAIN frames : frames[i] = Last(frames)
    BY <1>8, LastIn
  <2>3. Last(frames).scope \in Tokens
    BY <2>2 DEF KnowsBlocks, FrameFits
  <2> QED
    BY <1>2, <1>7, <1>8, <2>1, <2>3
<1>9. CASE frames = <<>> /\ S = {}
  <2>1. InScope = 0
    BY <1>3, <1>9 DEF InScope
  <2>2. Outer = 0
    BY <1>6, <1>9
  <2> QED
    BY <1>7, <1>9, <2>1, <2>2
<1>10. CASE frames = <<>> /\ S # {}
  <2>1. InScope = LatestOf(S)
    BY <1>3, <1>10 DEF InScope, LatestOf
  <2>2. LatestOf(S) \in S /\ \A r \in S : r <= LatestOf(S)
    BY <1>4, <1>10, LatestIs
  <2>3. \A r \in S \cup {0} : r <= LatestOf(S)
    <3>1. LatestOf(S) \in Nat
      BY <1>4, <2>2
    <3>2. 0 <= LatestOf(S)
      BY <3>1
    <3> QED
      BY <2>2, <3>2
  <2>4. LatestOf(S \cup {0}) = LatestOf(S)
    BY <1>4, <2>2, <2>3, LatestIsOnly
  <2> QED
    BY <1>5, <1>7, <1>10, <2>1, <2>4
<1> QED
  BY <1>8, <1>9, <1>10

LEMMA PlainAdds ==
    ASSUME Inv, KnowsBlocks, NEW kind \in TokenKinds, NEW name \in Names \cup {NoName}, Add(kind, name)
    PROVE  \E t : /\ Adds(t) /\ t.kind = kind /\ t.name = name /\ t.opener = 0 /\ t.scope = InScope
<1>1. PICK t : t = Token(kind, name, 0)
  OBVIOUS
<1>2. InScope \in Nat /\ InScope < Here
  BY InScopeIs DEF Inv, IsShaped
<1>3. t \in TokenSet /\ t.kind = kind /\ t.name = name /\ t.opener = 0 /\ t.scope = InScope
  BY <1>1, <1>2 DEF Token, TokenSet
<1>4. program' = Append(program, t)
  BY <1>1 DEF Add
<1> QED
  BY <1>2, <1>3, <1>4 DEF Adds

LEMMA ClosingAdds ==
    ASSUME Inv, KnowsBlocks, NEW kind \in TokenKinds, frames # <<>>, NEW x, x = Last(frames),
           program' = Append(program, [kind |-> kind, name |-> NoName,
                                       scope |-> program[x.at].scope, opener |-> x.at])
    PROVE  \E t : /\ Adds(t) /\ t.kind = kind /\ t.opener = x.at
<1>1. PICK t : t = [kind |-> kind, name |-> NoName, scope |-> program[x.at].scope, opener |-> x.at]
  OBVIOUS
<1>2. frames \in Seq(FrameSet)
  BY DEF Inv, IsShaped
<1>3. PICK i \in DOMAIN frames : frames[i] = x
  BY <1>2, LastIn
<1>4. x.at \in Tokens
  BY <1>3 DEF KnowsBlocks, FrameFits
<1>5. /\ x.at \in Nat /\ x.at < Here /\ program[x.at] \in TokenSet /\ program[x.at].scope < x.at /\ Here \in Nat
  BY <1>4, TokensAre DEF KnowsBlocks
<1>6. program[x.at].scope \in Nat /\ program[x.at].scope < Here
  <2>1. program[x.at].scope \in Nat
    BY <1>5 DEF TokenSet
  <2> QED
    BY <1>5, <2>1
<1>7. t \in TokenSet /\ t.kind = kind /\ t.opener = x.at /\ t.scope < Here
  BY <1>1, <1>5, <1>6 DEF TokenSet
<1> QED
  BY <1>1, <1>7 DEF Adds

-----------------------------------------------------------------------------
(* What is said of the tokens so far stays true. *)

LEMMA DeclaredSame ==
    ASSUME NEW t, Adds(t), NEW p \in Tokens
    PROVE  /\ Declarations(p)' = Declarations(p) /\ (Stray(p)' <=> Stray(p))
           /\ Kind(p)' = Kind(p)
<1>1. /\ Tokens' = Tokens \cup {Here} /\ \A q \in Tokens : program'[q] = program[q] /\ Kind(q)' = Kind(q)
      /\ Tokens = 1 .. Here - 1 /\ Here \in Nat
  BY Added, TokensAre DEF Adds
<1>2. \A q \in 1 .. p - 1 : q \in Tokens
  BY <1>1
<1>3. \A s, name : DeclaredIn(s, p, name)' = DeclaredIn(s, p, name)
  BY <1>1, <1>2 DEF DeclaredIn, Declares
<1>4. ScopesOf(p)' = ScopesOf(p) /\ LoopsAround(p)' = LoopsAround(p)
  BY PastKept
<1>5. PICK name : name = program[p].name
  OBVIOUS
<1>6. program'[p].name = name
  BY <1>1, <1>5
<1>7. PICK found, qs : /\ found = {s \in ScopesOf(p) : DeclaredIn(s, p, name) # {}}
                       /\ qs = DeclaredIn(LatestOf(found), p, name)
  OBVIOUS
<1>8. {s \in ScopesOf(p)' : DeclaredIn(s, p, name)' # {}} = found
  BY <1>3, <1>4, <1>7
<1>9. \A s : DeclaredIn(s, p, name)' = DeclaredIn(s, p, name)
  BY <1>3
<1>10. qs \subseteq Tokens
  BY <1>2, <1>7 DEF DeclaredIn
<1>11. {q \in qs : Kind(q)' = "let"} = {q \in qs : Kind(q) = "let"} /\ ((\E q \in qs : Kind(q)' = "let") <=> (\E q \in qs : Kind(q) = "let"))
  BY <1>1, <1>10
<1>12. Declarations(p) = IF found = {} THEN {}
         ELSE {LatestOf(IF \E q \in qs : Kind(q) = "let" THEN {q \in qs : Kind(q) = "let"} ELSE qs)}
  BY <1>5, <1>7 DEF Declarations
<1>13. Declarations(p)' = IF found = {} THEN {}
         ELSE {LatestOf(IF \E q \in qs : Kind(q)' = "let" THEN {q \in qs : Kind(q)' = "let"} ELSE qs)}
  <2>1. DeclaredIn(LatestOf(found), p, name)' = qs
    BY <1>7, <1>9
  <2> QED
    BY <1>6, <1>8, <2>1 DEF Declarations, LatestOf
<1>14. Declarations(p)' = Declarations(p)
  BY <1>11, <1>12, <1>13
<1> QED
  BY <1>1, <1>4, <1>6, <1>5, <1>14 DEF Stray

LEMMA LetsStay ==
    ASSUME NEW t, Adds(t), NEW h, h = Here, NEW s, NEW name
    PROVE  LetsIn(s, name)' = LetsIn(s, name)
                \cup (IF t.kind = "let" /\ t.name = name /\ t.scope = s THEN {h} ELSE {})
<1>1. /\ Tokens' = Tokens \cup {h} /\ h \notin Tokens
      /\ \A p \in Tokens : program'[p] = program[p] /\ Kind(p)' = Kind(p)
      /\ program'[h] = t /\ Kind(h)' = t.kind
  BY Added
<1> QED
  BY <1>1 DEF LetsIn

(* What a step leaves in the blocks is about the token it adds. *)
Fresh(made, h) == \A m \in made : Matters(m) => m[4][1] = h

LEMMA SlotsStay1 ==
    ASSUME NEW h, h = Here, KnowsBlocks, NEW made, NEW told, Makes(fn, fn', made, told), Fresh(made, h),
           NEW q \in Tokens
    PROVE  Slots(Marks(fn'), q) = Slots(Marks(fn), q)
<1>1. q # h
  BY TokensAre
<1>2. PICK old, new : old = Marks(fn) /\ new = Marks(fn')
  OBVIOUS
<1>3. \A m : m[1] = "alloc" /\ m[4][1] = q => (m \in new <=> m \in old)
  BY <1>1, <1>2 DEF Makes, Fresh, Matters
<1> QED
  BY <1>2, <1>3 DEF Slots

LEMMA SlotMade ==
    ASSUME NEW h, h = Here, KnowsBlocks, KnowsAccesses, NEW made, NEW told, Makes(fn, fn', made, told),
           NEW slot, \A m : m[1] = "alloc" => (m \in made <=> m = <<"alloc", slot, {}, <<h, "slot">>>>)
    PROVE  Slots(Marks(fn'), h) = {slot}
<1>1. h \notin Tokens
  BY TokensAre
<1>2. PICK old, new : old = Marks(fn) /\ new = Marks(fn')
  OBVIOUS
<1>3. \A m \in old : m[1] = "alloc" => m[4][1] # h
  BY <1>1, <1>2 DEF KnowsAccesses, Matters
<1>4. \A m : m[1] = "alloc" => (m \in new <=> m \in old \/ m \in made)
  BY <1>2 DEF Makes, Matters
<1>5. PICK one : one = <<"alloc", slot, {}, <<h, "slot">>>>
  OBVIOUS
<1>6. one[1] = "alloc" /\ one[2] = slot /\ one[4][1] = h
  BY <1>5
<1>7. \A m : m[1] = "alloc" /\ m[4][1] = h => (m \in new <=> m = one)
  BY <1>3, <1>4, <1>5
<1>8. {m \in new : m[1] = "alloc" /\ m[4][1] = h} = {one}
  BY <1>6, <1>7
<1> QED
  BY <1>2, <1>6, <1>8 DEF Slots

(* What the blocks and the errors have in common with the program, when    *)
(* the new token is taken care of.                                         *)
LEMMA StepKnows ==
    ASSUME Inv, Inv', KnowsBlocks, KnowsAccesses, ErrorsAreJustified,
           NEW t, Adds(t), NEW h, h = Here, NEW made, NEW told, Makes(fn, fn', made, told), Fresh(made, h),
           told # {} <=> Stray(h)',
           \A p \in {h} : \A m \in made : Accesses(p, m)' => Resolves(p, m)'
    PROVE  KnowsAccesses' /\ ErrorsAreJustified'
<1>1. /\ Tokens' = Tokens \cup {h} /\ h \notin Tokens
      /\ \A p \in Tokens : program'[p] = program[p] /\ Kind(p)' = Kind(p)
  BY Added
<1>2. \A p \in Tokens : Declarations(p)' = Declarations(p) /\ (Stray(p)' <=> Stray(p))
  BY DeclaredSame
<1>3. PICK old, new : old = Marks(fn) /\ new = Marks(fn')
  OBVIOUS
<1>4. \A m : Matters(m) => (m \in new <=> m \in old \/ m \in made)
  BY <1>3 DEF Makes
<1>5. \A m \in new : Matters(m) => m[4][1] \in Tokens'
  BY <1>1, <1>3, <1>4 DEF KnowsAccesses, Fresh
<1>6. ASSUME NEW p \in Tokens, NEW m \in new, Accesses(p, m)'
      PROVE  Resolves(p, m)'
  <2>1. Matters(m) /\ m[4][1] = p /\ Accesses(p, m)
    BY <1>1, <1>6 DEF Accesses, Matters
  <2>2. m \in old
    BY <1>1, <1>4, <2>1 DEF Fresh
  <2>3. PICK q \in Declarations(p), slot \in m[3] : Slots(old, q) = {slot}
    BY <1>3, <2>1, <2>2 DEF KnowsAccesses, Resolves
  <2>4. q \in Tokens
    <3>1. slot \in Slots(old, q)
      BY <2>3
    <3>2. PICK a \in old : a[1] = "alloc" /\ a[4][1] = q
      BY <3>1 DEF Slots
    <3> QED
      BY <1>3, <3>2 DEF KnowsAccesses, Matters
  <2>5. Slots(new, q) = {slot}
    BY <1>3, <2>3, <2>4, SlotsStay1
  <2>6. q \in Declarations(p)'
    BY <1>2, <2>3
  <2> QED
    BY <1>3, <2>3, <2>5, <2>6 DEF Resolves, Slots
<1>7. ASSUME NEW p \in {h}, NEW m \in new, Accesses(p, m)'
      PROVE  Resolves(p, m)'
  <2>1. Matters(m) /\ m[4][1] = h
    BY <1>7 DEF Accesses, Matters
  <2>2. m \notin old
    BY <1>1, <1>3, <2>1 DEF KnowsAccesses
  <2> QED
    BY <1>4, <1>7, <2>1, <2>2
<1>8. KnowsAccesses'
  <2>1. ASSUME NEW p \in Tokens', NEW m \in new, Accesses(p, m)'
        PROVE  Resolves(p, m)'
    <3>1. CASE p \in Tokens
      BY <1>6, <2>1, <3>1
    <3>2. CASE p \in {h}
      BY <1>7, <2>1, <3>2
    <3> QED
      BY <1>1, <3>1, <3>2
  <2> QED
    BY <1>3, <1>5, <2>1 DEF KnowsAccesses, Marks
<1>9. ErrorsAreJustified'
  <2>1. fn.errors = Told(fn) /\ fn'.errors = Told(fn')
    BY DEF Inv, Sound, Told
  <2>2. fn'.errors = fn.errors \cup told
    BY <2>1 DEF Makes
  <2> QED
    BY <1>1, <1>2, <2>2 DEF ErrorsAreJustified
<1> QED
  BY <1>8, <1>9

-----------------------------------------------------------------------------
(* What the scopes hold *)

LEMMA LetsAre ==
    ASSUME KnowsBlocks, NEW s, NEW name
    PROVE  /\ LetsIn(s, name) \in SUBSET Nat /\ IsFiniteSet(LetsIn(s, name)) /\ LetsIn(s, name) \subseteq Tokens
           /\ LetsIn(s, name) # {} => LatestOf(LetsIn(s, name)) \in Tokens
<1>1. LetsIn(s, name) \subseteq Tokens
  BY DEF LetsIn
<1>2. Tokens \subseteq Nat /\ IsFiniteSet(Tokens)
  BY TokensAre
<1>3. IsFiniteSet(LetsIn(s, name)) /\ LetsIn(s, name) \in SUBSET Nat
  BY <1>1, <1>2, FS_Subset
<1> QED
  BY <1>1, <1>3, LatestIs

Step(t, h, made, told) ==
    /\ Adds(t) /\ h = Here /\ KnowsAccesses
    /\ Makes(fn, fn', made, told) /\ Fresh(made, h)

LEMMA HoldsStay ==
    ASSUME NEW t, NEW h, NEW made, NEW told, Step(t, h, made, told), NEW scope, NEW s,
           ~(t.kind = "let" /\ t.scope = s), HoldsLets(scope, s)
    PROVE  HoldsLets(scope, s)'
<1>1. \A name : LetsIn(s, name)' = LetsIn(s, name)
  BY LetsStay DEF Step
<1>2. \A q \in Tokens : Slots(Marks(fn'), q) = Slots(Marks(fn), q)
  BY SlotsStay1 DEF Step, Adds
<1>3. \A name : LetsIn(s, name) # {} => LatestOf(LetsIn(s, name)) \in Tokens
  BY LetsAre DEF Step, Adds
<1>4. ASSUME NEW name \in Names
      PROVE  /\ name \in DOMAIN scope <=> LetsIn(s, name)' # {}
             /\ name \in DOMAIN scope => Slots(Marks(fn'), LatestOf(LetsIn(s, name)')) = {scope[name]}
  BY <1>1, <1>2, <1>3 DEF HoldsLets
<1> QED
  BY <1>4 DEF HoldsLets, Slots, Marks, LatestOf

LEMMA CounterStays ==
    ASSUME NEW t, NEW h, NEW made, NEW told, Step(t, h, made, told), NEW scope, NEW q \in Tokens,
           HoldsCounter(scope, q)
    PROVE  HoldsCounter(scope, q)'
<1>1. Slots(Marks(fn'), q) = Slots(Marks(fn), q)
  BY SlotsStay1 DEF Step, Adds
<1>2. program'[q] = program[q]
  BY Added DEF Step
<1> QED
  BY <1>1, <1>2 DEF HoldsCounter, Slots, Marks

LEMMA HoldsNew ==
    ASSUME NEW t, NEW h, NEW made, NEW told, Step(t, h, made, told)
    PROVE  HoldsLets(NewScope, h)'
<1>1. DOMAIN NewScope = {}
  BY DEF NewScope
<1>2. \A p \in Tokens : p \in Nat /\ p < h /\ program[p].scope < p /\ program[p].scope \in Nat
  <2>1. \A p \in Tokens : p \in Nat /\ p < h /\ program[p] \in TokenSet
    BY TokensAre DEF Step, Adds
  <2> QED
    BY <2>1 DEF Step, Adds, KnowsBlocks, TokenSet
<1>3. h \in Nat /\ t.scope < h /\ t.scope \in Nat
  BY TokensAre DEF Step, Adds, TokenSet
<1>4. (\A p \in Tokens : program[p].scope # h) /\ t.scope # h
  BY <1>2, <1>3
<1>5. \A name : LetsIn(h, name)' = {}
  <2>1. \A name : LetsIn(h, name) = {}
    BY <1>4 DEF LetsIn
  <2> QED
    BY <1>4, <2>1, LetsStay DEF Step
<1> QED
  BY <1>1, <1>5 DEF HoldsLets

LEMMA HoldsLet ==
    ASSUME NEW t, NEW h, NEW made, NEW told, Step(t, h, made, told), NEW scope, NEW s,
           t.kind = "let", t.scope = s, HoldsLets(scope, s),
           NEW slot, Slots(Marks(fn'), h) = {slot},
           NEW new, new = [n \in DOMAIN scope \cup {t.name} |-> IF n = t.name THEN slot ELSE scope[n]]
    PROVE  HoldsLets(new, s)'
<1>1. \A name : LetsIn(s, name)' = LetsIn(s, name) \cup (IF t.name = name THEN {h} ELSE {})
  BY LetsStay DEF Step
<1>2. \A q \in Tokens : Slots(Marks(fn'), q) = Slots(Marks(fn), q)
  BY SlotsStay1 DEF Step, Adds
<1>3. \A name : /\ LetsIn(s, name) # {} => LatestOf(LetsIn(s, name)) \in Tokens
                /\ LetsIn(s, name) \subseteq Tokens
  BY LetsAre DEF Step, Adds
<1>4. ASSUME NEW name \in Names
      PROVE  /\ name \in DOMAIN new <=> LetsIn(s, name)' # {}
             /\ name \in DOMAIN new => Slots(Marks(fn'), LatestOf(LetsIn(s, name)')) = {new[name]}
  <2>1. CASE name # t.name
    <3>1. LetsIn(s, name)' = LetsIn(s, name)
      <4>1. LetsIn(s, name)' = LetsIn(s, name) \cup {}
        BY <1>1, <2>1
      <4> QED
        BY <4>1
    <3>2. /\ name \in DOMAIN scope <=> LetsIn(s, name) # {}
          /\ name \in DOMAIN scope => Slots(Marks(fn), LatestOf(LetsIn(s, name))) = {scope[name]}
      BY DEF HoldsLets
    <3>3. (name \in DOMAIN new <=> name \in DOMAIN scope) /\ (name \in DOMAIN scope => new[name] = scope[name])
      BY <2>1
    <3> QED
      BY <1>2, <1>3, <3>1, <3>2, <3>3
  <2>2. CASE name = t.name
    <3>1. LetsIn(s, name)' = LetsIn(s, name) \cup {h}
      BY <1>1, <2>2
    <3>2. Tokens \in SUBSET Nat /\ h \in Nat /\ h <= h /\ \A r \in Tokens : r <= h
      <4>1. Tokens \in SUBSET Nat /\ h \in Nat /\ \A r \in Tokens : r \in Nat /\ r < h
        BY TokensAre DEF Step, Adds
      <4> QED
        BY <4>1
    <3>3. \A r \in LetsIn(s, name) \cup {h} : r <= h
      BY <1>3, <3>2
    <3>4. LatestOf(LetsIn(s, name) \cup {h}) = h
      BY <1>3, <3>2, <3>3, LatestIsOnly
    <3>5. name \in DOMAIN new /\ new[name] = slot
      BY <2>2
    <3> QED
      BY <3>1, <3>4, <3>5
  <2> QED
    BY <2>1, <2>2
<1> QED
  BY <1>4 DEF HoldsLets, Slots, Marks, LatestOf

LEMMA CounterMade ==
    ASSUME NEW t, NEW h, NEW made, NEW told, Step(t, h, made, told), NEW slot, Slots(Marks(fn'), h) = {slot},
           NEW scope, DOMAIN scope = {t.name}, scope[t.name] = slot
    PROVE  HoldsCounter(scope, h)'
<1>1. program'[h] = t
  BY Added DEF Step
<1> QED
  BY <1>1 DEF HoldsCounter, Slots, Marks

LEMMA ScopeIndices ==
    ASSUME NEW fs \in Seq(FrameSet), NEW k, k = ScopesBelow(fs, Len(fs) + 1)
    PROVE  /\ k \in Nat /\ k >= 2
           /\ \A i \in DOMAIN fs : ScopesBelow(fs, i + 1) \in 2 .. k /\ ScopesBelow(fs, i) + 1 \in 2 .. k
<1>1. Len(fs) \in Nat /\ DOMAIN fs = 1 .. Len(fs)
  BY SequenceIs
<1>2. PICK n : n = Len(fs) + 1
  OBVIOUS
<1>3. n \in Nat \ {0} /\ 1 + n >= 2
  BY <1>1, <1>2
<1>4. k \in Nat /\ k >= 2
  <2>1. k \in Nat /\ k >= 1 + n
    BY <1>2, <1>3, ScopesBelowIs
  <2> QED
    BY <1>3, <2>1
<1>5. ASSUME NEW i \in DOMAIN fs
      PROVE  ScopesBelow(fs, i + 1) \in 2 .. k /\ ScopesBelow(fs, i) + 1 \in 2 .. k
  <2>1. i \in Nat \ {0} /\ i + 1 \in Nat \ {0} /\ i < n /\ i + 1 <= n /\ 1 + i >= 2
    BY <1>1, <1>2
  <2>2. ScopesBelow(fs, i) \in Nat /\ ScopesBelow(fs, i) >= 1 + i /\ ScopesBelow(fs, i) < k
    BY <1>2, <1>3, <2>1, ScopesBelowIs, ScopesBelowGrows
  <2>3. ScopesBelow(fs, i + 1) \in Nat /\ ScopesBelow(fs, i + 1) >= ScopesBelow(fs, i) + 1
    BY <2>1, <2>2, ScopesBelowIs
  <2>4. ScopesBelow(fs, i + 1) <= k
    <3>1. CASE i + 1 = n
      BY <1>2, <1>4, <3>1
    <3>2. CASE i + 1 < n
      <4>1. ScopesBelow(fs, i + 1) < ScopesBelow(fs, n)
        BY <1>3, <2>1, <3>2, ScopesBelowGrows
      <4> QED
        BY <1>2, <1>4, <2>3, <4>1
    <3> QED
      BY <1>3, <2>1, <3>1, <3>2
  <2> QED
    BY <1>4, <2>1, <2>2, <2>3, <2>4
<1> QED
  BY <1>4, <1>5

LEMMA NamesStay ==
    ASSUME NEW t, NEW h, NEW made, NEW told, Step(t, h, made, told), NEW fs, NEW e, NEW outer,
           NamesIn(fs, e, outer), \A i \in DOMAIN fs : FrameFits(fs[i]),
           t.kind = "let" => t.scope # outer /\ t.scope \notin ScopesIn(fs)
    PROVE  NamesIn(fs, e, outer)'
<1>1. HoldsLets(e[2], outer)'
  BY HoldsStay DEF NamesIn
<1>2. ASSUME NEW i \in DOMAIN fs
      PROVE  HoldsLets(e[ScopesBelow(fs, i + 1)], fs[i].scope)'
  <2>1. ~(t.kind = "let" /\ t.scope = fs[i].scope)
    BY DEF ScopesIn
  <2> QED
    BY <2>1, HoldsStay DEF NamesIn
<1>3. ASSUME NEW i \in DOMAIN fs, fs[i].kind = "for"
      PROVE  HoldsCounter(e[ScopesBelow(fs, i) + 1], fs[i].at)'
  <2>1. fs[i].at \in Tokens
    BY DEF FrameFits
  <2> QED
    BY <1>3, <2>1, CounterStays DEF NamesIn
<1> QED
  BY <1>1, <1>2, <1>3 DEF NamesIn

LEMMA NamesLonger ==
    ASSUME NEW fs \in Seq(FrameSet), NEW x \in FrameSet, NEW e, NEW outer, NamesIn(fs, e, outer)',
           NEW k, k = ScopesBelow(fs, Len(fs) + 1),
           NEW f, \A j \in 2 .. k : f[j] = e[j],
           NEW top, top = (IF x.kind = "for" THEN f[k + 2] ELSE f[k + 1]), HoldsLets(top, x.scope)',
           NEW name, name = f[k + 1], x.kind = "for" => HoldsCounter(name, x.at)'
    PROVE  NamesIn(Append(fs, x), f, outer)'
<1>1. PICK gs : gs = Append(fs, x)
  OBVIOUS
<1>2. PICK n : n = Len(fs) + 1
  OBVIOUS
<1>3. /\ DOMAIN gs = DOMAIN fs \cup {n} /\ \A i \in DOMAIN fs : gs[i] = fs[i]
      /\ gs[n] = x /\ Len(fs) \in Nat /\ DOMAIN fs = 1 .. Len(fs)
  BY <1>1, <1>2, AwaitedByLonger, SequenceIs
<1>4. n \in Nat \ {0} /\ \A i \in DOMAIN fs : i \in 1 .. Len(fs) + 1 /\ i + 1 \in 1 .. Len(fs) + 1
  BY <1>2, <1>3
<1>5. /\ \A i \in DOMAIN fs : ScopesBelow(gs, i) = ScopesBelow(fs, i) /\ ScopesBelow(gs, i + 1) = ScopesBelow(fs, i + 1)
      /\ ScopesBelow(gs, n) = k
  <2>1. \A i \in 1 .. Len(fs) + 1 : ScopesBelow(gs, i) = ScopesBelow(fs, i)
    BY <1>1, ScopesBelowSame
  <2>2. n \in 1 .. Len(fs) + 1
    BY <1>2, <1>3
  <2> QED
    BY <1>2, <1>4, <2>1, <2>2
<1>6. ScopesBelow(gs, n + 1) = k + IF x.kind = "for" THEN 2 ELSE 1
  <2>1. ScopesBelow(gs, n + 1) = ScopesBelow(gs, n) + IF gs[n].kind = "for" THEN 2 ELSE 1
    BY <1>4, ScopesBelowIs
  <2> QED
    BY <1>3, <1>5, <2>1
<1>7. k \in Nat /\ k >= 2 /\ \A i \in DOMAIN fs : ScopesBelow(fs, i + 1) \in 2 .. k /\ ScopesBelow(fs, i) + 1 \in 2 .. k
  BY ScopeIndices
<1>8. HoldsLets(f[2], outer)'
  <2>1. f[2] = e[2]
    BY <1>7
  <2> QED
    BY <2>1 DEF NamesIn
<1>9. ASSUME NEW i \in DOMAIN gs
      PROVE  HoldsLets(f[ScopesBelow(gs, i + 1)], gs[i].scope)'
  <2>1. CASE i \in DOMAIN fs
    <3>1. f[ScopesBelow(gs, i + 1)] = e[ScopesBelow(fs, i + 1)] /\ gs[i].scope = fs[i].scope
      BY <1>3, <1>5, <1>7, <2>1
    <3> QED
      BY <2>1, <3>1 DEF NamesIn
  <2>2. CASE i = n
    <3>1. f[ScopesBelow(gs, i + 1)] = top /\ gs[i].scope = x.scope
      BY <1>3, <1>6, <2>2
    <3> QED
      BY <3>1
  <2> QED
    BY <1>3, <2>1, <2>2
<1>10. ASSUME NEW i \in DOMAIN gs, gs[i].kind = "for"
       PROVE  HoldsCounter(f[ScopesBelow(gs, i) + 1], gs[i].at)'
  <2>1. CASE i \in DOMAIN fs
    <3>1. f[ScopesBelow(gs, i) + 1] = e[ScopesBelow(fs, i) + 1] /\ gs[i].at = fs[i].at /\ fs[i].kind = "for"
      BY <1>3, <1>5, <1>7, <1>10, <2>1
    <3> QED
      BY <2>1, <3>1 DEF NamesIn
  <2>2. CASE i = n
    <3>1. f[ScopesBelow(gs, i) + 1] = name /\ gs[i].at = x.at /\ x.kind = "for"
      BY <1>3, <1>5, <1>10, <2>2
    <3> QED
      BY <3>1
  <2> QED
    BY <1>3, <2>1, <2>2
<1>11. NamesIn(gs, f, outer)'
  BY <1>8, <1>9, <1>10 DEF NamesIn
<1> QED
  BY <1>1, <1>11

LEMMA NamesShorter ==
    ASSUME NEW fs \in Seq(FrameSet), NEW x \in FrameSet, NEW e, NEW outer, NamesIn(Append(fs, x), e, outer),
           NEW k, k = ScopesBelow(fs, Len(fs) + 1), NEW f, \A j \in 2 .. k : f[j] = e[j]
    PROVE  NamesIn(fs, f, outer)
<1>1. PICK gs : gs = Append(fs, x)
  OBVIOUS
<1>2. \A i \in DOMAIN fs : i \in DOMAIN gs /\ gs[i] = fs[i]
  BY <1>1, AwaitedByLonger
<1>3. Len(fs) \in Nat /\ DOMAIN fs = 1 .. Len(fs)
  BY SequenceIs
<1>4. \A i \in DOMAIN fs : i \in 1 .. Len(fs) + 1 /\ i + 1 \in 1 .. Len(fs) + 1
  BY <1>3
<1>5. \A i \in DOMAIN fs : ScopesBelow(gs, i) = ScopesBelow(fs, i) /\ ScopesBelow(gs, i + 1) = ScopesBelow(fs, i + 1)
  BY <1>1, <1>4, ScopesBelowSame
<1>6. k \in Nat /\ k >= 2 /\ \A i \in DOMAIN fs : ScopesBelow(fs, i + 1) \in 2 .. k /\ ScopesBelow(fs, i) + 1 \in 2 .. k
  BY ScopeIndices
<1>7. f[2] = e[2] /\ \A i \in DOMAIN fs : /\ f[ScopesBelow(fs, i + 1)] = e[ScopesBelow(gs, i + 1)]
                                          /\ f[ScopesBelow(fs, i) + 1] = e[ScopesBelow(gs, i) + 1]
  BY <1>5, <1>6
<1>8. NamesIn(gs, e, outer)
  BY <1>1
<1> QED
  BY <1>2, <1>7, <1>8 DEF NamesIn

-----------------------------------------------------------------------------
(* The name that is looked up *)

(* Declarations, told of the next token *)
Found(name) == {s \in ScopesOf(Here) : DeclaredIn(s, Here, name) # {}}
Nearest(name) ==
    LET qs == DeclaredIn(LatestOf(Found(name)), Here, name)
    IN  IF Found(name) = {} THEN {}
        ELSE {LatestOf(IF \E q \in qs : Kind(q) = "let" THEN {q \in qs : Kind(q) = "let"} ELSE qs)}

LEMMA PresentDeclares ==
    ASSUME NEW t, Adds(t), t.opener = 0, frames \in Seq(FrameSet), NEW p \in {Here}
    PROVE  Declarations(p)' = Nearest(t.name) /\ LoopsAround(p)' = LoopsAround(p) /\ Kind(p)' = t.kind
           /\ program'[p] = t
<1>1. /\ p \in Nat /\ Tokens = 1 .. p - 1 /\ program'[p] = t /\ Kind(p)' = t.kind
      /\ \A q \in Tokens : program'[q] = program[q] /\ Kind(q)' = Kind(q)
  BY Added
<1>2. \A s, name : DeclaredIn(s, p, name)' = DeclaredIn(s, p, name)
  BY <1>1 DEF DeclaredIn, Declares
<1>3. /\ Around(p)' = {q \in Around(p) : t.opener # Opening(q)}
      /\ StagesBefore(p)' = StagesBefore(p) /\ \A q \in Around(p) : Kind(q)' = Kind(q)
  BY PresentAround
<1>4. \A q \in Around(p) : Opening(q) # 0
  <2>1. \A i \in DOMAIN frames : frames[i] \in FrameSet /\ FrameFits(frames[i])
    BY SequenceIs DEF Adds, KnowsBlocks
  <2>2. \A i \in DOMAIN frames : Opening(frames[i].scope) = frames[i].at /\ frames[i].at \in Nat /\ frames[i].at > 0
    BY <2>1, FrameFitsStill
  <2> QED
    BY <2>2 DEF Adds, KnowsBlocks, ScopesIn
<1>5. Around(p)' = Around(p)
  BY <1>3, <1>4
<1>6. ScopesOf(p)' = ScopesOf(p) /\ LoopsAround(p)' = LoopsAround(p)
  BY <1>3, <1>5 DEF ScopesOf, LoopsAround
<1>7. PICK name : name = t.name
  OBVIOUS
<1>8. PICK found, qs : found = Found(name) /\ qs = DeclaredIn(LatestOf(found), p, name)
  OBVIOUS
<1>9. {s \in ScopesOf(p)' : DeclaredIn(s, p, name)' # {}} = found
  BY <1>2, <1>6, <1>8 DEF Found
<1>10. DeclaredIn(LatestOf(found), p, name)' = qs /\ qs \subseteq Tokens
  <2>1. DeclaredIn(LatestOf(found), p, name)' = qs
    BY <1>2, <1>8
  <2>2. \A s : DeclaredIn(s, p, name) \subseteq 1 .. p - 1
    BY DEF DeclaredIn
  <2> QED
    BY <1>1, <1>8, <2>1, <2>2
<1>11. {q \in qs : Kind(q)' = "let"} = {q \in qs : Kind(q) = "let"} /\ ((\E q \in qs : Kind(q)' = "let") <=> (\E q \in qs : Kind(q) = "let"))
  BY <1>1, <1>10
<1>12. Declarations(p)' = IF found = {} THEN {}
         ELSE {LatestOf(IF \E q \in qs : Kind(q)' = "let" THEN {q \in qs : Kind(q)' = "let"} ELSE qs)}
  <2>1. program'[p].name = name
    BY <1>1, <1>7
  <2>2. DeclaredIn(LatestOf(found), p, name)' = qs
    BY <1>10
  <2> QED
    BY <1>9, <2>1, <2>2 DEF Declarations, LatestOf
<1>13. Nearest(name) = IF found = {} THEN {}
         ELSE {LatestOf(IF \E q \in qs : Kind(q) = "let" THEN {q \in qs : Kind(q) = "let"} ELSE qs)}
  BY <1>8 DEF Nearest
<1>14. Declarations(p)' = Nearest(name)
  BY <1>11, <1>12, <1>13
<1> QED
  BY <1>1, <1>6, <1>7, <1>14

(* The scopes by their depth: how many open statements they are inside of. *)
Place(i) == IF i = 0 THEN Outer ELSE frames[i].scope
CountsFor(i, name) == i # 0 /\ frames[i].kind = "for" /\ program[frames[i].at].name = name

LEMMA PlacesAre ==
    ASSUME Inv, KnowsBlocks
    PROVE  /\ ScopesOf(Here) = {Place(i) : i \in 0 .. Len(frames)}
           /\ \A i, j \in 0 .. Len(frames) : i < j => Place(i) < Place(j)
           /\ \A i \in 0 .. Len(frames) : Place(i) \in Nat
           /\ \A i \in 0 .. Len(frames) : i # 0 => i \in DOMAIN frames
<1>1. frames \in Seq(FrameSet) /\ Len(frames) \in Nat /\ DOMAIN frames = 1 .. Len(frames)
  BY Indices DEF Inv, IsShaped
<1>2. Outer \in Nat
  BY <1>1, InScopeIs
<1>3. \A i \in DOMAIN frames : /\ frames[i].scope \in Nat /\ frames[i].at \in Nat /\ frames[i].at <= frames[i].scope
                               /\ Outer < frames[i].at
  <2>1. \A i \in DOMAIN frames : FrameFits(frames[i]) /\ Outer < frames[i].at
    BY DEF KnowsBlocks
  <2>2. Tokens \subseteq Nat
    BY TokensAre
  <2>3. \A i \in DOMAIN frames : frames[i].at \in Nat /\ frames[i].scope \in Nat
    BY <2>1, <2>2 DEF FrameFits
  <2>4. \A i \in DOMAIN frames : frames[i].at < frames[i].scope \/ frames[i].scope = frames[i].at
    BY <2>1 DEF FrameFits
  <2> QED
    BY <2>1, <2>3, <2>4
<1>4. \A i \in 0 .. Len(frames) : i # 0 => i \in DOMAIN frames
  BY <1>1
<1>5. \A i \in 0 .. Len(frames) : Place(i) \in Nat
  BY <1>2, <1>3, <1>4 DEF Place
<1>6. ASSUME NEW i \in 0 .. Len(frames), NEW j \in 0 .. Len(frames), i < j
      PROVE  Place(i) < Place(j)
  <2>1. j \in DOMAIN frames /\ j # 0
    BY <1>1, <1>6
  <2>2. frames[j].at <= frames[j].scope /\ frames[j].at \in Nat /\ frames[j].scope \in Nat /\ Place(j) = frames[j].scope
    BY <1>3, <2>1 DEF Place
  <2>3. Place(i) < frames[j].at
    <3>1. CASE i = 0
      BY <1>3, <2>1, <3>1 DEF Place
    <3>2. CASE i # 0
      <4>1. i \in DOMAIN frames
        BY <1>4, <3>2
      <4>2. frames[i].scope < frames[j].at
        BY <1>6, <2>1, <4>1 DEF KnowsBlocks, FramesNest
      <4> QED
        BY <3>2, <4>2 DEF Place
    <3> QED
      BY <3>1, <3>2
  <2> QED
    BY <1>5, <2>2, <2>3
<1>7. ScopesOf(Here) = {Place(i) : i \in 0 .. Len(frames)}
  <2>1. ScopesOf(Here) = ScopesIn(frames) \cup {Outer}
    BY DEF ScopesOf, KnowsBlocks, Outer
  <2>2. \A i \in DOMAIN frames : i \in 0 .. Len(frames) /\ Place(i) = frames[i].scope
    BY <1>1 DEF Place
  <2>3. 0 \in 0 .. Len(frames) /\ Place(0) = Outer
    BY <1>1 DEF Place
  <2> QED
    BY <1>4, <2>1, <2>2, <2>3 DEF ScopesIn, Place
<1> QED
  BY <1>4, <1>5, <1>6, <1>7

LEMMA DeclaredAt ==
    ASSUME Inv, KnowsBlocks, NEW i \in 0 .. Len(frames), NEW name
    PROVE  /\ DeclaredIn(Place(i), Here, name) = LetsIn(Place(i), name) \cup (IF CountsFor(i, name) THEN {frames[i].at} ELSE {})
           /\ \A q \in LetsIn(Place(i), name) : Kind(q) = "let"
           /\ CountsFor(i, name) => Kind(frames[i].at) = "for"
<1>1. frames \in Seq(FrameSet) /\ Len(frames) \in Nat /\ DOMAIN frames = 1 .. Len(frames)
  BY Indices DEF Inv, IsShaped
<1>2. Tokens = 1 .. Here - 1
  <2>1. Here \in Nat /\ Here = Len(program) + 1 /\ Tokens = 1 .. Len(program) /\ Len(program) \in Nat
    BY TokensAre
  <2> QED
    BY <2>1
<1>3. \A q \in Tokens : Kind(q) = "for" => (q = Place(i) <=> i # 0 /\ frames[i].kind = "for" /\ q = frames[i].at)
  <2>1. CASE i = 0
    <3>1. Outer \in StagesBefore(Here) \cup {0}
      <4>1. PICK S : S = StagesBefore(Here)
        OBVIOUS
      <4>2. Tokens \subseteq Nat /\ IsFiniteSet(Tokens) /\ S \subseteq Tokens
        BY <4>1, TokensAre DEF StagesBefore
      <4>3. IsFiniteSet(S)
        BY <4>2, FS_Subset
      <4>4. IsFiniteSet(S \cup {0}) /\ S \cup {0} \in SUBSET Nat /\ S \cup {0} # {}
        BY <4>2, <4>3, FS_AddElement
      <4> QED
        BY <4>1, <4>4, LatestIs DEF Outer
    <3>2. 0 \notin Tokens
      BY <1>2
    <3>3. \A q \in Tokens : Kind(q) = "for" => q # Outer
      BY <3>1, <3>2 DEF StagesBefore
    <3> QED
      BY <2>1, <3>3 DEF Place
  <2>2. CASE i # 0
    <3>1. i \in DOMAIN frames /\ Place(i) = frames[i].scope
      BY <1>1, <2>2 DEF Place
    <3>2. FrameFits(frames[i]) /\ frames[i].kind \in {"then", "else", "while", "for"}
      <4>1. frames[i] \in FrameSet /\ FrameFits(frames[i])
        BY <1>1, <3>1, SequenceIs DEF KnowsBlocks
      <4> QED
        BY <4>1 DEF FrameSet
    <3>3. CASE frames[i].kind = "for"
      BY <2>2, <3>1, <3>2, <3>3 DEF FrameFits
    <3>4. CASE frames[i].kind # "for"
      <4>1. Kind(frames[i].scope) # "for"
        BY <3>2, <3>4 DEF FrameFits
      <4> QED
        BY <3>1, <3>4, <4>1
    <3> QED
      BY <3>3, <3>4
  <2> QED
    BY <2>1, <2>2
<1>4. CountsFor(i, name) => frames[i].at \in Tokens /\ Kind(frames[i].at) = "for"
  BY <1>1, PlacesAre DEF CountsFor, KnowsBlocks, FrameFits
<1>5. DeclaredIn(Place(i), Here, name) =
        {q \in Tokens : /\ Kind(q) \in {"let", "for"} /\ program[q].name = name
                        /\ IF Kind(q) = "let" THEN program[q].scope = Place(i) ELSE q = Place(i)}
  BY <1>2 DEF DeclaredIn, Declares
<1>6. \A q \in Tokens : Kind(q) = "for" /\ q = Place(i) /\ program[q].name = name <=>
                           CountsFor(i, name) /\ q = frames[i].at
  BY <1>3, <1>4 DEF CountsFor
<1>7. DeclaredIn(Place(i), Here, name) = LetsIn(Place(i), name) \cup (IF CountsFor(i, name) THEN {frames[i].at} ELSE {})
  <2>1. CASE CountsFor(i, name)
    BY <1>4, <1>5, <1>6, <2>1 DEF LetsIn
  <2>2. CASE ~CountsFor(i, name)
    BY <1>5, <1>6, <2>2 DEF LetsIn
  <2> QED
    BY <2>1, <2>2
<1> QED
  BY <1>4, <1>7 DEF LetsIn

LEMMA ScopeCovered ==
    ASSUME Inv, ~done, NEW j \in DOMAIN env, j # 1
    PROVE  \E i \in 0 .. Len(frames) :
              \/ j = ScopesBelow(frames, i + 1)
              \/ i # 0 /\ frames[i].kind = "for" /\ j = ScopesBelow(frames, i) + 1
<1>1. PICK n : n = Len(frames)
  OBVIOUS
<1>2. /\ n \in Nat /\ DOMAIN env = 1 .. Len(env) /\ Len(env) \in Nat /\ Len(env) = ScopesBelow(frames, n + 1)
  BY <1>1, Indices DEF Inv, CountsScopes
<1> DEFINE I == {i \in 0 .. n : ScopesBelow(frames, i + 1) >= j}
           J == {n - i : i \in I}
<1>3. j \in Nat /\ j >= 2 /\ j <= Len(env)
  BY <1>2
<1>4. n \in I
  BY <1>2, <1>3
<1>5. J \in SUBSET Nat /\ IsFiniteSet(J) /\ J # {}
  <2>1. J \subseteq 0 .. n
    BY <1>2
  <2>2. IsFiniteSet(J)
    <3>1. IsFiniteSet(0 .. n)
      BY <1>2, FS_Interval
    <3> HIDE DEF J
    <3> QED
      BY <2>1, <3>1, FS_Subset
  <2> QED
    BY <1>2, <1>4, <2>1, <2>2
<1>6. PICK m \in J : \A k \in J : k <= m
  <2> HIDE DEF J
  <2> QED
    BY <1>5, GreatestExists
<1>7. PICK i \in I : m = n - i
  BY <1>6
<1>8. \A k \in I : i <= k
  <2>1. \A k \in I : n - k <= m
    BY <1>6
  <2>2. \A k \in I : k \in Nat
    BY <1>2
  <2> QED
    BY <1>2, <1>7, <2>1, <2>2
<1>9. i \in 0 .. n /\ i \in Nat /\ ScopesBelow(frames, i + 1) >= j
  BY <1>2, <1>7
<1>10. CASE i = 0
  <2>1. ScopesBelow(frames, i + 1) = 2
    <3>1. 1 \in Nat \ {0} /\ 0 + 1 = 1
      OBVIOUS
    <3> QED
      BY <1>10, <3>1, ScopesBelowIs
  <2>2. j = ScopesBelow(frames, i + 1)
    BY <1>3, <1>9, <2>1
  <2> QED
    BY <1>1, <1>9, <2>2
<1>11. CASE i # 0
  <2>1. i - 1 \in 0 .. n /\ i - 1 \notin I /\ (i - 1) + 1 = i /\ i \in Nat \ {0}
    <3>1. i - 1 \in 0 .. n /\ (i - 1) + 1 = i /\ i \in Nat \ {0} /\ ~(i <= i - 1)
      BY <1>2, <1>9, <1>11
    <3> QED
      BY <1>8, <3>1
  <2>2. ~(ScopesBelow(frames, i) >= j)
    BY <2>1
  <2>3. /\ ScopesBelow(frames, i) \in Nat
        /\ ScopesBelow(frames, i + 1) = ScopesBelow(frames, i) + IF frames[i].kind = "for" THEN 2 ELSE 1
    BY <2>1, ScopesBelowIs
  <2>4. \/ j = ScopesBelow(frames, i + 1)
        \/ frames[i].kind = "for" /\ j = ScopesBelow(frames, i) + 1
    <3>1. CASE frames[i].kind = "for"
      BY <1>3, <1>9, <2>2, <2>3, <3>1
    <3>2. CASE frames[i].kind # "for"
      BY <1>3, <1>9, <2>2, <2>3, <3>2
    <3> QED
      BY <3>1, <3>2
  <2> QED
    BY <1>1, <1>9, <1>11, <2>4
<1> QED
  BY <1>10, <1>11

(* What the scopes of depth i bind, and where. *)
LEMMA BoundAt ==
    ASSUME Inv, KnowsBlocks, KnowsNames, ~done, NEW i \in 0 .. Len(frames), NEW name \in Names,
           NEW j, j = ScopesBelow(frames, i + 1)
    PROVE  /\ j \in DOMAIN env
           /\ name \in DOMAIN env[j] <=> LetsIn(Place(i), name) # {}
           /\ name \in DOMAIN env[j] => Slots(Marks(fn), LatestOf(LetsIn(Place(i), name))) = {env[j][name]}
           /\ i # 0 /\ frames[i].kind = "for" =>
                 /\ j - 1 \in DOMAIN env /\ j - 1 = ScopesBelow(frames, i) + 1
                 /\ name \in DOMAIN env[j - 1] <=> CountsFor(i, name)
                 /\ CountsFor(i, name) => Slots(Marks(fn), frames[i].at) = {env[j - 1][name]}
<1>1. frames \in Seq(FrameSet) /\ Len(frames) \in Nat /\ DOMAIN frames = 1 .. Len(frames) /\ NamesIn(frames, env, Outer)
  BY Indices DEF Inv, IsShaped, KnowsNames
<1>2. PICK k : k = ScopesBelow(frames, Len(frames) + 1)
  OBVIOUS
<1>3. DOMAIN env = 1 .. k /\ k \in Nat /\ k >= 2
  BY <1>1, <1>2, Indices, ScopeIndices DEF Inv, CountsScopes
<1>4. \A l \in DOMAIN frames : ScopesBelow(frames, l + 1) \in 2 .. k /\ ScopesBelow(frames, l) + 1 \in 2 .. k
  BY <1>1, <1>2, ScopeIndices
<1>5. CASE i = 0
  <2>1. j = 2
    <3>1. 1 \in Nat \ {0} /\ 0 + 1 = 1
      OBVIOUS
    <3> QED
      BY <1>5, <3>1, ScopesBelowIs
  <2>2. HoldsLets(env[j], Place(i))
    BY <1>1, <1>5, <2>1 DEF NamesIn, Place
  <2> QED
    BY <1>3, <1>5, <2>1, <2>2 DEF HoldsLets
<1>6. CASE i # 0
  <2>1. i \in DOMAIN frames /\ i \in Nat \ {0}
    BY <1>1, <1>6
  <2>2. HoldsLets(env[j], Place(i))
    BY <1>1, <1>6, <2>1 DEF NamesIn, Place
  <2>3. j \in DOMAIN env /\ j \in Nat
    BY <1>3, <1>4, <2>1
  <2>4. ASSUME frames[i].kind = "for"
        PROVE  /\ j - 1 \in DOMAIN env /\ j - 1 = ScopesBelow(frames, i) + 1
               /\ name \in DOMAIN env[j - 1] <=> CountsFor(i, name)
               /\ CountsFor(i, name) => Slots(Marks(fn), frames[i].at) = {env[j - 1][name]}
    <3>1. j = ScopesBelow(frames, i) + 2 /\ ScopesBelow(frames, i) \in Nat
      BY <2>1, <2>4, ScopesBelowIs
    <3>2. PICK l : l = ScopesBelow(frames, i) + 1
      OBVIOUS
    <3>3. l = j - 1 /\ l \in DOMAIN env
      BY <1>3, <1>4, <2>1, <3>1, <3>2
    <3>4. HoldsCounter(env[l], frames[i].at)
      BY <1>1, <2>1, <2>4, <3>2 DEF NamesIn
    <3>5. /\ name \in DOMAIN env[l] <=> CountsFor(i, name)
          /\ CountsFor(i, name) => Slots(Marks(fn), frames[i].at) = {env[l][name]}
      BY <1>6, <2>4, <3>4 DEF HoldsCounter, CountsFor
    <3> QED
      BY <3>2, <3>3, <3>5
  <2> QED
    BY <2>2, <2>3, <2>4 DEF HoldsLets
<1> QED
  BY <1>5, <1>6

(* The declaration the program means is the binding that is found. *)
LEMMA NearestIs ==
    ASSUME Inv, KnowsBlocks, KnowsNames, ~done, NEW name \in Names
    PROVE  /\ Nearest(name) = {} <=> Bound(env, name) = {}
           /\ Bound(env, name) # {} => \E q \in Nearest(name) : Slots(Marks(fn), q) = {Lookup(env, name)}
<1>1. PICK n : n = Len(frames)
  OBVIOUS
<1>2. n \in Nat /\ DOMAIN env = 1 .. Len(env) /\ Len(env) \in Nat /\ env[1] = NewScope
  BY <1>1, Indices DEF Inv, KnowsSlots, SlotsKnown
<1>3. PICK D : D = {i \in 0 .. n : DeclaredIn(Place(i), Here, name) # {}}
  OBVIOUS
<1>4. \A i \in 0 .. n : i \in D <=> LetsIn(Place(i), name) # {} \/ CountsFor(i, name)
  BY <1>1, <1>3, DeclaredAt
<1>5. \A i \in 0 .. n : CountsFor(i, name) => i # 0 /\ frames[i].kind = "for"
  BY DEF CountsFor
<1>6. \A j \in Bound(env, name) : \E i \in D : \/ j = ScopesBelow(frames, i + 1)
                                               \/ i # 0 /\ frames[i].kind = "for" /\ j = ScopesBelow(frames, i + 1) - 1
  <2>1. SUFFICES ASSUME NEW j \in Bound(env, name)
                 PROVE  \E i \in D : \/ j = ScopesBelow(frames, i + 1)
                                     \/ i # 0 /\ frames[i].kind = "for" /\ j = ScopesBelow(frames, i + 1) - 1
    OBVIOUS
  <2>2. j \in DOMAIN env /\ name \in DOMAIN env[j]
    BY DEF Bound
  <2>3. j # 1
    BY <1>2, <2>2 DEF NewScope
  <2>4. PICK i \in 0 .. n : \/ j = ScopesBelow(frames, i + 1)
                            \/ i # 0 /\ frames[i].kind = "for" /\ j = ScopesBelow(frames, i) + 1
    BY <1>1, <2>2, <2>3, ScopeCovered
  <2>5. PICK top : top = ScopesBelow(frames, i + 1)
    OBVIOUS
  <2>6. /\ name \in DOMAIN env[top] <=> LetsIn(Place(i), name) # {}
        /\ i # 0 /\ frames[i].kind = "for" => /\ top - 1 = ScopesBelow(frames, i) + 1
                                              /\ name \in DOMAIN env[top - 1] <=> CountsFor(i, name)
    BY <1>1, <2>5, BoundAt
  <2>7. CASE j = top
    BY <1>4, <2>2, <2>5, <2>6, <2>7
  <2>8. CASE i # 0 /\ frames[i].kind = "for" /\ j = ScopesBelow(frames, i) + 1
    <3>1. j = top - 1 /\ CountsFor(i, name)
      BY <2>2, <2>6, <2>8
    <3> QED
      BY <1>4, <2>5, <2>8, <3>1
  <2> QED
    BY <2>4, <2>5, <2>7, <2>8
<1>7. \A i \in 0 .. n : /\ LetsIn(Place(i), name) # {} <=> ScopesBelow(frames, i + 1) \in Bound(env, name)
                        /\ CountsFor(i, name) => ScopesBelow(frames, i + 1) - 1 \in Bound(env, name)
  <2>1. SUFFICES ASSUME NEW i \in 0 .. n, NEW top, top = ScopesBelow(frames, i + 1)
                 PROVE  /\ LetsIn(Place(i), name) # {} <=> top \in Bound(env, name)
                        /\ CountsFor(i, name) => top - 1 \in Bound(env, name)
    OBVIOUS
  <2>2. /\ top \in DOMAIN env
        /\ name \in DOMAIN env[top] <=> LetsIn(Place(i), name) # {}
        /\ i # 0 /\ frames[i].kind = "for" => /\ top - 1 \in DOMAIN env
                                              /\ name \in DOMAIN env[top - 1] <=> CountsFor(i, name)
    BY <1>1, <2>1, BoundAt
  <2> QED
    BY <1>5, <2>2 DEF Bound
<1>8. Found(name) = {Place(i) : i \in D}
  <2>1. ScopesOf(Here) = {Place(i) : i \in 0 .. n}
    BY <1>1, PlacesAre
  <2> QED
    BY <1>3, <2>1 DEF Found
<1>9. D = {} <=> Bound(env, name) = {}
  BY <1>4, <1>6, <1>7, <1>3
<1>10. Nearest(name) = {} <=> D = {}
  BY <1>8 DEF Nearest
<1>11. ASSUME D # {}
       PROVE  \E q \in Nearest(name) : Slots(Marks(fn), q) = {Lookup(env, name)}
  <2>1. PICK i \in D : \A k \in D : k <= i
    <3>1. D \in SUBSET Nat /\ D \subseteq 0 .. n /\ IsFiniteSet(0 .. n)
      BY <1>2, <1>3, FS_Interval
    <3>2. IsFiniteSet(D)
      BY <3>1, FS_Subset
    <3> QED
      BY <1>11, <3>1, <3>2, GreatestExists
  <2>2. i \in 0 .. n /\ i \in Nat
    BY <1>2, <1>3
  <2>3. LatestOf(Found(name)) = Place(i)
    <3>1. \A k \in 0 .. n : Place(k) \in Nat /\ (k < i => Place(k) < Place(i))
      BY <1>1, <2>2, PlacesAre
    <3>2. \A k \in D : k \in 0 .. n /\ (k < i \/ k = i)
      BY <1>2, <1>3, <2>1
    <3>3. \A k \in D : Place(k) \in Nat /\ Place(k) <= Place(i)
      BY <2>2, <3>1, <3>2
    <3>4. Found(name) \in SUBSET Nat /\ Place(i) \in Found(name) /\ \A r \in Found(name) : r <= Place(i)
      BY <1>8, <2>1, <3>3
    <3> QED
      BY <3>4, LatestIsOnly
  <2>4. PICK top : top = ScopesBelow(frames, i + 1)
    OBVIOUS
  <2>5. top \in Nat /\ top \in DOMAIN env
    BY <1>1, <1>2, <2>2, <2>4, BoundAt
  <2>6. \A k \in D : ScopesBelow(frames, k + 1) \in Nat /\ ScopesBelow(frames, k + 1) <= top
    <3>1. SUFFICES ASSUME NEW k \in D
                   PROVE  ScopesBelow(frames, k + 1) \in Nat /\ ScopesBelow(frames, k + 1) <= top
      OBVIOUS
    <3>2. k \in Nat /\ k + 1 \in Nat \ {0} /\ i + 1 \in Nat \ {0} /\ (k = i \/ k + 1 < i + 1)
      BY <1>2, <1>3, <2>1, <2>2
    <3>3. ScopesBelow(frames, k + 1) \in Nat
      BY <3>2, ScopesBelowIs
    <3>4. k + 1 < i + 1 => ScopesBelow(frames, k + 1) < ScopesBelow(frames, i + 1)
      BY <3>2, ScopesBelowGrows
    <3> QED
      BY <2>4, <2>5, <3>2, <3>3, <3>4
  <2>7. Bound(env, name) \in SUBSET Nat /\ \A j \in Bound(env, name) : j <= top
    <3>1. \A j \in Bound(env, name) : j \in Nat
      BY <1>2 DEF Bound
    <3>2. \A j \in Bound(env, name) : \E k \in D : j <= ScopesBelow(frames, k + 1)
      <4>1. \A k \in D : ScopesBelow(frames, k + 1) \in Nat
        BY <2>6
      <4> QED
        BY <1>6, <4>1
    <3> QED
      BY <2>5, <2>6, <3>1, <3>2
  <2>8. Lookup(env, name) = env[LatestOf(Bound(env, name))][name]
    BY DEF Lookup, LatestOf
  <2>9. PICK qs : qs = DeclaredIn(Place(i), Here, name)
    OBVIOUS
  <2>10. /\ qs = LetsIn(Place(i), name) \cup (IF CountsFor(i, name) THEN {frames[i].at} ELSE {})
         /\ \A q \in LetsIn(Place(i), name) : Kind(q) = "let"
         /\ CountsFor(i, name) => Kind(frames[i].at) = "for"
    BY <1>1, <2>2, <2>9, DeclaredAt
  <2>11. Nearest(name) = {LatestOf(IF \E q \in qs : Kind(q) = "let" THEN {q \in qs : Kind(q) = "let"} ELSE qs)}
    BY <1>10, <1>11, <2>3, <2>9 DEF Nearest
  <2>12. CASE LetsIn(Place(i), name) # {}
    <3>1. Nearest(name) = {LatestOf(LetsIn(Place(i), name))}
      <4>1. {q \in qs : Kind(q) = "let"} = LetsIn(Place(i), name) /\ \E q \in qs : Kind(q) = "let"
        BY <2>10, <2>12
      <4> QED
        BY <2>11, <4>1
    <3>2. LatestOf(Bound(env, name)) = top
      BY <1>7, <2>2, <2>4, <2>7, <2>12, LatestIsOnly
    <3>3. Slots(Marks(fn), LatestOf(LetsIn(Place(i), name))) = {env[top][name]}
      BY <1>1, <2>2, <2>4, <2>12, BoundAt
    <3> QED
      BY <2>8, <3>1, <3>2, <3>3
  <2>13. CASE LetsIn(Place(i), name) = {}
    <3>1. CountsFor(i, name) /\ i # 0 /\ frames[i].kind = "for"
      BY <1>4, <1>5, <2>2, <2>13
    <3>2. qs = {frames[i].at} /\ Kind(frames[i].at) = "for"
      BY <2>10, <2>13, <3>1
    <3>3. Nearest(name) = {LatestOf({frames[i].at})}
      BY <2>11, <3>2
    <3>4. frames[i].at \in Nat
      BY <1>1, <3>1, <2>2, PlacesAre, TokensAre DEF KnowsBlocks, FrameFits
    <3>5. LatestOf({frames[i].at}) = frames[i].at
      <4>1. PICK at \in Nat : at = frames[i].at
        BY <3>4
      <4>2. {at} \in SUBSET Nat /\ at \in {at} /\ \A r \in {at} : r <= at
        OBVIOUS
      <4> QED
        BY <4>1, <4>2, LatestIsOnly
    <3>6. top - 1 \in Bound(env, name) /\ top \notin Bound(env, name)
      BY <1>7, <2>2, <2>4, <2>13, <3>1
    <3>7. LatestOf(Bound(env, name)) = top - 1
      <4>1. \A j \in Bound(env, name) : j <= top - 1
        BY <2>5, <2>7, <3>6
      <4> QED
        BY <2>7, <3>6, <4>1, LatestIsOnly
    <3>8. Slots(Marks(fn), frames[i].at) = {env[top - 1][name]}
      BY <1>1, <2>2, <2>4, <3>1, BoundAt
    <3> QED
      BY <2>8, <3>3, <3>5, <3>7, <3>8
  <2> QED
    BY <2>12, <2>13
<1> QED
  BY <1>9, <1>10, <1>11

LEMMA LoopsKnown ==
    ASSUME Inv, KnowsBlocks
    PROVE  loops = <<>> <=> LoopsAround(Here) = {}
<1>1. frames \in Seq(FrameSet) /\ Len(frames) \in Nat /\ DOMAIN frames = 1 .. Len(frames)
  BY Indices DEF Inv, IsShaped
<1>2. PICK L : L = KindsBelow(frames, Len(frames) + 1, {"while", "for"})
  OBVIOUS
<1>3. Len(loops) = Cardinality(L) /\ loops \in Seq(Targets)
  BY <1>2 DEF Inv, CountsScopes, LoopsBelow, IsShaped
<1>4. IsFiniteSet(L)
  <2>1. Len(frames) + 1 \in Nat \ {0}
    BY <1>1
  <2> QED
    BY <1>2, <2>1, KindsBelowIs
<1>5. L = {i \in DOMAIN frames : frames[i].kind \in {"while", "for"}}
  <2>1. (Len(frames) + 1) - 1 = Len(frames)
    BY <1>1
  <2> QED
    BY <1>1, <1>2, <2>1 DEF KindsBelow
<1>6. \A i \in DOMAIN frames : Kind(frames[i].scope) \in {"while", "for"} <=> frames[i].kind \in {"while", "for"}
  <2>1. SUFFICES ASSUME NEW i \in DOMAIN frames
                 PROVE  Kind(frames[i].scope) \in {"while", "for"} <=> frames[i].kind \in {"while", "for"}
    OBVIOUS
  <2>2. FrameFits(frames[i]) /\ frames[i] \in FrameSet
    BY <1>1, SequenceIs DEF KnowsBlocks
  <2>3. frames[i].kind \in {"then", "else", "while", "for"}
    BY <2>2 DEF FrameSet
  <2>4. CASE frames[i].kind = "else"
    BY <2>2, <2>4 DEF FrameFits
  <2>5. CASE frames[i].kind = "then"
    BY <2>2, <2>5 DEF FrameFits
  <2>6. CASE frames[i].kind \in {"while", "for"}
    BY <2>2, <2>6 DEF FrameFits
  <2> QED
    BY <2>3, <2>4, <2>5, <2>6
<1>7. LoopsAround(Here) = {frames[i].scope : i \in L}
  BY <1>5, <1>6 DEF LoopsAround, KnowsBlocks, ScopesIn
<1>8. L = {} <=> LoopsAround(Here) = {}
  BY <1>7
<1>9. L = {} <=> Cardinality(L) = 0
  BY <1>4, FS_EmptySet
<1>10. loops = <<>> <=> Len(loops) = 0
  BY <1>3, EmptySeq
<1> QED
  BY <1>3, <1>8, <1>9, <1>10

-----------------------------------------------------------------------------
(* The accesses and the counter of a loop *)

LEMMA EmitMakes ==
    ASSUME NEW f0, NEW f, Quietly(f0, f), NEW told, NEW d, Does(f, d, {}, told),
           NEW instrs \in Seq(InstrSet), NEW g, g = Emit(d, instrs)
    PROVE  Makes(f0, g, MarksOf(instrs), told)
<1>1. PICK marks : Quiet(marks) /\ Does(f0, f, marks, {}) /\ Shaped(d)
  BY DEF Quietly, Does
<1>2. Does(d, g, MarksOf(instrs), {})
  BY <1>1, EmitDoes
<1>3. Does(f0, d, marks \cup {}, {} \cup told)
  BY <1>1, DoesFurther
<1>4. Does(f0, g, (marks \cup {}) \cup MarksOf(instrs), ({} \cup told) \cup {})
  BY <1>2, <1>3, DoesFurther
<1>5. (marks \cup {}) \cup MarksOf(instrs) = marks \cup MarksOf(instrs) /\ ({} \cup told) \cup {} = told
  OBVIOUS
<1> HIDE DEF MarksOf
<1> QED
  BY <1>1, <1>4, <1>5, QuietMakes

LEMMA MakesFurther ==
    ASSUME NEW f, NEW g, NEW made, NEW told, Makes(f, g, made, told), NEW h, Quietly(g, h)
    PROVE  Makes(f, h, made, told)
<1>1. Makes(g, h, {}, {})
  BY QuietlyMakes
<1> QED
  BY <1>1 DEF Makes

LEMMA UseMakes ==
    ASSUME Inv, NEW name \in Names, Use(name)
    PROVE  \E made, told :
              /\ Makes(fn, fn', made, told)
              /\ told # {} <=> name \notin Consts /\ Bound(env, name) = {}
              /\ \A m \in made : /\ m[1] # "alloc" /\ m[4] = <<Here, "do">>
                                 /\ m[1] = "load" => Bound(env, name) # {} /\ Lookup(env, name) \in m[3]
<1>1. PICK f, value, known : f = EnsureOpenBlock(fn) /\ value = f.values + 1 /\ (known <=> name \in Consts \/ Bound(env, name) # {})
  OBVIOUS
<1>2. Quietly(fn, f) /\ value \in Nat /\ Here \in Nat /\ Shaped(f)
  <2>1. f.values = fn.values /\ fn.values \in Nat /\ Quietly(fn, f) /\ Shaped(f)
    BY <1>1, StartsQuietly
  <2> QED
    BY <1>1, <2>1, Indices
<1>3. PICK i, d, told :
        /\ i = (IF name \in Consts \/ ~known THEN Instr("const", value, {}, <<Here, "do">>)
                ELSE Instr("load", value, {Lookup(env, name)}, <<Here, "do">>))
        /\ d = (IF known THEN f ELSE Fail(f, "unknown identifier"))
        /\ told = (IF known THEN {} ELSE {"unknown identifier"})
  OBVIOUS
<1>4. fn' = NewValues(Emit(d, <<i>>), 1)
  BY <1>1, <1>3 DEF Use
<1>5. Does(f, d, {}, told)
  <2>1. CASE known
    BY <1>2, <1>3, <2>1 DEF Does
  <2>2. CASE ~known
    <3>1. "unknown identifier" \in Errors
      BY DEF Errors
    <3> QED
      BY <1>2, <1>3, <2>2, <3>1, FailDoes
  <2> QED
    BY <2>1, <2>2
<1>6. {"const", "load"} \subseteq InstrOps /\ <<Here, "do">> \in Event /\ {} \in SUBSET Nat
  BY <1>2 DEF InstrOps, Event, Phases
<1>7. /\ i \in InstrSet /\ MarkOf(i)[1] # "alloc" /\ MarkOf(i)[4] = <<Here, "do">>
      /\ MarkOf(i)[1] = "load" => Bound(env, name) # {} /\ Lookup(env, name) \in MarkOf(i)[3]
  <2>1. CASE name \in Consts \/ ~known
    <3>1. i \in InstrSet
      BY <1>2, <1>3, <1>6, <2>1, InstrIs
    <3>2. MarkOf(i) = <<"const", value, {}, <<Here, "do">>>>
      BY <1>3, <2>1, MarkIs
    <3> QED
      BY <3>1, <3>2
  <2>2. CASE name \notin Consts /\ known
    <3>1. Bound(env, name) # {}
      BY <1>1, <2>2
    <3>2. Lookup(env, name) \in Nat
      BY <3>1, LookupDefined, LookupFinds, ScopeIs, SequenceIs DEF Inv, IsShaped
    <3>3. i \in InstrSet
      <4>1. {Lookup(env, name)} \in SUBSET Nat /\ "load" \in InstrOps
        BY <1>6, <3>2
      <4> QED
        BY <1>2, <1>3, <1>6, <2>2, <4>1, InstrIs
    <3>4. MarkOf(i) = <<"load", value, {Lookup(env, name)}, <<Here, "do">>>>
      BY <1>3, <2>2, MarkIs
    <3> QED
      BY <3>1, <3>3, <3>4
  <2> QED
    BY <2>1, <2>2
<1>8. MarksOf(<<i>>) = {MarkOf(i)} /\ <<i>> \in Seq(InstrSet)
  BY <1>7 DEF MarksOf
<1>9. PICK e : e = Emit(d, <<i>>)
  OBVIOUS
<1>10. Makes(fn, e, {MarkOf(i)}, told)
  BY <1>2, <1>5, <1>8, <1>9, EmitMakes
<1>11. Makes(fn, fn', {MarkOf(i)}, told)
  <2>1. Shaped(e)
    BY <1>10 DEF Makes
  <2>2. 1 \in Nat
    OBVIOUS
  <2>3. Quietly(e, fn')
    BY <1>4, <1>9, <2>1, <2>2, QuietlyStarts, QuietlyCounts
  <2> QED
    BY <1>10, <2>3, MakesFurther
<1>12. told # {} <=> name \notin Consts /\ Bound(env, name) = {}
  BY <1>1, <1>3
<1> QED
  BY <1>7, <1>11, <1>12

LEMMA AssignMakes ==
    ASSUME Inv, NEW name \in Names, Assign(name)
    PROVE  \E made, told :
              /\ Makes(fn, fn', made, told)
              /\ told # {} <=> Bound(env, name) = {}
              /\ \A m \in made : /\ m[1] # "alloc" /\ m[4] = <<Here, "do">>
                                 /\ Bound(env, name) # {} /\ Lookup(env, name) \in m[3]
<1>1. PICK f, value, i, c : /\ f = EnsureOpenBlock(fn) /\ value = f.values + 1
                            /\ i = Instr("const", value, {}, NoEvent) /\ c = NewValues(Emit(f, <<i>>), 1)
  OBVIOUS
<1>2. Quietly(fn, f) /\ value \in Nat /\ Here \in Nat
  <2>1. f.values = fn.values /\ fn.values \in Nat /\ Quietly(fn, f)
    BY <1>1, StartsQuietly
  <2> QED
    BY <1>1, <2>1, Indices
<1>3. <<i>> \in Seq(InstrSet) /\ Quiet(MarksOf(<<i>>))
  <2>1. "const" \in InstrOps /\ {} \in SUBSET Nat /\ "none" \in Phases /\ 0 \in Nat /\ NoEvent = <<0, "none">>
    BY DEF InstrOps, Phases, NoEvent
  <2>2. i \in InstrSet /\ MarkOf(i)[1] # "alloc" /\ MarkOf(i)[4][2] # "do"
    BY <1>1, <1>2, <2>1, QuietInstr
  <2> QED
    BY <2>2, QuietOne
<1>4. Quietly(fn, c) /\ Shaped(c)
  <2>1. 1 \in Nat
    OBVIOUS
  <2>2. Quietly(fn, c)
    BY <1>1, <1>2, <1>3, <2>1, QuietlyEmits, QuietlyCounts
  <2> QED
    BY <2>2, QuietlyShaped
<1>5. CASE Bound(env, name) # {}
  <2>1. PICK s : s = Instr("store", 0, {Lookup(env, name), value}, <<Here, "do">>)
    OBVIOUS
  <2>2. fn' = Emit(c, <<s>>)
    BY <1>1, <1>5, <2>1 DEF Assign
  <2>3. Lookup(env, name) \in Nat
    BY <1>5, LookupFinds, ScopeIs, SequenceIs DEF Inv, IsShaped
  <2>4. s \in InstrSet
    <3>1. "store" \in InstrOps /\ <<Here, "do">> \in Event /\ {Lookup(env, name), value} \in SUBSET Nat /\ 0 \in Nat
      BY <1>2, <2>3 DEF InstrOps, Event, Phases
    <3> QED
      BY <2>1, <3>1, InstrIs
  <2>5. MarkOf(s) = <<"store", 0, {Lookup(env, name), value}, <<Here, "do">>>>
    BY <2>1, MarkIs
  <2>6. MarksOf(<<s>>) = {MarkOf(s)} /\ <<s>> \in Seq(InstrSet)
    BY <2>4 DEF MarksOf
  <2>7. Does(c, c, {}, {})
    BY <1>4 DEF Does
  <2>8. Makes(fn, fn', {MarkOf(s)}, {})
    BY <1>4, <2>2, <2>6, <2>7, EmitMakes
  <2> QED
    BY <1>5, <2>5, <2>8
<1>6. CASE Bound(env, name) = {}
  <2>1. PICK d, stuck : d = Fail(c, "unknown identifier") /\ stuck = Term("unreachable", <<>>, {}, <<Here, "stuck">>)
    OBVIOUS
  <2>2. fn' = SetTerminator(d, stuck)
    BY <1>1, <1>6, <2>1 DEF Assign
  <2>3. Does(c, d, {}, {"unknown identifier"})
    BY <1>4, <2>1, FailDoes DEF Errors
  <2>4. stuck \in TermSet
    BY <1>2, <2>1, ExitIs DEF Phases
  <2>5. Does(d, fn', {}, {})
    BY <2>2, <2>3, <2>4, TerminatorDoes DEF Does
  <2>6. PICK marks : Quiet(marks) /\ Does(fn, c, marks, {})
    BY <1>4 DEF Quietly
  <2>7. Does(fn, d, marks \cup {}, {} \cup {"unknown identifier"})
    BY <2>3, <2>6, DoesFurther
  <2>8. Does(fn, fn', (marks \cup {}) \cup {}, ({} \cup {"unknown identifier"}) \cup {})
    BY <2>5, <2>7, DoesFurther
  <2>9. (marks \cup {}) \cup {} = marks \cup {} /\ ({} \cup {"unknown identifier"}) \cup {} = {"unknown identifier"}
    OBVIOUS
  <2>10. Makes(fn, fn', {}, {"unknown identifier"})
    BY <2>6, <2>8, <2>9, QuietMakes
  <2> QED
    BY <1>6, <2>10
<1> QED
  BY <1>5, <1>6

LEMMA PhiMarks ==
    ASSUME NEW def \in Nat, NEW v \in Nat, NEW b \in Nat, NEW i, i = Phi(def, {<<v, b>>})
    PROVE  i \in InstrSet /\ MarkOf(i)[1] # "alloc" /\ MarkOf(i)[4][2] # "do"
<1>1. i \in InstrSet
  BY PhiIs
<1>2. MarkOf(i) = <<"phi", def, {}, NoEvent>>
  BY DEF Phi, Instr, MarkOf
<1> QED
  BY <1>1, <1>2 DEF NoEvent

(* What comes before a loop *)
ForCode(h, v) ==
    <<Instr("const", v + 1, {}, NoEvent), Instr("call", v + 2, {v + 1}, <<h, "iter">>),
      Instr("alloc", v + 3, {}, <<h, "slot">>), Instr("const", v + 4, {}, NoEvent)>>

LEMMA ForCalls ==
    ASSUME NEW h \in Nat, NEW v \in Nat, NEW f0, NEW f, Quietly(f0, f), NEW g, g = Emit(f, ForCode(h, v))
    PROVE  \E made : /\ Makes(f0, g, made, {}) /\ Len(g.blocks) = Len(f.blocks)
                     /\ \A m : Matters(m) => (m \in made <=> m = <<"alloc", v + 3, {}, <<h, "slot">>>>)
<1>1. PICK a, b, c, d :
        /\ a = Instr("const", v + 1, {}, NoEvent) /\ b = Instr("call", v + 2, {v + 1}, <<h, "iter">>)
        /\ c = Instr("alloc", v + 3, {}, <<h, "slot">>) /\ d = Instr("const", v + 4, {}, NoEvent)
  OBVIOUS
<1>2. v + 1 \in Nat /\ v + 2 \in Nat /\ v + 3 \in Nat /\ v + 4 \in Nat /\ {v + 1} \in SUBSET Nat /\ {} \in SUBSET Nat
  OBVIOUS
<1>3. /\ "const" \in InstrOps /\ "call" \in InstrOps /\ "alloc" \in InstrOps
      /\ NoEvent \in Event /\ <<h, "iter">> \in Event /\ <<h, "slot">> \in Event
  BY DEF InstrOps, Event, Phases, NoEvent
<1>4. a \in InstrSet /\ b \in InstrSet /\ c \in InstrSet /\ d \in InstrSet
  BY <1>1, <1>2, <1>3, InstrIs
<1>5. /\ MarkOf(a) = <<"const", v + 1, {}, NoEvent>> /\ MarkOf(b) = <<"call", v + 2, {v + 1}, <<h, "iter">>>>
      /\ MarkOf(c) = <<"alloc", v + 3, {}, <<h, "slot">>>> /\ MarkOf(d) = <<"const", v + 4, {}, NoEvent>>
  BY <1>1, MarkIs
<1>6. ForCode(h, v) = <<a, b, c, d>> /\ <<a, b, c, d>> \in Seq(InstrSet)
  BY <1>1, <1>4 DEF ForCode
<1>7. MarksOf(<<a, b, c, d>>) = {MarkOf(a), MarkOf(b), MarkOf(c), MarkOf(d)}
  BY DEF MarksOf
<1>8. Does(f, f, {}, {})
  BY DEF Does, Quietly
<1>9. Makes(f0, g, MarksOf(<<a, b, c, d>>), {})
  BY <1>6, <1>8, EmitMakes
<1>12. Len(g.blocks) = Len(f.blocks)
  BY <1>6, EmitDoes DEF Quietly, Does
<1>10. ~Matters(MarkOf(a)) /\ ~Matters(MarkOf(b)) /\ ~Matters(MarkOf(d))
  BY <1>5 DEF Matters, NoEvent
<1>11. \A m : Matters(m) => (m \in MarksOf(<<a, b, c, d>>) <=> m = MarkOf(c))
  <2>1. Matters(MarkOf(c))
    BY <1>5 DEF Matters
  <2> QED
    BY <1>7, <1>10, <2>1
<1>13. PICK made : made = MarksOf(<<a, b, c, d>>)
  OBVIOUS
<1>14. \A m : Matters(m) => (m \in made <=> m = <<"alloc", v + 3, {}, <<h, "slot">>>>)
  BY <1>5, <1>11, <1>13
<1>15. Makes(f0, g, made, {})
  BY <1>9, <1>13
<1> QED
  BY <1>12, <1>14, <1>15

LEMMA BeginForMakes ==
    ASSUME Inv, NEW name \in Names, BeginFor(name)
    PROVE  \E slot, made :
              /\ slot \in Nat /\ Makes(fn, fn', made, {}) /\ env' = PushScope(Insert(PushScope(env), name, slot))
              /\ \A m : Matters(m) => (m \in made <=> m = <<"alloc", slot, {}, <<Here, "slot">>>>)
<1>1. PICK f, n, v, h : f = EnsureOpenBlock(fn) /\ n = Len(f.blocks) /\ v = f.values /\ h = Here
  OBVIOUS
<1>2. Quietly(fn, f) /\ v \in Nat /\ h \in Nat /\ n \in Nat /\ f.current \in Nat
  BY <1>1, StartsQuietly, Indices
<1>3. PICK i4, i2, j2 :
        /\ i4 = ForCode(h, v)
        /\ i2 = <<Phi(v + 5, {<<v + 4, f.current>>}),
                  Instr("binop", v + 6, {v + 5, v + 2}, <<h, "test">>)>>
        /\ j2 = <<Instr("index", v + 7, {v + 1, v + 5}, <<h, "item">>),
                  Instr("store", 0, {v + 3, v + 7}, NoEvent)>>
  OBVIOUS
<1>4. PICK e, k, b, s, u, w, x, y :
        /\ e = Emit(f, i4) /\ k = NewValues(e, 7) /\ b = NewBlocks(k, 4)
        /\ s = SetTerminator(b, Jump(n + 1)) /\ u = EnterBlock(s, n + 1) /\ w = Emit(u, i2)
        /\ x = SetTerminator(w, Branch(v + 6, n + 2, n + 4)) /\ y = EnterBlock(x, n + 2)
  OBVIOUS
<1>5. fn' = Emit(y, j2) /\ env' = PushScope(Insert(PushScope(env), name, v + 3))
  BY <1>1, <1>3, <1>4 DEF BeginFor, ForCode
<1>6. PICK made : /\ Makes(fn, e, made, {}) /\ Len(e.blocks) = Len(f.blocks)
                  /\ \A m : Matters(m) => (m \in made <=> m = <<"alloc", v + 3, {}, <<h, "slot">>>>)
  BY <1>2, <1>3, <1>4, ForCalls, ZenonT(30)
<1>7. Shaped(e) /\ Quietly(e, e)
  <2>1. Shaped(e)
    BY <1>6 DEF Makes
  <2> QED
    BY <2>1, QuietlyStarts
<1>8. Len(e.blocks) = n
  BY <1>1, <1>6
<1>9. Quietly(e, k) /\ k.blocks = e.blocks
  <2>1. 7 \in Nat
    OBVIOUS
  <2> QED
    BY <1>4, <1>7, <2>1, QuietlyCounts
<1>10. Quietly(e, b) /\ DOMAIN b.blocks = 1 .. n + 4
  <2>1. Len(k.blocks) = n /\ 4 \in Nat
    BY <1>8, <1>9
  <2>2. Quietly(e, NewBlocks(k, 4)) /\ DOMAIN NewBlocks(k, 4).blocks = 1 .. Len(k.blocks) + 4
    BY <1>9, <2>1, QuietlyBuilds, ZenonT(30)
  <2> QED
    BY <1>4, <2>1, <2>2
<1>11. /\ n + 1 \in 1 .. n + 4 /\ n + 2 \in 1 .. n + 4 /\ n + 1 \in Nat /\ n + 2 \in Nat /\ n + 4 \in Nat
       /\ v + 1 \in Nat /\ v + 2 \in Nat /\ v + 3 \in Nat /\ v + 4 \in Nat /\ v + 5 \in Nat /\ v + 6 \in Nat /\ v + 7 \in Nat
  BY <1>2
<1>12. Jump(n + 1) \in TermSet /\ Branch(v + 6, n + 2, n + 4) \in TermSet
  BY <1>11, JumpIs, BranchIs
<1>13. Quietly(e, s) /\ DOMAIN s.blocks = 1 .. n + 4
  <2>1. Quietly(e, SetTerminator(b, Jump(n + 1))) /\ DOMAIN SetTerminator(b, Jump(n + 1)).blocks = DOMAIN b.blocks
    BY <1>10, <1>12, QuietlyEnds
  <2> QED
    BY <1>4, <1>10, <2>1
<1>14. Quietly(e, u) /\ DOMAIN u.blocks = 1 .. n + 4
  BY <1>4, <1>11, <1>13, QuietlyEnters, SMTT(30)
<1>15. i2 \in Seq(InstrSet) /\ Quiet(MarksOf(i2))
  <2>1. PICK p, q : p = Phi(v + 5, {<<v + 4, f.current>>}) /\ q = Instr("binop", v + 6, {v + 5, v + 2}, <<h, "test">>)
    OBVIOUS
  <2>2. p \in InstrSet /\ MarkOf(p)[1] # "alloc" /\ MarkOf(p)[4][2] # "do"
    BY <1>2, <1>11, <2>1, PhiMarks
  <2>3. q \in InstrSet /\ MarkOf(q)[1] # "alloc" /\ MarkOf(q)[4][2] # "do"
    <3>1. {v + 5, v + 2} \in SUBSET Nat /\ "binop" \in InstrOps /\ "test" \in Phases
      BY <1>11 DEF InstrOps, Phases
    <3> QED
      BY <1>2, <1>11, <2>1, <3>1, QuietInstr
  <2>4. i2 = <<p, q>>
    BY <1>3, <2>1
  <2> QED
    BY <2>2, <2>3, <2>4, QuietTwo
<1>16. Quietly(e, w) /\ DOMAIN w.blocks = 1 .. n + 4
  BY <1>4, <1>14, <1>15, QuietlyEmits
<1>17. Quietly(e, x) /\ DOMAIN x.blocks = 1 .. n + 4
  <2>1. Quietly(e, SetTerminator(w, Branch(v + 6, n + 2, n + 4))) /\ DOMAIN SetTerminator(w, Branch(v + 6, n + 2, n + 4)).blocks = DOMAIN w.blocks
    BY <1>12, <1>16, QuietlyEnds
  <2> QED
    BY <1>4, <1>16, <2>1
<1>18. Quietly(e, y)
  BY <1>4, <1>11, <1>17, QuietlyEnters
<1>19. j2 \in Seq(InstrSet) /\ Quiet(MarksOf(j2))
  <2>1. PICK p, q : p = Instr("index", v + 7, {v + 1, v + 5}, <<h, "item">>) /\ q = Instr("store", 0, {v + 3, v + 7}, NoEvent)
    OBVIOUS
  <2>2. p \in InstrSet /\ MarkOf(p)[1] # "alloc" /\ MarkOf(p)[4][2] # "do"
    <3>1. {v + 1, v + 5} \in SUBSET Nat /\ "index" \in InstrOps /\ "item" \in Phases
      BY <1>11 DEF InstrOps, Phases
    <3> QED
      BY <1>2, <1>11, <2>1, <3>1, QuietInstr
  <2>3. q \in InstrSet /\ MarkOf(q)[1] # "alloc" /\ MarkOf(q)[4][2] # "do"
    <3>1. {v + 3, v + 7} \in SUBSET Nat /\ "store" \in InstrOps /\ "none" \in Phases /\ NoEvent = <<0, "none">> /\ 0 \in Nat
      BY <1>11 DEF InstrOps, Phases, NoEvent
    <3> QED
      BY <2>1, <3>1, QuietInstr
  <2>4. j2 = <<p, q>>
    BY <1>3, <2>1
  <2> QED
    BY <2>2, <2>3, <2>4, QuietTwo
<1>20. Quietly(e, fn')
  BY <1>5, <1>18, <1>19, QuietlyEmits
<1>21. Makes(fn, fn', made, {})
  BY <1>6, <1>20, MakesFurther
<1> QED
  BY <1>1, <1>5, <1>6, <1>11, <1>21

-----------------------------------------------------------------------------
(* The actions *)

LEMMA KnowsNamesNext ==
    ASSUME NEW fs, frames' = fs, NEW e, env' = e, NEW o, Outer' = o, NamesIn(fs, e, o)'
    PROVE  KnowsNames'
  BY DEF KnowsNames, NamesIn

LEMMA OnlyHere ==
    ASSUME NEW made, NEW h, \A m \in made : m[4] = <<h, "do">>
    PROVE  Fresh(made, h)
  BY DEF Fresh

LEMMA StepIs ==
    ASSUME ScopeInv, NEW t, Adds(t), NEW h, h = Here, NEW made, NEW told, Makes(fn, fn', made, told), Fresh(made, h)
    PROVE  Step(t, h, made, told)
  BY DEF Step, ScopeInv

(* A statement without a body that declares nothing *)
LEMMA PlainScopes ==
    ASSUME Inv, Inv', ScopeInv, ~done, NEW t, NEW h, NEW made, NEW told, Step(t, h, made, told), t.opener = 0,
           t.kind \notin OpensBlock \cup {"stage", "let"}, frames' = frames, env' = env,
           told # {} <=> Stray(h)', \A p \in {h} : \A m \in made : Accesses(p, m)' => Resolves(p, m)'
    PROVE  ScopeInv'
<1>0. PICK fs, e, o : fs = frames /\ e = env /\ o = Outer
  OBVIOUS
<1>1. KnowsBlocks' /\ Outer' = o
  BY <1>0, BlocksStay DEF Step, Inv, IsShaped
<1>2. NamesIn(fs, e, o)
  BY <1>0 DEF ScopeInv, KnowsNames
<1>3. \A i \in DOMAIN fs : FrameFits(fs[i])
  BY <1>0 DEF ScopeInv, KnowsBlocks
<1>4. NamesIn(fs, e, o)'
  BY <1>2, <1>3, NamesStay
<1>5. KnowsNames'
  BY <1>0, <1>1, <1>4, KnowsNamesNext
<1>6. KnowsAccesses' /\ ErrorsAreJustified'
  BY StepKnows DEF ScopeInv, Step
<1> QED
  BY <1>1, <1>5, <1>6 DEF ScopeInv

(* A slot was made for a token that was lowered. *)
LEMMA SlotsOfTokens ==
    ASSUME KnowsAccesses, NEW q, NEW slot, Slots(Marks(fn), q) = {slot}
    PROVE  q \in Tokens
<1>1. slot \in Slots(Marks(fn), q)
  OBVIOUS
<1>2. PICK a \in Marks(fn) : a[1] = "alloc" /\ a[4][1] = q
  BY <1>1 DEF Slots
<1> QED
  BY <1>2 DEF KnowsAccesses, Matters

LEMMA UseScopes ==
    ASSUME Inv, Inv', ScopeInv, NEW name \in Names, Use(name)
    PROVE  ScopeInv'
<1>1. ~done /\ frames' = frames /\ env' = env /\ Add("use", name)
  BY DEF Use, Room
<1>2. PICK t : Adds(t) /\ t.kind = "use" /\ t.name = name /\ t.opener = 0
  <2>1. "use" \in TokenKinds /\ name \in Names \cup {NoName}
    BY DEF TokenKinds
  <2> QED
    BY <1>1, <2>1, PlainAdds DEF ScopeInv
<1>3. PICK h : h = Here
  OBVIOUS
<1>4. PICK made, told :
        /\ Makes(fn, fn', made, told)
        /\ told # {} <=> name \notin Consts /\ Bound(env, name) = {}
        /\ \A m \in made : /\ m[1] # "alloc" /\ m[4] = <<h, "do">>
                           /\ m[1] = "load" => Bound(env, name) # {} /\ Lookup(env, name) \in m[3]
  BY <1>3, UseMakes
<1>5. Step(t, h, made, told)
  BY <1>2, <1>3, <1>4, OnlyHere, StepIs
<1>6. /\ Nearest(name) = {} <=> Bound(env, name) = {}
      /\ Bound(env, name) # {} => \E q \in Nearest(name) : Slots(Marks(fn), q) = {Lookup(env, name)}
  BY <1>1, NearestIs DEF ScopeInv
<1>7. \A p \in {h} : /\ Declarations(p)' = Nearest(name) /\ Kind(p)' = "use" /\ program'[p] = t
  BY <1>2, <1>3, PresentDeclares DEF Inv, IsShaped
<1>8. told # {} <=> Stray(h)'
  <2>1. Declarations(h)' = Nearest(name) /\ Kind(h)' = "use" /\ program'[h].name = name
    BY <1>2, <1>7
  <2> QED
    BY <1>4, <1>6, <2>1 DEF Stray
<1>9. ASSUME NEW p \in {h}, NEW m \in made, Accesses(p, m)'
      PROVE  Resolves(p, m)'
  <2>1. m[1] = "load"
    BY <1>7, <1>9 DEF Accesses
  <2>2. Bound(env, name) # {} /\ Lookup(env, name) \in m[3]
    BY <1>4, <2>1
  <2>3. PICK q \in Nearest(name) : Slots(Marks(fn), q) = {Lookup(env, name)}
    BY <1>6, <2>2
  <2>4. q \in Tokens
    BY <2>3, SlotsOfTokens DEF ScopeInv
  <2>5. Slots(Marks(fn'), q) = {Lookup(env, name)}
    BY <1>5, <2>3, <2>4, SlotsStay1 DEF Step, ScopeInv
  <2>6. PICK slot : slot = Lookup(env, name)
    OBVIOUS
  <2>7. q \in Declarations(p)' /\ slot \in m[3] /\ Slots(Marks(fn'), q) = {slot}
    BY <1>7, <2>2, <2>5, <2>6
  <2> QED
    BY <2>7 DEF Resolves, Slots, Marks
<1> QED
  BY <1>1, <1>2, <1>5, <1>8, <1>9, PlainScopes DEF OpensBlock

LEMMA AssignScopes ==
    ASSUME Inv, Inv', ScopeInv, NEW name \in Names, Assign(name)
    PROVE  ScopeInv'
<1>1. ~done /\ frames' = frames /\ env' = env /\ Add("assign", name)
  BY DEF Assign, Room
<1>2. PICK t : Adds(t) /\ t.kind = "assign" /\ t.name = name /\ t.opener = 0
  <2>1. "assign" \in TokenKinds /\ name \in Names \cup {NoName}
    BY DEF TokenKinds
  <2> QED
    BY <1>1, <2>1, PlainAdds DEF ScopeInv
<1>3. PICK h : h = Here
  OBVIOUS
<1>4. PICK made, told :
        /\ Makes(fn, fn', made, told)
        /\ told # {} <=> Bound(env, name) = {}
        /\ \A m \in made : /\ m[1] # "alloc" /\ m[4] = <<h, "do">>
                           /\ Bound(env, name) # {} /\ Lookup(env, name) \in m[3]
  BY <1>3, AssignMakes
<1>5. Step(t, h, made, told)
  BY <1>2, <1>3, <1>4, OnlyHere, StepIs
<1>6. /\ Nearest(name) = {} <=> Bound(env, name) = {}
      /\ Bound(env, name) # {} => \E q \in Nearest(name) : Slots(Marks(fn), q) = {Lookup(env, name)}
  BY <1>1, NearestIs DEF ScopeInv
<1>7. \A p \in {h} : /\ Declarations(p)' = Nearest(name) /\ Kind(p)' = "assign" /\ program'[p] = t
  BY <1>2, <1>3, PresentDeclares DEF Inv, IsShaped
<1>8. told # {} <=> Stray(h)'
  <2>1. Declarations(h)' = Nearest(name) /\ Kind(h)' = "assign"
    BY <1>7
  <2> QED
    BY <1>4, <1>6, <2>1 DEF Stray
<1>9. ASSUME NEW p \in {h}, NEW m \in made, Accesses(p, m)'
      PROVE  Resolves(p, m)'
  <2>2. Bound(env, name) # {} /\ Lookup(env, name) \in m[3]
    BY <1>4
  <2>3. PICK q \in Nearest(name) : Slots(Marks(fn), q) = {Lookup(env, name)}
    BY <1>6, <2>2
  <2>4. q \in Tokens
    BY <2>3, SlotsOfTokens DEF ScopeInv
  <2>5. Slots(Marks(fn'), q) = {Lookup(env, name)}
    BY <1>5, <2>3, <2>4, SlotsStay1 DEF Step, ScopeInv
  <2>6. PICK slot : slot = Lookup(env, name)
    OBVIOUS
  <2>7. q \in Declarations(p)' /\ slot \in m[3] /\ Slots(Marks(fn'), q) = {slot}
    BY <1>7, <2>2, <2>5, <2>6
  <2> QED
    BY <2>7 DEF Resolves, Slots, Marks
<1> QED
  BY <1>1, <1>2, <1>5, <1>8, <1>9, PlainScopes DEF OpensBlock

(* A step that touches no variable *)
LEMMA QuietStep ==
    ASSUME ScopeInv, NEW t, Adds(t), NEW h, h = Here, Quietly(fn, fn')
    PROVE  Step(t, h, {}, {})
<1>1. Makes(fn, fn', {}, {}) /\ Fresh({}, h)
  BY QuietlyMakes DEF Fresh
<1> QED
  BY <1>1, StepIs

LEMMA NotStray ==
    ASSUME NEW t, Adds(t), NEW h, h = Here, t.kind \notin {"break", "continue", "assign", "use"}
    PROVE  ~Stray(h)'
<1>1. Kind(h)' = t.kind
  BY Added
<1> QED
  BY <1>1 DEF Stray

LEMMA ReturnScopes ==
    ASSUME Inv, Inv', ScopeInv, Return
    PROVE  ScopeInv'
<1>1. ~done /\ frames' = frames /\ env' = env /\ Add("return", NoName)
  BY DEF Return, Room
<1>2. PICK t : Adds(t) /\ t.kind = "return" /\ t.opener = 0
  <2>1. "return" \in TokenKinds /\ NoName \in Names \cup {NoName}
    BY DEF TokenKinds
  <2> QED
    BY <1>1, <2>1, PlainAdds DEF ScopeInv
<1>3. PICK h : h = Here
  OBVIOUS
<1>4. Step(t, h, {}, {})
  BY <1>2, <1>3, ReturnIsQuiet, QuietStep
<1>5. ~Stray(h)'
  BY <1>2, <1>3, NotStray
<1> QED
  BY <1>1, <1>2, <1>4, <1>5, PlainScopes DEF OpensBlock

LEMMA LeaveForScopes ==
    ASSUME Inv, Inv', ScopeInv, NEW kind \in {"break", "continue"}, NEW target, loops # <<>> => target \in Nat,
           LeaveFor(kind, target)
    PROVE  ScopeInv'
<1>1. ~done /\ frames' = frames /\ env' = env /\ Add(kind, NoName)
  BY DEF LeaveFor, Room
<1>2. PICK t : Adds(t) /\ t.kind = kind /\ t.opener = 0
  <2>1. kind \in TokenKinds /\ NoName \in Names \cup {NoName}
    BY DEF TokenKinds
  <2> QED
    BY <1>1, <2>1, PlainAdds DEF ScopeInv
<1>3. PICK h : h = Here
  OBVIOUS
<1>4. Kind(h)' \in {"break", "continue"} /\ LoopsAround(h)' = LoopsAround(h)
  BY <1>2, <1>3, PresentDeclares DEF Inv, IsShaped
<1>5. Stray(h)' <=> loops = <<>>
  <2>1. loops = <<>> <=> LoopsAround(h) = {}
    BY <1>3, LoopsKnown DEF ScopeInv
  <2> QED
    BY <1>4, <2>1 DEF Stray
<1>6. CASE loops # <<>>
  <2>1. Step(t, h, {}, {})
    BY <1>2, <1>3, <1>6, LeaveForDoes, QuietStep
  <2> QED
    BY <1>1, <1>2, <1>5, <1>6, <2>1, PlainScopes DEF OpensBlock
<1>7. CASE loops = <<>>
  <2>0. PICK told : told = {"outside of a loop"}
    OBVIOUS
  <2>1. PICK marks : Quiet(marks) /\ Does(fn, fn', marks, told)
    BY <1>7, <2>0, LeaveForDoes
  <2>2. marks \cup {} = marks
    OBVIOUS
  <2>3. Makes(fn, fn', {}, told) /\ Fresh({}, h)
    BY <2>1, <2>2, QuietMakes DEF Fresh
  <2>4. Step(t, h, {}, told)
    BY <1>2, <1>3, <2>3, StepIs
  <2>5. told # {} <=> Stray(h)'
    BY <1>5, <1>7, <2>0
  <2>6. t.kind \notin OpensBlock \cup {"stage", "let"}
    BY <1>2 DEF OpensBlock
  <2> QED
    BY <1>1, <1>2, <2>4, <2>5, <2>6, PlainScopes
<1> QED
  BY <1>6, <1>7

LEMMA BreakScopes ==
    ASSUME Inv, Inv', ScopeInv, Break \/ Continue
    PROVE  ScopeInv'
<1>1. loops # <<>> => Last(loops).break \in Nat /\ Last(loops).continue \in Nat
  <2>1. loops # <<>> => Last(loops) \in Targets
    BY FrontLast DEF Inv, IsShaped
  <2> QED
    BY <2>1 DEF Targets
<1>2. CASE Break
  <2> DEFINE target == IF loops = <<>> THEN 0 ELSE Last(loops).break
  <2>1. LeaveFor("break", target) /\ (loops # <<>> => target \in Nat)
    BY <1>1, <1>2 DEF Break
  <2> HIDE DEF target
  <2> QED
    BY <2>1, LeaveForScopes
<1>3. CASE Continue
  <2> DEFINE target == IF loops = <<>> THEN 0 ELSE Last(loops).continue
  <2>1. LeaveFor("continue", target) /\ (loops # <<>> => target \in Nat)
    BY <1>1, <1>3 DEF Continue
  <2> HIDE DEF target
  <2> QED
    BY <2>1, LeaveForScopes
<1> QED
  BY <1>2, <1>3

(* A statement that opens, ends or continues blocks: the rest of what is   *)
(* known follows from the blocks and the names.                            *)
LEMMA TurnScopes ==
    ASSUME Inv, Inv', ScopeInv, NEW t, NEW h, NEW made, Step(t, h, made, {}),
           t.kind \notin {"break", "continue", "assign", "use"},
           KnowsBlocks', KnowsNames'
    PROVE  ScopeInv'
<1>1. ~Stray(h)'
  BY NotStray DEF Step
<1>2. Kind(h)' = t.kind
  BY Added DEF Step
<1>3. ASSUME NEW p \in {h}, NEW m \in made, Accesses(p, m)'
      PROVE  Resolves(p, m)'
  BY <1>2, <1>3 DEF Accesses
<1>4. KnowsAccesses' /\ ErrorsAreJustified'
  BY <1>1, <1>3, StepKnows DEF ScopeInv, Step
<1> QED
  BY <1>4 DEF ScopeInv

LEMMA LetScopes ==
    ASSUME Inv, Inv', ScopeInv, NEW name \in Names, Let(name)
    PROVE  ScopeInv'
<1>1. ~done /\ frames' = frames /\ Add("let", name)
  BY DEF Let, Room
<1>2. PICK t : Adds(t) /\ t.kind = "let" /\ t.name = name /\ t.opener = 0 /\ t.scope = InScope
  <2>1. "let" \in TokenKinds /\ name \in Names \cup {NoName}
    BY DEF TokenKinds
  <2> QED
    BY <1>1, <2>1, PlainAdds DEF ScopeInv
<1>3. PICK h, fs, e, o : h = Here /\ fs = frames /\ e = env /\ o = Outer
  OBVIOUS
<1>4. PICK slot, made :
        /\ slot \in Nat /\ Makes(fn, fn', made, {}) /\ env' = Insert(e, name, slot)
        /\ \A m : Matters(m) => (m \in made <=>
              \/ m = <<"alloc", slot, {}, <<h, "slot">>>>
              \/ m[1] = "store" /\ m[4] = <<h, "do">> /\ m \in made)
  BY <1>3, LetMakes
<1>5. Fresh(made, h)
  BY <1>4 DEF Fresh
<1>6. Step(t, h, made, {})
  BY <1>2, <1>3, <1>4, <1>5, StepIs
<1>7. Slots(Marks(fn'), h) = {slot}
  <2>1. \A m : m[1] = "alloc" => (m \in made <=> m = <<"alloc", slot, {}, <<h, "slot">>>>)
    BY <1>4 DEF Matters
  <2>2. KnowsBlocks /\ KnowsAccesses /\ h = Here /\ Makes(fn, fn', made, {})
    BY <1>3, <1>4 DEF ScopeInv
  <2> QED
    BY <2>1, <2>2, SlotMade
<1>8. KnowsBlocks' /\ Outer' = o
  BY <1>1, <1>2, <1>3, BlocksStay DEF Inv, IsShaped, OpensBlock
<1>9. NamesIn(fs, e, o) /\ fs \in Seq(FrameSet) /\ e \in Seq(ScopeSet)
  BY <1>1, <1>3 DEF ScopeInv, KnowsNames, Inv, IsShaped
<1>10. Len(e) = ScopesBelow(fs, Len(fs) + 1) /\ Len(e) > 1 /\ DOMAIN e = 1 .. Len(e) /\ Len(e) \in Nat
  BY <1>1, <1>3, Indices DEF Inv, CountsScopes
<1>11. PICK old, new, g :
         /\ old = e[Len(e)] /\ g = Insert(e, name, slot)
         /\ new = [n \in DOMAIN old \cup {name} |-> IF n = name THEN slot ELSE old[n]]
  OBVIOUS
<1>12. g[Len(e)] = new /\ \A j \in DOMAIN e : j # Len(e) => g[j] = e[j]
  BY <1>10, <1>11 DEF Insert
<1>13. t.scope = (IF fs = <<>> THEN o ELSE Last(fs).scope)
  BY <1>2, <1>3, <1>9, InScopeIs DEF ScopeInv
<1>0. new = [n \in DOMAIN old \cup {t.name} |-> IF n = t.name THEN slot ELSE old[n]]
  BY <1>2, <1>11
<1>14. NamesIn(fs, g, o)'
  <2>1. CASE fs = <<>>
    <3>1. Len(e) = 2
      BY <1>10, <2>1, NoFrames
    <3>2. HoldsLets(old, o)
      BY <1>9, <1>11, <3>1 DEF NamesIn
    <3>3. HoldsLets(new, o)'
      <4>1. t.scope = o /\ HoldsLets(old, t.scope)
        BY <1>13, <2>1, <3>2
      <4>2. HoldsLets(new, t.scope)'
        BY <1>2, <1>6, <1>7, <1>0, <4>1, HoldsLet
      <4> QED
        BY <4>1, <4>2
    <3>4. g[2] = new /\ DOMAIN fs = {}
      BY <1>12, <2>1, <3>1, NoFrames
    <3> QED
      BY <3>3, <3>4 DEF NamesIn
  <2>2. CASE fs # <<>>
    <3>1. PICK gs, x : gs = Front(fs) /\ x = Last(fs)
      OBVIOUS
    <3>2. gs \in Seq(FrameSet) /\ x \in FrameSet /\ fs = Append(gs, x) /\ Len(gs) = Len(fs) - 1 /\ Len(fs) \in Nat /\ Len(gs) \in Nat
      BY <1>9, <2>2, <3>1, FrontAndLast, SequenceIs
    <3>3. PICK k : k = ScopesBelow(gs, Len(gs) + 1)
      OBVIOUS
    <3>4. Len(e) = k + (IF x.kind = "for" THEN 2 ELSE 1) /\ k \in Nat /\ k >= 2
      BY <1>1, <1>3, <3>2, <3>3, LastCounts
    <3>5. NamesIn(gs, e, o)
      BY <1>9, <3>2, <3>3, NamesShorter
    <3>6. FrameFits(x) /\ \A i \in DOMAIN gs : FrameFits(gs[i]) /\ gs[i].scope < x.at
      <4>1. /\ \A i \in DOMAIN gs : i \in DOMAIN fs /\ gs[i] = fs[i]
            /\ Len(gs) + 1 \in DOMAIN fs /\ fs[Len(gs) + 1] = x
        BY <3>2, AwaitedByLonger
      <4>2. FramesNest(Append(gs, x)) /\ \A i \in DOMAIN fs : FrameFits(fs[i])
        BY <1>3, <3>2 DEF ScopeInv, KnowsBlocks
      <4> QED
        BY <3>2, <4>1, <4>2, ScopesInLonger
    <3>7. x.scope = t.scope /\ x.scope # o /\ x.scope \notin ScopesIn(gs)
      <4>1. x.at \in Nat /\ x.scope \in Nat /\ x.at <= x.scope
        BY <1>2, <3>2, <3>6, FrameFitsStill
      <4>2. o < x.at /\ o \in Nat
        <5>1. fs[Len(fs)] = x /\ Len(fs) \in DOMAIN fs
          BY <1>9, <2>2, <3>1, LastIn
        <5>2. o \in Nat
          BY <1>3, <1>9, InScopeIs DEF ScopeInv
        <5> QED
          BY <1>3, <5>1, <5>2 DEF ScopeInv, KnowsBlocks
      <4>3. \A i \in DOMAIN gs : gs[i].scope \in Nat
        <5>1. \A i \in DOMAIN gs : gs[i] \in FrameSet
          BY <3>2, SequenceIs
        <5> QED
          BY <5>1 DEF FrameSet
      <4>4. \A i \in DOMAIN gs : gs[i].scope # x.scope
        BY <3>6, <4>1, <4>3
      <4>5. x.scope # o
        BY <4>1, <4>2
      <4>6. x.scope = t.scope
        BY <1>13, <2>2, <3>1
      <4> QED
        BY <4>4, <4>5, <4>6 DEF ScopesIn
    <3>8. NamesIn(gs, e, o)'
      BY <1>6, <3>5, <3>6, <3>7, NamesStay
    <3>9. HoldsLets(old, x.scope)
      <4>1. fs[Len(fs)] = x /\ Len(fs) \in DOMAIN fs
        BY <1>9, <2>2, <3>1, LastIn
      <4>2. HoldsLets(e[ScopesBelow(fs, Len(fs) + 1)], fs[Len(fs)].scope)
        BY <1>9, <4>1 DEF NamesIn
      <4> QED
        BY <1>10, <1>11, <4>1, <4>2
    <3>10. HoldsLets(new, x.scope)'
      <4>1. t.scope = x.scope /\ HoldsLets(old, t.scope)
        BY <3>7, <3>9
      <4>2. HoldsLets(new, t.scope)'
        BY <1>2, <1>6, <1>7, <1>0, <4>1, HoldsLet
      <4> QED
        BY <4>1, <4>2
    <3>11. new = (IF x.kind = "for" THEN g[k + 2] ELSE g[k + 1]) /\ \A j \in 2 .. k : g[j] = e[j]
      <4>1. \A j \in 2 .. k : j \in DOMAIN e /\ j # Len(e)
        BY <1>10, <3>4
      <4> QED
        BY <1>12, <3>4, <4>1
    <3>12. PICK counter : counter = g[k + 1]
      OBVIOUS
    <3>13. x.kind = "for" => HoldsCounter(counter, x.at)'
      <4>1. SUFFICES ASSUME x.kind = "for" PROVE HoldsCounter(counter, x.at)'
        OBVIOUS
      <4>2. fs[Len(fs)] = x /\ Len(fs) \in DOMAIN fs
        BY <1>9, <2>2, <3>1, LastIn
      <4>3. ScopesBelow(fs, Len(fs)) = k
        <5>1. Len(gs) + 1 \in 1 .. Len(gs) + 1 /\ Len(gs) + 1 = Len(fs)
          BY <3>2
        <5> QED
          BY <3>2, <3>3, <5>1, ScopesBelowSame
      <4>4. HoldsCounter(e[k + 1], x.at)
        BY <1>9, <4>1, <4>2, <4>3 DEF NamesIn
      <4>5. k + 1 \in DOMAIN e /\ k + 1 # Len(e)
        BY <1>10, <3>4, <4>1
      <4>6. counter = e[k + 1]
        BY <1>12, <3>12, <4>5
      <4>7. x.at \in Tokens
        BY <3>6 DEF FrameFits
      <4> QED
        BY <1>6, <4>4, <4>6, <4>7, CounterStays
    <3> QED
      BY <3>2, <3>3, <3>8, <3>10, <3>11, <3>12, <3>13, NamesLonger
  <2> QED
    BY <2>1, <2>2
<1>15. KnowsNames'
  BY <1>1, <1>3, <1>4, <1>8, <1>11, <1>14, KnowsNamesNext
<1> QED
  BY <1>2, <1>6, <1>8, <1>15, TurnScopes

(* Opening a statement leaves the scopes there are as they were, and adds  *)
(* those of the statement: an empty one, under that of its counter.        *)
LEMMA OpensNames ==
    ASSUME Inv, ScopeInv, ~done, NEW t, NEW h, NEW made, NEW told, Step(t, h, made, told),
           t.opener = 0, t.kind \in {"if", "while", "for"},
           NEW x \in FrameSet, frames' = Append(frames, x), x.at = h, x.scope = h,
           x.kind = (IF t.kind = "if" THEN "then" ELSE t.kind),
           NEW k, k = Len(env), NEW f, env' = f, \A j \in DOMAIN env : f[j] = env[j],
           NEW top, top = (IF x.kind = "for" THEN f[k + 2] ELSE f[k + 1]), top = NewScope,
           NEW name, name = f[k + 1], x.kind = "for" => HoldsCounter(name, h)'
    PROVE  KnowsBlocks' /\ KnowsNames'
<1>1. PICK fs, e, o : fs = frames /\ e = env /\ o = Outer
  OBVIOUS
<1>2. fs \in Seq(FrameSet) /\ e \in Seq(ScopeSet)
  BY <1>1 DEF Inv, IsShaped
<1>3. KnowsBlocks' /\ Outer' = o
  <2>1. t.kind \in OpensBlock /\ t.kind # "else" /\ Adds(t) /\ h = Here
    BY DEF OpensBlock, Step
  <2> QED
    BY <1>1, <1>2, <2>1, BlocksOpen
<1>4. NamesIn(fs, e, o) /\ \A i \in DOMAIN fs : FrameFits(fs[i])
  BY <1>1 DEF ScopeInv, KnowsNames, KnowsBlocks
<1>5. NamesIn(fs, e, o)'
  <2>1. t.kind # "let"
    OBVIOUS
  <2> QED
    BY <1>4, <2>1, NamesStay
<1>6. k = ScopesBelow(fs, Len(fs) + 1) /\ \A j \in 2 .. k : f[j] = e[j]
  <2>1. k = ScopesBelow(fs, Len(fs) + 1)
    BY <1>1 DEF Inv, CountsScopes
  <2>2. DOMAIN e = 1 .. k /\ k \in Nat
    BY <1>1, <1>2, SequenceIs
  <2>3. \A j \in 2 .. k : j \in DOMAIN e
    BY <2>2
  <2> QED
    BY <1>1, <2>1, <2>3
<1>7. HoldsLets(top, x.scope)'
  <2>1. HoldsLets(NewScope, h)'
    BY HoldsNew
  <2> QED
    BY <2>1
<1>8. x.kind = "for" => HoldsCounter(name, x.at)'
  OBVIOUS
<1>9. NamesIn(Append(fs, x), f, o)'
  BY <1>2, <1>5, <1>6, <1>7, <1>8, NamesLonger
<1>10. PICK gs : gs = Append(fs, x)
  OBVIOUS
<1>11. KnowsNames'
  <2>1. NamesIn(gs, f, o)' /\ frames' = gs
    BY <1>1, <1>9, <1>10
  <2> QED
    BY <1>3, <2>1, KnowsNamesNext
<1> QED
  BY <1>3, <1>11

(* Ending the innermost statement leaves the scopes below its own.         *)
LEMMA EndsNames ==
    ASSUME Inv, ScopeInv, ~done, NEW t, NEW h, NEW made, NEW told, Step(t, h, made, told),
           t.kind \in {"endif", "endwhile", "endfor"},
           frames # <<>>, NEW x, x = Last(frames), t.opener = x.at, frames' = Front(frames),
           NEW f, env' = f,
           \A j \in 1 .. Len(env) - (IF x.kind = "for" THEN 2 ELSE 1) : f[j] = env[j]
    PROVE  KnowsBlocks' /\ KnowsNames'
<1>1. PICK gs, fs, e, o : gs = frames /\ fs = Front(frames) /\ e = env /\ o = Outer
  OBVIOUS
<1>2. gs \in Seq(FrameSet) /\ e \in Seq(ScopeSet) /\ fs \in Seq(FrameSet) /\ x \in FrameSet /\ gs = Append(fs, x)
  BY <1>1, FrontAndLast DEF Inv, IsShaped
<1>3. KnowsBlocks' /\ Outer' = o
  <2>1. t.kind \notin OpensBlock /\ t.kind # "stage" /\ Adds(t) /\ h = Here
    BY DEF OpensBlock, Step
  <2> QED
    BY <1>1, <1>2, <2>1, BlocksEnd
<1>4. NamesIn(gs, e, o) /\ \A i \in DOMAIN gs : FrameFits(gs[i])
  BY <1>1 DEF ScopeInv, KnowsNames, KnowsBlocks
<1>5. PICK k : k = ScopesBelow(fs, Len(fs) + 1)
  OBVIOUS
<1>6. Len(e) = k + (IF x.kind = "for" THEN 2 ELSE 1) /\ k \in Nat
  <2>1. Len(fs) \in Nat
    BY <1>2, SequenceIs
  <2> QED
    BY <1>1, <1>2, <1>5, <2>1, LastCounts, ZenonT(30)
<1>7. \A j \in 2 .. k : f[j] = e[j]
  <2>1. \A j \in 2 .. k : j \in 1 .. Len(e) - (IF x.kind = "for" THEN 2 ELSE 1)
    BY <1>6
  <2> QED
    BY <1>1, <2>1
<1>8. NamesIn(fs, f, o)
  BY <1>2, <1>4, <1>5, <1>7, NamesShorter
<1>9. \A i \in DOMAIN fs : FrameFits(fs[i])
  BY <1>2, <1>4, AwaitedByLonger
<1>10. NamesIn(fs, f, o)'
  <2>1. t.kind # "let"
    OBVIOUS
  <2> QED
    BY <1>8, <1>9, <2>1, NamesStay
<1>11. KnowsNames'
  BY <1>1, <1>3, <1>10, KnowsNamesNext
<1> QED
  BY <1>3, <1>11

LEMMA AppendedIn ==
    ASSUME NEW S, NEW s \in Seq(S), NEW x, Append(s, x) \in Seq(S)
    PROVE  x \in S
<1>1. PICK g : g = Append(s, x)
  OBVIOUS
<1>2. Len(s) \in Nat
  BY SequenceIs
<1>3. Len(s) + 1 \in DOMAIN g /\ g[Len(s) + 1] = x
  BY <1>1, <1>2
<1> QED
  BY <1>1, <1>3, SequenceIs

(* The innermost statement has a scope of its own, and a loop over a list  *)
(* one for its counter too.                                                *)
LEMMA InnerScopes ==
    ASSUME Inv, ~done, frames # <<>>
    PROVE  /\ Len(env) \in Nat /\ Len(env) > 2
           /\ Last(frames).kind = "for" => Len(env) > 3
<1>1. PICK gs, fs, x : gs = frames /\ fs = Front(frames) /\ x = Last(frames)
  OBVIOUS
<1>2. gs \in Seq(FrameSet) /\ fs \in Seq(FrameSet) /\ x \in FrameSet /\ gs = Append(fs, x)
  BY <1>1, FrontAndLast DEF Inv, IsShaped
<1>3. PICK n : n = Len(fs) /\ n \in Nat
  BY <1>2, SequenceIs
<1>4. /\ Len(env) = ScopesBelow(fs, n + 1) + IF x.kind = "for" THEN 2 ELSE 1
      /\ ScopesBelow(fs, n + 1) \in Nat /\ ScopesBelow(fs, n + 1) >= 2
  BY <1>1, <1>2, <1>3, LastCounts, SMTT(30)
<1> QED
  BY <1>1, <1>4

LEMMA BeginIfScopes ==
    ASSUME Inv, Inv', ScopeInv, BeginIf
    PROVE  ScopeInv'
<1>1. ~done /\ Add("if", NoName) /\ env' = PushScope(env)
  BY DEF BeginIf, Opens, RoomForBody
<1>2. PICK t : Adds(t) /\ t.kind = "if" /\ t.name = NoName /\ t.opener = 0 /\ t.scope = InScope
  <2>1. "if" \in TokenKinds /\ NoName \in Names \cup {NoName}
    BY DEF TokenKinds
  <2> QED
    BY <1>1, <2>1, PlainAdds DEF ScopeInv
<1>3. PICK h : h = Here
  OBVIOUS
<1>4. Step(t, h, {}, {})
  BY <1>2, <1>3, BeginIfIsQuiet, QuietStep
<1>5. PICK x : frames' = Append(frames, x) /\ x.kind = "then" /\ x.at = h /\ x.scope = h
  <2>1. PICK other, exit : frames' = Append(frames, Frame("then", other, exit))
    BY DEF BeginIf, Opens
  <2>2. PICK x : x = Frame("then", other, exit)
    OBVIOUS
  <2>3. x.kind = "then" /\ x.at = h /\ x.scope = h
    BY <1>3, <2>2 DEF Frame
  <2> QED
    BY <2>1, <2>2, <2>3
<1>6. x \in FrameSet
  BY <1>5, AppendedIn DEF Inv, IsShaped
<1>7. PICK k, f, top, name : k = Len(env) /\ f = PushScope(env) /\ top = f[k + 1] /\ name = f[k + 1]
  OBVIOUS
<1>8. (\A j \in DOMAIN env : f[j] = env[j]) /\ top = NewScope
  BY <1>7, PushIs DEF Inv, IsShaped
<1>9. KnowsBlocks' /\ KnowsNames'
  <2>1. t.kind \in {"if", "while", "for"} /\ x.kind = (IF t.kind = "if" THEN "then" ELSE t.kind) /\ x.kind # "for"
    BY <1>2, <1>5
  <2>2. env' = f /\ top = (IF x.kind = "for" THEN f[k + 2] ELSE f[k + 1])
    BY <1>1, <1>7, <2>1
  <2> QED
    BY <1>1, <1>2, <1>4, <1>5, <1>6, <1>7, <1>8, <2>1, <2>2, OpensNames
<1>10. t.kind \notin {"break", "continue", "assign", "use"}
  BY <1>2
<1> QED
  BY <1>4, <1>9, <1>10, TurnScopes

LEMMA BeginWhileScopes ==
    ASSUME Inv, Inv', ScopeInv, BeginWhile
    PROVE  ScopeInv'
<1>1. ~done /\ Add("while", NoName) /\ env' = PushScope(env)
  BY DEF BeginWhile, Opens, RoomForBody
<1>2. PICK t : Adds(t) /\ t.kind = "while" /\ t.name = NoName /\ t.opener = 0 /\ t.scope = InScope
  <2>1. "while" \in TokenKinds /\ NoName \in Names \cup {NoName}
    BY DEF TokenKinds
  <2> QED
    BY <1>1, <2>1, PlainAdds DEF ScopeInv
<1>3. PICK h : h = Here
  OBVIOUS
<1>4. Step(t, h, {}, {})
  BY <1>2, <1>3, BeginWhileIsQuiet, QuietStep
<1>5. PICK x : frames' = Append(frames, x) /\ x.kind = "while" /\ x.at = h /\ x.scope = h
  <2>1. PICK other, exit : frames' = Append(frames, Frame("while", other, exit))
    BY DEF BeginWhile, Opens
  <2>2. PICK x : x = Frame("while", other, exit)
    OBVIOUS
  <2>3. x.kind = "while" /\ x.at = h /\ x.scope = h
    BY <1>3, <2>2 DEF Frame
  <2> QED
    BY <2>1, <2>2, <2>3
<1>6. x \in FrameSet
  BY <1>5, AppendedIn DEF Inv, IsShaped
<1>7. PICK k, f, top, name : k = Len(env) /\ f = PushScope(env) /\ top = f[k + 1] /\ name = f[k + 1]
  OBVIOUS
<1>8. (\A j \in DOMAIN env : f[j] = env[j]) /\ top = NewScope
  BY <1>7, PushIs DEF Inv, IsShaped
<1>9. KnowsBlocks' /\ KnowsNames'
  <2>1. t.kind \in {"if", "while", "for"} /\ x.kind = (IF t.kind = "if" THEN "then" ELSE t.kind) /\ x.kind # "for"
    BY <1>2, <1>5
  <2>2. env' = f /\ top = (IF x.kind = "for" THEN f[k + 2] ELSE f[k + 1])
    BY <1>1, <1>7, <2>1
  <2> QED
    BY <1>1, <1>2, <1>4, <1>5, <1>6, <1>7, <1>8, <2>1, <2>2, OpensNames
<1>10. t.kind \notin {"break", "continue", "assign", "use"}
  BY <1>2
<1> QED
  BY <1>4, <1>9, <1>10, TurnScopes

LEMMA EndIfScopes ==
    ASSUME Inv, Inv', ScopeInv, EndIf
    PROVE  ScopeInv'
<1>1. ~done /\ frames # <<>> /\ frames' = Front(frames)
  BY DEF EndIf, Ends
<1>2. PICK x : x = Last(frames)
  OBVIOUS
<1>3. x.kind = "then" \/ x.kind = "else"
  BY <1>2 DEF EndIf
<1>4. PICK t : Adds(t) /\ t.kind = "endif" /\ t.opener = x.at
  <2>1. "endif" \in TokenKinds
    BY DEF TokenKinds
  <2>2. program' = Append(program, [kind |-> "endif", name |-> NoName,
                                    scope |-> program[x.at].scope, opener |-> x.at])
    BY <1>2 DEF EndIf, Ends
  <2> QED
    BY <1>1, <1>2, <2>1, <2>2, ClosingAdds DEF ScopeInv
<1>5. PICK h, f : h = Here /\ f = PopScope(env)
  OBVIOUS
<1>6. \A j \in 1 .. Len(env) - (IF x.kind = "for" THEN 2 ELSE 1) : f[j] = env[j]
  <2>1. env \in Seq(ScopeSet) /\ Len(env) > 1 /\ Len(env) \in Nat
    BY <1>1, <1>3, InnerScopes DEF Inv, IsShaped
  <2>2. \A j \in 1 .. Len(env) - 1 : PopScope(env)[j] = env[j]
    BY <2>1, PopIs
  <2> QED
    BY <1>3, <1>5, <2>2
<1>7. env' = f
  BY <1>5 DEF EndIf
<1>8. Step(t, h, {}, {})
  BY <1>4, <1>5, EndIfIsQuiet, QuietStep
<1>9. KnowsBlocks' /\ KnowsNames'
  <2>1. t.kind \in {"endif", "endwhile", "endfor"}
    BY <1>4
  <2> QED
    BY <1>1, <1>2, <1>4, <1>6, <1>7, <1>8, <2>1, EndsNames
<1>10. t.kind \notin {"break", "continue", "assign", "use"}
  BY <1>4
<1> QED
  BY <1>8, <1>9, <1>10, TurnScopes

LEMMA EndWhileScopes ==
    ASSUME Inv, Inv', ScopeInv, EndWhile
    PROVE  ScopeInv'
<1>1. ~done /\ frames # <<>> /\ frames' = Front(frames)
  BY DEF EndWhile, Ends
<1>2. PICK x : x = Last(frames)
  OBVIOUS
<1>3. x.kind = "while"
  BY <1>2 DEF EndWhile
<1>4. PICK t : Adds(t) /\ t.kind = "endwhile" /\ t.opener = x.at
  <2>1. "endwhile" \in TokenKinds
    BY DEF TokenKinds
  <2>2. program' = Append(program, [kind |-> "endwhile", name |-> NoName,
                                    scope |-> program[x.at].scope, opener |-> x.at])
    BY <1>2 DEF EndWhile, Ends
  <2> QED
    BY <1>1, <1>2, <2>1, <2>2, ClosingAdds DEF ScopeInv
<1>5. PICK h, f : h = Here /\ f = PopScope(env)
  OBVIOUS
<1>6. \A j \in 1 .. Len(env) - (IF x.kind = "for" THEN 2 ELSE 1) : f[j] = env[j]
  <2>1. env \in Seq(ScopeSet) /\ Len(env) > 1 /\ Len(env) \in Nat
    BY <1>1, <1>3, InnerScopes DEF Inv, IsShaped
  <2>2. \A j \in 1 .. Len(env) - 1 : PopScope(env)[j] = env[j]
    BY <2>1, PopIs
  <2> QED
    BY <1>3, <1>5, <2>2
<1>7. env' = f
  BY <1>5 DEF EndWhile
<1>8. Step(t, h, {}, {})
  BY <1>4, <1>5, EndWhileIsQuiet, QuietStep
<1>9. KnowsBlocks' /\ KnowsNames'
  <2>1. t.kind \in {"endif", "endwhile", "endfor"}
    BY <1>4
  <2> QED
    BY <1>1, <1>2, <1>4, <1>6, <1>7, <1>8, <2>1, EndsNames
<1>10. t.kind \notin {"break", "continue", "assign", "use"}
  BY <1>4
<1> QED
  BY <1>8, <1>9, <1>10, TurnScopes

LEMMA EndForScopes ==
    ASSUME Inv, Inv', ScopeInv, EndFor
    PROVE  ScopeInv'
<1>1. ~done /\ frames # <<>> /\ frames' = Front(frames)
  BY DEF EndFor, Ends
<1>2. PICK x : x = Last(frames)
  OBVIOUS
<1>3. x.kind = "for"
  BY <1>2 DEF EndFor
<1>4. PICK t : Adds(t) /\ t.kind = "endfor" /\ t.opener = x.at
  <2>1. "endfor" \in TokenKinds
    BY DEF TokenKinds
  <2>2. program' = Append(program, [kind |-> "endfor", name |-> NoName,
                                    scope |-> program[x.at].scope, opener |-> x.at])
    BY <1>2 DEF EndFor, Ends
  <2> QED
    BY <1>1, <1>2, <2>1, <2>2, ClosingAdds DEF ScopeInv
<1>5. PICK h, f : h = Here /\ f = PopScope(PopScope(env))
  OBVIOUS
<1>6. \A j \in 1 .. Len(env) - (IF x.kind = "for" THEN 2 ELSE 1) : f[j] = env[j]
  <2>1. env \in Seq(ScopeSet) /\ Len(env) > 2 /\ Len(env) \in Nat
    BY <1>1, <1>3, InnerScopes DEF Inv, IsShaped
  <2>2. PICK g : g = PopScope(env)
    OBVIOUS
  <2>3. g \in Seq(ScopeSet) /\ Len(g) = Len(env) - 1 /\ \A j \in 1 .. Len(env) - 1 : g[j] = env[j]
    BY <2>1, <2>2, PopIs
  <2>4. \A j \in 1 .. Len(g) - 1 : PopScope(g)[j] = g[j]
    BY <2>1, <2>3, PopIs
  <2>5. \A j \in 1 .. Len(env) - 2 : PopScope(g)[j] = env[j]
    BY <2>1, <2>3, <2>4
  <2> QED
    BY <1>3, <1>5, <2>2, <2>5
<1>7. env' = f
  BY <1>5 DEF EndFor
<1>8. Step(t, h, {}, {})
  BY <1>4, <1>5, EndForIsQuiet, QuietStep
<1>9. KnowsBlocks' /\ KnowsNames'
  <2>1. t.kind \in {"endif", "endwhile", "endfor"}
    BY <1>4
  <2> QED
    BY <1>1, <1>2, <1>4, <1>6, <1>7, <1>8, <2>1, EndsNames
<1>10. t.kind \notin {"break", "continue", "assign", "use"}
  BY <1>4
<1> QED
  BY <1>8, <1>9, <1>10, TurnScopes

LEMMA BeginForScopes ==
    ASSUME Inv, Inv', ScopeInv, NEW n \in Names, BeginFor(n)
    PROVE  ScopeInv'
<1>1. ~done /\ Add("for", n)
  BY DEF BeginFor, Opens, RoomForBody
<1>2. PICK t : Adds(t) /\ t.kind = "for" /\ t.name = n /\ t.opener = 0 /\ t.scope = InScope
  <2>1. "for" \in TokenKinds /\ n \in Names \cup {NoName}
    BY DEF TokenKinds
  <2> QED
    BY <1>1, <2>1, PlainAdds DEF ScopeInv
<1>3. PICK h, e : h = Here /\ e = env
  OBVIOUS
<1>4. PICK slot, made :
        /\ slot \in Nat /\ Makes(fn, fn', made, {}) /\ env' = PushScope(Insert(PushScope(e), n, slot))
        /\ \A m : Matters(m) => (m \in made <=> m = <<"alloc", slot, {}, <<h, "slot">>>>)
  BY <1>3, BeginForMakes
<1>5. Fresh(made, h)
  BY <1>4 DEF Fresh
<1>6. Step(t, h, made, {})
  BY <1>2, <1>3, <1>4, <1>5, StepIs
<1>7. Slots(Marks(fn'), h) = {slot}
  <2>1. \A m : m[1] = "alloc" => (m \in made <=> m = <<"alloc", slot, {}, <<h, "slot">>>>)
    BY <1>4 DEF Matters
  <2>2. KnowsBlocks /\ KnowsAccesses /\ h = Here /\ Makes(fn, fn', made, {})
    BY <1>3, <1>4 DEF ScopeInv
  <2> QED
    BY <2>1, <2>2, SlotMade
<1>8. PICK x : frames' = Append(frames, x) /\ x.kind = "for" /\ x.at = h /\ x.scope = h
  <2>1. PICK other, exit, index : frames' = Append(frames, [Frame("for", other, exit) EXCEPT !.index = index])
    BY DEF BeginFor, Opens
  <2>2. PICK x : x = [Frame("for", other, exit) EXCEPT !.index = index]
    OBVIOUS
  <2>3. x.kind = "for" /\ x.at = h /\ x.scope = h
    BY <1>3, <2>2 DEF Frame
  <2> QED
    BY <2>1, <2>2, <2>3
<1>9. x \in FrameSet
  BY <1>8, AppendedIn DEF Inv, IsShaped
<1>10. PICK k, f, top, name :
         k = Len(e) /\ f = PushScope(Insert(PushScope(e), n, slot)) /\ top = f[k + 2] /\ name = f[k + 1]
  OBVIOUS
<1>11. /\ \A j \in DOMAIN e : f[j] = e[j]
       /\ top = NewScope /\ name = [m \in {n} |-> slot]
  <2>1. PICK p, q : p = PushScope(e) /\ q = Insert(p, n, slot)
    OBVIOUS
  <2>2. /\ e \in Seq(ScopeSet) /\ k \in Nat /\ DOMAIN e = 1 .. k
        /\ p \in Seq(ScopeSet) /\ Len(p) = k + 1 /\ DOMAIN p = 1 .. k + 1
        /\ (\A j \in DOMAIN e : p[j] = e[j]) /\ p[k + 1] = NewScope
    <3>1. e \in Seq(ScopeSet)
      BY <1>3 DEF Inv, IsShaped
    <3>2. p \in Seq(ScopeSet) /\ Len(p) = k + 1 /\ (\A j \in DOMAIN e : p[j] = e[j]) /\ p[k + 1] = NewScope
      BY <1>10, <2>1, <3>1, PushIs
    <3> QED
      BY <1>10, <3>1, <3>2, SequenceIs
  <2>3. DOMAIN q = 1 .. k + 1 /\ (\A j \in 1 .. k + 1 : j # k + 1 => q[j] = p[j])
        /\ q[k + 1] = [m \in DOMAIN NewScope \cup {n} |-> IF m = n THEN slot ELSE NewScope[m]]
    BY <2>1, <2>2 DEF Insert
  <2>4. q[k + 1] = [m \in {n} |-> slot]
    <3>1. DOMAIN NewScope = {}
      BY DEF NewScope
    <3> QED
      BY <2>3, <3>1
  <2>5. q \in Seq(ScopeSet) /\ Len(q) = k + 1
    <3>1. [m \in {n} |-> slot] \in ScopeSet
      <4>1. [m \in {n} |-> slot] \in [{n} -> Nat]
        BY <1>4
      <4>2. {n} \in SUBSET Names
        OBVIOUS
      <4> QED
        BY <4>1, <4>2 DEF ScopeSet
    <3>2. \A j \in 1 .. k + 1 : q[j] \in ScopeSet
      <4>1. \A j \in 1 .. k + 1 : p[j] \in ScopeSet
        BY <2>2, SequenceIs
      <4> QED
        BY <2>2, <2>3, <2>4, <3>1, <4>1
    <3>3. q \in [1 .. k + 1 -> ScopeSet]
      <4>1. q = [j \in DOMAIN p |-> q[j]]
        BY <2>1 DEF Insert
      <4> QED
        BY <2>2, <3>2, <4>1
    <3> QED
      BY <2>2, <3>3
  <2>6. /\ \A j \in DOMAIN q : f[j] = q[j]
        /\ f[k + 2] = NewScope
    <3>1. f = PushScope(q)
      BY <1>10, <2>1
    <3>2. k + 1 + 1 = k + 2
      BY <2>2
    <3> QED
      BY <2>5, <3>1, <3>2, PushIs
  <2>7. \A j \in DOMAIN e : j \in DOMAIN q /\ j # k + 1 /\ j \in 1 .. k + 1
    BY <2>2, <2>3
  <2>8. k + 1 \in DOMAIN q
    BY <2>2, <2>3
  <2>9. \A j \in DOMAIN e : f[j] = e[j]
    BY <2>2, <2>3, <2>6, <2>7
  <2> QED
    BY <1>10, <2>4, <2>6, <2>8, <2>9
<1>12. HoldsCounter(name, h)'
  <2>1. DOMAIN name = {t.name} /\ name[t.name] = slot
    BY <1>2, <1>11
  <2> QED
    BY <1>6, <1>7, <2>1, CounterMade
<1>13. KnowsBlocks' /\ KnowsNames'
  <2>1. t.kind \in {"if", "while", "for"} /\ x.kind = (IF t.kind = "if" THEN "then" ELSE t.kind)
    BY <1>2, <1>8
  <2>2. env' = f /\ top = (IF x.kind = "for" THEN f[k + 2] ELSE f[k + 1]) /\ k = Len(env)
        /\ \A j \in DOMAIN env : f[j] = env[j]
    BY <1>3, <1>4, <1>8, <1>10, <1>11
  <2>3. x.kind = "for" => HoldsCounter(name, h)'
    BY <1>12
  <2>4. t.opener = 0 /\ name = f[k + 1] /\ top = NewScope
    BY <1>2, <1>10, <1>11
  <2> QED
    BY <1>1, <1>6, <1>8, <1>9, <2>1, <2>2, <2>3, <2>4, OpensNames, SMTT(30)
<1>14. t.kind \notin {"break", "continue", "assign", "use"}
  BY <1>2
<1> QED
  BY <1>6, <1>13, <1>14, TurnScopes

LEMMA ElseScopes ==
    ASSUME Inv, Inv', ScopeInv, Else
    PROVE  ScopeInv'
<1>1. ~done /\ frames # <<>> /\ env' = PushScope(PopScope(env))
  BY DEF Else
<1>2. PICK gs, fs, x, e, o, h : /\ gs = frames /\ fs = Front(frames) /\ x = Last(frames)
                                /\ e = env /\ o = Outer /\ h = Here
  OBVIOUS
<1>3. /\ gs \in Seq(FrameSet) /\ fs \in Seq(FrameSet) /\ x \in FrameSet /\ gs = Append(fs, x)
      /\ e \in Seq(ScopeSet)
  BY <1>1, <1>2, FrontAndLast DEF Inv, IsShaped
<1>4. PICK t : Adds(t) /\ t.kind = "else" /\ t.opener = x.at
  <2>1. "else" \in TokenKinds
    BY DEF TokenKinds
  <2>2. program' = Append(program, [kind |-> "else", name |-> NoName,
                                    scope |-> program[x.at].scope, opener |-> x.at])
    BY <1>2 DEF Else
  <2> QED
    BY <1>1, <1>2, <2>1, <2>2, ClosingAdds DEF ScopeInv
<1>5. PICK y : y = [x EXCEPT !.kind = "else", !.scope = h]
  OBVIOUS
<1>6. y \in FrameSet /\ y.kind = "else" /\ y.at = x.at /\ y.scope = h
  <2>1. h \in Nat
    BY <1>2, <1>4, Added
  <2> QED
    BY <1>3, <1>5, <2>1 DEF FrameSet
<1>7. frames' = Append(fs, y)
  <2>1. frames' = [gs EXCEPT ![Len(gs)] = y]
    <3>1. gs[Len(gs)] = x /\ Len(gs) \in DOMAIN gs
      BY <1>1, <1>2, <1>3, LastIn
    <3>2. frames' = [gs EXCEPT ![Len(gs)] = [@ EXCEPT !.kind = "else", !.scope = h]]
      BY <1>2 DEF Else
    <3> QED
      BY <1>5, <3>1, <3>2
  <2>2. [gs EXCEPT ![Len(gs)] = y] = Append(Front(gs), y)
    <3>1. gs # <<>> /\ gs \in Seq(FrameSet) /\ y \in FrameSet
      BY <1>1, <1>2, <1>3, <1>6
    <3> QED
      BY <3>1, FrontAndLast
  <2> QED
    BY <1>2, <2>1, <2>2
<1>8. x.kind = "then"
  BY <1>2 DEF Else
<1>9. KnowsBlocks' /\ Outer' = o
  BY <1>2, <1>3, <1>4, <1>6, <1>7, <1>8, BlocksElse
<1>10. Step(t, h, {}, {})
  BY <1>2, <1>4, ElseIsQuiet, QuietStep
<1>11. PICK k : k = ScopesBelow(fs, Len(fs) + 1)
  OBVIOUS
<1>12. Len(e) = k + 1 /\ k \in Nat /\ k >= 2
  <2>1. Len(fs) \in Nat
    BY <1>3, SequenceIs
  <2> QED
    BY <1>1, <1>2, <1>3, <1>8, <1>11, <2>1, LastCounts
<1>13. PICK f, top : f = PushScope(PopScope(e)) /\ top = f[k + 1]
  OBVIOUS
<1>14. (\A j \in 2 .. k : f[j] = e[j]) /\ top = NewScope
  <2>1. PICK g : g = PopScope(e)
    OBVIOUS
  <2>2. g \in Seq(ScopeSet) /\ Len(g) = k /\ \A j \in 1 .. k : g[j] = e[j]
    <3>1. Len(e) > 1 /\ Len(e) - 1 = k
      BY <1>12
    <3> QED
      BY <1>3, <2>1, <3>1, PopIs
  <2>3. DOMAIN g = 1 .. k
    BY <2>2, SequenceIs
  <2>4. (\A j \in DOMAIN g : f[j] = g[j]) /\ f[k + 1] = NewScope
    BY <1>13, <2>1, <2>2, PushIs
  <2> QED
    BY <1>12, <1>13, <2>2, <2>3, <2>4
<1>15. NamesIn(gs, e, o) /\ \A i \in DOMAIN gs : FrameFits(gs[i])
  BY <1>1, <1>2 DEF ScopeInv, KnowsNames, KnowsBlocks
<1>16. NamesIn(fs, f, o)'
  <2>1. NamesIn(fs, f, o)
    BY <1>3, <1>11, <1>14, <1>15, NamesShorter
  <2>2. \A i \in DOMAIN fs : FrameFits(fs[i])
    BY <1>3, <1>15, AwaitedByLonger
  <2>3. t.kind # "let"
    BY <1>4
  <2> QED
    BY <1>10, <2>1, <2>2, <2>3, NamesStay
<1>17. HoldsLets(top, y.scope)'
  <2>1. HoldsLets(NewScope, h)'
    BY <1>10, HoldsNew
  <2> QED
    BY <1>6, <1>14, <2>1
<1>18. PICK all, name : all = Append(fs, y) /\ name = f[k + 1]
  OBVIOUS
<1>19. NamesIn(all, f, o)'
  <2>1. y.kind # "for" /\ top = (IF y.kind = "for" THEN f[k + 2] ELSE f[k + 1])
    BY <1>6, <1>13
  <2>2. NamesIn(Append(fs, y), f, o)'
    BY <1>3, <1>6, <1>11, <1>16, <1>17, <1>18, <2>1, NamesLonger
  <2> QED
    BY <1>18, <2>2
<1>20. KnowsNames'
  BY <1>1, <1>2, <1>7, <1>9, <1>13, <1>18, <1>19, KnowsNamesNext
<1>21. t.kind \notin {"break", "continue", "assign", "use"}
  BY <1>4
<1> QED
  BY <1>9, <1>10, <1>20, <1>21, TurnScopes

LEMMA NextStageScopes ==
    ASSUME Inv, Inv', ScopeInv, NextStage
    PROVE  ScopeInv'
<1>1. /\ ~done /\ frames = <<>> /\ frames' = <<>> /\ env' = PushScope(PopScope(env))
      /\ program' = Append(program, [kind |-> "stage", name |-> NoName, scope |-> 0, opener |-> 0])
  BY DEF NextStage, Room
<1>2. PICK t, h, f : /\ t = [kind |-> "stage", name |-> NoName, scope |-> 0, opener |-> 0]
                     /\ h = Here /\ f = PushScope(PopScope(env))
  OBVIOUS
<1>3. Adds(t) /\ t.kind = "stage" /\ t.opener = 0
  <2>1. KnowsBlocks
    BY DEF ScopeInv
  <2>2. 0 < Here
    BY <2>1, TokensAre
  <2>3. t \in TokenSet
    BY <1>2 DEF TokenSet, TokenKinds
  <2> QED
    BY <1>1, <1>2, <2>1, <2>2, <2>3 DEF Adds
<1>4. Step(t, h, {}, {})
  BY <1>2, <1>3, NextStageIsQuiet, QuietStep
<1>5. KnowsBlocks' /\ Outer' = h
  BY <1>1, <1>2, <1>3, BlocksStage
<1>6. f[2] = NewScope
  <2>1. env \in Seq(ScopeSet) /\ Len(env) = 2
    BY <1>1, NoFrames DEF Inv, IsShaped, CountsScopes
  <2>2. PICK g : g = PopScope(env)
    OBVIOUS
  <2>3. Len(env) > 1
    BY <2>1
  <2>4. g \in Seq(ScopeSet) /\ Len(g) = Len(env) - 1
    BY <2>1, <2>2, <2>3, PopIs
  <2>5. Len(g) + 1 = 2
    BY <2>1, <2>4
  <2> QED
    BY <1>2, <2>2, <2>4, <2>5, PushIs
<1>7. KnowsNames'
  <2>1. PICK fs, new : fs = frames /\ new = f[2]
    OBVIOUS
  <2>2. HoldsLets(new, h)'
    <3>1. HoldsLets(NewScope, h)'
      BY <1>4, HoldsNew
    <3> QED
      BY <1>6, <2>1, <3>1
  <2>3. DOMAIN fs = {}
    BY <1>1, <2>1, NoFrames
  <2>4. NamesIn(fs, f, h)'
    BY <2>1, <2>2, <2>3 DEF NamesIn
  <2> QED
    BY <1>1, <1>2, <1>5, <2>1, <2>4, KnowsNamesNext
<1>8. t.kind \notin {"break", "continue", "assign", "use"}
  BY <1>3
<1> QED
  BY <1>4, <1>5, <1>7, <1>8, TurnScopes

(* The end of the function adds no token, and no access.                   *)
LEMMA SameProgram ==
    ASSUME Inv, Inv', ScopeInv, program' = program, frames' = frames, Makes(fn, fn', {}, {})
    PROVE  KnowsBlocks' /\ KnowsAccesses' /\ ErrorsAreJustified'
<1>1. /\ Tokens' = Tokens /\ \A p \in Tokens : Kind(p)' = Kind(p)
      /\ \A p : Declarations(p)' = Declarations(p)
      /\ \A p \in Tokens : Stray(p)' <=> Stray(p)
  <2>1. Tokens' = Tokens /\ \A p : Kind(p)' = Kind(p)
    BY DEF Tokens, Kind
  <2>2. \A p : LoopsAround(p)' = LoopsAround(p) /\ ScopesOf(p)' = ScopesOf(p)
    BY DEF LoopsAround, ScopesOf, Around, StagesBefore, EndsBlock, Tokens, Kind
  <2>3. \A s, p, name : DeclaredIn(s, p, name)' = DeclaredIn(s, p, name)
    BY DEF DeclaredIn, Declares, Kind
  <2>4. \A p : Declarations(p)' = Declarations(p)
    BY <2>1, <2>2, <2>3 DEF Declarations
  <2>5. \A p \in Tokens : Stray(p)' <=> Stray(p)
    BY <2>1, <2>2, <2>4 DEF Stray
  <2> QED
    BY <2>1, <2>4, <2>5
<1>2. KnowsBlocks'
  <2>1. Outer' = Outer /\ Around(Here)' = Around(Here)
    BY DEF Outer, Around, StagesBefore, EndsBlock, Tokens, Kind, Here
  <2>2. \A i \in DOMAIN frames : FrameFits(frames[i])' <=> FrameFits(frames[i])
    BY DEF FrameFits, Tokens, Kind
  <2> QED
    BY <2>1, <2>2 DEF ScopeInv, KnowsBlocks, FramesNest, ScopesIn, Tokens
<1>3. PICK old, new : old = Marks(fn) /\ new = Marks(fn')
  OBVIOUS
<1>4. \A m : Matters(m) => (m \in new <=> m \in old)
  BY <1>3 DEF Makes
<1>5. \A q : Slots(new, q) = Slots(old, q)
  BY <1>4 DEF Slots, Matters
<1>6. KnowsAccesses'
  <2>1. \A m \in new : Matters(m) => m[4][1] \in Tokens
    BY <1>3, <1>4 DEF ScopeInv, KnowsAccesses
  <2>2. ASSUME NEW p \in Tokens, NEW m \in new, Accesses(p, m)'
        PROVE  Resolves(p, m)'
    <3>1. Matters(m) /\ Accesses(p, m)
      BY <1>1, <2>2 DEF Accesses, Matters
    <3>2. PICK q \in Declarations(p), slot \in m[3] : Slots(old, q) = {slot}
      BY <1>3, <1>4, <3>1 DEF ScopeInv, KnowsAccesses, Resolves
    <3>3. q \in Declarations(p)' /\ Slots(new, q) = {slot}
      BY <1>1, <1>5, <3>2
    <3> QED
      BY <1>3, <3>2, <3>3 DEF Resolves, Slots
  <2> QED
    BY <1>1, <1>3, <2>1, <2>2 DEF KnowsAccesses, Marks
<1>7. ErrorsAreJustified'
  <2>1. fn.errors = Told(fn) /\ fn'.errors = Told(fn')
    BY DEF Inv, Sound, Told
  <2>2. fn'.errors = fn.errors
    BY <2>1 DEF Makes
  <2> QED
    BY <1>1, <2>2 DEF ErrorsAreJustified, ScopeInv
<1> QED
  BY <1>2, <1>6, <1>7

LEMMA FinishScopes ==
    ASSUME Inv, Inv', ScopeInv, Finish
    PROVE  ScopeInv'
<1>1. program' = program /\ frames' = frames /\ done'
  BY DEF Finish
<1>2. Makes(fn, fn', {}, {})
  BY FinishIsQuiet, QuietlyMakes
<1> QED
  BY <1>1, <1>2, SameProgram DEF ScopeInv, KnowsNames

LEMMA InitScopes ==
    ASSUME Init, Inv
    PROVE  ScopeInv
<1>1. program = <<>> /\ frames = <<>> /\ Tokens = {} /\ DOMAIN frames = {}
  BY DEF Init, Tokens
<1>2. KnowsBlocks
  <2>1. <<>> \in Seq(TokenSet)
    OBVIOUS
  <2>2. Around(Here) = {} /\ ScopesIn(frames) = {} /\ FramesNest(frames)
    BY <1>1 DEF Around, ScopesIn, FramesNest
  <2> QED
    BY <1>1, <2>1, <2>2 DEF KnowsBlocks
<1>3. KnowsNames
  <2>1. env[2] = NewScope /\ DOMAIN NewScope = {}
    <3>1. <<NewScope>> \in Seq(ScopeSet) /\ Len(<<NewScope>>) + 1 = 2
      <4>1. NewScope \in ScopeSet
        <5>1. {} \in SUBSET Names /\ NewScope \in [{} -> Nat]
          BY DEF NewScope
        <5> QED
          BY <5>1 DEF ScopeSet
      <4> QED
        BY <4>1
    <3> QED
      BY <3>1, PushIs DEF Init
  <2>2. \A s, name : LetsIn(s, name) = {}
    BY <1>1 DEF LetsIn
  <2> QED
    BY <1>1, <2>1, <2>2 DEF KnowsNames, NamesIn, HoldsLets
<1>4. Marks(fn) = {} /\ Told(fn) = {}
  <2>1. PICK start : start = [blocks |-> <<EmptyBlock>>, current |-> 1, values |-> 0, errors |-> {}]
    OBVIOUS
  <2>2. Shaped(start) /\ Marks(start) = {} /\ Told(start) = {}
    <3>1. Shaped(start) /\ DOMAIN start.blocks = {1}
      BY <2>1, StartIs, SoundIsShaped
    <3>2. start.blocks[1].code = <<>> /\ start.errors = {}
      BY <2>1 DEF EmptyBlock
    <3> QED
      BY <3>1, <3>2 DEF Marks, MarksOf, Told
  <2>3. stages = 0 => fn = start
    BY <2>1 DEF Init
  <2>4. ASSUME stages # 0 PROVE Marks(fn) = {} /\ Told(fn) = {}
    <3>1. PICK f, g : f = NewBlocks(start, stages + 1) /\ g = SetTerminator(f, Jump(2))
      OBVIOUS
    <3>2. fn = EnterBlock(g, 2)
      BY <2>1, <2>4, <3>1 DEF Init
    <3>3. stages \in Nat /\ stages + 1 \in Nat /\ Len(start.blocks) = 1
      BY <2>1, LoweringAssumption DEF Init
    <3>4. Does(start, f, {}, {}) /\ DOMAIN f.blocks = 1 .. 1 + (stages + 1)
      <4>1. PICK n \in Nat : n = stages + 1
        BY <3>3
      <4>2. f = NewBlocks(start, n)
        BY <3>1, <4>1
      <4>3. Does(start, f, {}, {}) /\ DOMAIN f.blocks = 1 .. Len(start.blocks) + n
        BY <2>2, <4>2, BlocksDo
      <4> QED
        BY <3>3, <4>1, <4>3
    <3>5. Jump(2) \in TermSet
      BY JumpIs
    <3>6. Does(f, g, {}, {}) /\ DOMAIN g.blocks = DOMAIN f.blocks
      BY <3>1, <3>4, <3>5, TerminatorDoes DEF Does
    <3>7. Does(g, fn, {}, {})
      <4>1. 2 \in DOMAIN g.blocks
        BY <2>4, <3>3, <3>4, <3>6
      <4> QED
        BY <3>2, <3>6, <4>1, EnterDoes DEF Does
    <3> QED
      BY <2>2, <3>4, <3>6, <3>7 DEF Does
  <2> QED
    BY <2>2, <2>3, <2>4
<1>5. KnowsAccesses
  BY <1>4 DEF KnowsAccesses
<1>6. ErrorsAreJustified
  BY <1>1, <1>4 DEF ErrorsAreJustified, Inv, Sound, Told
<1> QED
  BY <1>2, <1>3, <1>5, <1>6 DEF ScopeInv

LEMMA ScopesPreserved ==
    ASSUME Inv, ScopeInv, [Next]_vars
    PROVE  ScopeInv'
<1>0. Inv'
  BY NextPreserves
<1>1. CASE UNCHANGED vars
  <2>1. Shaped(fn)
    BY SoundIsShaped DEF Inv
  <2>2. Makes(fn, fn', {}, {})
    BY <1>1, <2>1 DEF vars, Makes
  <2>3. KnowsNames'
    <3>1. PICK fs, e, o : fs = frames /\ e = env /\ o = Outer
      OBVIOUS
    <3>2. frames' = fs /\ env' = e /\ Outer' = o
      BY <1>1, <3>1 DEF vars, Outer, StagesBefore, Here, Tokens, Kind
    <3>3. \A scope, s : HoldsLets(scope, s)' <=> HoldsLets(scope, s)
      BY <1>1 DEF vars, HoldsLets, LetsIn, Tokens, Kind
    <3>4. \A scope, q : HoldsCounter(scope, q)' <=> HoldsCounter(scope, q)
      BY <1>1 DEF vars, HoldsCounter
    <3>5. ~done => NamesIn(fs, e, o)'
      BY <3>1, <3>3, <3>4 DEF ScopeInv, KnowsNames, NamesIn
    <3>6. done' = done
      BY <1>1 DEF vars
    <3> QED
      BY <3>2, <3>5, <3>6, KnowsNamesNext DEF KnowsNames
  <2> QED
    BY <1>0, <1>1, <2>2, <2>3, SameProgram DEF vars, ScopeInv
<1>2. ASSUME NEW name \in Names, Let(name) PROVE ScopeInv'
  BY <1>0, <1>2, LetScopes
<1>3. ASSUME NEW name \in Names, Use(name) PROVE ScopeInv'
  BY <1>0, <1>3, UseScopes
<1>4. ASSUME NEW name \in Names, Assign(name) PROVE ScopeInv'
  BY <1>0, <1>4, AssignScopes
<1>5. ASSUME NEW name \in Names, BeginFor(name) PROVE ScopeInv'
  BY <1>0, <1>5, BeginForScopes
<1>6. CASE Return
  BY <1>0, <1>6, ReturnScopes
<1>7. CASE Break \/ Continue
  BY <1>0, <1>7, BreakScopes
<1>8. CASE BeginIf
  BY <1>0, <1>8, BeginIfScopes
<1>9. CASE Else
  BY <1>0, <1>9, ElseScopes
<1>10. CASE EndIf
  BY <1>0, <1>10, EndIfScopes
<1>11. CASE BeginWhile
  BY <1>0, <1>11, BeginWhileScopes
<1>12. CASE EndWhile
  BY <1>0, <1>12, EndWhileScopes
<1>13. CASE EndFor
  BY <1>0, <1>13, EndForScopes
<1>14. CASE NextStage
  BY <1>0, <1>14, NextStageScopes
<1>15. CASE Finish
  BY <1>0, <1>15, FinishScopes
<1> QED
  BY <1>1, <1>2, <1>3, <1>4, <1>5, <1>6, <1>7, <1>8, <1>9, <1>10, <1>11, <1>12, <1>13,
     <1>14, <1>15 DEF Next

LEMMA Scoping == Spec => [](Inv /\ ScopeInv)
<1>1. Init => Inv /\ ScopeInv
  BY InitInv, InitScopes
<1>2. (Inv /\ ScopeInv) /\ [Next]_vars => (Inv /\ ScopeInv)'
  BY NextPreserves, ScopesPreserved
<1> QED
  BY <1>1, <1>2, PTL DEF Spec

-----------------------------------------------------------------------------
(* The lowerer reports an error for a program exactly when it leaves or    *)
(* continues no loop, assigns a name that is not in scope, or reads one    *)
(* that is neither in scope nor a constant of the module (lower.rs: the    *)
(* loop_targets of Break and Continue, env.lookup of Assign and Ident).    *)
THEOREM ErrorsJustified == Spec => []ErrorsAreJustified
<1>1. Inv /\ ScopeInv => ErrorsAreJustified
  BY DEF ScopeInv
<1> QED
  BY <1>1, Scoping, PTL

(* Whatever is declared, shadowed and left again on the way, a read or an  *)
(* assignment goes to the slot of the last declaration of the name in the  *)
(* innermost block around it that has one: LoweringEnv's push_scope,       *)
(* pop_scope, insert and lookup (lower.rs) follow the blocks of the        *)
(* program, across if and else, loops and the stages of a flow.            *)
THEOREM AccessesResolve == Spec => []AccessesInnermost
<1>1. ASSUME ScopeInv, Inv PROVE AccessesInnermost
  <2>1. \A s \in Sites : MarkOf(InstrAt(s)) \in Marks(fn)
    BY DEF Sites, Blocks, Code, InstrAt, Marks, MarksOf
  <2>2. ASSUME NEW m \in Marks(fn) PROVE \E s \in Sites : m = MarkOf(InstrAt(s))
    <3>1. PICK b \in Blocks : m \in MarksOf(Code(b))
      BY DEF Marks, Blocks, Code
    <3>2. PICK k \in DOMAIN Code(b) : m = MarkOf(Code(b)[k])
      BY <3>1 DEF MarksOf
    <3>3. PICK s : s = <<b, k>>
      OBVIOUS
    <3>4. s \in Sites
      BY <3>3 DEF Sites
    <3>5. InstrAt(s) = Code(b)[k]
      BY <3>3 DEF InstrAt
    <3> QED
      BY <3>2, <3>4, <3>5
  <2>3. \A q : SlotOf(q) = Slots(Marks(fn), q)
    <3>1. ASSUME NEW q, NEW slot \in SlotOf(q) PROVE slot \in Slots(Marks(fn), q)
      <4>1. PICK s \in Sites : InstrAt(s).op = "alloc" /\ InstrAt(s).event[1] = q /\ slot = InstrAt(s).def
        BY <3>1 DEF SlotOf
      <4>2. PICK m : m = MarkOf(InstrAt(s))
        OBVIOUS
      <4>3. m[1] = "alloc" /\ m[4][1] = q /\ m[2] = slot
        BY <4>1, <4>2 DEF MarkOf
      <4> QED
        BY <2>1, <4>2, <4>3 DEF Slots
    <3>2. ASSUME NEW q, NEW slot \in Slots(Marks(fn), q) PROVE slot \in SlotOf(q)
      <4>1. PICK m \in Marks(fn) : m[1] = "alloc" /\ m[4][1] = q /\ m[2] = slot
        BY <3>2 DEF Slots
      <4>2. PICK s \in Sites : m = MarkOf(InstrAt(s))
        BY <2>2
      <4>3. InstrAt(s).op = "alloc" /\ InstrAt(s).event[1] = q /\ InstrAt(s).def = slot
        BY <4>1, <4>2 DEF MarkOf
      <4> QED
        BY <4>3 DEF SlotOf
    <3> QED
      BY <3>1, <3>2
  <2>4. ASSUME NEW p \in Tokens, NEW s \in SitesOf(<<p, "do">>),
               Kind(p) = "assign" \/ (Kind(p) = "use" /\ InstrAt(s).op = "load")
        PROVE  \E q \in Declarations(p), slot \in InstrAt(s).uses : SlotOf(q) = {slot}
    <3>1. PICK m : m = MarkOf(InstrAt(s))
      OBVIOUS
    <3>2. s \in Sites /\ InstrAt(s).event = <<p, "do">>
      BY DEF SitesOf
    <3>3. m[1] = InstrAt(s).op /\ m[3] = InstrAt(s).uses /\ m[4] = <<p, "do">>
      BY <3>1, <3>2 DEF MarkOf
    <3>4. Accesses(p, m) /\ m \in Marks(fn)
      BY <2>1, <2>4, <3>1, <3>2, <3>3 DEF Accesses
    <3>5. Resolves(p, m)
      BY <1>1, <3>4 DEF ScopeInv, KnowsAccesses
    <3> QED
      BY <2>3, <3>3, <3>5 DEF Resolves
  <2> QED
    BY <2>4 DEF AccessesInnermost
<1> QED
  BY <1>1, Scoping, PTL

=============================================================================
