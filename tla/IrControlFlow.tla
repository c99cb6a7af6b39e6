--------------------------- MODULE IrControlFlow ---------------------------
(***************************************************************************)
(* What a program means, told from its list of tokens, and that the blocks *)
(* FunctionLowerer makes of it mean the same.                              *)
(***************************************************************************)
EXTENDS IrLowering

-----------------------------------------------------------------------------
(* The meaning of the tokens.  An event is a position and a phase; `Arrive *)
(* at p` is the first event that happens when control comes to token p.    *)

Tokens == DOMAIN program
Kind(p) == program[p].kind

(* The token that ends or continues what p opens. *)
CloserOf(p, kind) == CHOOSE q \in Tokens : program[q].opener = p /\ program[q].kind = kind
HasElse(p) == \E q \in Tokens : program[q].opener = p /\ program[q].kind = "else"

(* The blocks around p: those opened before p that no token up to p ends.  *)
(* A block is named by the token that opens it; the outermost one is that  *)
(* of the stage, or 0.                                                     *)
LatestOf(qs) == CHOOSE q \in qs : \A r \in qs : r <= q
EndsBlock(r, q) == q < r /\ program[r].opener = (IF Kind(q) = "else" THEN program[q].opener ELSE q)
Around(p) ==
    {q \in Tokens : /\ q < p /\ Kind(q) \in {"if", "else", "while", "for"}
                    /\ ~\E r \in Tokens : r <= p /\ EndsBlock(r, q)}
StagesBefore(p) == {q \in Tokens : q < p /\ Kind(q) = "stage"}
ScopesOf(p) == Around(p) \cup {LatestOf(StagesBefore(p) \cup {0})}

LoopsAround(p) == {q \in Around(p) : Kind(q) \in {"while", "for"}}
Loop(p) == LatestOf(LoopsAround(p))
EndLoop(p) == CloserOf(p, IF Kind(p) = "while" THEN "endwhile" ELSE "endfor")
Again(p) == <<p, IF Kind(p) = "while" THEN "test" ELSE "step">>

Arrive[p \in 1 .. Len(program) + 1] ==
    IF p > Len(program) THEN <<p, "end">>
    ELSE CASE Kind(p) \in {"let", "use", "assign"} -> <<p, "do">>
           [] Kind(p) = "return" -> <<p, "return">>
           [] Kind(p) = "break" -> Arrive[EndLoop(Loop(p)) + 1]
           [] Kind(p) = "continue" -> Again(Loop(p))
           [] Kind(p) \in {"if", "while"} -> <<p, "test">>
           [] Kind(p) = "for" -> <<p, "iter">>
           [] Kind(p) = "else" -> Arrive[CloserOf(program[p].opener, "endif") + 1]
           [] Kind(p) \in {"endif", "stage"} -> Arrive[p + 1]
           [] Kind(p) \in {"endwhile", "endfor"} -> Again(program[p].opener)

Events ==
    UNION {CASE Kind(p) \in {"let", "use", "assign"} -> {<<p, "do">>}
             [] Kind(p) = "return" -> {<<p, "return">>}
             [] Kind(p) \in {"if", "while"} -> {<<p, "test">>}
             [] Kind(p) = "for" -> {<<p, "iter">>, <<p, "test">>, <<p, "item">>, <<p, "step">>}
             [] OTHER -> {} : p \in Tokens}

(* What follows an event: nothing after a return; when something is        *)
(* tested, what follows when it holds and what follows when it does not.   *)
Follows(e) ==
    LET p == e[1]
    IN  CASE e[2] = "return" -> <<>>
          [] e[2] = "do" -> <<Arrive[p + 1]>>
          [] e[2] = "iter" -> <<<<p, "test">>>>
          [] e[2] = "item" -> <<Arrive[p + 1]>>
          [] e[2] = "step" -> <<<<p, "test">>>>
          [] e[2] = "test" /\ Kind(p) = "if" ->
                <<Arrive[p + 1], Arrive[CloserOf(p, IF HasElse(p) THEN "else" ELSE "endif") + 1]>>
          [] e[2] = "test" /\ Kind(p) = "while" -> <<Arrive[p + 1], Arrive[EndLoop(p) + 1]>>
          [] e[2] = "test" /\ Kind(p) = "for" -> <<<<p, "item">>, Arrive[EndLoop(p) + 1]>>

(* The declaration a name refers to: the last one before it in the         *)
(* innermost block that has one.                                           *)
Declares(q, name) == Kind(q) \in {"let", "for"} /\ program[q].name = name
DeclaredIn(s, p, name) ==
    {q \in 1 .. p - 1 :
        /\ Declares(q, name)
        /\ IF Kind(q) = "let" THEN program[q].scope = s ELSE q = s}
Declarations(p) ==
    LET found == {s \in ScopesOf(p) : DeclaredIn(s, p, program[p].name) # {}}
        qs == DeclaredIn(LatestOf(found), p, program[p].name)
    IN  IF found = {} THEN {}
        ELSE {LatestOf(IF \E q \in qs : Kind(q) = "let" THEN {q \in qs : Kind(q) = "let"} ELSE qs)}

-----------------------------------------------------------------------------
(* The meaning of the blocks *)

Blocks == DOMAIN fn.blocks
BlockTerm(b) == fn.blocks[b].term
Code(b) == fn.blocks[b].code
Sites == UNION {{<<b, i>> : i \in DOMAIN Code(b)} : b \in Blocks}
InstrAt(s) == Code(s[1])[s[2]]
IsEvent(instr) == instr.op # "alloc" /\ instr.event # NoEvent
SitesOf(e) == {s \in Sites : IsEvent(InstrAt(s)) /\ InstrAt(s).event = e}
TermSitesOf(e) == {b \in Blocks : BlockTerm(b).event = e}

(* The first event of block b; n is how many blocks may be gone through.   *)
FirstEvent[n \in 0 .. Len(fn.blocks), b \in Blocks] ==
    LET here == SelectSeq(Code(b), IsEvent)
    IN  CASE here # <<>> -> Head(here).event
          [] here = <<>> /\ BlockTerm(b).event # NoEvent -> BlockTerm(b).event
          [] here = <<>> /\ BlockTerm(b).event = NoEvent /\ n > 0 /\ BlockTerm(b).op = "jump" ->
                FirstEvent[n - 1, BlockTerm(b).targets[1]]
          [] OTHER -> NoEvent
Enter(b) == FirstEvent[Len(fn.blocks), b]

BlockFollows(s) ==
    LET b == s[1]
        rest == SelectSeq(SubSeq(Code(b), s[2] + 1, Len(Code(b))), IsEvent)
    IN  CASE rest # <<>> -> <<Head(rest).event>>
          [] rest = <<>> /\ BlockTerm(b).event # NoEvent -> <<BlockTerm(b).event>>
          [] OTHER -> [k \in DOMAIN BlockTerm(b).targets |-> Enter(BlockTerm(b).targets[k])]

-----------------------------------------------------------------------------
(* Properties of a function that was lowered without an error *)

Lowered == done /\ fn.errors = {}

(* Whatever the nesting of branches, loops, break, continue and return,    *)
(* and also in code that cannot be reached: every step of the program is   *)
(* in one place of the blocks, and what follows it there is what the       *)
(* program says.                                                           *)
KeepsControlFlow ==
    Lowered =>
        /\ Enter(1) = Arrive[1]
        /\ \A e \in Events :
              IF e[2] = "return"
              THEN Cardinality(TermSitesOf(e)) = 1
              ELSE /\ Cardinality(SitesOf(e)) = 1
                   /\ \A s \in SitesOf(e) : BlockFollows(s) = Follows(e)

(* Reachability without going through block `cut`, edge after edge. *)
Steps(cut) ==
    LET reached[n \in 0 .. Len(fn.blocks)] ==
            IF n = 0 THEN {1} \ {cut}
            ELSE LET before == reached[n - 1]
                 IN  before \cup ((UNION {Successors(BlockTerm(b)) : b \in before}) \ {cut})
    IN  reached
Reachable(cut) == Steps(cut)[Len(fn.blocks)]
Dominates(a, b) == a = b \/ b \notin Reachable(a)

DefSite(v) == CHOOSE s \in Sites : InstrAt(s).def = v
IsDefined(v) == \E s \in Sites : InstrAt(s).def = v

(* LLVM's rule: a value is computed on every path to its use, and a phi    *)
(* has exactly one input for each predecessor, computed on the way there.  *)
ValuesDominateUses ==
    Lowered =>
        /\ \A s \in Sites : \A v \in InstrAt(s).uses :
              /\ IsDefined(v)
              /\ IF DefSite(v)[1] = s[1] THEN DefSite(v)[2] < s[2] ELSE Dominates(DefSite(v)[1], s[1])
        /\ \A b \in Blocks : \A v \in BlockTerm(b).uses : IsDefined(v) /\ Dominates(DefSite(v)[1], b)
        /\ \A s \in Sites : InstrAt(s).op = "phi" =>
              /\ {input[2] : input \in InstrAt(s).inputs} = fn.blocks[s[1]].preds
              /\ Cardinality(InstrAt(s).inputs) = Cardinality(fn.blocks[s[1]].preds)
              /\ \A input \in InstrAt(s).inputs : Dominates(DefSite(input[1])[1], input[2])

(* validate_function: the blocks that have no end, the edges to or from    *)
(* unknown blocks, the values used before the order of the blocks defines  *)
(* them, and the phi inputs that are not from a predecessor.               *)
DefinedBefore(s) ==
    {InstrAt(t).def : t \in {t \in Sites : t[1] < s[1] \/ (t[1] = s[1] /\ t[2] < s[2])}}
ValidateFunction ==
    [missingTerminator |-> {b \in Blocks : BlockTerm(b) = Open},
     invalidEdge       |-> {b \in Blocks :
                               ~(Successors(BlockTerm(b)) \cup fn.blocks[b].preds \subseteq Blocks)},
     undefinedValue    |-> {s \in Sites :
                               \/ ~(InstrAt(s).uses \subseteq DefinedBefore(s))
                               \/ \E input \in InstrAt(s).inputs : ~IsDefined(input[1])}
                           \cup {<<b, Len(Code(b)) + 1>> : b \in {b \in Blocks :
                               ~(BlockTerm(b).uses \subseteq DefinedBefore(<<b, Len(Code(b)) + 1>>))}},
     invalidPhiInput   |-> {s \in Sites :
                               \E input \in InstrAt(s).inputs : input[2] \notin fn.blocks[s[1]].preds}]

(* A function that was lowered without an error validates, and every edge  *)
(* is recorded at both of its ends.                                        *)
Validates ==
    Lowered =>
        /\ \A check \in DOMAIN ValidateFunction : ValidateFunction[check] = {}
        /\ \A b, c \in Blocks : c \in Successors(BlockTerm(b)) <=> b \in fn.blocks[c].preds

(* What the code generator is handed: blocks that validate_function lets   *)
(* pass, whose values LLVM can compute.                                    *)
BlocksAreValid == Validates /\ ValuesDominateUses

(* A variable that is read or written is the one in scope. *)
SlotOf(q) == {InstrAt(s).def : s \in {s \in Sites : InstrAt(s).op = "alloc" /\ InstrAt(s).event[1] = q}}
AccessesInnermost ==
    Lowered =>
        \A p \in Tokens : \A s \in SitesOf(<<p, "do">>) :
            Kind(p) = "assign" \/ (Kind(p) = "use" /\ InstrAt(s).op = "load") =>
                \E q \in Declarations(p), slot \in InstrAt(s).uses : SlotOf(q) = {slot}

(* Errors are reported for programs that deserve them, and only for these. *)
Stray(p) ==
    \/ Kind(p) \in {"break", "continue"} /\ LoopsAround(p) = {}
    \/ Kind(p) = "assign" /\ Declarations(p) = {}
    \/ Kind(p) = "use" /\ Declarations(p) = {} /\ program[p].name \notin Consts
ErrorsAreJustified == (fn.errors # {} <=> \E p \in Tokens : Stray(p))

(* block_guarantees_return: "Returns `true` when control flow cannot fall  *)
(* through the end of `block`."  An inferred result type relies on it.     *)
InBlock(s) == {p \in Tokens : program[p].scope = s /\ program[p].opener = 0}
GuaranteesReturn[s \in 0 .. Len(program)] ==
    IF InBlock(s) = {} THEN FALSE
    ELSE LET last == LatestOf(InBlock(s))
         IN  \/ Kind(last) = "return"
             \/ /\ Kind(last) = "if" /\ HasElse(last)
                /\ GuaranteesReturn[last] /\ GuaranteesReturn[CloserOf(last, "else")]
FallsThrough == \E b \in Reachable(0) : BlockTerm(b).event = <<Len(program) + 1, "end">>
GuaranteeIsSound == Lowered /\ stages = 0 /\ GuaranteesReturn[0] => ~FallsThrough

(* The scope stack is "with shadowing": a local hides the constant.        *)
LocalsShadowConstants ==
    Lowered =>
        \A p \in Tokens : Kind(p) = "use" /\ Declarations(p) # {} =>
            \A s \in SitesOf(<<p, "do">>) : InstrAt(s).op = "load"

(* The lowerer is never lost: the blocks that have not ended are the       *)
(* current one and those an open statement still has to fill, and the      *)
(* scopes and loop targets are those of the open statements.               *)
Awaited(frame) ==
    CASE frame.kind = "then" -> {frame.other, frame.exit}
      [] frame.kind \in {"else", "while"} -> {frame.exit}
      [] frame.kind = "for" -> {frame.other, frame.exit}
StagesAhead == IF stages = 0 \/ done THEN {} ELSE (stage + 2) .. (stages + 2)
OpenFors == {i \in DOMAIN frames : frames[i].kind = "for"}
OpenLoops == {i \in DOMAIN frames : frames[i].kind \in {"while", "for"}}
TypeOK ==
    /\ fn.current \in Blocks
    /\ fn.values \in Nat
    /\ {b \in Blocks : BlockTerm(b) = Open} \ {fn.current} =
          ((UNION {Awaited(frames[i]) : i \in DOMAIN frames}) \cup StagesAhead) \ {fn.current}
    /\ Len(env) = (IF done THEN 1 ELSE 2) + Len(frames) + Cardinality(OpenFors)
    /\ Len(loops) = Cardinality(OpenLoops)
    /\ Len(program) <= MaxTokens
    /\ stage \in 0 .. stages
=============================================================================
