----------------------------- MODULE SourceText -----------------------------
(***************************************************************************)
(* What happens to the text of a file in thagore-fmt (format_source run on *)
(* its own output, as the editor and `fmt --check` do) and in every other  *)
(* tool as far as the tree: it is lexed, parsed, formatted, lexed and      *)
(* parsed again and formatted once more.  Before that an edit may damage   *)
(* one line of it; and what was read may be printed (the Display of the    *)
(* tree) and read again.                                                   *)
(***************************************************************************)
EXTENDS Formatter, SyntaxDisplay, FiniteSets

(* The four tools are parameters, LexAll, ParseProgram, FormatText and     *)
(* DisplayText in the configuration: TLC expands whatever an action calls  *)
(* before it starts, and stops at a parameter.                             *)
CONSTANTS
    Lexed(_, _),      \* the tokens of a text, with trailing line breaks or without
    Parsed(_),        \* the declarations and the errors of tokens
    Formatted(_, _, _), \* the text fmt writes, by configuration, of a text and its tree
    Printed(_),       \* the text of a tree
    Sources,     \* texts: sequences of lines
    ConfigsOf(_),\* the formatter configurations a source is formatted with
    DamagesOf(_) \* the pairs [damaged, line] an edit may make of a source

VARIABLES
    cfg,
    texts,       \* the text and what each run of the formatter made of it
    toks,
    trees,       \* the declarations read from each text
    errors,      \* what the parser said of the last one
    damage,      \* the edit, or NoDamage
    shown,       \* whether the last text is a tree that was printed
    phase        \* "written", "lexed", "parsed" or "done"

vars == <<cfg, texts, toks, trees, errors, damage, shown, phase>>

NoDamage == [source |-> <<>>, line |-> 0]
Passes == 3

Init ==
    /\ \E source \in Sources : texts = <<source>> /\ cfg \in ConfigsOf(source)
    /\ toks = <<>>
    /\ trees = <<>>
    /\ errors = <<>>
    /\ damage = NoDamage
    /\ shown = FALSE
    /\ phase = "written"

Edit ==
    /\ phase = "written" /\ Len(texts) = 1 /\ damage = NoDamage
    /\ \E d \in DamagesOf(texts[1]) :
          /\ damage' = [source |-> texts[1], line |-> d.line]
          /\ texts' = <<d.damaged>>
    /\ UNCHANGED <<cfg, toks, trees, errors, shown, phase>>

Lex ==
    /\ phase = "written"
    /\ toks' = Lexed(Last(texts), cfg.trailing)
    /\ phase' = "lexed"
    /\ UNCHANGED <<cfg, texts, trees, errors, damage, shown>>

Parse ==
    /\ phase = "lexed"
    /\ LET p == Parsed(toks)
       IN  trees' = Append(trees, p.out) /\ errors' = p.errors
    /\ phase' = "parsed"
    /\ UNCHANGED <<cfg, texts, toks, damage, shown>>

(* format_source: a file with errors is left as it is. *)
Format ==
    /\ phase = "parsed"
    /\ IF errors # <<>> \/ Len(texts) = Passes \/ shown
       THEN phase' = "done" /\ UNCHANGED texts
       ELSE /\ texts' = Append(texts, Formatted(cfg, Last(texts), Last(trees)))
            /\ phase' = "written"
    /\ UNCHANGED <<cfg, toks, trees, errors, damage, shown>>

Show ==
    /\ phase = "parsed" /\ Len(texts) = 1 /\ errors = <<>> /\ damage = NoDamage
    /\ texts' = Append(texts, Printed(Last(trees)))
    /\ shown' = TRUE
    /\ phase' = "written"
    /\ UNCHANGED <<cfg, toks, trees, errors, damage>>

Done == phase = "done" /\ UNCHANGED vars

Next == Edit \/ Lex \/ Parse \/ Format \/ Show \/ Done

Spec == Init /\ [][Next]_vars

(* The properties below are of the states a step is taken from: every state *)
(* but the last, where nothing is left to be said of the text.              *)
-----------------------------------------------------------------------------
TypeOK ==
    /\ cfg \in ConfigsOf(texts[1]) \/ damage # NoDamage
    /\ Len(texts) \in 1 .. Passes
    /\ Len(trees) = Len(texts) - (IF phase \in {"written", "lexed"} THEN 1 ELSE 0)
    /\ \A i \in DOMAIN trees : \A j \in DOMAIN trees[i] : IsDecl(trees[i][j])
    /\ \A i \in DOMAIN toks : toks[i].line \in 0 .. Len(Last(texts)) \/ phase = "written"
    /\ damage.line \in 0 .. Len(texts[1])
    /\ shown \in BOOLEAN /\ (shown => Len(texts) = 2)
    /\ phase \in {"written", "lexed", "parsed", "done"}

(* A tree without the lines of its nodes. *)
RECURSIVE Shape(_)
Shape(n) == [kind |-> n.kind, name |-> n.name, of |-> [i \in DOMAIN n.of |-> Shape(n.of[i])]]
Shapes(decls) == [i \in DOMAIN decls |-> Shape(decls[i])]

RECURSIVE NodesOf(_)
NodesOf(n) == {n} \cup UNION {NodesOf(n.of[i]) : i \in DOMAIN n.of}
Nodes(decls) == UNION {NodesOf(decls[i]) : i \in DOMAIN decls}

-----------------------------------------------------------------------------
(* Layout *)

Opened(n) == Cardinality({i \in 1 .. n : toks[i].text = "indent"})
Closed(n) == Cardinality({i \in 1 .. n : toks[i].text = "dedent"})
IsWord(i) == toks[i].text \notin LayoutKinds
FirstWordOf(line) == CHOOSE i \in DOMAIN toks : /\ toks[i].line = line /\ IsWord(i)
                                               /\ \A j \in 1 .. i - 1 : toks[j].line < line \/ ~IsWord(j)
DepthOf(line) == Opened(FirstWordOf(line)) - Closed(FirstWordOf(line))

(* What indentation means to the parser (apply_indentation, finish_eof): in  *)
(* a text without a lexer error every Indent has its Dedent, and of two      *)
(* lines with nothing to their left in between, the one further right is     *)
(* deeper, and lines equally far right are equally deep.                     *)
LayoutIsBalanced ==
    LET text == Last(texts)
        written == {n \in DOMAIN text : HasText(text[n])}
    IN  (phase = "lexed" /\ ~\E i \in DOMAIN toks : toks[i].text = "error") =>
            /\ Opened(Len(toks)) = Closed(Len(toks))
            /\ \A i \in DOMAIN toks : Opened(i) >= Closed(i)
            /\ \A m, n \in written :
                  (m < n /\ \A k \in m .. n : k \in written => text[k].spaces >= text[m].spaces) =>
                      /\ (DepthOf(n) = DepthOf(m)) <=> (text[n].spaces = text[m].spaces)
                      /\ DepthOf(n) >= DepthOf(m)

-----------------------------------------------------------------------------
(* Expressions *)

(* The operators from the loosest to the tightest, told apart from the       *)
(* tables of the parser; `=` groups to the right, the others to the left.    *)
Level(op) == CHOOSE k \in 1 .. 7 :
    op \in <<{"="}, {"or"}, {"and"}, {"==", "!="}, {"<", ">", "<=", ">="}, {"+", "-"}, {"*", "/", "%"}>>[k]
IsOperator(word) == word \in {"=", "or", "and", "==", "!=", "<", ">", "<=", ">=", "+", "-", "*", "/", "%"}

(* How words a op b op c ... group: around the loosest operator. *)
RECURSIVE Grouped(_)
Grouped(words) ==
    LET ops == {i \in DOMAIN words : IsOperator(words[i])}
        loosest == {i \in ops : \A j \in ops : Level(words[i]) <= Level(words[j])}
        at == IF \E i \in loosest : words[i] = "=" THEN CHOOSE i \in loosest : \A j \in loosest : i <= j
              ELSE CHOOSE i \in loosest : \A j \in loosest : i >= j
    IN  IF ops = {} THEN words
        ELSE <<Grouped(SubSeq(words, 1, at - 1)), words[at], Grouped(SubSeq(words, at + 1, Len(words)))>>

RECURSIVE Grouping(_)
Grouping(e) ==
    IF e.kind \in {"binary", "assign"} THEN <<Grouping(e.of[1]), e.name, Grouping(e.of[2])>> ELSE <<e.name>>

IsFlat(words) == \A i \in DOMAIN words : IsOperator(words[i]) <=> i % 2 = 0

(* Whatever operators stand next to each other in an expression, the tree   *)
(* groups them by their levels (INFIX_BINDING_TABLE, parse_expr).           *)
OperatorsGroupByLevel ==
    (phase = "parsed" /\ errors = <<>>) =>
        \A d \in Nodes(Last(trees)) :
            LET words == Last(texts)[d.line].words
                rest == SubSeq(words, 4, Len(words))
            IN  (d.kind = "let" /\ Len(words) >= 4 /\ words[3] = "=" /\ IsFlat(rest)) =>
                    Grouping(d.of[2]) = Grouped(rest)

(* A text is read as it is written: blocks by their indentation, operators  *)
(* by their levels.                                                         *)
ReadsAsWritten == [][TypeOK /\ LayoutIsBalanced /\ OperatorsGroupByLevel]_vars

-----------------------------------------------------------------------------
(* Formatting *)

IsNot(n) == n.kind = "unary" /\ n.name = "not"
(* Shapes the formatter writes so that they are read as something else: a    *)
(* negation that is an operand, an assignment to an assignment, an intent    *)
(* with a body.                                                              *)
WrittenAsAnother(n) ==
    \/ n.kind = "binary" /\ n.name \notin {"and", "or"} /\ (IsNot(n.of[1]) \/ IsNot(n.of[2]))
    \/ n.kind = "unary" /\ n.name = "-" /\ IsNot(n.of[1])
    \/ n.kind = "assign" /\ n.of[1].kind = "assign"
    \/ n.kind = "intent" /\ n.of[2].of # <<>>
IsPlain(decls) == ~\E n \in Nodes(decls) : WrittenAsAnother(n)

Sorted(decls) ==
    [i \in DOMAIN decls |->
        IF decls[i].kind = "from"
        THEN [decls[i] EXCEPT !.of[2].of = SortedBy(@, SymbolKey)]
        ELSE decls[i]]
AsBag(decls) == [d \in Range(decls) |-> Cardinality({i \in DOMAIN decls : decls[i] = d})]

SameProgram(a, b) ==
    IF cfg.sort
    THEN /\ AsBag(Shapes(Sorted(a))) = AsBag(Shapes(Sorted(b)))
         /\ SelectSeq(Shapes(a), LAMBDA d : ~IsImport(d)) = SelectSeq(Shapes(b), LAMBDA d : ~IsImport(d))
    ELSE Shapes(a) = Shapes(b)

IsReadAsGiven ==
    (phase = "parsed" /\ Len(trees) > 1 /\ ~shown /\ IsPlain(trees[1])) =>
        \/ errors = <<>> /\ SameProgram(trees[1], Last(trees))
        \/ errors # <<>> /\ (cfg.indent = 0 \/ cfg.indent % 2 = 1)
(* What fmt writes is read back as the program it was given: the parentheses *)
(* fmt_expr leaves out were not needed, the layout it chooses nests blocks   *)
(* as before, and imports are moved but none is lost.  With an indentation   *)
(* of no or an odd number of spaces (.thagore-fmt.toml) the lexer refuses    *)
(* the text; it is never read as another program.                            *)
FormatKeepsProgram == [][IsReadAsGiven]_vars

(* What is known to take a second run: the shapes above, symbols of an import *)
(* that are not in order, and a comment between two imports.                 *)
IsSettled ==
    /\ IsPlain(trees[1])
    /\ \A d \in Nodes(trees[1]) : ImportSymbols(d) = SortedBy(ImportSymbols(d), SymbolKey)
    /\ \A i \in 2 .. Len(trees[1]) : IsImport(trees[1][i - 1]) /\ IsImport(trees[1][i]) =>
          \A n \in trees[1][i - 1].line .. trees[1][i].line : HasText(texts[1][n])
(* Formatting what was formatted changes nothing: blank lines do not grow,   *)
(* comments stay where they are.  (fmt_tests.rs, assert_idempotent.)         *)
PlainFormatIsIdempotent ==
    [][Len(texts) = Passes /\ IsSettled => texts[3] = texts[2]]_vars

Notes(text) == SelectSeq([n \in DOMAIN text |-> text[n].note], LAMBDA note : note # "")
StartsANode(n) == \E d \in Nodes(trees[1]) :
    d.kind \notin {"ident", "int", "float", "string", "bool", "unary", "binary"} /\ d.line = n
NotesAreWrittenOnce ==
    (phase = "parsed" /\ Len(trees) = 2 /\ ~shown) =>
        \A n \in DOMAIN texts[1] :
            LET note == texts[1][n].note
            IN  (note # "" /\ (~HasText(texts[1][n]) \/ StartsANode(n))) =>
                    Len(SelectSeq(Notes(texts[2]), LAMBDA m : m = note)) = 1
(* No comment is lost or written twice by emit_comments_before_line and      *)
(* write_line, whatever is sorted: those on a line of their own and those    *)
(* behind the first line of a declaration, a statement, a field or a stage.  *)
CommentsSurvive == [][NotesAreWrittenOnce]_vars

-----------------------------------------------------------------------------
(* Printing *)

(* Shapes the Display of the tree prints so that they are read as something  *)
(* else: its precedences put too few parentheses around the operand of a     *)
(* prefix and before a postfix, `not` binds looser than it thinks, and a     *)
(* relative path gains a dot, a whole float loses its point.                 *)
ShownAsAnother(n) ==
    \/ n.kind = "unary" /\ n.name = "-" /\ (IsNot(n.of[1]) \/ n.of[1].kind = "binary")
    \/ n.kind \in {"call", "field", "index"} /\ n.of[1].kind \in {"unary", "binary"}
    \/ n.kind = "binary" /\ n.name \notin {"and", "or"} /\ (IsNot(n.of[1]) \/ IsNot(n.of[2]))
    \/ n.kind = "path" /\ Len(n.of) > 1 /\ n.of[1].kind = "dot" /\ Last(n.of).kind # "dot"
    \/ n.kind = "float" /\ n.name = WholeFloat
    \/ n.kind = "intent" /\ n.of[2].of = <<>>

IsReadAsPrinted ==
    (phase = "parsed" /\ shown /\ ~\E n \in Nodes(trees[1]) : ShownAsAnother(n)) =>
        errors = <<>> /\ Shapes(trees[1]) = Shapes(trees[2])
(* What is printed of a tree is read back as that tree (ast_tests.rs,        *)
(* display_round_trip_uses_valid_thagore_shape), for every other shape.      *)
DisplayKeepsProgram == [][IsReadAsPrinted]_vars

-----------------------------------------------------------------------------
(* Recovery *)

Whole(source) == ParseProgram(LexAll(source, TRUE)).out
Holder(decls, n) == CHOOSE i \in DOMAIN decls : decls[i].line <= n /\ (i = Len(decls) \/ n < decls[i + 1].line)
(* Whether a block that was left open takes the declaration in and ends with *)
(* it: it has a block of its own, and it is not one more method of an impl.  *)
EndsTheBlock(d, open) ==
    d.kind \notin {"const", "let", "import", "from", "extern"} /\ ~(d.kind = "func" /\ open.kind = "impl")
OthersAreRead ==
    (phase = "parsed" /\ Len(trees) = 1 /\ damage # NoDamage) =>
        LET decls == Whole(damage.source)
            hit == Holder(decls, damage.line)
            nearest == IF decls[hit].line = damage.line /\ hit > 1 THEN hit - 1 ELSE hit
            depth == Max({1} \cup {damage.source[n].spaces \div 2 : n \in {damage.line, damage.line - 1} \ {0}})
            BlocksBefore(i) == Cardinality({j \in hit + 1 .. i - 1 : EndsTheBlock(decls[j], decls[nearest])})
            Spared(i) == i < nearest \/ (i > hit /\ (errors = <<>> \/ BlocksBefore(i) >= depth))
        IN  \A i \in DOMAIN decls : Spared(i) => Shape(decls[i]) \in Range(Shapes(trees[1]))
(* After a damaged line the parser finds its way back (synchronize_statement *)
(* and begin_statement) at the ends of blocks, and never reads what follows  *)
(* as something else in silence.  The declarations before the damaged one    *)
(* are read as if nothing had happened, and so are those after it when there *)
(* is no error, or after as many blocks as the damaged line, or the one      *)
(* before it, is deep.  Damage to a first line may cost the declaration      *)
(* before as well.                                                           *)
DamageIsContained == [][OthersAreRead]_vars
=============================================================================
