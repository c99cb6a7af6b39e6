----------------------------- MODULE Formatter -----------------------------
(***************************************************************************)
(* tools/thagore-fmt: from the tree of a file and the layout of its source *)
(* to the lines of the formatted file.                                     *)
(*                                                                         *)
(* A formatter is a record: cfg, src (the lines it was given), public (the *)
(* lines of declarations that start with `pub`), out (the lines written),  *)
(* blank (last_was_blank) and next (how many full-line comments have been  *)
(* written).  Every fmt_ operator returns the formatter after it; `depth`  *)
(* is the field `indent` of the code.                                      *)
(***************************************************************************)
EXTENDS Parser, TLC

CONSTANT Dictionary    \* the words of import paths and symbols, in the order of their texts

-----------------------------------------------------------------------------
(* config.rs: the presets, and what a file .thagore-fmt.toml may change.   *)
Strict == [relaxed |-> FALSE, indent |-> 2, sort |-> TRUE, gap |-> 1, trailing |-> TRUE, preserve |-> FALSE]
Relaxed == [relaxed |-> TRUE, indent |-> 2, sort |-> FALSE, gap |-> 1, trailing |-> TRUE, preserve |-> TRUE]

-----------------------------------------------------------------------------
(* Lines, comments and blank lines *)

HasText(line) == line.words # <<>>
IsBlank(line) == line.words = <<>> /\ line.note = ""
CommentLines(src) == SelectSeq([n \in DOMAIN src |-> n], LAMBDA n : ~HasText(src[n]) /\ src[n].note # "")
InlineComment(f, n) == IF n \in DOMAIN f.src /\ HasText(f.src[n]) THEN f.src[n].note ELSE ""

NewFormatter(cfg, src, decls) ==
    [cfg |-> cfg, src |-> src, out |-> <<>>, blank |-> FALSE, next |-> 0,
     public |-> {n \in {decls[i].line : i \in DOMAIN decls} :
                    n \in DOMAIN src /\ HasText(src[n]) /\ src[n].words[1] = "pub"}]

Spaces(f, depth) == depth * f.cfg.indent
Newline(f) == [f EXCEPT !.out = Append(@, BlankLine), !.blank = FALSE]
PutLine(f, line) == [f EXCEPT !.out = Append(@, line), !.blank = FALSE]
WriteLine(f, depth, words, note) == PutLine(f, [Line(Spaces(f, depth), words) EXCEPT !.note = note])
(* A slip: blank lines are not merged. *)
PutBlankLineAlways(f) == IF f.out = <<>> THEN f ELSE [f EXCEPT !.out = Append(@, BlankLine), !.blank = TRUE]
PutBlankLine(f) ==
    CASE f.out = <<>> -> f
      [] f.out # <<>> /\ IsBlank(Last(f.out)) -> [f EXCEPT !.blank = TRUE]
      [] OTHER -> [f EXCEPT !.out = Append(@, BlankLine), !.blank = TRUE]

RECURSIVE EmitBlankLines(_, _), EmitComments(_, _, _), TrimEnd(_)
EmitBlankLines(f, count) == IF count <= 0 THEN f ELSE EmitBlankLines(PutBlankLine(f), count - 1)

(* emit_comments_before_line: the comments not yet written that stand      *)
(* above a line of the source.                                             *)
EmitComments(f, before, depth) ==
    LET comments == CommentLines(f.src)
        n == comments[f.next + 1]
        g == IF f.out # <<>> /\ ~f.blank THEN Newline(f) ELSE f
        written == PutLine(g, [BlankLine EXCEPT !.spaces = Spaces(f, depth), !.note = f.src[n].note])
    IN  IF f.next = Len(comments) \/ n >= before THEN f
        ELSE EmitComments([written EXCEPT !.next = @ + 1], before, depth)
(* A slip: what stands below the last declaration is forgotten. *)
DropRemainingComments(f) == f
EmitRemainingComments(f) == EmitComments(f, Len(f.src) + 1, 0)

TrimEnd(lines) == IF lines # <<>> /\ IsBlank(Last(lines)) THEN TrimEnd(Front(lines)) ELSE lines

(* original_gap looks at the lines the two spans start on. *)
OriginalGap(prev, next) == IF next.line > prev.line THEN next.line - prev.line - 1 ELSE 0

-----------------------------------------------------------------------------
(* Expressions, types and headers *)

BinaryPrecedence(op) ==
    CASE op = "or" -> 2
      [] op = "and" -> 3
      [] op \in {"==", "!="} -> 4
      [] op \in {"<", "<=", ">", ">="} -> 5
      [] op \in {"+", "-"} -> 6
      [] op \in {"*", "/", "%"} -> 7

ExprPrecedence(e) ==
    CASE e.kind = "assign" -> 1
      [] e.kind = "binary" -> BinaryPrecedence(e.name)
      [] e.kind = "unary" -> 8
      [] e.kind \in {"call", "field", "index"} -> 10
      [] e.kind \in {"ident", "int", "float", "string", "bool"} -> 11

Names(nodes) == [i \in DOMAIN nodes |-> <<nodes[i].name>>]

RECURSIVE FmtExpr(_, _)
(* A slip: a - (b - c) loses its parentheses. *)
FmtBinaryFlat(e) ==
    FmtExpr(e.of[1], BinaryPrecedence(e.name)) \o <<e.name>> \o FmtExpr(e.of[2], BinaryPrecedence(e.name))
FmtBinary(e) ==
    FmtExpr(e.of[1], BinaryPrecedence(e.name)) \o <<e.name>> \o FmtExpr(e.of[2], BinaryPrecedence(e.name) + 1)
FmtUnary(e) == <<e.name>> \o FmtExpr(e.of[1], 8)
FmtAssign(e) == FmtExpr(e.of[1], 1) \o <<"=">> \o FmtExpr(e.of[2], 1)
FmtCall(e) ==
    LET args == [i \in 1 .. Len(e.of) - 1 |-> FmtExpr(e.of[i + 1], 0)]
    IN  FmtExpr(e.of[1], 10) \o <<"(">> \o Join(args, ",") \o <<")">>
FmtField(e) == FmtExpr(e.of[1], 10) \o <<".", e.name>>
FmtIndex(e) == FmtExpr(e.of[1], 10) \o <<"[">> \o FmtExpr(e.of[2], 0) \o <<"]">>
FmtExpr(e, parent) ==
    LET words == CASE e.kind = "binary" -> FmtBinary(e)
                   [] e.kind = "unary" -> FmtUnary(e)
                   [] e.kind = "assign" -> FmtAssign(e)
                   [] e.kind = "call" -> FmtCall(e)
                   [] e.kind = "field" -> FmtField(e)
                   [] e.kind = "index" -> FmtIndex(e)
                   [] OTHER -> <<e.name>>
    IN  IF ExprPrecedence(e) < parent THEN <<"(">> \o words \o <<")">> ELSE words

RECURSIVE FmtType(_)
FmtType(t) ==
    IF t.kind # "generic" THEN <<t.name>>
    ELSE <<t.name, "<">> \o Join([i \in DOMAIN t.of |-> FmtType(t.of[i])], ",") \o <<">">>

Optional(mark, t) == IF t = Absent THEN <<>> ELSE <<mark>> \o FmtType(t)

FmtTypeParam(t) == <<t.name>> \o (IF t.of = <<>> THEN <<>> ELSE <<":">> \o Join(Names(t.of), "+"))
FmtTypeParams(types) ==
    IF types.of = <<>> THEN <<>>
    ELSE <<"<">> \o Join([i \in DOMAIN types.of |-> FmtTypeParam(types.of[i])], ",") \o <<">">>
FmtParams(params) ==
    <<"(">> \o Join([i \in DOMAIN params.of |-> <<params.of[i].name, ":">> \o FmtType(params.of[i].of[1])], ",")
            \o <<")">>

FmtLet(d) == <<"let", d.name>> \o Optional(":", d.of[1]) \o <<"=">> \o FmtExpr(d.of[2], 0)

-----------------------------------------------------------------------------
(* Statements *)

RECURSIVE FmtStatements(_, _, _, _), FmtStmt(_, _, _)
FmtBlock(f, block, depth) == FmtStatements(f, block.of, 1, depth)

FmtStatements(f, statements, i, depth) ==
    IF i > Len(statements) THEN f
    ELSE LET g == EmitComments(f, statements[i].line, depth)
             gap == IF i = 1 THEN 0 ELSE OriginalGap(statements[i - 1], statements[i])
             h == EmitBlankLines(g, IF gap > 0 THEN 1 ELSE 0)
         IN  FmtStatements(FmtStmt(h, statements[i], depth), statements, i + 1, depth)

FmtIf(f, s, depth) ==
    LET then == FmtBlock(WriteLine(f, depth, <<"if", "(">> \o FmtExpr(s.of[1], 0) \o <<")", ":">>,
                                   InlineComment(f, s.line)), s.of[2], depth + 1)
    IN  IF s.of[3] = Absent THEN then
        ELSE FmtBlock(WriteLine(then, depth, <<"else", ":">>, ""), s.of[3], depth + 1)

FmtStmt(f, s, depth) ==
    LET Put(words) == WriteLine(f, depth, words, InlineComment(f, s.line))
    IN  CASE s.kind = "let" -> Put(FmtLet(s))
          [] s.kind = "do" -> Put(FmtExpr(s.of[1], 0))
          [] s.kind = "return" -> Put(<<"return">> \o IF s.of[1] = Absent THEN <<>> ELSE FmtExpr(s.of[1], 0))
          [] s.kind = "if" -> FmtIf(f, s, depth)
          [] s.kind = "while" ->
                FmtBlock(Put(<<"while", "(">> \o FmtExpr(s.of[1], 0) \o <<")", ":">>), s.of[2], depth + 1)
          [] s.kind = "for" ->
                FmtBlock(Put(<<"for", s.name, "in">> \o FmtExpr(s.of[1], 0) \o <<":">>), s.of[2], depth + 1)
          [] s.kind \in {"break", "continue"} -> Put(<<s.kind>>)

-----------------------------------------------------------------------------
(* Imports: rules.rs and fmt_import_block *)

RankOf(word) == IF word = "." THEN 0 ELSE SelectInSeq(Dictionary, LAMBDA w : w = word)
PathWords(import) == [i \in DOMAIN import.of[1].of |-> import.of[1].of[i].name]

StdlibRoots == {"math", "io", "string", "vec", "sort", "iter", "fmt", "convert", "time"}
(* 1 standard library, 2 dependency, 3 project, 4 relative. *)
ClassifyImport(path) ==
    CASE path \in {<<".">>, <<".", ".">>} -> 4
      [] Len(path) = 1 /\ path[1] \in StdlibRoots -> 1
      [] Len(path) > 1 /\ path[1] = "collections" -> 1
      [] Len(path) > 1 /\ path[1] # "collections" /\ path # <<".", ".">> -> 3
      [] OTHER -> 2

ImportSymbols(import) == IF import.kind = "from" THEN import.of[2].of ELSE <<>>
ImportSortKey(import) ==
    <<<<ClassifyImport(PathWords(import))>>,
      [i \in DOMAIN PathWords(import) |-> RankOf(PathWords(import)[i])],
      [i \in DOMAIN ImportSymbols(import) |-> RankOf(ImportSymbols(import)[i].name)]>>

SymbolKey(s) == <<<<RankOf(s.name)>>, <<>>, <<>>>>
RECURSIVE Before(_, _)
Before(a, b) ==
    /\ b # <<>>
    /\ a # <<>> => \/ Head(a) < Head(b)
                   \/ Head(a) = Head(b) /\ Before(Tail(a), Tail(b))
KeyBefore(a, b) ==
    \E k \in 1 .. 3 : Before(a[k], b[k]) /\ \A j \in 1 .. k - 1 : a[j] = b[j]

(* sort_by_key keeps the order of equal keys. *)
SortedBy(nodes, Key(_)) ==
    LET order == SortSeq([i \in DOMAIN nodes |-> i],
                         LAMBDA i, j : \/ KeyBefore(Key(nodes[i]), Key(nodes[j]))
                                       \/ Key(nodes[i]) = Key(nodes[j]) /\ i < j)
    IN  [i \in DOMAIN nodes |-> nodes[order[i]]]

FmtImportSymbol(symbol) == <<symbol.name>> \o IF symbol.of[1] = Absent THEN <<>> ELSE <<"as", symbol.of[1].name>>
FmtPath(import) ==
    LET dots == SelectSeq(PathWords(import), LAMBDA w : w = ".")
        names == SelectSeq(PathWords(import), LAMBDA w : w # ".")
    IN  dots \o Join([i \in DOMAIN names |-> <<names[i]>>], ".")

FmtImport(f, import) ==
    LET symbols == IF f.cfg.sort THEN SortedBy(ImportSymbols(import), SymbolKey)
                   ELSE ImportSymbols(import)
        all == IF import.of[3] = Absent THEN <<>> ELSE <<"include", "all">>
        alias == IF import.kind = "from" \/ import.of[2].of[1] = Absent THEN <<>>
                 ELSE <<"as", import.of[2].of[1].name>>
        named == IF import.kind = "import" THEN <<>>
                 ELSE <<"import">> \o Join([i \in DOMAIN symbols |-> FmtImportSymbol(symbols[i])], ",")
    IN  WriteLine(f, 0, <<import.kind>> \o FmtPath(import) \o named \o alias \o all,
                  InlineComment(f, import.line))

RECURSIVE FmtImports(_, _, _)
FmtImports(f, imports, i) ==
    LET group(n) == ClassifyImport(PathWords(imports[n]))
        g == IF i > 1 /\ f.cfg.sort /\ group(i - 1) # group(i) THEN PutBlankLine(f) ELSE f
    IN  IF i > Len(imports) THEN f ELSE FmtImports(FmtImport(g, imports[i]), imports, i + 1)
FmtImportBlock(f, block) == FmtImports(f, IF f.cfg.sort THEN SortedBy(block, ImportSortKey) ELSE block, 1)

-----------------------------------------------------------------------------
(* Declarations *)

Pub(f, d) == IF d.line \in f.public THEN <<"pub">> ELSE <<>>

FmtFunc(f, d, depth, isMethod) ==
    LET header == (IF isMethod THEN <<>> ELSE Pub(f, d)) \o <<"func", d.name>> \o FmtTypeParams(d.of[1])
                  \o FmtParams(d.of[2]) \o Optional("->", d.of[3]) \o <<":">>
    IN  FmtBlock(WriteLine(f, depth, header, InlineComment(f, d.line)), d.of[4], depth + 1)

FmtConst(f, d) ==
    WriteLine(f, 0, Pub(f, d) \o <<"const", d.name, ":">> \o FmtType(d.of[1]) \o <<"=">> \o FmtExpr(d.of[2], 0),
              InlineComment(f, d.line))

RECURSIVE FmtFields(_, _, _), FmtMethods(_, _, _), FmtConstraints(_, _, _), FmtStages(_, _, _)
FmtFields(f, fields, i) ==
    IF i > Len(fields) THEN f
    ELSE LET g == IF i > 1 THEN Newline(f) ELSE f
             h == EmitComments(g, fields[i].line, 1)
         IN  FmtFields(WriteLine(h, 1, <<fields[i].name, ":">> \o FmtType(fields[i].of[1]),
                                 InlineComment(f, fields[i].line)), fields, i + 1)
FmtStruct(f, d) ==
    FmtFields(WriteLine(f, 0, Pub(f, d) \o <<"struct", d.name>> \o FmtTypeParams(d.of[1]) \o <<":">>,
                        InlineComment(f, d.line)), d.of[2].of, 1)

FmtMethods(f, methods, i) ==
    IF i > Len(methods) THEN f
    ELSE LET g == IF i > 1 THEN PutBlankLine(f) ELSE f
         IN  FmtMethods(FmtFunc(EmitComments(g, methods[i].line, 1), methods[i], 1, TRUE), methods, i + 1)
FmtImpl(f, d) ==
    FmtMethods(WriteLine(f, 0, <<"impl", d.name>> \o FmtTypeParams(d.of[1]) \o <<":">>,
                         InlineComment(f, d.line)), d.of[2].of, 1)

FmtExtern(f, d) ==
    WriteLine(f, 0, <<"extern", "func", d.name>> \o FmtParams(d.of[1]) \o <<"->">> \o FmtType(d.of[2]),
              InlineComment(f, d.line))

FmtConstraints(f, constraints, i) ==
    IF i > Len(constraints) THEN f
    ELSE FmtConstraints(WriteLine(f, 1, FmtExpr(constraints[i], 0), InlineComment(f, constraints[i].line)),
                        constraints, i + 1)
(* The statements of the body follow the constraints at their depth. *)
FmtIntent(f, d) ==
    FmtBlock(FmtConstraints(WriteLine(f, 0, <<"intent", d.name, ":">>, InlineComment(f, d.line)), d.of[1].of, 1),
             d.of[2], 1)

FmtStages(f, stages, i) ==
    IF i > Len(stages) THEN f
    ELSE LET g == WriteLine(f, 1, <<"stage", stages[i].name, ":">>, InlineComment(f, stages[i].line))
         IN  FmtStages(Newline(FmtBlock(g, stages[i].of[1], 2)), stages, i + 1)
FmtFlow(f, d) ==
    LET g == FmtStages(WriteLine(f, 0, <<"flow", d.name, ":">>, InlineComment(f, d.line)), d.of[1].of, 1)
    IN  CASE d.of[2] # Absent -> FmtBlock(WriteLine(g, 1, <<"compensate", ":">>, ""), d.of[2], 2)
          [] d.of[2] = Absent /\ d.of[1].of # <<>> -> [g EXCEPT !.out = TrimEnd(@), !.blank = FALSE]
          [] OTHER -> g

FmtDecl(f, d) ==
    CASE d.kind = "func" -> FmtFunc(f, d, 0, FALSE)
      [] d.kind = "let" -> WriteLine(f, 0, FmtLet(d), InlineComment(f, d.line))
      [] d.kind = "const" -> FmtConst(f, d)
      [] d.kind = "struct" -> FmtStruct(f, d)
      [] d.kind = "impl" -> FmtImpl(f, d)
      [] d.kind = "extern" -> FmtExtern(f, d)
      [] d.kind = "intent" -> FmtIntent(f, d)
      [] d.kind = "flow" -> FmtFlow(f, d)

(* rules.rs; `previous` is Absent before the first declaration. *)
BlankLinesBetweenDecls(cfg, previous, current, gap) ==
    CASE cfg.preserve /\ cfg.relaxed -> IF gap > 2 THEN 2 ELSE gap
      [] ~(cfg.preserve /\ cfg.relaxed) /\ previous = Absent -> 0
      [] ~(cfg.preserve /\ cfg.relaxed) /\ previous # Absent ->
            IF current.kind = "func" /\ previous.kind # "func" THEN 2 ELSE cfg.gap

IsImport(d) == d.kind \in {"import", "from"}

RECURSIVE FmtDecls(_, _, _, _)
(* `other` is the last declaration that is not an import. *)
FmtDecls(f, decls, i, other) ==
    IF i > Len(decls) THEN f
    ELSE LET d == decls[i]
             last == IF i = 1 THEN Absent ELSE decls[i - 1]
             gap == IF last = Absent THEN 0 ELSE OriginalGap(last, d)
             after == SelectInSubSeq(decls, i, Len(decls), LAMBDA x : ~IsImport(x))
             end == IF after = 0 THEN Len(decls) ELSE after - 1
             g == EmitComments(f, d.line, 0)
         IN  IF IsImport(d)
             THEN LET h == IF last = Absent THEN g
                           ELSE EmitBlankLines(g, BlankLinesBetweenDecls(f.cfg, last, d, gap))
                  IN  FmtDecls(FmtImportBlock(h, SubSeq(decls, i, end)), decls, end + 1, other)
             ELSE FmtDecls(FmtDecl(EmitBlankLines(g, BlankLinesBetweenDecls(f.cfg, other, d, gap)), d),
                           decls, i + 1, d)

(* format_source, for a file that parses. *)
FormatText(cfg, src, decls) ==
    TrimEnd(EmitRemainingComments(FmtDecls(NewFormatter(cfg, src, decls), decls, 1, Absent)).out)
=============================================================================
