------------------------------- MODULE Parser -------------------------------
(***************************************************************************)
(* crates/parser: the recursive descent over the tokens of one file.       *)
(*                                                                         *)
(* A parser is a record: toks, the index `at` of the next token, `bad`     *)
(* (statement_has_error), the errors so far and `out`, what the last call  *)
(* returned.  Every operator takes a parser and returns the one after it.  *)
(***************************************************************************)
EXTENDS LayoutLexer, SyntaxTree

-----------------------------------------------------------------------------
(* parser.rs: the cursor *)

EofToken == [text |-> "eof", line |-> 0]
NewParser(toks) == [toks |-> toks, at |-> 1, bad |-> FALSE, errors |-> <<>>, out |-> Absent]

Peek(p) == IF p.at \in DOMAIN p.toks THEN p.toks[p.at] ELSE EofToken
Ahead(p) == Kind(Peek(p).text)
At(p, kinds) == Ahead(p) \in kinds
AtWord(p, word) == Peek(p).text = word
Advance(p) == [p EXCEPT !.at = IF @ \in DOMAIN p.toks THEN @ + 1 ELSE @]
Out(p, v) == [p EXCEPT !.out = v]

(* emit_statement_error: one error for each statement. *)
Complain(p, expected) ==
    IF p.bad THEN p
    ELSE [p EXCEPT !.bad = TRUE, !.errors = Append(@, [line |-> Peek(p).line, expected |-> expected])]
Fresh(p) == [p EXCEPT !.bad = FALSE]

Skip(p, kind) == IF At(p, {kind}) THEN Advance(p) ELSE p
Expect(p, kind) == IF At(p, {kind}) THEN Advance(p) ELSE Complain(p, kind)
AdvanceUnlessEof(p) == IF At(p, {"eof"}) THEN p ELSE Advance(p)

RECURSIVE SkipAll(_, _)
SkipAll(p, kinds) == IF At(p, kinds) THEN SkipAll(Advance(p), kinds) ELSE p
SkipNewlines(p) == SkipAll(p, {"newline"})
SkipSoftLayout(p) == SkipAll(p, {"newline", "indent", "dedent"})

RECURSIVE SkipTo(_, _)
SkipTo(p, kinds) == IF At(p, kinds) THEN p ELSE SkipTo(Advance(p), kinds)

StatementBoundary == {"newline", "dedent", "eof"}
ExprTerminator == StatementBoundary \cup {":", ",", ")", "]"}

(* Mutant of SynchronizeStatement: newlines do not stop recovery, which    *)
(* goes on to the end of the block and past it.                            *)
SynchronizeShort(p) == IF At(p, {"eof"}) THEN p ELSE AdvanceUnlessEof(SkipTo(p, {"dedent", "eof"}))
SynchronizeStatement(p) ==
    IF At(p, {"eof"}) THEN p
    ELSE LET q == SkipTo(p, StatementBoundary)
         IN  IF At(q, {"newline"}) THEN SkipNewlines(q) ELSE Skip(q, "dedent")

AtLexerError(p) == At(p, {"error"})
ConsumeLexerError(p) == Skip(SkipTo(Advance(Complain(p, "lexer")), StatementBoundary), "newline")

(* enter_indented_section_for; out says whether a section was entered. *)
EnterIndentedSection(p0, what) ==
    LET p == SkipNewlines(p0)
        q == Complain(p, what)
    IN  IF At(p, {"indent"}) THEN Out(Advance(p), TRUE)
        ELSE Out(IF At(q, StatementBoundary) THEN q ELSE SynchronizeStatement(q), FALSE)

NamesValue == {"identifier", "from", "include"}
ParseSymbol(p, kinds, expected) ==
    IF At(p, kinds) THEN Out(Advance(p), Peek(p).text)
    ELSE Out(AdvanceUnlessEof(Complain(p, expected)), "__error__")
ParseIdentifierSymbol(p) == ParseSymbol(p, NamesValue, "identifier")
ParseNameSymbol(p) == ParseSymbol(p, NamesValue \cup BuiltinTypes, "identifier")

SyntheticZero(p) == Node("int", "0", <<>>, Peek(p).line)
SyntheticInfer == Node("infer", "_", <<>>, 0)

-----------------------------------------------------------------------------
(* types.rs *)

RECURSIVE ParseTypeExpr(_), ParseTypeArgs(_, _, _)
ParseTypeArgs(p, closer, args) ==
    IF At(p, ExprTerminator \cup {closer}) THEN Out(p, args)
    ELSE LET q == ParseTypeExpr(p)
             r == Advance(q)
         IN  IF At(q, {","}) THEN ParseTypeArgs(r, closer, Append(args, q.out)) ELSE Out(q, Append(args, q.out))

ParseTypeExpr(p) ==
    LET name == Peek(p).text
        q == Advance(p)
        closer == IF At(q, {"<"}) THEN ">" ELSE "]"
        args == ParseTypeArgs(Advance(q), closer, <<>>)
    IN  CASE name = "_" -> Out(q, SyntheticInfer)
          [] name # "_" /\ ~At(p, {"identifier"} \cup BuiltinTypes) -> Out(Complain(p, "type"), SyntheticInfer)
          [] name # "_" /\ At(p, {"identifier"} \cup BuiltinTypes) /\ ~At(q, {"<", "["}) ->
                Out(q, Node("named", name, <<>>, 0))
          [] OTHER -> Out(Expect(args, closer), Node("generic", name, args.out, 0))

OptionalType(p, mark) == IF At(p, {mark}) THEN ParseTypeExpr(Advance(p)) ELSE Out(p, Absent)

-----------------------------------------------------------------------------
(* expr.rs: binding powers and the Pratt loop *)

BinaryPower(text) ==
    CASE text = "or" -> 2
      [] text = "and" -> 3
      [] text \in {"==", "!="} -> 4
      [] text \in {"<", ">", "<=", ">="} -> 5
      [] text \in {"+", "-"} -> 6
      [] text \in {"*", "/", "%"} -> 7
      [] OTHER -> 0
(* A slip: operators of one level group to the right. *)
BindingPowerRight(text) ==
    [left |-> IF text = "=" THEN 1 ELSE BinaryPower(text), right |-> IF text = "=" THEN 1 ELSE BinaryPower(text)]
BindingPower(text) ==
    IF text = "=" THEN [left |-> 1, right |-> 1]
    ELSE [left |-> BinaryPower(text), right |-> BinaryPower(text) + 1]
IsInfix(text) == text = "=" \/ BinaryPower(text) > 0

PrefixNotBP == 4
PrefixNegBP == 9
PostfixBP == 10

Infix(op, left, right) ==
    Node(IF op = "=" THEN "assign" ELSE "binary", op, <<left, right>>, left.line)

(* An integer that does not fit in an i64 is read as 0. *)
IntegerValue(text) == IF text = Huge THEN "0" ELSE text

RECURSIVE ParseExpr(_, _), ParseOperators(_, _), ParsePrefix(_), ParsePostfix(_), ParseArgs(_, _)
ParseExpr(p, min) == ParseOperators(ParsePrefix(p), min)

ParseOperators(p, min) ==
    LET op == Peek(p).text
        right == ParseExpr(Advance(p), BindingPower(op).right)
    IN  CASE At(p, ExprTerminator) -> p
          [] PostfixBP >= min /\ At(p, {".", "[", "("}) -> ParseOperators(ParsePostfix(p), min)
          [] IsInfix(op) /\ BindingPower(op).left >= min ->
                ParseOperators(Out(right, Infix(op, p.out, right.out)), min)
          [] OTHER -> p

ParseIdentifierLikePrefix(p) ==
    LET text == Peek(p).text
        line == Peek(p).line
        operand == ParseExpr(Advance(p), PrefixNotBP)
    IN  CASE text \in {"true", "false"} -> Out(Advance(p), Node("bool", text, <<>>, line))
          [] text = "not" -> Out(operand, Node("unary", "not", <<operand.out>>, line))
          [] OTHER -> Out(Advance(p), Node("ident", text, <<>>, line))

ParsePrefix(p) ==
    LET text == Peek(p).text
        line == Peek(p).line
        negated == ParseExpr(Advance(p), PrefixNegBP)
        inner == ParseExpr(Advance(p), 0)
        skipped == ConsumeLexerError(p)
    IN  CASE AtLexerError(p) -> Out(skipped, SyntheticZero(skipped))
          [] At(p, NamesValue \cup BuiltinTypes) -> ParseIdentifierLikePrefix(p)
          [] At(p, {"integer"}) -> Out(Advance(p), Node("int", IntegerValue(text), <<>>, line))
          [] At(p, {"float", "string"}) -> Out(Advance(p), Node(Kind(text), text, <<>>, line))
          [] At(p, {"-"}) -> Out(negated, Node("unary", "-", <<negated.out>>, line))
          [] At(p, {"("}) -> Expect(inner, ")")
          [] OTHER -> Out(AdvanceUnlessEof(Complain(p, "expression")), SyntheticZero(p))

ParseArgs(p, args) ==
    IF At(p, {")", "eof"}) THEN Out(p, args)
    ELSE LET q == ParseExpr(p, 0)
             r == SkipSoftLayout(q)
         IN  IF At(r, {","}) THEN ParseArgs(SkipSoftLayout(Advance(r)), Append(args, q.out))
             ELSE Out(r, Append(args, q.out))

ParsePostfix(p) ==
    LET left == p.out
        field == ParseNameSymbol(Advance(p))
        index == ParseExpr(Advance(p), 0)
        args == ParseArgs(SkipSoftLayout(Advance(p)), <<>>)
    IN  CASE At(p, {"."}) -> Out(field, Node("field", field.out, <<left>>, left.line))
          [] At(p, {"["}) -> Out(Expect(index, "]"), Node("index", "", <<left, index.out>>, left.line))
          [] At(p, {"("}) -> Out(Expect(args, ")"), Node("call", "", <<left>> \o args.out, left.line))

-----------------------------------------------------------------------------
(* stmt.rs *)

ParseLet(p) ==
    LET name == ParseIdentifierSymbol(Advance(p))
        type == OptionalType(name, ":")
        value == ParseExpr(Expect(type, "="), 0)
    IN  Out(value, Node("let", name.out, <<type.out, value.out>>, Peek(p).line))

ParseCondition(p) ==
    LET inner == ParseExpr(Expect(p, "("), 0) IN Expect(inner, ")")

ParseReturn(p) ==
    LET q == Advance(p)
        value == IF At(q, StatementBoundary) THEN Out(q, Absent) ELSE ParseExpr(q, 0)
    IN  Out(value, Node("return", "", <<value.out>>, Peek(p).line))

ExpressionStart == NamesValue \cup {"integer", "float", "string", "-", "("}

RECURSIVE ParseStmt(_), ParseBlock(_, _), ParseStatements(_, _), ParseIf(_)
(* parse_stmt returns Absent for the code's None. *)
ParseStmt(p) ==
    LET line == Peek(p).line
        condition == ParseCondition(Advance(p))
        while == ParseBlock(Expect(condition, ":"), "while body")
        binding == ParseIdentifierSymbol(Advance(p))
        in == IF AtWord(binding, "in") THEN Advance(binding) ELSE Complain(binding, "in")
        iterator == ParseExpr(in, 0)
        for == ParseBlock(Expect(iterator, ":"), "for body")
        value == ParseExpr(p, 0)
    IN  CASE AtLexerError(p) -> Out(ConsumeLexerError(p), Absent)
          [] At(p, {"let"}) -> ParseLet(p)
          [] At(p, {"if"}) -> ParseIf(p)
          [] At(p, {"while"}) -> Out(while, Node("while", "", <<condition.out, while.out>>, line))
          [] At(p, {"for"}) -> Out(for, Node("for", binding.out, <<iterator.out, for.out>>, line))
          [] At(p, {"return"}) -> ParseReturn(p)
          [] Peek(p).text \in {"break", "continue"} -> Out(Advance(p), Node(Peek(p).text, "", <<>>, line))
          [] At(p, ExpressionStart) /\ Peek(p).text \notin {"break", "continue"} ->
                Out(value, Node("do", "", <<value.out>>, value.out.line))
          [] OTHER -> Out(Complain(p, "statement"), Absent)

ParseIf(p) ==
    LET condition == ParseCondition(Advance(p))
        then == ParseBlock(Expect(condition, ":"), "if body")
        otherwise == ParseBlock(Expect(Advance(then), ":"), "else body")
        last == IF At(then, {"else"}) THEN otherwise ELSE Out(then, Absent)
    IN  Out(last, Node("if", "", <<condition.out, then.out, last.out>>, Peek(p).line))

ParseStatements(p0, statements) ==
    LET p == SkipNewlines(p0)
        q == ParseStmt(Fresh(p))
        recovered == IF q.out = Absent THEN SynchronizeStatement(q) ELSE q
    IN  IF At(p, {"dedent", "eof"}) THEN Out(p, statements)
        ELSE ParseStatements(SkipNewlines(Fresh(recovered)),
                             IF q.out = Absent THEN statements ELSE Append(statements, q.out))

ParseBlock(p, what) ==
    LET entered == EnterIndentedSection(p, what)
        inside == ParseStatements(entered, <<>>)
    IN  IF entered.out THEN Out(Skip(inside, "dedent"), List("block", inside.out))
        ELSE Out(entered, List("block", <<>>))

-----------------------------------------------------------------------------
(* decl.rs *)

RECURSIVE ParseParams(_, _), ParseTypeParams(_, _), ParseConstraints(_, _)
ParseParams(p, params) ==
    IF At(p, {")", "eof"}) THEN Out(p, params)
    ELSE LET name == ParseIdentifierSymbol(p)
             type == IF At(name, {":"}) THEN ParseTypeExpr(Advance(name))
                     ELSE Out(IF AtWord(p, "self") THEN name ELSE Complain(name, ":"), SyntheticInfer)
             more == Append(params, Node("param", name.out, <<type.out>>, 0))
         IN  IF At(type, {","}) THEN ParseParams(Advance(type), more) ELSE Out(type, more)
ParseParamList(p) ==
    LET params == ParseParams(Advance(p), <<>>)
    IN  IF At(p, {"("}) THEN Out(Expect(params, ")"), List("params", params.out))
        ELSE Out(Complain(p, "("), List("params", <<>>))

ParseConstraint(p) ==
    IF Peek(p).text \in {"Ordered", "Eq", "Numeric"} THEN Out(Advance(p), Peek(p).text)
    ELSE Out(AdvanceUnlessEof(Complain(p, "constraint")), "Ordered")
ParseConstraints(p, constraints) ==
    LET q == ParseConstraint(p)
        more == Append(constraints, Node("constraint", q.out, <<>>, 0))
    IN  IF At(q, {"+"}) THEN ParseConstraints(Advance(q), more) ELSE Out(q, more)
ParseTypeParams(p, params) ==
    IF At(p, {">", "eof"}) THEN Out(p, params)
    ELSE LET name == ParseIdentifierSymbol(p)
             q == IF At(name, {":"}) THEN ParseConstraints(Advance(name), <<>>) ELSE Out(name, <<>>)
             more == Append(params, Node("typeparam", name.out, q.out, 0))
         IN  IF At(q, {","}) THEN ParseTypeParams(Advance(q), more) ELSE Out(q, more)
ParseTypeParamList(p) ==
    LET params == ParseTypeParams(Advance(p), <<>>)
    IN  IF At(p, {"<"}) THEN Out(Expect(params, ">"), List("typeparams", params.out))
        ELSE Out(p, List("typeparams", <<>>))

(* parse_func_like_decl; parse_func_decl, for methods, has no type         *)
(* parameters.                                                             *)
ParseFunc(p, isMethod) ==
    LET name == ParseIdentifierSymbol(Advance(p))
        types == IF isMethod THEN Out(name, List("typeparams", <<>>)) ELSE ParseTypeParamList(name)
        params == ParseParamList(types)
        result == OptionalType(params, "->")
        body == ParseBlock(Expect(result, ":"), "function body")
    IN  Out(body, Node("func", name.out, <<types.out, params.out, result.out, body.out>>, Peek(p).line))

ParseConst(p) ==
    LET name == ParseIdentifierSymbol(Advance(p))
        type == IF At(name, {":"}) THEN ParseTypeExpr(Advance(name))
                ELSE Out(Complain(name, ":"), SyntheticInfer)
        value == ParseExpr(Expect(type, "="), 0)
    IN  Out(value, Node("const", name.out, <<type.out, value.out>>, Peek(p).line))

ParseExtern(p) ==
    LET name == ParseIdentifierSymbol(Expect(Advance(p), "func"))
        params == ParseParamList(name)
        result == ParseTypeExpr(Expect(params, "->"))
    IN  Out(result, Node("extern", name.out, <<params.out, result.out>>, Peek(p).line))

RECURSIVE ParsePath(_, _), ParseImportSymbols(_, _), ParseDots(_, _)
ParseDots(p, dots) ==
    IF At(p, {"."}) THEN ParseDots(Advance(p), Append(dots, Node("dot", ".", <<>>, 0))) ELSE Out(p, dots)
ParsePath(p, segments) ==
    LET name == ParseIdentifierSymbol(p)
        more == Append(segments, Node("segment", name.out, <<>>, 0))
    IN  IF At(name, {"."}) THEN ParsePath(Advance(name), more) ELSE Out(name, more)
ParseImportPath(p) ==
    LET dots == ParseDots(p, <<>>)
        path == IF At(dots, {"identifier"}) THEN ParsePath(dots, dots.out) ELSE dots
    IN  Out(path, List("path", path.out))

ParseAlias(p, symbol) ==
    LET alias == IF symbol THEN ParseIdentifierSymbol(Advance(p)) ELSE ParseNameSymbol(Advance(p))
    IN  IF AtWord(p, "as") THEN Out(alias, Node("alias", alias.out, <<>>, 0)) ELSE Out(p, Absent)
ParseImportSymbols(p, symbols) ==
    LET name == ParseIdentifierSymbol(p)
        alias == ParseAlias(name, TRUE)
        more == Append(symbols, Node("symbol", name.out, <<alias.out>>, 0))
    IN  IF At(alias, {","}) THEN ParseImportSymbols(Advance(alias), more) ELSE Out(alias, more)
ParseIncludeAll(p) ==
    LET q == Advance(p)
    IN  IF ~At(p, {"include"}) THEN Out(p, Absent)
        ELSE Out(IF AtWord(q, "all") THEN Advance(q) ELSE Complain(q, "all"), Node("all", "", <<>>, 0))

ParseImport(p) ==
    LET path == ParseImportPath(Advance(p))
        rest == IF At(p, {"from"}) THEN ParseImportSymbols(Expect(path, "import"), <<>>)
                ELSE LET alias == ParseAlias(path, FALSE) IN Out(alias, <<alias.out>>)
        all == ParseIncludeAll(rest)
    IN  Out(all, Node(Ahead(p), "", <<path.out, List("names", rest.out), all.out>>, Peek(p).line))

RECURSIVE ParseFields(_, _), ParseMethods(_, _), ParseIntentBody(_, _), ParseStages(_, _, _)
ParseFields(p0, fields) ==
    LET p == SkipNewlines(p0)
        name == ParseIdentifierSymbol(p)
        type == ParseTypeExpr(Expect(name, ":"))
    IN  IF At(p, {"dedent", "eof"}) THEN Out(p, fields)
        ELSE ParseFields(SkipNewlines(type), Append(fields, Node("member", name.out, <<type.out>>, Peek(p).line)))

ParseMethods(p0, methods) ==
    LET p == SkipNewlines(p0)
        method == ParseFunc(p, TRUE)
    IN  CASE At(p, {"dedent", "eof"}) -> Out(p, methods)
          [] At(p, {"func"}) -> ParseMethods(SkipNewlines(method), Append(methods, method.out))
          [] OTHER -> ParseMethods(SynchronizeStatement(Complain(p, "declaration")), methods)

ParseIntentBody(p0, constraints) ==
    LET p == SkipNewlines(p0)
        body == ParseBlock(Expect(Advance(p), ":"), "block")
        goal == IF Peek(p).text \in {"minimize", "maximize"} THEN Advance(p) ELSE p
        constraint == ParseExpr(goal, 0)
    IN  CASE At(p, {"dedent", "eof"}) -> Out(p, <<List("constraints", constraints), List("block", <<>>)>>)
          [] AtWord(p, "body") -> Out(body, <<List("constraints", constraints), body.out>>)
          [] OTHER -> ParseIntentBody(SkipNewlines(constraint), Append(constraints, constraint.out))

ParseStages(p0, stages, compensation) ==
    LET p == SkipNewlines(p0)
        name == ParseIdentifierSymbol(Advance(p))
        body == ParseBlock(Expect(name, ":"), "block")
        undo == ParseBlock(Expect(Advance(p), ":"), "block")
        stage == Node("stage", name.out, <<body.out>>, Peek(p).line)
    IN  CASE At(p, {"dedent", "eof"}) -> Out(p, <<List("stages", stages), compensation>>)
          [] AtWord(p, "stage") -> ParseStages(body, Append(stages, stage), compensation)
          [] AtWord(p, "compensate") -> ParseStages(undo, stages, undo.out)
          [] OTHER -> ParseStages(SynchronizeStatement(Complain(p, "flow stage")), stages, compensation)

(* The tail shared by the declarations with a section: what is read inside *)
(* it, then its Dedent.                                                    *)
CloseSection(p) ==
    IF At(p, {"dedent", "eof"}) THEN Skip(p, "dedent") ELSE Complain(p, "dedent")

ParseStruct(p) ==
    LET name == ParseIdentifierSymbol(Advance(p))
        types == ParseTypeParamList(name)
        entered == EnterIndentedSection(Expect(types, ":"), "struct body")
        fields == IF entered.out THEN CloseSection(ParseFields(entered, <<>>)) ELSE Out(entered, <<>>)
    IN  Out(fields, Node("struct", name.out, <<types.out, List("fields", fields.out)>>, Peek(p).line))

ParseImpl(p) ==
    LET target == ParseIdentifierSymbol(Advance(p))
        types == ParseTypeParamList(target)
        entered == EnterIndentedSection(Expect(types, ":"), "impl body")
        methods == IF entered.out THEN CloseSection(ParseMethods(entered, <<>>)) ELSE Out(entered, <<>>)
    IN  Out(methods, Node("impl", target.out, <<types.out, List("methods", methods.out)>>, Peek(p).line))

ParseIntent(p) ==
    LET name == ParseIdentifierSymbol(Advance(p))
        entered == EnterIndentedSection(Expect(name, ":"), "intent body")
        inside == IF entered.out THEN CloseSection(ParseIntentBody(entered, <<>>))
                  ELSE Out(entered, <<List("constraints", <<>>), List("block", <<>>)>>)
    IN  Out(inside, Node("intent", name.out, inside.out, Peek(p).line))

ParseFlow(p) ==
    LET name == ParseIdentifierSymbol(Advance(p))
        entered == EnterIndentedSection(Expect(name, ":"), "flow body")
        inside == IF entered.out THEN CloseSection(ParseStages(entered, <<>>, Absent))
                  ELSE Out(entered, <<List("stages", <<>>), Absent>>)
    IN  Out(inside, Node("flow", name.out, inside.out, Peek(p).line))

ParseDecl(p0) ==
    LET p == IF AtWord(p0, "pub") THEN Advance(p0) ELSE p0
    IN  CASE AtLexerError(p0) -> Out(ConsumeLexerError(p0), Absent)
          [] At(p, {"func"}) -> ParseFunc(p, FALSE)
          [] At(p, {"let"}) -> ParseLet(p)
          [] At(p, {"const"}) -> ParseConst(p)
          [] At(p, {"struct"}) -> ParseStruct(p)
          [] At(p, {"impl"}) -> ParseImpl(p)
          [] At(p, {"import", "from"}) -> ParseImport(p)
          [] At(p, {"extern"}) -> ParseExtern(p)
          [] At(p, {"intent"}) -> ParseIntent(p)
          [] At(p, {"flow"}) -> ParseFlow(p)
          [] OTHER -> Out(Complain(p, "declaration"), Absent)

RECURSIVE ParseDecls(_, _)
ParseDecls(p, decls) ==
    LET q == ParseDecl(Fresh(p))
        recovered == IF q.out = Absent THEN SynchronizeStatement(q) ELSE q
    IN  CASE At(p, {"eof"}) -> Out(p, decls)
          [] AtLexerError(p) -> ParseDecls(SkipNewlines(ConsumeLexerError(p)), decls)
          [] OTHER -> ParseDecls(SkipNewlines(Fresh(recovered)),
                                 IF q.out = Absent THEN decls ELSE Append(decls, q.out))
ParseProgram(toks) == ParseDecls(SkipNewlines(NewParser(toks)), <<>>)
=============================================================================
