---------------------------- MODULE SyntaxDisplay ----------------------------
(***************************************************************************)
(* crates/ast, display.rs: the text of a tree as error messages and tests  *)
(* print it.  It is a printer of its own beside the formatter, with its    *)
(* own precedences.  Names are printed as numbered symbols; they stand for *)
(* themselves here.  Every operator yields lines; an empty list is printed *)
(* as the comment `# empty`.                                               *)
(***************************************************************************)
EXTENDS Parser

DisplayLine(level, words) == Line(4 * level, words)
Empty(level) == <<[DisplayLine(level, <<>>) EXCEPT !.note = "empty"]>>

-----------------------------------------------------------------------------
(* Expressions and types *)

DisplayBinaryPrecedence(op) ==
    CASE op = "or" -> 2
      [] op = "and" -> 3
      [] op \in {"==", "!="} -> 4
      [] op \in {"<", "<=", ">", ">="} -> 5
      [] op \in {"+", "-"} -> 6
      [] op \in {"*", "/", "%"} -> 7

DisplayPrecedence(e) ==
    CASE e.kind = "assign" -> 1
      [] e.kind = "binary" -> DisplayBinaryPrecedence(e.name)
      [] e.kind = "unary" -> 8
      [] e.kind \in {"call", "field", "index"} -> 9
      [] e.kind \in {"ident", "int", "float", "string", "bool"} -> 10

RECURSIVE DisplayExpr(_, _)
DisplayBinary(e) ==
    DisplayExpr(e.of[1], DisplayBinaryPrecedence(e.name)) \o <<e.name>>
    \o DisplayExpr(e.of[2], DisplayBinaryPrecedence(e.name) + 1)
(* A slip: the operand of a prefix never gets parentheses. *)
DisplayUnaryTight(e) == <<e.name>> \o DisplayExpr(e.of[1], 1)
DisplayUnary(e) == <<e.name>> \o DisplayExpr(e.of[1], 5)
DisplayCall(e) ==
    DisplayExpr(e.of[1], 6) \o <<"(">>
    \o Join([i \in 1 .. Len(e.of) - 1 |-> DisplayExpr(e.of[i + 1], 0)], ",") \o <<")">>
DisplayField(e) == DisplayExpr(e.of[1], 6) \o <<".", e.name>>
DisplayIndex(e) == DisplayExpr(e.of[1], 6) \o <<"[">> \o DisplayExpr(e.of[2], 0) \o <<"]">>
DisplayAssign(e) == DisplayExpr(e.of[1], 2) \o <<"=">> \o DisplayExpr(e.of[2], 1)
(* A float of a whole number is printed without its point. *)
DisplayLiteral(e) == IF e.kind = "float" /\ e.name = WholeFloat THEN <<"2">> ELSE <<e.name>>
DisplayExpr(e, parent) ==
    LET words == CASE e.kind = "binary" -> DisplayBinary(e)
                   [] e.kind = "unary" -> DisplayUnary(e)
                   [] e.kind = "call" -> DisplayCall(e)
                   [] e.kind = "field" -> DisplayField(e)
                   [] e.kind = "index" -> DisplayIndex(e)
                   [] e.kind = "assign" -> DisplayAssign(e)
                   [] OTHER -> DisplayLiteral(e)
    IN  IF DisplayPrecedence(e) < parent THEN <<"(">> \o words \o <<")">> ELSE words

RECURSIVE DisplayType(_)
DisplayType(t) ==
    IF t.kind # "generic" THEN <<t.name>>
    ELSE <<t.name, "<">> \o Join([i \in DOMAIN t.of |-> DisplayType(t.of[i])], ",") \o <<">">>
DisplayOptional(mark, t) == IF t = Absent THEN <<>> ELSE <<mark>> \o DisplayType(t)

DisplayTypeParam(t) ==
    <<t.name>> \o IF t.of = <<>> THEN <<>>
                  ELSE <<":">> \o Join([i \in DOMAIN t.of |-> <<t.of[i].name>>], "+")
DisplayTypeParams(types) ==
    IF types.of = <<>> THEN <<>>
    ELSE <<"<">> \o Join([i \in DOMAIN types.of |-> DisplayTypeParam(types.of[i])], ",") \o <<">">>

DisplayParam(p) == <<p.name, ":">> \o DisplayType(p.of[1])
DisplayParams(params) ==
    <<"(">> \o Join([i \in DOMAIN params.of |-> DisplayParam(params.of[i])], ",") \o <<")">>

-----------------------------------------------------------------------------
(* Statements *)

RECURSIVE DisplayStmt(_, _)
DisplayBlock(block, level) ==
    IF block.of = <<>> THEN Empty(level)
    ELSE FlattenSeq([i \in DOMAIN block.of |-> DisplayStmt(block.of[i], level)])

DisplayLet(d, level) ==
    <<DisplayLine(level, <<"let", d.name>> \o DisplayOptional(":", d.of[1]) \o <<"=">> \o DisplayExpr(d.of[2], 0))>>
DisplayReturn(s, level) ==
    <<DisplayLine(level, <<"return">> \o IF s.of[1] = Absent THEN <<>> ELSE DisplayExpr(s.of[1], 0))>>
DisplayIf(s, level) ==
    <<DisplayLine(level, <<"if", "(">> \o DisplayExpr(s.of[1], 0) \o <<")", ":">>)>> \o DisplayBlock(s.of[2], level + 1)
    \o IF s.of[3] = Absent THEN <<>> ELSE <<DisplayLine(level, <<"else", ":">>)>> \o DisplayBlock(s.of[3], level + 1)
DisplayWhile(s, level) ==
    <<DisplayLine(level, <<"while", "(">> \o DisplayExpr(s.of[1], 0) \o <<")", ":">>)>>
    \o DisplayBlock(s.of[2], level + 1)
DisplayFor(s, level) ==
    <<DisplayLine(level, <<"for", s.name, "in">> \o DisplayExpr(s.of[1], 0) \o <<":">>)>>
    \o DisplayBlock(s.of[2], level + 1)
DisplayStmt(s, level) ==
    CASE s.kind = "let" -> DisplayLet(s, level)
      [] s.kind = "do" -> <<DisplayLine(level, DisplayExpr(s.of[1], 0))>>
      [] s.kind = "return" -> DisplayReturn(s, level)
      [] s.kind = "if" -> DisplayIf(s, level)
      [] s.kind = "while" -> DisplayWhile(s, level)
      [] s.kind = "for" -> DisplayFor(s, level)
      [] s.kind \in {"break", "continue"} -> <<DisplayLine(level, <<s.kind>>)>>

-----------------------------------------------------------------------------
(* Declarations *)

DisplaySignature(d) ==
    <<"func", d.name>> \o DisplayTypeParams(d.of[1]) \o DisplayParams(d.of[2]) \o DisplayOptional("->", d.of[3])
DisplayFunc(d, level) ==
    <<DisplayLine(level, DisplaySignature(d) \o <<":">>)>> \o DisplayBlock(d.of[4], level + 1)
DisplayConst(d) ==
    <<DisplayLine(0, <<"const", d.name, ":">> \o DisplayType(d.of[1]) \o <<"=">> \o DisplayExpr(d.of[2], 0))>>

DisplayFields(fields) ==
    IF fields.of = <<>> THEN Empty(1)
    ELSE [i \in DOMAIN fields.of |->
            DisplayLine(1, <<fields.of[i].name, ":">> \o DisplayType(fields.of[i].of[1]))]
DisplayStruct(d) ==
    <<DisplayLine(0, <<"struct", d.name>> \o DisplayTypeParams(d.of[1]) \o <<":">>)>> \o DisplayFields(d.of[2])

DisplayMethods(methods) ==
    IF methods.of = <<>> THEN Empty(1)
    ELSE FlattenSeq([i \in DOMAIN methods.of |->
            (IF i > 1 THEN <<BlankLine>> ELSE <<>>) \o DisplayFunc(methods.of[i], 1)])
DisplayImpl(d) ==
    <<DisplayLine(0, <<"impl", d.name>> \o DisplayTypeParams(d.of[1]) \o <<":">>)>> \o DisplayMethods(d.of[2])

DisplayImportSymbol(symbol) ==
    <<symbol.name>> \o IF symbol.of[1] = Absent THEN <<>> ELSE <<"as", symbol.of[1].name>>
(* One more dot goes between the dots of a relative path and its segments. *)
DisplayPath(path) ==
    LET Is(dot) == SelectSeq(path.of, LAMBDA s : (s.kind = "dot") = dot)
        names == [i \in DOMAIN Is(FALSE) |-> <<Is(FALSE)[i].name>>]
    IN  [i \in DOMAIN Is(TRUE) |-> "."]
        \o (IF Is(TRUE) # <<>> /\ names # <<>> THEN <<".">> ELSE <<>>) \o Join(names, ".")
DisplayImport(d) ==
    LET names == d.of[2].of
        what == IF d.kind = "from"
                THEN <<"import">> \o Join([i \in DOMAIN names |-> DisplayImportSymbol(names[i])], ",")
                ELSE IF names[1] = Absent THEN <<>> ELSE <<"as", names[1].name>>
        all == IF d.of[3] = Absent THEN <<>> ELSE <<"include", "all">>
    IN  <<DisplayLine(0, <<d.kind>> \o DisplayPath(d.of[1]) \o what \o all)>>

DisplayExtern(d) ==
    <<DisplayLine(0, <<"extern", "func", d.name>> \o DisplayParams(d.of[1]) \o <<"->">> \o DisplayType(d.of[2]))>>

DisplayIntent(d) ==
    <<DisplayLine(0, <<"intent", d.name, ":">>)>>
    \o [i \in DOMAIN d.of[1].of |-> DisplayLine(1, DisplayExpr(d.of[1].of[i], 0))]
    \o <<DisplayLine(1, <<"body", ":">>)>> \o DisplayBlock(d.of[2], 2)

DisplayStage(s) == <<DisplayLine(1, <<"stage", s.name, ":">>)>> \o DisplayBlock(s.of[1], 2)
DisplayFlow(d) ==
    LET stages == FlattenSeq([i \in DOMAIN d.of[1].of |-> DisplayStage(d.of[1].of[i])])
        undo == IF d.of[2] = Absent THEN <<>>
                ELSE <<DisplayLine(1, <<"compensate", ":">>)>> \o DisplayBlock(d.of[2], 2)
    IN  <<DisplayLine(0, <<"flow", d.name, ":">>)>>
        \o IF stages \o undo = <<>> THEN Empty(1) ELSE stages \o undo

DisplayDecl(d) ==
    CASE d.kind = "func" -> DisplayFunc(d, 0)
      [] d.kind = "let" -> DisplayLet(d, 0)
      [] d.kind = "const" -> DisplayConst(d)
      [] d.kind = "struct" -> DisplayStruct(d)
      [] d.kind = "impl" -> DisplayImpl(d)
      [] d.kind \in {"import", "from"} -> DisplayImport(d)
      [] d.kind = "extern" -> DisplayExtern(d)
      [] d.kind = "intent" -> DisplayIntent(d)
      [] d.kind = "flow" -> DisplayFlow(d)

(* The declarations of a file, each printed on its own. *)
DisplayText(decls) == FlattenSeq([i \in DOMAIN decls |-> DisplayDecl(decls[i])])
=============================================================================
