---------------------------- MODULE MCSourceText ----------------------------
(***************************************************************************)
(* The texts SourceText is checked on: every way to put a few operators    *)
(* and prefixes together, declarations of every kind with their variants,  *)
(* files whose lines carry comments, and every small damage to some of     *)
(* them.                                                                   *)
(***************************************************************************)
EXTENDS SourceText

MCDictionary == <<"a", "abs", "b", "collections", "f", "http", "io", "list", "math", "min", "src", "utils">>

Indented(depth, words) == Line(2 * depth, words)
Top(words) == Line(0, words)
Noted(line, note) == [line EXCEPT !.note = note]

-----------------------------------------------------------------------------
(* Expressions *)

Ops == {"=", "or", "and", "==", "<", "+", "-", "*"}
Prefixed == {<<>>, <<"not">>, <<"-">>}
Flat == {<<"a", p, "b", q, "f">> : p, q \in Ops}
Nested ==
    UNION {{x \o <<"a", p>> \o y \o <<"b", q, "f">>,
            x \o <<"(", "a", p>> \o y \o <<"b", ")", q, "f">>,
            x \o <<"a", p>> \o y \o <<"(", "b", q, "f", ")">>} :
           p \in {"=", "and", "==", "+"}, q \in {"=", "or", "==", "-", "*"}, x, y \in Prefixed}
Postfixes == {<<".", "a">>, <<"[", "1", "]">>, <<"(", ")">>, <<"(", "a", ",", "b", "=", "f", ")">>}
Applied == {x \o <<"(">> \o y \o <<"a", ")">> \o p \o q : x, y \in Prefixed, p, q \in Postfixes}
           \cup {x \o <<"a">> \o p \o q \o <<"+", "1">> : x \in Prefixed, p, q \in Postfixes}
Long == {<<"a", o[1], "b", o[2], "f", o[3], "a", o[4], "b">> : o \in {<<"=", "or", "and", "==">>,
            <<"==", "+", "<", "*">>, <<"*", "+", "<", "==">>, <<"or", "and", "or", "=">>, <<"-", "-", "-", "-">>}}
Expressions == Flat \cup Nested \cup Applied \cup Long
Lets == {<<Top(<<"let", "x", "=">> \o e)>> : e \in Expressions}

-----------------------------------------------------------------------------
(* Declarations and statements *)

Body(depth) == <<Indented(depth, <<"return", "a">>)>>
Func(name) == <<Top(<<"func", name, "(", ")", ":">>)>> \o Body(1)

Simple == {<<"let", "x", ":", "i32", "=", "1">>, <<"a", "=", "b">>, <<"return">>, <<"break">>, <<"f", "(", "a", ")">>}
Compound(d) ==
    {<<Indented(d, <<"if", "(", "a", ")", ":">>)>> \o Body(d + 1),
     <<Indented(d, <<"if", "(", "a", ")", ":">>), Indented(d + 1, <<"b">>), Indented(d, <<"else", ":">>)>> \o Body(d + 1),
     <<Indented(d, <<"while", "(", "a", ")", ":">>), Indented(d + 1, <<"continue">>)>>,
     <<Indented(d, <<"for", "x", "in", "b", ":">>), Indented(d + 1, <<"x">>)>>}
Statement(d) == {<<Indented(d, s)>> : s \in Simple} \cup Compound(d)
Deep == {<<Indented(1, <<"if", "(", "a", ")", ":">>)>> \o s \o <<Indented(1, <<"else", ":">>)>> \o t :
            s, t \in Statement(2)}
        \cup {<<Indented(1, <<"while", "(", "a", ")", ":">>), Indented(4, <<"for", "x", "in", "b", ":">>),
                Indented(5, <<"x">>)>> \o s : s \in Statement(1)}
Functions == {<<Top(<<"func", "f", "(", "a", ":", "Array", "<", "_", ">", ",", "b", ":", "f32", ")", "->", "str", ":">>)>>
                \o s \o t : s \in Statement(1), t \in Statement(1)}
             \cup {<<Top(<<"pub", "func", "f", "(", ")", ":">>)>> \o s : s \in Deep}

Import(words) == <<Top(words)>>
Imports == {Import(<<"import", "http">>), Import(<<"import", "math">>), Import(<<"import", "src", ".", "utils", "as", "b">>),
            Import(<<"import", ".", ".", "a", "include", "all">>), Import(<<"from", "math", "import", "min">>),
            Import(<<"from", "math", "import", "b", ",", "abs", "as", "a">>),
            Import(<<"from", "collections", ".", "list", "import", "a", "include", "all">>),
            Import(<<"from", ".", "import", "io">>)}
Struct == <<Top(<<"pub", "struct", "S", ":">>), Indented(1, <<"a", ":", "i32">>), Indented(1, <<"b", ":", "Array", "[", "T", "]">>)>>
Generic == <<Top(<<"struct", "S", "<", "T", ":", "Ordered", "+", "Eq", ",", "U", ">", ":">>), Indented(1, <<"a", ":", "T">>)>>
Impl == <<Top(<<"impl", "S", ":">>), Indented(1, <<"func", "f", "(", "self", ")", ":">>)>> \o Body(2)
        \o <<Indented(1, <<"func", "g", "(", ")", "->", "i32", ":">>)>> \o Body(2)
Flow == <<Top(<<"flow", "p", ":">>), Indented(1, <<"stage", "a", ":">>)>> \o Body(2)
        \o <<Indented(1, <<"stage", "b", ":">>)>> \o Body(2)
Undone == Flow \o <<Indented(1, <<"compensate", ":">>)>> \o Body(2)
Goal == <<Top(<<"intent", "o", ":">>), Indented(1, <<"minimize", "a", "+", "b">>), Indented(1, <<"a", "<", "b">>)>>
Planned == Goal \o <<Indented(1, <<"body", ":">>)>> \o Body(2)
Extern == <<Top(<<"extern", "func", "f", "(", "a", ":", "i32", ",", ")", "->", "bool">>)>>
Const == <<Top(<<"pub", "const", "c", ":", "f32", "=", "-", "1.5">>)>>
Identity == <<Top(<<"func", "g", "<", "T", ":", "Numeric", ">", "(", "a", ":", "T", ")", ":">>)>> \o Body(1)

Declarations == {Func("f"), Struct, Generic, Impl, Flow, Undone, Goal, Planned, Extern, Const, Identity}
Pairs == {a \o gap \o b : a, b \in Declarations \cup {Import(<<"import", "http">>)}, gap \in {<<>>, <<BlankLine, BlankLine>>}}
ImportBlocks == {a \o b \o c : a \in Imports, b \in Imports, c \in {Func("f"), Struct}}
                \cup {a \o b \o c : a \in {Func("f")}, b \in Imports, c \in Imports}

-----------------------------------------------------------------------------
(* Comments: on the first lines, behind them and between them *)

Commented(source) ==
    {SubSeq(source, 1, n) \o <<[Line(source[n].spaces, <<>>) EXCEPT !.note = "own"]>> \o SubSeq(source, n + 1, Len(source)) :
        n \in DOMAIN source}
    \cup {[source EXCEPT ![n].note = "behind"] : n \in DOMAIN source}
    \cup {<<[BlankLine EXCEPT !.note = "head"], BlankLine>> \o [n \in DOMAIN source |-> Noted(source[n], ToString(n))]}
Remarked == UNION {Commented(a \o <<BlankLine>> \o b) : a \in {Struct, Func("f"), Undone, Goal}, b \in {Const, Func("f"), Impl}}
            \cup UNION {Commented(a \o b \o Func("f")) : a \in Imports, b \in {Import(<<"import", "math">>), Import(<<"import", "http">>)}}
Texts == {t \in Remarked : Len(t) <= 30}

-----------------------------------------------------------------------------
(* Damage to one line of a file of five declarations *)

Files == {a \o b \o Func("g") \o Struct \o Func("h") : a \in {Func("f"), Struct, Const, Impl}, b \in {Func("f"), Undone, Planned, Struct, Const}}
Strays == {"$", "\"", "(", ")", ":", ",", "let", "func", "1"}
WithoutWord(words, i) == SubSeq(words, 1, i - 1) \o SubSeq(words, i + 1, Len(words))
WithWord(words, i, w) == SubSeq(words, 1, i - 1) \o <<w>> \o SubSeq(words, i + 1, Len(words))
DamagedLines(line) ==
    {[line EXCEPT !.words = WithoutWord(line.words, i)] : i \in DOMAIN line.words}
    \cup {[line EXCEPT !.words = WithWord(line.words, i, w)] : i \in DOMAIN line.words, w \in Strays}
    \cup {[line EXCEPT !.spaces = @ + 1], [line EXCEPT !.spaces = @ + 2], [line EXCEPT !.tab = TRUE]}
    \cup (IF line.spaces = 0 THEN {} ELSE {[line EXCEPT !.spaces = @ - 2]})
MCDamagesOf(text) ==
    IF text \notin Files THEN {}
    ELSE UNION {{[damaged |-> [text EXCEPT ![n] = l], line |-> n] : l \in DamagedLines(text[n])} : n \in DOMAIN text}

MCSources == Lets \cup Functions \cup Pairs \cup ImportBlocks \cup Texts \cup Files
Refused == {[Strict EXCEPT !.indent = 0], [Strict EXCEPT !.indent = 1], [Strict EXCEPT !.indent = 3]}
MCConfigsOf(source) ==
    IF source \in Files THEN {[Relaxed EXCEPT !.trailing = FALSE]}
    ELSE {Strict, [Relaxed EXCEPT !.trailing = FALSE]} \cup IF source \in Functions THEN Refused ELSE {}

-----------------------------------------------------------------------------
(* The tools *)

MCLexed(text, trailing) == LET tokens == LexAll(text, trailing) IN tokens
MCParsed(tokens) == LET program == ParseProgram(tokens) IN program
MCFormatted(config, text, decls) == LET written == FormatText(config, text, decls) IN written
MCPrinted(decls) == LET written == DisplayText(decls) IN written
=============================================================================
