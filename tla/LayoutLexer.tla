---------------------------- MODULE LayoutLexer ----------------------------
(***************************************************************************)
(* crates/lexer: from the lines of a file to tokens.                       *)
(*                                                                         *)
(* A line is [spaces, tab, words, note]: its leading spaces, whether a tab *)
(* follows them, its words and its comment ("" when there is none).  A     *)
(* word is the text of a token; how the characters of one word are grouped *)
(* is left out.  A token is [text, line], and its kind follows from its    *)
(* text.  What the lexer adds to the words is layout: "newline", "indent", *)
(* "dedent", "eof", and "error" for what it cannot read.                   *)
(***************************************************************************)
EXTENDS Integers, Sequences, SequencesExt

Keywords == {"let", "func", "if", "else", "while", "for", "return", "const", "from", "import",
             "include", "extern", "struct", "impl", "intent", "flow", "i32", "f32", "bool", "str"}
BuiltinTypes == {"i32", "f32", "bool", "str"}

Symbols == {"+", "-", "*", "/", "%", "=", "==", "!=", "<", ">", "<=", ">=",
            "->", ":", ",", ".", "(", ")", "[", "]"}
LayoutKinds == {"newline", "indent", "dedent", "eof", "error"}

(* The literals the sources are written with; Huge does not fit in an i64. *)
Huge == "9223372036854775808"
Integers64 == {"0", "1", "2"}
WholeFloat == "2.0"
Floats == {"1.5", WholeFloat}
Strings == {"'s'"}

Kind(text) ==
    CASE text \in Keywords \cup Symbols \cup LayoutKinds -> text
      [] text \in Integers64 \cup {Huge} -> "integer"
      [] text \in Floats -> "float"
      [] text \in Strings -> "string"
      [] OTHER -> "identifier"

Line(spaces, words) == [spaces |-> spaces, tab |-> FALSE, words |-> words, note |-> ""]
BlankLine == Line(0, <<>>)
Join(parts, separator) ==
    FoldLeft(LAMBDA words, part : IF words = <<>> THEN part ELSE words \o <<separator>> \o part, <<>>, parts)

-----------------------------------------------------------------------------
(* Words the scanner cannot read: a lone `!`, a byte outside the language  *)
(* and a tab are one error each; a quote that is not closed on its line is *)
(* an error that takes the rest of the line.                               *)
Unreadable == {"!", "$", "\t"}
OpenQuote == "\""

ScanWords(words) ==
    LET open == SelectInSeq(words, LAMBDA w : w = OpenQuote)
        read == IF open = 0 THEN words ELSE SubSeq(words, 1, open)
    IN  [i \in DOMAIN read |-> IF read[i] \in Unreadable \cup {OpenQuote} THEN "error" ELSE read[i]]

(* apply_indentation: the widths on the stack grow strictly from 0.  An    *)
(* odd width is an error and counts as one less; a width between two open  *)
(* ones is an error and is opened without an Indent.                       *)
ApplyIndentation(stack, spaces) ==
    LET odd == IF spaces % 2 = 0 THEN <<>> ELSE <<"error">>
        width == spaces - Len(odd)
        kept == SelectSeq(stack, LAMBDA w : w <= width)
        closed == [i \in 1 .. Len(stack) - Len(kept) |-> "dedent"]
    IN  CASE width > Last(stack) -> [stack |-> Append(stack, width), words |-> Append(odd, "indent")]
          [] width = Last(stack) -> [stack |-> stack, words |-> odd]
          [] width < Last(stack) /\ Last(kept) = width -> [stack |-> kept, words |-> odd \o closed]
          [] OTHER -> [stack |-> Append(kept, width), words |-> Append(odd \o closed, "error")]

(* prepare_logical_line: a tab before the first word is an error and the   *)
(* indentation of the line is not looked at; blank and comment-only lines  *)
(* leave no token.                                                         *)
PrepareLogicalLine(stack, line) ==
    IF line.tab
    THEN [stack |-> stack, words |-> <<"error">> \o ScanWords(line.words) \o <<"newline">>]
    ELSE IF line.words = <<>> THEN [stack |-> stack, words |-> <<>>]
    ELSE LET indented == ApplyIndentation(stack, line.spaces)
         IN  [indented EXCEPT !.words = @ \o ScanWords(line.words) \o <<"newline">>]

(* finish_eof closes what is open. *)
FinishEof(stack) == [i \in 1 .. Len(stack) - 1 |-> "dedent"] \o <<"eof">>

Placed(words, n) == [i \in DOMAIN words |-> [text |-> words[i], line |-> n]]

(* lex_all_in; `closed` says whether the last line ends in a line break.   *)
LexAll(text, closed) ==
    LET step(n, state) ==
            LET read == PrepareLogicalLine(state.stack, text[n])
            IN  [stack |-> read.stack, toks |-> state.toks \o Placed(read.words, n)]
        lexed == FoldLeft(LAMBDA state, n : step(n, state), [stack |-> <<0>>, toks |-> <<>>],
                          [n \in DOMAIN text |-> n])
        toks == IF closed \/ text = <<>> \/ (Last(text).words = <<>> /\ ~Last(text).tab) THEN lexed.toks
                ELSE Front(lexed.toks)
    IN  toks \o Placed(FinishEof(lexed.stack), Len(text))
=============================================================================
