---------------------------- MODULE MCTypeCheck ----------------------------
(***************************************************************************)
(* Programs for the type checker, as trees.                                *)
(***************************************************************************)
EXTENDS TypeCheck

Leaf(kind, name) == Node(kind, name, <<>>, 0)
Id(x) == Leaf("ident", x)
Number == Leaf("int", "1")
Truth == Leaf("bool", "true")
Words == Leaf("string", "s")
Ty(t) == CASE t = "" -> Absent [] t = "_" -> Leaf("infer", "")
           [] t = "Array<i32>" -> Node("generic", "Array", <<Leaf("named", "i32")>>, 0)
           [] t = "Array<_>" -> Node("generic", "Array", <<Leaf("infer", "")>>, 0)
           [] OTHER -> Leaf("named", t)
Bin(op, l, r) == Node("binary", op, <<l, r>>, 0)
Un(op, e) == Node("unary", op, <<e>>, 0)
Call(f, args) == Node("call", "", <<Id(f)>> \o args, 0)
Dot(e, x) == Node("field", x, <<e>>, 0)
Ask(e, m, args) == Node("call", "", <<Dot(e, m)>> \o args, 0)
At(e, i) == Node("index", "", <<e, i>>, 0)
Store(l, r) == Node("assign", "", <<l, r>>, 0)

Block(stmts) == List("block", stmts)
Let(x, t, e) == Node("let", x, <<Ty(t), e>>, 0)
Do(e) == Node("do", "", <<e>>, 0)
Ret(e) == Node("return", "", <<e>>, 0)
When(c, t, e) == Node("if", "", <<c, Block(t), IF e = <<>> THEN Absent ELSE Block(e)>>, 0)
While(c, b) == Node("while", "", <<c, Block(b)>>, 0)
For(x, e, b) == Node("for", x, <<e, Block(b)>>, 0)
Jump(kind) == Leaf(kind, "")

Param(x, t) == Node("param", x, <<Ty(t)>>, 0)
Generic(tp, constraint) ==
    List("typeparams", IF tp = "" THEN <<>>
        ELSE <<Node("typeparam", tp, IF constraint = "" THEN <<>> ELSE <<Leaf("constraint", constraint)>>, 0)>>)
Fn(f, ps, r, b) == Node("func", f, <<Generic("", ""), List("params", ps), Ty(r), Block(b)>>, 0)
GenericFn(f, constraint, ps, r, b) == Node("func", f, <<Generic("T", constraint), List("params", ps), Ty(r), Block(b)>>, 0)
Struct(tp) == Node("struct", "S", <<Generic(tp, ""), List("fields", <<Node("member", "v", <<Ty("i32")>>, 0)>>)>>, 0)
Impl(tp, target, ms) == Node("impl", target, <<Generic(tp, ""), List("methods", ms)>>, 0)
Extern(x, t, r) == Node("extern", x, <<List("params", <<Param("x", t)>>), Ty(r)>>, 0)
Const(x, t, e) == Node("const", x, <<Ty(t), e>>, 0)
Intent(cs, b) == Node("intent", "I", <<List("constraints", cs), Block(b)>>, 0)
Flow(b, undo) == Node("flow", "W", <<List("stages", <<Node("stage", "one", <<Block(b)>>, 0)>>), undo>>, 0)
Import == Node("import", "m", <<List("path", <<>>), Absent, Absent>>, 0)

-----------------------------------------------------------------------------
(* Expressions over a and b, and everything two operands can do. *)
Atoms == {Id("a"), Id("b"), Number, Truth}
Values ==
    Atoms \cup {Words, Leaf("float", "1.0"), Id("z"), At(Id("a"), Number), At(Id("z"), Id("b")), Dot(Id("a"), "v"),
                Call("f", <<Id("a")>>), Call("a", <<>>)}
        \cup {Un(op, e) : op \in {"-", "not"}, e \in Atoms}
        \cup {Bin(op, l, r) : op \in {"+", "==", "and"}, l \in Atoms, r \in Atoms}
ValuePrograms ==
    {<<Fn("f", <<Param("a", ta)>>, r, <<Let("b", "", Id("a")), Let("x", u, e), Ret(Id("x"))>>)>> :
        ta \in {"i32", "i64", "bool", "Array<i32>", "_"}, r \in {"i32", ""}, u \in {"", "_", "i64", "bool"}, e \in Values}

(* Statements in every place, with names of an inner block used outside. *)
Steps == {Do(Store(Id("a"), Id("x"))), Do(Store(Id("x"), Id("a"))), Ret(Id("x")), Ret(Absent), Jump("break"),
          Let("a", "", Id("x")), Let("y", "i32", Id("x")), Do(Store(At(Id("xs"), Number), Id("x"))), Do(Store(Id("f"), Id("x")))}
Nested(s) ==
    {s, When(Id("q"), <<s>>, <<>>), When(Id("q"), <<s>>, <<Ret(Id("a"))>>), While(Id("q"), <<s>>), While(Id("a"), <<s, Jump("continue")>>),
     For("y", Id("xs"), <<s, Do(Store(Id("y"), Id("x")))>>), For("y", Id("a"), <<s>>)}
StatementPrograms ==
    {<<Fn("f", <<Param("a", ta), Param("q", "bool"), Param("xs", "Array<i32>")>>, r,
          <<Let("x", "", Number), s, Do(e), Ret(Id("a"))>>)>> :
        ta \in {"i32", "bool"}, r \in {"i32", ""}, s \in UNION {Nested(s) : s \in Steps}, e \in {Id("y"), Id("a")}}

(* Two functions, with and without a return type, in both orders. *)
CallerBodies ==
    {<<Ret(e)>> : e \in {Call("g", <<Number>>), Call("g", <<Id("a")>>), Bin("+", Call("g", <<Number>>), Call("g", <<Number>>)),
                         Un("-", Call("g", <<Number>>)), Call("g", <<>>), Call("g", <<Truth, Words>>)}}
    \cup {<<Let("x", u, Call("g", <<Id("a")>>)), Ret(Id("x"))>> : u \in {"", "_", "str"}}
    \cup {<<When(Call("g", <<Id("a")>>), <<>>, <<>>), Do(Call("print", <<Call("g", <<Id("a")>>)>>)), Ret(Number)>>}
CalleeBodies ==
    {<<Ret(e)>> : e \in {Number, Words, Truth, Id("n"), Call("f", <<Number>>)}}
    \cup {<<When(Truth, <<Ret(Words)>>, <<>>)>>, <<When(Truth, <<Ret(Number)>>, <<Ret(Truth)>>)>>, <<>>}
PrintDecl == Extern("print", "str", "void")
TwoFunctions ==
    UNION {{<<PrintDecl, f, g>>, <<PrintDecl, g, f>>} :
        f \in {Fn("f", <<Param("a", t)>>, r, b) : t \in {"i32", "i64"}, r \in {"", "i32"}, b \in CallerBodies},
        g \in {Fn("g", <<Param("n", t)>>, r, b) : t \in {"i32", "i64", "_"}, r \in {"", "i64", "str"}, b \in CalleeBodies}}

(* Structs and their methods, used from a function, in three orders. *)
Methods ==
    {<<Fn("get", ps, r, b)>> : ps \in {<<Param("self", "S")>>, <<Param("self", "i32"), Param("n", "i64")>>, <<Param("s", "S"), Param("n", "i32")>>, <<>>},
        r \in {"i32", ""}, b \in {<<Ret(Dot(Id("self"), "v"))>>, <<Ret(Number)>>, <<Do(Store(Dot(Id("self"), "v"), Number))>>}}
Users ==
    {Fn("f", <<Param("s", t)>>, "i32", <<Ret(e)>>) : t \in {"S", "i32"},
        e \in {Dot(Id("s"), "v"), Dot(Id("s"), "get"), Ask(Id("s"), "get", <<>>), Ask(Id("s"), "get", <<Number>>),
               Ask(Id("s"), "put", <<>>), Store(Dot(Id("s"), "v"), Number), Ask(Id("s"), "println", <<Number>>)}}
StructPrograms ==
    UNION {{<<Struct(""), Impl("", "S", ms), u>>, <<u, Impl("", "S", ms), Struct("")>>, <<Impl("", "Q", ms), Struct(""), u>>} :
        ms \in Methods, u \in Users}

(* Generic functions asked for from a function and from one another. *)
Templates ==
    {<<GenericFn("id", constraint, <<Param("x", "T")>>, r, <<b>>)>> : constraint \in {"", "Numeric", "Eq"},
        r \in {"T", "", "i32"}, b \in {Ret(Id("x")), Ret(Bin("+", Id("x"), Number)), Ret(Call("id", <<Words>>)), Do(Store(Id("x"), Id("x")))}}
GenericPrograms ==
    {t \o <<Fn("f", <<Param("a", "i64"), Param("xs", "Array<i32>")>>, "", <<Do(e), Do(g)>>)>> : t \in Templates,
        e \in {Call("id", <<Number>>), Call("id", <<Id("a")>>), Call("id", <<Id("xs")>>), Call("id", <<>>)},
        g \in {Call("id", <<Truth>>), Call("id", <<Number>>), Call("id", <<Words, Id("z")>>), Call("id", <<Id("z")>>)}}

(* What stands at the top of a file, in both orders. *)
Tops ==
    {Const("N", t, e) : t \in {"i32", "i64", "str"}, e \in {Number, Bin("*", Number, Id("M")), Call("f", <<>>)}}
    \cup {Const("M", "i32", Number), Let("N", "", Number), Fn("f", <<>>, "i32", <<Ret(Id("N"))>>), Fn("f", <<>>, "", <<Do(Store(Id("N"), Number))>>),
          Extern("puts", "ptr", "i32"), Struct("T"), Impl("T", "S", <<>>), Struct(""), Import, Extern("puts", "Array<_>", "Q")}
    \cup {Intent(<<c>>, b) : c \in {Truth, Id("N")}, b \in {<<Ret(Absent)>>, <<Ret(Number)>>, <<Let("k", "", Number)>>}}
    \cup {Flow(b, u) : b \in {<<Let("k", "", Number)>>, <<Ret(Number)>>}, u \in {Absent, Block(<<Do(Id("k"))>>), Block(<<Do(Id("N"))>>)}}
TopPrograms == {<<d, e, f>> : d \in Tops, e \in Tops, f \in {Fn("g", <<Param("s", "S")>>, "i32", <<Ret(Id("N"))>>), Const("M", "i32", Number)}}

(* Types that come to contain themselves. *)
Selves == {Do(Store(Id("a"), At(Id("a"), Number))), Do(Store(Id("b"), At(Id("b"), Number))), Do(Store(Id("a"), Id("b"))),
           Let("x", "", At(Id("a"), Id("x"))), Ret(At(Id("b"), Number))}
SelfPrograms ==
    {<<Fn("f", <<Param("a", t), Param("b", t)>>, r, <<x, y, z>>)>> :
        t \in {"Array<_>", "Array<i32>", "_"}, r \in {"", "i32"}, x \in Selves, y \in Selves, z \in Selves}
    \cup {<<Fn("f", <<>>, r, <<Ret(Id("f"))>>), Fn("g", <<>>, r, <<Ret(Id("g"))>>),
            Fn("h", <<>>, "bool", <<Ret(Bin("==", Id("f"), Id("g")))>>)>> : r \in {"", "i32"}}

MCPrograms == SelfPrograms \cup ValuePrograms \cup StatementPrograms \cup TwoFunctions \cup StructPrograms \cup GenericPrograms \cup TopPrograms

-----------------------------------------------------------------------------
(* The parts of the walk *)

MCCollected(program) == LET c == CollectTopLevel(program) IN c
MCVisited(c, decl, path) == LET d == VisitDecl(c, decl, path) IN d
MCWithInstance(c, program, n) == LET d == CheckRequest(c, program, n) IN d
MCConcluded(c, program) == LET d == Conclude(c, program) IN d
=============================================================================
