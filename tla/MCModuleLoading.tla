-------------------------- MODULE MCModuleLoading --------------------------
(***************************************************************************)
(* The projects that are loaded: a module in every place it is looked for, *)
(* imported in every way and used under every name; bodies with shadowing  *)
(* names for the rewriter; and three files that import one another in all  *)
(* ways, some of them broken.                                              *)
(***************************************************************************)
EXTENDS NameScopes

Leaf(kind, name) == Node(kind, name, <<>>, 0)
Id(x) == Leaf("ident", x)
Number == Leaf("int", "1")
Dot(x, field) == Node("field", field, <<Id(x)>>, 0)
Call(f) == Node("call", "", <<f, Number>>, 0)
Let(x, e) == Node("let", x, <<Absent, e>>, 0)
Do(e) == Node("do", "", <<e>>, 0)
Ret(e) == Node("return", "", <<e>>, 0)
Block(stmts) == List("block", stmts)
When(c, stmts) == Node("if", "", <<c, Block(stmts), Absent>>, 0)
While(c, stmts) == Node("while", "", <<c, Block(stmts)>>, 0)
For(x, e, stmts) == Node("for", x, <<e, Block(stmts)>>, 0)
Named(t) == Leaf("named", t)

NoTypeParams == List("typeparams", <<>>)
Param(x, t) == Node("param", x, <<Named(t)>>, 0)
Fn(f, x, stmts) == Node("func", f, <<NoTypeParams, List("params", <<Param(x, "i32")>>), Absent, Block(stmts)>>, 0)
Returns(f, callee) == Fn(f, "x", <<Ret(Call(callee))>>)
Struct(name) == Node("struct", name, <<NoTypeParams, List("fields", <<>>)>>, 0)
Extern(x) == Node("extern", x, <<List("params", <<>>), Named("i32")>>, 0)

Path(dots, names) ==
    List("path", [i \in 1 .. dots |-> Leaf("dot", ".")] \o [i \in DOMAIN names |-> Leaf("segment", names[i])])
Alias(x) == IF x = "" THEN Absent ELSE Leaf("alias", x)
All(b) == IF b THEN Leaf("all", "") ELSE Absent
Import(names, alias, all) == Node("import", "", <<Path(0, names), List("names", <<Alias(alias)>>), All(all)>>, 0)
Symbol(x, alias) == Node("symbol", x, <<Alias(alias)>>, 0)
From(dots, names, symbols, all) == Node("from", "", <<Path(dots, names), List("names", symbols), All(all)>>, 0)

File(decls) == [decls |-> decls, broken |-> FALSE]
Project(files, entry, includes) == [files |-> files, entry |-> entry, includes |-> includes]
AppMain == <<"app", "main">>
Main(imports, stmts) == File(imports \o <<Fn("main", "x", stmts)>>)

-----------------------------------------------------------------------------
(* Where the module is, how it is imported, under which name it is used *)

Library == File(<<Returns("f", Id("g")), Fn("g", "x", <<Ret(Id("x"))>>)>>)
Places == {<<"app", "lib">>, <<"app", "src", "lib">>, <<"app", "lib", "main">>, <<"stdlib", "lib">>,
           <<"deps", "lib">>, <<"deps", "src", "lib">>, <<"app", "src", "lib", "f">>}
Entries == {AppMain, <<"app", "src", "main">>}
Forms ==
    {Import(p, a, all) : p \in {<<"lib">>, <<"src", "lib">>, <<"std", "lib">>, <<"lib", "f">>}, a \in {"", "m"}, all \in BOOLEAN}
    \cup {From(0, p, s, all) : p \in {<<"lib">>, <<"src", "lib">>, <<"std", "lib">>},
            s \in {<<Symbol("f", "")>>, <<Symbol("f", "h")>>, <<Symbol("f", ""), Symbol("g", "h")>>}, all \in BOOLEAN}
    \cup {From(1, <<>>, s, all) : s \in {<<Symbol("lib", "")>>, <<Symbol("lib", "m")>>}, all \in BOOLEAN}
    \cup {From(2, <<>>, <<Symbol("lib", "")>>, FALSE), From(1, <<"lib">>, <<Symbol("f", "")>>, FALSE)}
UsedAs == {Id("f"), Id("h"), Dot("lib", "g"), Dot("m", "f")}
PlaceProjects ==
    {Project(entry :> Main(<<n>>, <<Ret(Call(use))>>) @@ place :> Library, entry, <<<<"deps">>>>) :
        entry \in Entries, place \in Places, n \in Forms, use \in UsedAs}
(* Two files that the same import may name. *)
TwicePresent ==
    {Project(AppMain :> Main(<<n>>, <<Ret(Call(Id("f")))>>) @@ p :> Library @@ q :> File(<<Returns("f", Id("x"))>>),
             AppMain, <<<<"deps">>, <<"app", "dep">>>>) :
        p, q \in Places, n \in {From(0, <<"lib">>, <<Symbol("f", "")>>, FALSE), From(1, <<"lib">>, <<Symbol("f", "")>>, FALSE)}}

-----------------------------------------------------------------------------
(* What the rewriter walks: names of an import, of the file and of inner   *)
(* scopes                                                                  *)

Wrapped(s) ==
    {<<s>>, <<When(Number, <<s>>)>>, <<While(Id("x"), <<s, Do(Call(Id("f")))>>)>>, <<For("f", Id("x"), <<s>>)>>,
     <<For("y", Call(Id("f")), <<s, Ret(Id("y"))>>)>>, <<Let("g", Number), When(Id("g"), <<s, Ret(Id("g"))>>)>>}
Shadowing ==
    {Let("f", Call(Id("f"))), Let("g", Call(Dot("lib", "g"))), Let("lib", Dot("lib", "f")), Do(Call(Id("g"))),
     Ret(Id("f")), For("g", Call(Id("g")), <<Ret(Id("g"))>>), Do(Call(Id("print"))), Do(Call(Dot("lib", "print")))}
Bodies == UNION {{b \o <<Do(Call(e))>> : b \in Wrapped(s)} : s \in Shadowing, e \in {Id("f"), Id("g")}}
Shapes ==
    {<<Fn("k", p, b)>> : p \in {"x", "f"}, b \in Bodies}
    \cup {<<Node("intent", "I", <<List("constraints", <<Call(Id("f"))>>), Block(b)>>, 0)>> : b \in Wrapped(Ret(Id("f")))}
    \cup {<<Node("flow", "W", <<List("stages", <<Node("stage", "one", <<Block(b)>>, 0)>>), Block(b)>>, 0)>> : b \in Wrapped(Ret(Id("g")))}
    \cup {<<Struct("S"), Node("impl", "S", <<NoTypeParams, List("methods", <<Fn(mth, "x", <<Ret(Call(Id("f")))>>)>>)>>, 0)>> : mth \in {"p", "f"}}
    \cup {<<Let("v", Call(Id("f"))), Fn("k", "v", <<Ret(Id("v"))>>), Returns("l", Id("v"))>>,
          <<Struct("S"), Node("func", "k", <<NoTypeParams, List("params", <<Param("x", "S")>>), Named("S"), Block(<<Let("S", Number)>>)>>, 0)>>,
          <<Node("const", "c", <<Named("i32"), Number>>, 0), Returns("k", Id("c")), Extern("f")>>,
          <<Extern("e"), Returns("k", Id("e"))>>}
ShapeImports == {<<From(0, <<"src", "lib">>, <<Symbol("f", "")>>, FALSE), Import(<<"lib">>, "", FALSE)>>, <<Import(<<"lib">>, "", TRUE)>>}
(* In the entry, and in a module that the entry imports. *)
ShapeProjects ==
    {Project(AppMain :> File(i \o s) @@ <<"app", "src", "lib">> :> Library, AppMain, <<>>) : i \in ShapeImports, s \in Shapes}
    \cup {Project(AppMain :> Main(<<Import(<<"mid">>, "", all)>>, <<Ret(Call(Dot("mid", "k")))>>)
                  @@ <<"app", "mid">> :> File(i \o s) @@ <<"app", "src", "lib">> :> Library, AppMain, <<>>) :
            i \in ShapeImports, s \in Shapes, all \in BOOLEAN}

-----------------------------------------------------------------------------
(* Files that import one another *)

Edges == {"none", "module", "symbol", "all"}
ImportOf(edge, file, f) ==
    CASE edge = "none" -> <<>>
      [] edge = "module" -> <<Import(<<file>>, "", FALSE)>>
      [] edge = "symbol" -> <<From(0, <<"src", file>>, <<Symbol(f, "")>>, FALSE)>>
      [] edge = "all" -> <<Import(<<file>>, "", TRUE)>>
UseOf(edge, file, f) ==
    CASE edge = "none" -> Number [] edge = "module" -> Dot(file, f) [] OTHER -> Id(f)
(* main, a and b: every file has a function of its own name and an f. *)
Member(file, first, second) ==
    File(first.imports \o second.imports \o
         <<Fn(file, "x", <<Do(Call(first.use)), Ret(Call(second.use))>>), Returns("f", Id(file))>>)
Toward(edge, file, f) == [imports |-> ImportOf(edge, file, f), use |-> UseOf(edge, file, f)]
Spoiled(p, file) == IF file \in DOMAIN p.files THEN [p EXCEPT !.files[file].broken = TRUE] ELSE p
InSrc(file) == <<"app", "src", file>>
GraphProjects ==
    {Spoiled(Project(InSrc("main") :> Member("main", Toward(m[1], "a", "a"), Toward(m[2], "b", "b"))
             @@ InSrc("a") :> Member("a", Toward(e, "b", "b"), Toward(back, "main", "main"))
             @@ InSrc("b") :> Member("b", Toward(f, "a", "a"), Toward("none", "", "")), InSrc("main"), <<>>), InSrc(broken)) :
        m \in Edges \X Edges, e, f \in Edges, back \in {"none", "module", "symbol"}, broken \in {"", "a", "b"}}
(* Names that more than one module has, and names no module has. *)
NameProjects ==
    {Project(AppMain :> File(i \o <<Returns(own, Id("k")), Returns("main", use)>>)
             @@ <<"app", "a">> :> File(<<Returns("f", Id(x)), Returns("k", Id("x"))>>)
             @@ <<"app", "dir", "a">> :> File(<<Returns("f", Id("x")), Returns("g", Id("f"))>>)
             @@ <<"app", "b">> :> File(<<From(0, <<"dir", "a">>, <<Symbol("f", "")>>, FALSE), Returns("b", Id("f"))>>), AppMain, <<>>) :
        i \in {<<Import(<<"a">>, "", TRUE), Import(<<"dir", "a">>, "m", TRUE)>>, <<From(1, <<>>, <<Symbol("a", ""), Symbol("b", "")>>, FALSE)>>,
               <<From(1, <<>>, <<Symbol("a", "")>>, TRUE), From(1, <<"dir">>, <<Symbol("a", "m")>>, FALSE), Import(<<"b">>, "", FALSE)>>,
               <<From(0, <<"a">>, <<Symbol("f", ""), Symbol("k", "")>>, TRUE)>>, <<From(1, <<"a">>, <<Symbol("k", "f"), Symbol("z", "")>>, FALSE)>>},
        own \in {"f", "own"}, x \in {"k", "own", "nowhere"}, use \in {Id("f"), Id("k"), Id("g"), Dot("a", "f"), Dot("b", "b"), Dot("m", "print")}}

MCProjects == PlaceProjects \cup TwicePresent \cup ShapeProjects \cup GraphProjects \cup NameProjects

-----------------------------------------------------------------------------
(* What the loaders call *)

MCFound(p, from, spec) == LET module == Resolve(p, from, spec) IN module
MCFoundByLegacy(p, from, level, segments) == LET path == ResolveImportPath(p, from, level, segments) IN path
MCRewritten(rewriter, decls) == LET r == RewriteProgram(rewriter, decls) IN r
MCUnknown(parts, externs) == LET names == Undefined(parts, externs) IN names
=============================================================================
