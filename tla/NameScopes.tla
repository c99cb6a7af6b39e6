----------------------------- MODULE NameScopes -----------------------------
(***************************************************************************)
(* What the names of a project mean, said over the files themselves, and   *)
(* what both ways of loading it must therefore keep.                       *)
(*                                                                         *)
(* A file sees its own declarations, the symbols it imports by name, the   *)
(* modules it imports under their aliases and, after `include all`, all    *)
(* the names of a module; an inner scope comes first.  This is said for a  *)
(* project whose files use every name for one thing and whose imports name *)
(* one file each: what a name means otherwise is not laid down anywhere.   *)
(***************************************************************************)
EXTENDS ModuleLoading, FiniteSets

Paths == DOMAIN project.files
OwnNames(file) == TopLevelSymbols(Decls(file))
Names(n) == {n.of[2].of[i].name : i \in DOMAIN n.of[2].of}
ImportsOf(file) == {Imports(file)[i] : i \in DOMAIN Imports(file)}
BySymbol(n) == IsFrom(n) /\ ~IsRelativeModuleImport(n)

(* Every file that a path may name, from anywhere a path is looked up. *)
Roots == {StdlibRoot, ProjectRoot(project), Append(ProjectRoot(project), "src")}
         \cup {DependencyRoots(project)[i] : i \in DOMAIN DependencyRoots(project)}
Files(dirs, segments) ==
    {dir \o segments : dir \in dirs} \cup {dir \o segments \o <<"main">> : dir \in dirs}
FilesNamed(file, dots, segments) ==
    Paths \cap
    (IF dots > 0 THEN (IF dots > Len(file) THEN {} ELSE Files({SubSeq(file, 1, Len(file) - dots)}, segments))
     ELSE Files(Roots, segments)
          \cup (IF Head(segments) = "std" THEN Files({StdlibRoot}, Tail(segments)) ELSE {}))
(* The files of an import: of a module, or of the module of a symbol. *)
FilesOf(file, n, name) ==
    CASE IsRelativeModuleImport(n) -> FilesNamed(file, Dots(n), <<name>>)
      [] BySymbol(n) -> FilesNamed(file, Dots(n), Segments(n)) \cup FilesNamed(file, Dots(n), Append(Segments(n), name))
      [] OTHER -> FilesNamed(file, Dots(n), Segments(n))
NamesIn(n) == IF IsFrom(n) THEN Names(n) ELSE {""}
FileOf(file, n, name) == CHOOSE f \in FilesOf(file, n, name) : TRUE

RECURSIVE ReachableFrom(_)
ReachableFrom(files) ==
    LET more == (UNION {UNION {FilesOf(f, n, x) : x \in NamesIn(n)} : <<f, n>> \in
                         UNION {{f} \X ImportsOf(f) : f \in files}}) \ files
    IN IF more = {} THEN files ELSE ReachableFrom(files \cup more)
Reachable == ReachableFrom({project.entry})
Needs(file) == ReachableFrom(UNION {UNION {FilesOf(file, n, x) : x \in NamesIn(n)} : n \in ImportsOf(file)})
Uses == UNION {UNION {{[file |-> f, import |-> n, name |-> x] : x \in NamesIn(n)} : n \in ImportsOf(f)} : f \in Reachable}
FilesUsed(u) == FilesOf(u.file, u.import, u.name)

-----------------------------------------------------------------------------
(* The names a file sees, each with the declarations it may stand for *)

The(file, name) == [file |-> file, name |-> name]
Aliases(file) ==
    {<<ModuleAlias(n), FileOf(file, n, "")>> : n \in {m \in ImportsOf(file) : ~IsFrom(m)}}
    \cup UNION {{<<LocalName(n.of[2].of[i]), FileOf(file, n, n.of[2].of[i].name)>> : i \in DOMAIN n.of[2].of} :
                n \in {m \in ImportsOf(file) : IsRelativeModuleImport(m)}}
Directs(file) ==
    UNION {{<<LocalName(n.of[2].of[i]), The(FileOf(file, n, n.of[2].of[i].name), n.of[2].of[i].name)>> :
            i \in DOMAIN n.of[2].of} : n \in {m \in ImportsOf(file) : BySymbol(m)}}
Wilds(file) ==
    UNION {UNION {{<<name, The(FileOf(file, n, x), name)>> : name \in OwnNames(FileOf(file, n, x))} : x \in NamesIn(n)} :
           n \in {m \in ImportsOf(file) : ImportsAll(m)}}
Owns(file) == {<<name, The(file, name)>> : name \in OwnNames(file)}
Sights(file) == Owns(file) \cup Directs(file) \cup Wilds(file)
Meaning(file, name) == {s[2] : s \in {t \in Sights(file) : t[1] = name}}

RECURSIVE InnerTypeNames(_)
InnerTypeNames(n) ==
    (IF n.kind = "typeparam" THEN {n.name} ELSE {}) \cup UNION {InnerTypeNames(n.of[i]) : i \in DOMAIN n.of}
InnerNames(file) ==
    UNION {InnerTypeNames(Decls(file)[i]) \cup
           (IF Decls(file)[i].kind = "impl" THEN {Decls(file)[i].of[2].of[j].name : j \in DOMAIN Decls(file)[i].of[2].of} ELSE {}) :
           i \in DOMAIN Decls(file)}
IsClear(file) ==
    LET aliases == {a[1] : a \in Aliases(file)}
        names == {s[1] : s \in Sights(file)}
    IN /\ \A x \in names : Cardinality(Meaning(file, x)) = 1
       /\ \A a, b \in Aliases(file) : a[1] = b[1] => a = b
       /\ aliases \cap names = {} /\ InnerNames(file) \cap (aliases \cup names) = {}
       /\ \A i, j \in DOMAIN Decls(file) :
            i # j /\ Decls(file)[i].kind \in TopLevelKinds => Decls(file)[i].name # Decls(file)[j].name
-----------------------------------------------------------------------------
(* The projects it is said for *)

MentionsOf(file) == UNION {Mentions(Decls(file)[i], {}) : i \in DOMAIN Decls(file)}
CallsIoThroughModule(file) == \E m \in MentionsOf(file) : m[2] \in IoNames
IsWellScoped(file) ==
    LET externs == {Decls(file)[i].name : i \in {j \in DOMAIN Decls(file) : Decls(file)[j].kind = "extern"}}
        visible == {s[1] : s \in Sights(file)}
    IN \A m \in MentionsOf(file) :
        \/ m[1] \in visible \cup (IF m[2] = "" THEN externs ELSE {})
        \/ m[2] \notin IoNames /\ \E a \in Aliases(file) : a[1] = m[1] /\ m[2] \in OwnNames(a[2])
(* What the legacy loader calls the module of an import. *)
CalledBy(u) == IF IsFrom(u.import) THEN Append(Segments(u.import), u.name) ELSE Segments(u.import)
IsPlain ==
    /\ \A u \in Uses : Cardinality(FilesUsed(u)) = 1 /\ project.entry \notin FilesUsed(u)
    /\ \A u, v \in Uses : CalledBy(u) = CalledBy(v) => FilesUsed(u) = FilesUsed(v)
    /\ \A u \in Uses : BySymbol(u.import) => u.name \in OwnNames(FileOf(u.file, u.import, u.name))
    /\ \A u \in Uses : IsRelativeModuleImport(u.import) => Cardinality(Names(u.import)) = 1
    /\ \A file \in Reachable : IsClear(file) /\ IsWellScoped(file)

-----------------------------------------------------------------------------
(* A rewritten file beside its source, against what the names link to *)

Definitions(parts) ==
    {[of |-> The(parts[i].file, Decls(parts[i].file)[parts[i].at].name), link |-> parts[i].decl.name] :
        i \in {j \in DOMAIN parts : parts[j].decl.kind \in TopLevelKinds}}
Linked(defs, link) == {d.of : d \in {e \in defs : e.link = link}}
BoundBefore(block, i, bound) == bound \cup {block.of[j].name : j \in {k \in 1 .. i - 1 : block.of[k].kind = "let"}}
ModulesCalled(file, base) == {a[2] : a \in {b \in Aliases(file) : b[1] = base}}

RECURSIVE Keeps(_, _, _, _, _)
KeepsName(defs, file, name, link, bound) ==
    IF name \in bound THEN link = name ELSE link \notin bound /\ Linked(defs, link) = Meaning(file, name)
KeepsType(defs, file, name, link) ==
    IF name \in OwnNames(file) THEN Linked(defs, link) = {The(file, name)} ELSE link = name
IsQualified(file, n, bound) ==
    n.kind = "field" /\ n.of[1].kind = "ident" /\ n.of[1].name \notin bound /\ ModulesCalled(file, n.of[1].name) # {}
KeepsParts(defs, file, n, m, bound) ==
    Len(n.of) = Len(m.of) /\ \A i \in DOMAIN n.of : Keeps(defs, file, n.of[i], m.of[i], bound)
Keeps(defs, file, n, m, bound) ==
    IF IsQualified(file, n, bound)
    THEN m.kind = "ident" /\ m.name \notin bound
         /\ Linked(defs, m.name) = {The(f, n.name) : f \in ModulesCalled(file, n.of[1].name)}
    ELSE /\ m.kind = n.kind /\ Len(m.of) = Len(n.of)
         /\ CASE n.kind = "ident" -> KeepsName(defs, file, n.name, m.name, bound)
              [] n.kind \in {"named", "generic", "impl"} ->
                    KeepsType(defs, file, n.name, m.name) /\ KeepsParts(defs, file, n, m, bound)
              [] n.kind = "block" ->
                    \A i \in DOMAIN n.of : Keeps(defs, file, n.of[i], m.of[i], BoundBefore(n, i, bound))
              [] n.kind = "func" -> KeepsParts(defs, file, n, m, bound \cup {n.of[2].of[i].name : i \in DOMAIN n.of[2].of})
              [] n.kind = "for" ->
                    m.name = n.name /\ Keeps(defs, file, n.of[1], m.of[1], bound)
                    /\ Keeps(defs, file, n.of[2], m.of[2], bound \cup {n.name})
              [] OTHER -> (n.kind \in TopLevelKinds \/ m.name = n.name) /\ KeepsParts(defs, file, n, m, bound)
KeepsProgram(parts) ==
    LET defs == Definitions(parts)
    IN /\ \A d, e \in defs : d.link = e.link => d = e
       /\ \A i \in DOMAIN parts : Keeps(defs, parts[i].file, Decls(parts[i].file)[parts[i].at], parts[i].decl, {})

SessionFiles == SetToSeq(DOMAIN session.modules)
SessionParts ==
    FlattenSeq([i \in DOMAIN SessionFiles |->
        [j \in DOMAIN session.modules[SessionFiles[i]].parts |->
            session.modules[SessionFiles[i]].parts[j] @@ [file |-> SessionFiles[i]]]])

-----------------------------------------------------------------------------
(* The properties are of the states a step is taken from: every state but  *)
(* the last, after both loaders have returned.                             *)

TypeOK ==
    /\ phase \in {"session", "legacy", "end", "returned"}
    /\ DOMAIN session.nodes \subseteq Paths /\ DOMAIN session.modules \subseteq DOMAIN session.nodes
    /\ DOMAIN session.table = DOMAIN session.modules
    /\ legacy.loading = {legacy.stack[i].path : i \in DOMAIN legacy.stack}
    /\ legacy.loading \cap legacy.loaded = {} /\ DOMAIN legacy.exports = legacy.loading \cup legacy.loaded

(* Both ways of loading keep what every name means: in a program that one  *)
(* of them accepts, each name of each file, after it was renamed for the   *)
(* linker, is the name of the one declaration it stood for in its file,    *)
(* and no local of an inner scope takes its place.                         *)
NamesKeepTheirMeaning ==
    [][phase = "end" /\ IsPlain =>
        /\ session.result = "ok" => KeepsProgram(SessionParts)
        /\ legacy.errors = {} => KeepsProgram(legacy.program)]_vars

(* No module is being loaded while it is being loaded already, however the *)
(* files import one another; the flattened program has every declaration   *)
(* of every file once, and those of an imported file before the importer's *)
(* unless they import one another.                                         *)
EachModuleOnce ==
    LET places == [i \in DOMAIN legacy.program |-> <<legacy.program[i].file, legacy.program[i].at>>]
        wanted == UNION {{<<f, i>> : i \in {j \in DOMAIN Decls(f) : ~IsImport(Decls(f)[j])}} : f \in Reachable}
    IN /\ IsInjective([i \in DOMAIN legacy.stack |-> legacy.stack[i].path])
       /\ IsInjective(places)
       /\ phase = "end" /\ legacy.errors = {} /\ IsPlain =>
            /\ Range(places) = wanted
            /\ \A i, j \in DOMAIN places :
                 i < j /\ places[j][1] \in Needs(places[i][1]) =>
                    places[i][1] = places[j][1] \/ places[i][1] \in Needs(places[j][1])

(* The state of both loaders is in order, above all the loads under way.   *)
LoaderInv == [][TypeOK /\ EachModuleOnce]_vars

(* A project whose imports and names are in order is loaded: the legacy    *)
(* loader accepts it.                                                      *)
WellFormedLoads ==
    [][phase = "end" /\ IsPlain /\ (\A f \in Reachable : ~project.files[f].broken)
        => legacy.errors = {}]_vars

(* What the session accepts, the legacy loader accepts too; where two      *)
(* files have the name of one import the two may choose differently, and   *)
(* an io function called through a module gets lost in the legacy loader.  *)
SessionIsNoLooser ==
    [][phase = "end" /\ session.result = "ok"
        /\ (\A u \in Uses : Cardinality(FilesUsed(u)) <= 1)
        /\ (\A file \in Reachable \ {project.entry} : ~CallsIoThroughModule(file))
        => legacy.errors = {}]_vars

(* A symbol can be imported from wherever its module can be imported from. *)
FromImportsAreFound ==
    [][phase = "end" /\ IsPlain /\ (\A f \in Reachable : ~project.files[f].broken)
        => session.result # "unresolved"]_vars
=============================================================================
