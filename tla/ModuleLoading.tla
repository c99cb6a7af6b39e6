---------------------------- MODULE ModuleLoading ----------------------------
(***************************************************************************)
(* One project through both ways the command line has of putting a program *)
(* together: the session, which discovers the module graph and checks one  *)
(* module after another (session.rs), and after it the legacy loader,      *)
(* which follows the imports depth first and flattens everything into one  *)
(* program (pipeline.rs).                                                  *)
(*                                                                         *)
(* The code takes the legacy way when a flag or a failure of the session   *)
(* asks for it; here every project goes both, so that they can be          *)
(* compared.  Of the type checker only this is kept: a name that nothing   *)
(* declares is an error.                                                   *)
(***************************************************************************)
EXTENDS ModuleResolution, NameRewriter

CONSTANT Projects
(* What the loaders call is a parameter, Resolve, ResolveImportPath,       *)
(* RewriteProgram and Undefined in the configuration: TLC expands whatever *)
(* an action calls before it starts, and stops at a parameter.             *)
CONSTANTS
    Found(_, _, _),           \* where the session finds an import of a file
    FoundByLegacy(_, _, _, _),\* where the legacy loader finds it
    Rewritten(_, _),          \* a rewriter after the declarations of a file
    Unknown(_, _)             \* the names that nothing declares

VARIABLES project, phase, session, legacy
vars == <<project, phase, session, legacy>>

Decls(path) == project.files[path].decls
Imports(path) == SelectSeq(Decls(path), IsImport)

Dots(n) == Len(SelectSeq(n.of[1].of, LAMBDA part : part.kind = "dot"))
Segments(n) == LET names == SelectSeq(n.of[1].of, LAMBDA part : part.kind = "segment")
               IN [i \in DOMAIN names |-> names[i].name]
IsFrom(n) == n.kind = "from"
ImportsAll(n) == n.of[3] # Absent
IsRelativeModuleImport(n) == IsFrom(n) /\ Dots(n) > 0 /\ Segments(n) = <<>>
LocalName(symbol) == IF symbol.of[1] = Absent THEN symbol.name ELSE symbol.of[1].name
ModuleAlias(n) == IF n.of[2].of[1] = Absent THEN Last(Segments(n)) ELSE n.of[2].of[1].name

(* What a declaration mentions that is not its own: <<name, "">>, or       *)
(* <<base, member>> of a name that may be a module.  Builtins apart, a     *)
(* name must be declared somewhere in the program.                         *)
RECURSIVE Mentions(_, _)
InBlock(n, bound) ==
    FoldLeft(LAMBDA done, s : [found |-> done.found \cup Mentions(s, done.bound),
                               bound |-> done.bound \cup (IF s.kind = "let" THEN {s.name} ELSE {})],
             [found |-> {}, bound |-> bound], n.of).found
Mentions(n, bound) ==
    CASE n.kind = "ident" -> {<<n.name, "">>} \ ((bound \cup IoNames) \X {""})
      [] n.kind = "field" /\ n.of[1].kind = "ident" -> {<<n.of[1].name, n.name>>} \ (bound \X {n.name})
      [] n.kind = "block" -> InBlock(n, bound)
      [] n.kind = "func" -> Mentions(n.of[4], bound \cup {n.of[2].of[i].name : i \in DOMAIN n.of[2].of})
      [] n.kind = "for" -> Mentions(n.of[1], bound) \cup Mentions(n.of[2], bound \cup {n.name})
      [] OTHER -> UNION {Mentions(n.of[i], bound) : i \in DOMAIN n.of}
Declared(parts) ==
    {parts[i].decl.name : i \in {j \in DOMAIN parts : parts[j].decl.kind \in TopLevelKinds \cup {"extern"}}}
Undefined(parts, externs) ==
    {m[1] : m \in UNION {Mentions(parts[i].decl, {}) : i \in DOMAIN parts}} \ (Declared(parts) \cup externs)

(* What one import declaration binds to one of its targets, given what the *)
(* target exports; a symbol it does not export is an error.                *)
Target(path, namespace, symbol) == [path |-> path, namespace |-> namespace, symbol |-> symbol]
BindTarget(b, n, target, exports) ==
    LET wanted == SelectSeq(n.of[2].of, LAMBDA s : s.name = target.symbol)
        WithAll(c) == IF ImportsAll(n) THEN BindAll(c, exports) ELSE c
    IN IF IsRelativeModuleImport(n)
       THEN WithAll(BindAlias(b, LocalName(Head(n.of[2].of)), target.namespace))
       ELSE IF ~IsFrom(n) THEN WithAll(BindAlias(b, ModuleAlias(n), target.namespace))
       ELSE IF target.symbol \in DOMAIN exports
       THEN WithAll(BindSymbol(b, LocalName(Head(wanted)), exports[target.symbol]))
       ELSE WithAll([b EXCEPT !.missing = TRUE])
FreshBindings == NoBindings @@ [missing |-> FALSE]

-----------------------------------------------------------------------------
(* The session: the graph *)

GraphImports(n) ==
    LET names == n.of[2].of
    IN IF ~IsFrom(n) THEN <<ImportSpec(0, Segments(n), FALSE)>>
       ELSE IF IsRelativeModuleImport(n) /\ Dots(n) <= 2
       THEN [i \in DOMAIN names |-> ImportSpec(Dots(n), <<names[i].name>>, FALSE)]
       ELSE [i \in DOMAIN names |-> ImportSpec(0, Append(Segments(n), names[i].name), TRUE)]
ModuleImports(path) == FlattenSeq([i \in DOMAIN Imports(path) |-> GraphImports(Imports(path)[i])])
Dependencies(path) == {Found(project, path, ModuleImports(path)[i]).path : i \in DOMAIN ModuleImports(path)}

(* The module of a file is the one it was first found as. *)
DiscoverImport(s, module) ==
    IF module.path = Missing THEN [s EXCEPT !.result = "unresolved"]
    ELSE IF module.path \in DOMAIN s.nodes THEN s
    ELSE [s EXCEPT !.nodes = (module.path :> module) @@ @, !.pending = Append(@, module.path)]
DiscoverModule ==
    /\ phase = "session" /\ session.result = "" /\ session.pending # <<>>
    /\ LET path == Head(session.pending)
       IN session' = FoldLeft(LAMBDA s, spec : DiscoverImport(s, Found(project, path, spec)),
                              [session EXCEPT !.pending = Tail(@)], ModuleImports(path))
    /\ UNCHANGED <<project, phase, legacy>>

-----------------------------------------------------------------------------
(* The session: one module *)

(* Only functions and externs have a signature; a declaration of another   *)
(* kind without one is exported as a function.                             *)
IsSigned(n) == n.kind \in {"const", "extern"} \/ (n.kind \in {"func", "struct"} /\ n.of[1].of = <<>>)
KindOf(path, name) ==
    LET signed == SelectSeq(Decls(path), LAMBDA n : n.name = name /\ IsSigned(n))
    IN IF signed = <<>> THEN "unknown"
       ELSE IF Last(signed).kind = "extern" THEN "func" ELSE Last(signed).kind
Namespace(module) == IF module.path = project.entry THEN "" ELSE Joined(ModuleSegments(project, module))
ModuleExports(s, path) == IF path \in DOMAIN s.table THEN s.table[path] ELSE <<>>

ImportTargets(path, n) ==
    LET names == n.of[2].of
        To(module, symbol) == Target(module.path, Namespace(module), symbol)
        Symbol(x) ==
            LET module == Found(project, path, ImportSpec(0, Append(Segments(n), x), TRUE))
            IN IF module.path # Missing THEN module
               ELSE Found(project, path, ImportSpec(0, Segments(n), FALSE))
    IN IF IsFrom(n) THEN [i \in DOMAIN names |-> To(Symbol(names[i].name), names[i].name)]
       ELSE <<To(Found(project, path, ImportSpec(0, Segments(n), FALSE)), "")>>

(* resolve_imports: a module that exports more than functions is left to   *)
(* the legacy loader; its functions are externs of the importer.           *)
ResolveTarget(s, b, n, target) ==
    LET exports == ModuleExports(s, target.path)
        bound == BindTarget(b, n, target, exports)
        signed == {x \in DOMAIN exports : KindOf(target.path, x) = "func"}
    IN IF b.failure # "" THEN b
       ELSE IF target.path \notin DOMAIN s.nodes THEN [b EXCEPT !.failure = "unresolved"]
       ELSE IF \E x \in DOMAIN exports : KindOf(target.path, x) \in {"struct", "const"}
       THEN [b EXCEPT !.failure = "fallback"]
       ELSE [bound EXCEPT !.externs = @ \cup {exports[x] : x \in signed},
                          !.failure = IF bound.missing THEN "missing" ELSE ""]
ResolveImports(s, path) ==
    FoldLeft(LAMBDA b, n : FoldLeft(LAMBDA c, t : ResolveTarget(s, c, n, t), b, ImportTargets(path, n)),
             FreshBindings @@ [externs |-> {}, failure |-> ""], Imports(path))

CheckModule(s, path) ==
    LET exports == CollectModuleExports(Decls(path), Namespace(s.nodes[path]))
        bindings == ResolveImports(s, path)
        isEntry == path = project.entry
        r == Rewritten(NewRewriter(Decls(path), isEntry, Namespace(s.nodes[path]), bindings, FALSE), Decls(path))
    IN CASE project.files[path].broken -> [s EXCEPT !.result = "syntax"]
         [] ~project.files[path].broken /\ \E i \in DOMAIN Imports(path) : Dots(Imports(path)[i]) > 0 ->
                [s EXCEPT !.result = "fallback"]
         [] OTHER ->
            IF bindings.failure # "" THEN [s EXCEPT !.result = bindings.failure]
            ELSE IF r.ambiguous # {} THEN [s EXCEPT !.result = "ambiguous"]
            ELSE IF Unknown(r.parts, bindings.externs) # {} THEN [s EXCEPT !.result = "undefined"]
            ELSE [s EXCEPT !.table = (path :> exports) @@ @,
                           !.modules = (path :> [parts |-> r.parts, externs |-> bindings.externs]) @@ @]

(* The graph cannot be sorted if the modules of some set import each other. *)
IsCyclic ==
    \E among \in SUBSET DOMAIN session.nodes \ {{}} : \A path \in among : Dependencies(path) \cap among # {}
SortFails ==
    /\ phase = "session" /\ session.result = "" /\ session.pending = <<>> /\ IsCyclic
    /\ session' = [session EXCEPT !.result = "cycle"]
    /\ UNCHANGED <<project, phase, legacy>>
(* check_all, in any order the graph may have been sorted to. *)
CheckNext ==
    /\ phase = "session" /\ session.result = "" /\ session.pending = <<>> /\ ~IsCyclic
    /\ \E path \in DOMAIN session.nodes \ DOMAIN session.modules :
        /\ Dependencies(path) \subseteq DOMAIN session.modules
        /\ session' = CheckModule(session, path)
    /\ UNCHANGED <<project, phase, legacy>>
CheckEnds ==
    /\ phase = "session" /\ session.result = "" /\ DOMAIN session.nodes = DOMAIN session.modules
    /\ session' = [session EXCEPT !.result = "ok"]
    /\ UNCHANGED <<project, phase, legacy>>

-----------------------------------------------------------------------------
(* The legacy loader: a frame is a module whose imports are being followed *)

Frame(path) ==
    [path |-> path, imports |-> Imports(path), current |-> Absent, targets |-> <<>>,
     entered |-> FALSE, bindings |-> FreshBindings]
Top(l) == Last(l.stack)
WithTop(l, frame) == [l EXCEPT !.stack = Append(Front(@), frame)]

(* Mutant: a module is marked as loaded only when it is left. *)
LoadParsedUnmarked(l, path, namespace) ==
    LET exports == CollectModuleExports(Decls(path), namespace)
    IN [l EXCEPT !.exports = (path :> exports) @@ @, !.stack = Append(@, Frame(path))]
LoadParsed(l, path, namespace) ==
    LET exports == CollectModuleExports(Decls(path), namespace)
    IN [l EXCEPT !.loading = @ \cup {path}, !.exports = (path :> exports) @@ @,
                 !.namespaces = @ @@ (path :> namespace), !.stack = Append(@, Frame(path))]

BeginLegacy ==
    /\ phase = "session" /\ session.result # ""
    /\ IF project.files[project.entry].broken
       THEN phase' = "end" /\ legacy' = [legacy EXCEPT !.errors = {"syntax"}]
       ELSE phase' = "legacy" /\ legacy' = LoadParsed(legacy, project.entry, "")
    /\ UNCHANGED <<project, session>>

(* A module is called as it was first called, by its own path from there   *)
(* or, imported for a symbol, by that path and the symbol.                 *)
FollowPath(l, frame, n, segments, else, symbol) ==
    LET found == FoundByLegacy(project, frame.path, Dots(n), segments)
        path == IF found = Missing /\ else # <<>>
                THEN FoundByLegacy(project, frame.path, Dots(n), else) ELSE found
        namespace == IF path \in DOMAIN l.namespaces THEN l.namespaces[path] ELSE Joined(segments)
    IN IF path = Missing THEN [l EXCEPT !.errors = @ \cup {"unresolved"}]
       ELSE [l EXCEPT !.namespaces = @ @@ (path :> namespace),
                      !.stack[Len(l.stack)].targets = Append(@, Target(path, namespace, symbol))]
ResolveNextImport ==
    /\ phase = "legacy" /\ legacy.stack # <<>> /\ Top(legacy).targets = <<>> /\ Top(legacy).imports # <<>>
    /\ LET frame == Top(legacy)
           n == Head(frame.imports)
           left == WithTop(legacy, [frame EXCEPT !.imports = Tail(@), !.current = n])
           Follow(l, s) ==
               IF IsRelativeModuleImport(n) THEN FollowPath(l, frame, n, <<s.name>>, <<>>, "")
               ELSE FollowPath(l, frame, n, Append(Segments(n), s.name), Segments(n), s.name)
       IN legacy' = IF IsFrom(n) THEN FoldLeft(Follow, left, n.of[2].of)
                    ELSE FollowPath(left, frame, n, Segments(n), <<>>, "")
    /\ UNCHANGED <<project, phase, session>>

(* A target that is not loaded, and not on the way to be, is loaded first; *)
(* one that cannot be read has no exports and binds nothing.               *)
MustLoad(l, frame) == ~frame.entered /\ Head(frame.targets).path \notin l.loading \cup l.loaded
LoadTarget ==
    /\ phase = "legacy" /\ legacy.stack # <<>> /\ Top(legacy).targets # <<>>
    /\ MustLoad(legacy, Top(legacy))
    /\ LET frame == Top(legacy)
           target == Head(frame.targets)
           entered == WithTop(legacy, [frame EXCEPT !.entered = TRUE])
       IN legacy' = IF project.files[target.path].broken
                    THEN [entered EXCEPT !.errors = @ \cup {"syntax"}]
                    ELSE LoadParsed(entered, target.path, target.namespace)
    /\ UNCHANGED <<project, phase, session>>
BindNext(l) ==
    LET frame == Top(l)
        target == Head(frame.targets)
        bound == BindTarget(frame.bindings, frame.current, target, l.exports[target.path])
        bindings == IF target.path \in DOMAIN l.exports THEN bound ELSE frame.bindings
    IN [WithTop(l, [frame EXCEPT !.targets = Tail(@), !.entered = FALSE, !.bindings = bindings])
          EXCEPT !.errors = IF bindings.missing THEN @ \cup {"missing"} ELSE @]
BindNextTarget ==
    /\ phase = "legacy" /\ legacy.stack # <<>> /\ Top(legacy).targets # <<>>
    /\ ~MustLoad(legacy, Top(legacy))
    /\ legacy' = BindNext(legacy)
    /\ UNCHANGED <<project, phase, session>>

FinishModule ==
    /\ phase = "legacy" /\ legacy.stack # <<>>
    /\ Top(legacy).targets = <<>> /\ Top(legacy).imports = <<>>
    /\ LET path == Top(legacy).path
           isEntry == path = project.entry
           r == Rewritten(NewRewriter(Decls(path), isEntry, legacy.namespaces[path], Top(legacy).bindings, ~isEntry),
                               Decls(path))
       IN legacy' = [legacy EXCEPT !.stack = Front(@), !.loading = @ \ {path}, !.loaded = @ \cup {path},
                        !.errors = IF r.ambiguous = {} THEN @ ELSE @ \cup {"ambiguous"},
                        !.program = @ \o [i \in DOMAIN r.parts |-> r.parts[i] @@ [file |-> path]]]
    /\ UNCHANGED <<project, phase, session>>
EndLegacy ==
    /\ phase = "legacy" /\ legacy.stack = <<>>
    /\ phase' = "end"
    /\ legacy' = [legacy EXCEPT !.errors =
                    IF @ = {} /\ Unknown(legacy.program, {}) # {} THEN {"undefined"} ELSE @]
    /\ UNCHANGED <<project, session>>

-----------------------------------------------------------------------------
Init ==
    /\ project \in Projects
    /\ phase = "session"
    /\ session = [nodes |-> project.entry :> Resolved("project", project.entry), pending |-> <<project.entry>>,
                  table |-> <<>>, modules |-> <<>>, result |-> ""]
    /\ legacy = [stack |-> <<>>, loading |-> {}, loaded |-> {}, namespaces |-> <<>>, exports |-> <<>>,
                 program |-> <<>>, errors |-> {}]

Session == DiscoverModule \/ SortFails \/ CheckNext \/ CheckEnds
Legacy == BeginLegacy \/ ResolveNextImport \/ LoadTarget \/ BindNextTarget \/ FinishModule \/ EndLegacy
Return ==
    /\ phase = "end"
    /\ phase' = "returned"
    /\ UNCHANGED <<project, session, legacy>>
Done == phase = "returned" /\ UNCHANGED vars
Next == Session \/ Legacy \/ Return \/ Done
Spec == Init /\ [][Next]_vars
=============================================================================
