---------------------------- MODULE NameRewriter ----------------------------
(***************************************************************************)
(* pipeline.rs: what a module exports, and the rewriting of its names to   *)
(* the names the linker sees.                                              *)
(*                                                                         *)
(* A rewriter is a record; every operator takes one and returns the one    *)
(* after the call, with the rewritten node in `out`.  Node ids and spans   *)
(* are left out, and the text of a symbol stands for the symbol.           *)
(***************************************************************************)
EXTENDS SyntaxTree, SequencesExt

LOCAL R == INSTANCE ModuleResolution

IoNames == {"print", "println", "eprint", "eprintln", "flush"}
TopLevelKinds == {"func", "let", "const", "struct", "intent", "flow"}
IsImport(n) == n.kind \in {"import", "from"}

TopLevelSymbols(decls) == {decls[i].name : i \in {j \in DOMAIN decls : decls[j].kind \in TopLevelKinds}}
CollectModuleExports(decls, namespace) ==
    [name \in TopLevelSymbols(decls) |-> R!Qualified(namespace, name)]

NoBindings == [aliases |-> <<>>, direct |-> <<>>, all |-> <<>>]
(* Of a name bound twice the later binding stands; the surfaces of         *)
(* `include all` are kept side by side.                                    *)
BindAlias(b, alias, namespace) == [b EXCEPT !.aliases = (alias :> namespace) @@ @]
BindSymbol(b, name, qualified) == [b EXCEPT !.direct = (name :> qualified) @@ @]
BindAll(b, exports) ==
    [b EXCEPT !.all = [name \in DOMAIN @ \cup DOMAIN exports |->
        (IF name \in DOMAIN @ THEN @[name] ELSE <<>>)
        \o (IF name \in DOMAIN exports THEN <<exports[name]>> ELSE <<>>)]]

(* ModuleRewriter::new: the entry keeps its names.  isForeign says that    *)
(* the symbols of the module are numbers of another table than the         *)
(* program's.                                                              *)
NewRewriter(decls, isEntry, namespace, bindings, isForeign) ==
    [own |-> IF isEntry THEN <<>> ELSE [name \in TopLevelSymbols(decls) |-> namespace \o "__" \o name],
     aliases |-> bindings.aliases, direct |-> bindings.direct, all |-> bindings.all,
     isForeign |-> isForeign, scopes |-> <<>>, ambiguous |-> {}, out |-> Absent, parts |-> <<>>]

Out(r, n) == [r EXCEPT !.out = n]
PushScope(r) == [r EXCEPT !.scopes = Append(@, {})]
PopScope(r) == [r EXCEPT !.scopes = Front(@)]
DefineLocal(r, name) == IF r.scopes = <<>> THEN r ELSE [r EXCEPT !.scopes[Len(r.scopes)] = @ \cup {name}]
IsLocal(r, name) == \E i \in DOMAIN r.scopes : name \in r.scopes[i]

RenameTopLevelSymbol(r, name) == IF name \in DOMAIN r.own THEN r.own[name] ELSE name

(* A name that several surfaces of `include all` hold is an error where it *)
(* is used.                                                                *)
RewriteIdentifier(r, n) ==
    LET x == n.name
        To(name) == Out(r, [n EXCEPT !.name = name])
    IN IF IsLocal(r, x) THEN Out(r, n)
       ELSE IF x \in DOMAIN r.own THEN To(r.own[x])
       ELSE IF x \in DOMAIN r.direct THEN To(r.direct[x])
       ELSE IF x \notin DOMAIN r.all THEN Out(r, n)
       ELSE IF Len(r.all[x]) = 1 THEN To(r.all[x][1])
       ELSE [Out(r, n) EXCEPT !.ambiguous = @ \cup {x}]

(* The symbol of an io function is not taken over into the program's       *)
(* table: in a foreign module its number means whatever that table has     *)
(* there.                                                                  *)
IoSymbol(r, field) == IF r.isForeign THEN "stray " \o field ELSE field

-----------------------------------------------------------------------------
RECURSIVE Rewrite(_, _)

RewriteParts(r, nodes) ==
    FoldLeft(LAMBDA done, n : LET d == Rewrite(done, n) IN [d EXCEPT !.parts = Append(done.parts, d.out)],
             [r EXCEPT !.parts = <<>>], nodes)
Rebuild(r, n, name) ==
    LET d == RewriteParts(r, n.of)
    IN Out(d, [n EXCEPT !.name = name, !.of = d.parts])
RebuildInScope(r, n, name) == PopScope(Rebuild(PushScope(r), n, name))

RewriteLet(r, n) == DefineLocal(Rebuild(r, n, n.name), n.name)
RewriteFunc(r, n) ==
    LET params == n.of[2].of
        inside == FoldLeft(LAMBDA d, p : DefineLocal(d, p.name), PushScope(r), params)
    IN PopScope(Rebuild(inside, n, RenameTopLevelSymbol(r, n.name)))
(* Mutant: the binding is not a local of the body. *)
RewriteForOpen(r, n) == Rebuild(r, n, n.name)
RewriteFor(r, n) ==
    LET iterator == Rewrite(r, n.of[1])
        body == Rewrite(DefineLocal(PushScope(iterator), n.name), n.of[2])
    IN Out(PopScope(body), [n EXCEPT !.of = <<iterator.out, body.out>>])

(* base.field with a base that is no local: an io function whatever the    *)
(* base is, else a name of the module the base is an alias of.             *)
RewriteFieldAccess(r, n) ==
    LET base == n.of[1]
        Ident(name) == Out(r, Node("ident", name, <<>>, n.line))
    IN IF base.kind # "ident" \/ IsLocal(r, base.name) THEN Rebuild(r, n, n.name)
       ELSE IF n.name \in IoNames THEN Ident(IoSymbol(r, n.name))
       ELSE IF base.name \in DOMAIN r.aliases THEN Ident(r.aliases[base.name] \o "__" \o n.name)
       ELSE Rebuild(r, n, n.name)

Rewrite(r, n) ==
    CASE n.kind = "let" -> RewriteLet(r, n)
      [] n.kind = "func" -> RewriteFunc(r, n)
      [] n.kind = "for" -> RewriteFor(r, n)
      [] n.kind = "block" -> RebuildInScope(r, n, n.name)
      [] n.kind = "ident" -> RewriteIdentifier(r, n)
      [] n.kind = "field" -> RewriteFieldAccess(r, n)
      [] n.kind \in {"named", "generic"} -> Rebuild(r, n, RenameTopLevelSymbol(r, n.name))
      [] OTHER -> Rebuild(r, n, n.name)

RewriteDecl(r, n) ==
    CASE n.kind = "func" -> RewriteFunc(r, n)
      [] n.kind \in {"intent", "flow"} -> RebuildInScope(r, n, RenameTopLevelSymbol(r, n.name))
      [] n.kind = "extern" -> Rebuild(r, n, n.name)
      [] OTHER -> Rebuild(r, n, RenameTopLevelSymbol(r, n.name))

(* The declarations but the imports, under their places in the file. *)
RewriteProgram(r, decls) ==
    LET step(done, i) ==
            LET d == RewriteDecl(done, decls[i])
            IN IF IsImport(decls[i]) THEN done
               ELSE [d EXCEPT !.parts = Append(done.parts, [at |-> i, decl |-> d.out])]
    IN FoldLeftDomain(step, [r EXCEPT !.parts = <<>>], decls)
=============================================================================
