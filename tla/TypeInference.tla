--------------------------- MODULE TypeInference ---------------------------
(***************************************************************************)
(* crates/typeck: the types of a program and what is known of them         *)
(* (types.rs, infer.rs, scope.rs, table.rs).                               *)
(*                                                                         *)
(* A checker is a record; every operator takes one and returns the one     *)
(* after the call, with the type the call returned in `ty`.  A type is an  *)
(* index in `kinds`; `parents` is the union-find over those indices (the   *)
(* path compression of find changes no answer and is left out).  A node of *)
(* the tree is named by its path from the list of declarations.            *)
(***************************************************************************)
EXTENDS SyntaxTree, SequencesExt

-----------------------------------------------------------------------------
(* types.rs: the arena *)

TypeKind(kind, name, of) == [kind |-> kind, name |-> name, of |-> of]
Builtins == [i \in 1 .. 7 |-> TypeKind(<<"unit", "unknown", "i32", "i64", "f64", "bool", "str">>[i], "", <<>>)]
Unit == 1
Unknown == 2
I32 == 3
I64 == 4
F64 == 5
Bool == 6
Str == 7
None == 0

Infers == {"infer", "int"}
Numerics == {"i32", "i64", "f64"}

NewChecker ==
    [kinds |-> Builtins, parents |-> [i \in 1 .. 7 |-> i], ty |-> Unit, endless |-> FALSE,
     scopes |-> << <<>> >>, assignable |-> << {} >>, table |-> <<>>, errors |-> <<>>,
     structs |-> <<>>, fields |-> <<>>, methods |-> <<>>, generics |-> <<>>, consts |-> {},
     pending |-> <<>>, instances |-> <<>>,
     returns |-> <<>>, valueReturn |-> <<>>, loops |-> 0]

Returns(c, ty) == [c EXCEPT !.ty = ty]
PushType(c, kind) ==
    [c EXCEPT !.kinds = Append(@, kind), !.parents = Append(@, Len(@) + 1), !.ty = Len(c.kinds) + 1]
PushTypeUnlessFound(c, kind) ==
    IF \E t \in DOMAIN c.kinds : c.kinds[t] = kind
    THEN Returns(c, CHOOSE t \in DOMAIN c.kinds : c.kinds[t] = kind)
    ELSE PushType(c, kind)
InternArray(c, element) == PushTypeUnlessFound(c, TypeKind("array", "", <<element>>))
(* The return type is the last member of a function type. *)
InternFunction(c, params, ret) == PushTypeUnlessFound(c, TypeKind("function", "", Append(params, ret)))
FreshInfer(c, kind) == PushType(c, TypeKind(kind, "", <<>>))
(* A struct is found by its name alone; its fields are in the checker. *)
ReserveStruct(c, name) ==
    LET found == {t \in DOMAIN c.kinds : c.kinds[t].kind = "struct" /\ c.kinds[t].name = name}
    IN IF found # {} THEN Returns(c, CHOOSE t \in found : TRUE)
       ELSE PushType(c, TypeKind("struct", name, <<>>))
SetStructFields(c, t, fields) == [c EXCEPT !.fields = (t :> fields) @@ @]

Params(signature) == Front(signature.of)
ReturnType(signature) == Last(signature.of)

-----------------------------------------------------------------------------
(* scope.rs, table.rs, and the list of errors *)

PushScope(c) == [c EXCEPT !.scopes = Append(@, <<>>), !.assignable = Append(@, {})]
PopScope(c) ==
    [c EXCEPT !.scopes = IF Len(@) > 1 THEN Front(@) ELSE @,
              !.assignable = IF Len(@) > 1 THEN Front(@) ELSE @]
Insert(c, name, ty) == [c EXCEPT !.scopes[Len(c.scopes)] = (name :> ty) @@ @]
InsertAssignable(c, name, ty) ==
    [Insert(c, name, ty) EXCEPT !.assignable[Len(c.assignable)] = @ \cup {name}]
IsVisible(c, name) == \E i \in DOMAIN c.scopes : name \in DOMAIN c.scopes[i]
Get(c, name) ==
    c.scopes[CHOOSE i \in DOMAIN c.scopes :
        /\ name \in DOMAIN c.scopes[i]
        /\ \A j \in DOMAIN c.scopes : j > i => name \notin DOMAIN c.scopes[j]][name]
IsAssignable(c, name) == \E i \in DOMAIN c.assignable : name \in c.assignable[i]

Record(c, at, ty) == [c EXCEPT !.table = (at :> ty) @@ @, !.ty = ty]
TypeOf(c, at) == IF at \in DOMAIN c.table THEN c.table[at] ELSE Unknown

Mismatch(c, kind, at, expected, found) ==
    [c EXCEPT !.errors = Append(@, [kind |-> kind, at |-> at, expected |-> expected, found |-> found])]
Report(c, kind, at) == Mismatch(c, kind, at, None, None)

-----------------------------------------------------------------------------
(* infer.rs: the solver *)

RECURSIVE Root(_, _)
Root(c, t) == IF c.parents[t] = t THEN t ELSE Root(c, c.parents[t])
UnionBackwards(c, child, parent) == [c EXCEPT !.parents[Root(c, parent)] = Root(c, child)]
Union(c, child, parent) == [c EXCEPT !.parents[Root(c, child)] = Root(c, parent)]

Kind(c, t) == c.kinds[t].kind
Resolved(c, t) == c.kinds[Root(c, t)]
ResolvedKind(c, t) == Resolved(c, t).kind

(* Which variables a type may be put in the place of. *)
Binds(variable, type) ==
    \/ variable.kind = "infer"
    \/ variable.kind = "int" /\ type.kind \in Numerics \cup {"int"}
SameShape(l, r) ==
    /\ l.kind = r.kind /\ l.kind \in {"array", "function", "struct"}
    /\ l.name = r.name /\ Len(l.of) = Len(r.of)

(* open holds the pairs being unified: a pair met again inside itself is   *)
(* met for ever, which the code does on the call stack; the model stops    *)
(* there and says so.                                                      *)
RECURSIVE UnifyIn(_, _, _, _, _)
UnifyIn(c, left, right, at, open) ==
    LET l == Root(c, left)
        r == Root(c, right)
        L == c.kinds[l]
        R == c.kinds[r]
        Part(d, i) == UnifyIn(d, L.of[i], R.of[i], at, open \cup {<<l, r>>})
        Whole(d) == LET e == Union(d, l, r) IN Returns(e, Root(e, l))
    IN CASE l = r -> Returns(c, l)
         [] l # r /\ "unknown" \in {L.kind, R.kind} -> Returns(c, Unknown)
         [] OTHER ->
            IF Binds(L, R) THEN Returns(Union(c, l, r), r)
            ELSE IF Binds(R, L) THEN Returns(Union(c, r, l), l)
            ELSE IF "int" \in {L.kind, R.kind}
            THEN Returns(Mismatch(c, "TypeMismatch", at, IF L.kind = "int" THEN I32 ELSE l,
                                  IF L.kind = "int" THEN r ELSE I32), Unknown)
            ELSE IF ~SameShape(L, R) THEN Returns(Mismatch(c, "TypeMismatch", at, l, r), Unknown)
            ELSE IF <<l, r>> \in open THEN [c EXCEPT !.endless = TRUE, !.ty = Unknown]
            ELSE Whole(FoldLeftDomain(Part, c, L.of))
Unify(c, expected, found, at) == UnifyIn(c, expected, found, at, {})

(* default_inferred_type: what is still open is an i32. *)
Default(c, inferred) ==
    IF ResolvedKind(c, inferred) \in Infers
    THEN Returns(Unify(c, I32, inferred, <<>>), I32)
    ELSE Returns(c, Root(c, inferred))
=============================================================================
