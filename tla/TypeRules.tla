----------------------------- MODULE TypeRules -----------------------------
(***************************************************************************)
(* What it is for a program to be well typed, said without a solver: tau   *)
(* gives every node its type as a term, and the rules below say, node by   *)
(* node, when such an assignment is right.  The names in view are passed   *)
(* down in env: vars, the mutable ones among them, the return type (or     *)
(* NoValue) and whether a loop is around.                                  *)
(***************************************************************************)
EXTENDS SyntaxTree, FiniteSets, SequencesExt

Term(kind, name, of) == [kind |-> kind, name |-> name, of |-> of]
Simple(kind) == Term(kind, "", <<>>)
ArrayOf(element) == Term("array", "", <<element>>)
NoValue == Simple("no value")
NumericTerms == {Simple("i32"), Simple("i64"), Simple("f64")}
PrintableTerms == NumericTerms \cup {Simple("str"), Simple("bool")}

-----------------------------------------------------------------------------
(* What the declarations say *)

Named(decls, kind, name) == {i \in DOMAIN decls : decls[i].kind = kind /\ decls[i].name = name}
Spelled == [i32 |-> "i32", i64 |-> "i64", f64 |-> "f64", bool |-> "bool", str |-> "str", ptr |-> "str", void |-> "unit"]

RECURSIVE Meaning(_, _, _, _)
Meaning(decls, tau, n, p) ==
    CASE n.kind = "infer" -> tau[p]
      [] n.kind = "named" /\ n.name \in DOMAIN Spelled -> Simple(Spelled[n.name])
      [] n.kind = "named" /\ Named(decls, "struct", n.name) # {} -> Term("struct", n.name, <<>>)
      [] n.kind = "generic" /\ n.name \in {"Array", "array"} /\ Len(n.of) = 1 ->
            ArrayOf(Meaning(decls, tau, n.of[1], Append(p, 1)))
      [] OTHER -> NoValue

ParamTerm(decls, tau, f, p, i, self) ==
    IF i = 1 /\ self # NoValue THEN self
    ELSE Meaning(decls, tau, f.of[2].of[i].of[1], p \o <<2, i, 1>>)
FuncTerm(decls, tau, f, p, self) ==
    Term("function", "",
         Append([i \in DOMAIN f.of[2].of |-> ParamTerm(decls, tau, f, p, i, self)],
                IF f.of[3] = Absent THEN Last(tau[p].of) ELSE Meaning(decls, tau, f.of[3], Append(p, 3))))
ExternTerm(decls, tau, n, p) ==
    Term("function", "",
         Append([i \in DOMAIN n.of[1].of |-> Meaning(decls, tau, n.of[1].of[i].of[1], p \o <<1, i, 1>>)],
                Meaning(decls, tau, n.of[2], Append(p, 2))))

(* A constant is in view after its declaration, a function everywhere. *)
GlobalTerm(decls, tau, i) ==
    CASE decls[i].kind = "func" -> FuncTerm(decls, tau, decls[i], <<i>>, NoValue)
      [] decls[i].kind = "extern" -> ExternTerm(decls, tau, decls[i], <<i>>)
      [] decls[i].kind = "const" -> Meaning(decls, tau, decls[i].of[1], <<i, 1>>)
Globals(decls, tau, at) ==
    LET seen == {i \in DOMAIN decls : decls[i].kind \in {"func", "extern"} \/ (decls[i].kind = "const" /\ i < at)}
    IN [name \in {decls[i].name : i \in seen} |->
            GlobalTerm(decls, tau, CHOOSE i \in seen : decls[i].name = name)]
FieldTerm(decls, tau, struct, field) ==
    LET d == CHOOSE i \in Named(decls, "struct", struct) : TRUE
        list == decls[d].of[2].of
        k == CHOOSE i \in DOMAIN list : list[i].name = field
    IN IF \E i \in DOMAIN list : list[i].name = field
       THEN Meaning(decls, tau, list[k].of[1], <<d, 2, k, 1>>) ELSE NoValue
MethodTerm(decls, tau, struct, method) ==
    LET places == {<<i, k>> \in Named(decls, "impl", struct) \X (1 .. 4) :
                       k \in DOMAIN decls[i].of[2].of /\ decls[i].of[2].of[k].name = method}
        at == CHOOSE x \in places : TRUE
        f == decls[at[1]].of[2].of[at[2]]
    IN IF places = {} THEN NoValue
       ELSE FuncTerm(decls, tau, f, <<at[1], 2, at[2]>>, Term("struct", struct, <<>>))

-----------------------------------------------------------------------------
(* Expressions *)

World(decls, tau) == [decls |-> decls, tau |-> tau]
Fits(found, expected) == found = expected \/ (found = Simple("i32") /\ expected = Simple("i64"))
ConstantExpr(n, constants) ==
    LET RECURSIVE Is(_)
        Is(e) == \/ e.kind \in LiteralKinds
                 \/ e.kind = "ident" /\ e.name \in constants
                 \/ e.kind \in {"unary", "binary"} /\ \A i \in DOMAIN e.of : Is(e.of[i])
    IN Is(n)

RECURSIVE TypedExpr(_, _, _, _)
TypedCall(w, e, p, env) ==
    LET t == w.tau
        callee == e.of[1]
        object == t[p \o <<1, 1>>]
        method == MethodTerm(w.decls, t, object.name, callee.name)
        isMethod == callee.kind = "field" /\ object.kind = "struct" /\ method # NoValue
        whole == IF isMethod THEN method.of ELSE t[Append(p, 1)].of
        params == IF isMethod THEN Tail(Front(whole)) ELSE Front(whole)
        args == [i \in 2 .. Len(e.of) |-> t[Append(p, i)]]
    IN /\ \A i \in 2 .. Len(e.of) : TypedExpr(w, e.of[i], Append(p, i), env)
       /\ IF isMethod THEN TypedExpr(w, callee.of[1], p \o <<1, 1>>, env)
          ELSE TypedExpr(w, callee, Append(p, 1), env) /\ t[Append(p, 1)].kind = "function"
       /\ IF callee.kind = "ident" /\ callee.name \in {"print", "println"}
          THEN Len(e.of) = 2 /\ args[2] \in PrintableTerms /\ t[p] = Simple("unit")
          ELSE /\ Len(e.of) = Len(params) + 1
               /\ \A i \in DOMAIN params : Fits(args[i + 1], params[i])
               /\ t[p] = Last(whole)

IsMutable(n, env) ==
    \/ n.kind = "ident" /\ n.name \in env.mutable
    \/ n.kind = "field" /\ n.of[1].kind = "ident" /\ n.of[1].name \in env.mutable

TypedExpr(w, e, p, env) ==
    LET t == w.tau
        T(i) == t[Append(p, i)]
        Parts == \A i \in DOMAIN e.of : TypedExpr(w, e.of[i], Append(p, i), env)
    IN CASE e.kind = "int" -> t[p] \in NumericTerms
         [] e.kind = "float" -> t[p] = Simple("f64")
         [] e.kind = "bool" -> t[p] = Simple("bool")
         [] e.kind = "string" -> t[p] = Simple("str")
         [] e.kind = "ident" -> e.name \in DOMAIN env.vars /\ t[p] = env.vars[e.name]
         [] e.kind = "call" -> TypedCall(w, e, p, env)
         [] e.kind = "unary" ->
              Parts /\ t[p] = T(1) /\ t[p] \in (IF e.name = "not" THEN {Simple("bool")} ELSE NumericTerms)
         [] e.kind = "field" ->
              /\ Parts /\ T(1).kind = "struct"
              /\ t[p] = FieldTerm(w.decls, t, T(1).name, e.name) /\ t[p] # NoValue
         [] e.kind = "index" -> Parts /\ T(2) = Simple("i32") /\ T(1) = ArrayOf(t[p])
         [] e.kind = "assign" -> Parts /\ IsMutable(e.of[1], env) /\ T(1) = T(2) /\ t[p] = T(1)
         [] e.kind = "binary" ->
              /\ Parts /\ T(1) = T(2)
              /\ CASE e.name \in {"+", "-", "*", "/", "%"} -> T(1) \in NumericTerms /\ t[p] = T(1)
                   [] e.name \in {"and", "or"} -> T(1) = Simple("bool") /\ t[p] = T(1)
                   [] OTHER -> t[p] = Simple("bool")

-----------------------------------------------------------------------------
(* Statements and declarations *)

Bound(env, name, term) == [env EXCEPT !.vars = (name :> term) @@ @, !.mutable = @ \cup {name}]

RECURSIVE TypedStmt(_, _, _, _)
(* The names a block has in view before its i-th statement. *)
Before(w, n, p, env, i) ==
    FoldLeftDomain(LAMBDA e, k : IF n.of[k].kind = "let" THEN Bound(e, n.of[k].name, w.tau[Append(p, k)]) ELSE e,
                   env, SubSeq(n.of, 1, i - 1))
TypedBlock(w, n, p, env) ==
    \A i \in DOMAIN n.of : TypedStmt(w, n.of[i], Append(p, i), Before(w, n, p, env, i))
TypedStmt(w, n, p, env) ==
    LET T(i) == w.tau[Append(p, i)]
        E(i) == TypedExpr(w, n.of[i], Append(p, i), env)
        Loop == [env EXCEPT !.loop = TRUE]
        element == T(1).of[1]
    IN CASE n.kind = "let" ->
              /\ E(2) /\ w.tau[p] = T(2)
              /\ n.of[1] # Absent => w.tau[p] = Meaning(w.decls, w.tau, n.of[1], Append(p, 1))
         [] n.kind = "do" -> E(1)
         [] n.kind = "return" ->
              IF n.of[1] = Absent THEN env.ret \in {NoValue, Simple("unit")} ELSE E(1) /\ T(1) = env.ret
         [] n.kind = "if" ->
              /\ E(1) /\ T(1) = Simple("bool") /\ TypedBlock(w, n.of[2], Append(p, 2), env)
              /\ n.of[3] # Absent => TypedBlock(w, n.of[3], Append(p, 3), env)
         [] n.kind = "while" -> E(1) /\ T(1) = Simple("bool") /\ TypedBlock(w, n.of[2], Append(p, 2), Loop)
         [] n.kind = "for" ->
              E(1) /\ T(1).kind = "array" /\ TypedBlock(w, n.of[2], Append(p, 2), Bound(Loop, n.name, element))
         [] n.kind \in {"break", "continue"} -> env.loop

Top(vars, ret) == [vars |-> vars, mutable |-> {}, ret |-> ret, loop |-> FALSE]
RECURSIVE ValueReturned(_), AlwaysReturns(_)
ValueReturned(n) == (n.kind = "return" /\ n.of[1] # Absent) \/ \E i \in DOMAIN n.of : ValueReturned(n.of[i])
AlwaysReturns(n) ==
    CASE n.kind = "return" -> TRUE
      [] n.kind = "block" -> \E i \in DOMAIN n.of : AlwaysReturns(n.of[i])
      [] n.kind = "if" -> AlwaysReturns(n.of[2]) /\ AlwaysReturns(n.of[3])
      [] OTHER -> FALSE

(* A function whose return type is inferred returns on every path. *)
TypedFunc(w, f, p, globals, self) ==
    LET term == FuncTerm(w.decls, w.tau, f, p, self)
        env == FoldLeftDomain(LAMBDA e, i : Bound(e, f.of[2].of[i].name, term.of[i]),
                              Top(globals, Last(term.of)), f.of[2].of)
    IN /\ w.tau[p] = term
       /\ TypedBlock(w, f.of[4], Append(p, 4), env)
       /\ (f.of[3] = Absent /\ Last(term.of) # Simple("unit")) => AlwaysReturns(f.of[4])
TypedDecl(w, i) ==
    LET n == w.decls[i]
        globals == Globals(w.decls, w.tau, i)
        env == Top(globals, NoValue)
        self == Term("struct", n.name, <<>>)
    IN CASE n.kind = "func" -> n.of[1].of = <<>> /\ TypedFunc(w, n, <<i>>, globals, NoValue)
         [] n.kind = "const" ->
              /\ TypedExpr(w, n.of[2], <<i, 2>>, env)
              /\ w.tau[<<i, 2>>] = Meaning(w.decls, w.tau, n.of[1], <<i, 1>>)
              /\ ConstantExpr(n.of[2], {w.decls[k].name : k \in {k \in 1 .. i - 1 : w.decls[k].kind = "const"}})
         [] n.kind = "impl" ->
              \A k \in DOMAIN n.of[2].of : TypedFunc(w, n.of[2].of[k], <<i, 2, k>>, globals, self)
         [] n.kind = "intent" ->
              /\ \A k \in DOMAIN n.of[1].of : TypedExpr(w, n.of[1].of[k], <<i, 1, k>>, env)
              /\ TypedBlock(w, n.of[2], <<i, 2>>, env) /\ ~ValueReturned(n.of[2])
         [] n.kind = "flow" ->
              /\ \A k \in DOMAIN n.of[1].of : TypedBlock(w, n.of[1].of[k].of[1], <<i, 1, k, 1>>, env)
              /\ n.of[2] # Absent => TypedBlock(w, n.of[2], <<i, 2>>, env)
              /\ ~ValueReturned(n)
         [] n.kind = "let" -> FALSE
         [] OTHER -> TRUE
WellTyped(w) == \A i \in DOMAIN w.decls : TypedDecl(w, i)

(* An instance of a generic function: its parameters are the arguments'    *)
(* types wherever a type parameter is written, and cannot be assigned.     *)
TypedInstance(w, d, args, globals) ==
    LET f == w.decls[d]
        term == w.tau[<<d>>]
        Written(n, p) ==
            LET named == {i \in DOMAIN f.of[1].of : n.kind = "named" /\ f.of[1].of[i].name = n.name}
            IN IF named = {} THEN Meaning(w.decls, w.tau, n, p) ELSE args[CHOOSE i \in named : TRUE]
        names == {f.of[2].of[i].name : i \in DOMAIN f.of[2].of}
        params == [name \in names |-> term.of[CHOOSE i \in DOMAIN f.of[2].of : f.of[2].of[i].name = name]]
    IN /\ \A i \in DOMAIN f.of[2].of : term.of[i] = Written(f.of[2].of[i].of[1], <<d, 2, i, 1>>)
       /\ Last(term.of) = IF f.of[3] = Absent THEN Simple("unit") ELSE Written(f.of[3], <<d, 3>>)
       /\ TypedBlock(w, f.of[4], <<d, 4>>, Top(params @@ globals, Last(term.of)))
=============================================================================
