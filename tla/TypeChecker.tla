---------------------------- MODULE TypeChecker ----------------------------
(***************************************************************************)
(* crates/typeck, check.rs: the walk over a program.  An operator takes    *)
(* the checker c, a node n and the path p the node has.                    *)
(***************************************************************************)
EXTENDS TypeInference

Sub(p, i) == Append(p, i)
(* Lists are nodes of their own: the i-th member of the k-th child. *)
Item(p, k, i) == p \o <<k, i>>
Visit(Op(_, _, _), c, n, p) == FoldLeftDomain(LAMBDA d, i : Op(d, n.of[i], Sub(p, i)), c, n.of)

-----------------------------------------------------------------------------
(* Types as they are written *)

PrimitiveNames ==
    [name \in {"i32", "i64", "f64", "bool", "str", "ptr", "void"} |->
        CASE name = "i32" -> I32 [] name = "i64" -> I64 [] name = "f64" -> F64
          [] name = "bool" -> Bool [] name \in {"str", "ptr"} -> Str [] name = "void" -> Unit]
ArrayNames == {"Array", "array"}

ResolveDefinedType(c, name, at) ==
    IF name \in DOMAIN PrimitiveNames THEN Returns(c, PrimitiveNames[name])
    ELSE IF name \in DOMAIN c.structs /\ c.structs[name] \in DOMAIN c.fields THEN Returns(c, c.structs[name])
    ELSE Returns(Report(c, "UnknownType", at), Unknown)
ResolveNamedType(c, name, at) ==
    IF name \in DOMAIN PrimitiveNames THEN Returns(c, PrimitiveNames[name])
    ELSE IF name \in DOMAIN c.structs THEN Returns(c, c.structs[name])
    ELSE Returns(Report(c, "UnknownType", at), Unknown)

RECURSIVE ResolveType(_, _, _)
ResolveType(c, n, p) ==
    LET args == Visit(ResolveType, c, n, p)
        d == CASE n.kind = "named" -> ResolveNamedType(c, n.name, p)
               [] n.kind = "infer" -> FreshInfer(c, "infer")
               [] n.kind = "generic" ->
                    IF n.name \in ArrayNames /\ Len(n.of) = 1 THEN InternArray(args, TypeOf(args, Sub(p, 1)))
                    ELSE Returns(Report(args, "UnknownType", p), Unknown)
    IN Record(d, p, d.ty)

ResolveMember(c, n, p) == LET d == ResolveType(c, n.of[1], Sub(p, 1)) IN Record(d, p, d.ty)
MemberTypes(c, list, p) == [i \in DOMAIN list.of |-> TypeOf(c, Sub(p, i))]

-----------------------------------------------------------------------------
(* collect_top_level: the signatures, before any body *)

(* A first parameter called self has the type of the impl, whatever it says. *)
CollectParam(c, n, p, target) ==
    IF n.name = "self" /\ Last(p) = 1 /\ target # None THEN Record(c, p, target) ELSE ResolveMember(c, n, p)
CollectOpenSignature(c, f, p, target) ==
    LET params == Visit(LAMBDA d, n, q : CollectParam(d, n, q, target), c, f.of[2], Sub(p, 2))
        ret == FreshInfer(params, "infer")
        d == InternFunction(ret, MemberTypes(ret, f.of[2], Sub(p, 2)), ret.ty)
    IN Record(d, p, d.ty)
CollectSignature(c, f, p, target) ==
    LET params == Visit(LAMBDA d, n, q : CollectParam(d, n, q, target), c, f.of[2], Sub(p, 2))
        ret == IF f.of[3] = Absent THEN FreshInfer(params, "infer") ELSE ResolveType(params, f.of[3], Sub(p, 3))
        d == InternFunction(ret, MemberTypes(ret, f.of[2], Sub(p, 2)), ret.ty)
    IN Record(d, p, d.ty)
CollectExtern(c, n, p) ==
    LET params == Visit(ResolveMember, c, n.of[1], Sub(p, 1))
        ret == ResolveType(params, n.of[2], Sub(p, 2))
        d == InternFunction(ret, MemberTypes(ret, n.of[1], Sub(p, 1)), ret.ty)
    IN Insert(Record(d, p, d.ty), n.name, d.ty)
CollectStructShape(c, n, p) ==
    LET d == Visit(ResolveMember, c, n.of[2], Sub(p, 2))
    IN SetStructFields(d, c.structs[n.name],
           [i \in DOMAIN n.of[2].of |-> [name |-> n.of[2].of[i].name, ty |-> TypeOf(d, Item(p, 2, i))]])

ValidateReceiver(c, f, p, target) ==
    IF f.of[2].of # <<>> /\ Root(c, TypeOf(c, Item(p, 2, 1))) = target THEN c
    ELSE Report(c, "InvalidMethodReceiver", p)
CollectMethod(c, f, p, impl, target) ==
    LET d == CollectSignature(c, f, p, target)
    IN [ValidateReceiver(d, f, p, target) EXCEPT !.methods = (<<impl, f.name>> :> d.ty) @@ @]
CollectImpl(c, n, p) ==
    IF n.name \notin DOMAIN c.structs THEN Report(c, "InvalidImplTarget", p)
    ELSE LET target == c.structs[n.name]
         IN Visit(LAMBDA d, f, q : CollectMethod(d, f, q, n.name, target),
                  Record(c, p, target), n.of[2], Sub(p, 2))

IsGeneric(n) == n.kind \in {"func", "struct", "impl"} /\ n.of[1].of # <<>>
ReserveDecl(c, n, p) ==
    IF n.kind # "struct" \/ IsGeneric(n) THEN c
    ELSE LET d == ReserveStruct(c, n.name) IN Record([d EXCEPT !.structs = (n.name :> d.ty) @@ @], p, d.ty)
CollectDecl(c, n, p) ==
    CASE n.kind = "func" /\ IsGeneric(n) -> Record([c EXCEPT !.generics = (n.name :> n) @@ @], p, Unit)
      [] n.kind = "func" /\ ~IsGeneric(n) ->
            LET d == CollectSignature(c, n, p, None) IN Insert(d, n.name, d.ty)
      [] n.kind = "struct" /\ ~IsGeneric(n) -> CollectStructShape(c, n, p)
      [] n.kind = "impl" /\ ~IsGeneric(n) -> CollectImpl(c, n, p)
      [] n.kind = "const" -> LET d == ResolveType(c, n.of[1], Sub(p, 1)) IN Record(d, p, d.ty)
      [] n.kind = "extern" -> CollectExtern(c, n, p)
      [] n.kind = "let" -> c
      [] OTHER -> Record(c, p, Unit)
CollectTopLevel(decls) ==
    LET all == List("program", decls)
    IN Visit(CollectDecl, Visit(ReserveDecl, NewChecker, all, <<>>), all, <<>>)

-----------------------------------------------------------------------------
(* What an expression must be *)

RequireBool(c, ty, at) ==
    IF ResolvedKind(c, ty) \in {"bool", "unknown"} THEN Unify(c, Bool, ty, at)
    ELSE Mismatch(c, "ConditionNotBool", at, Bool, Root(c, ty))
RequireNumeric(c, ty, at) ==
    IF ResolvedKind(c, ty) \in Numerics \cup Infers \cup {"unknown"} THEN Returns(c, ty)
    ELSE Returns(Mismatch(c, "TypeMismatch", at, I32, Root(c, ty)), Unknown)
CanConvert(c, expected, found) == {Root(c, expected), Root(c, found)} = {I32, I64}
CanWiden(c, expected, found) == Root(c, expected) = I64 /\ Root(c, found) = I32

PrintNames ==
    {"print", "println", "eprint", "eprintln",
     "std__io__print", "std__io__println", "std__io__eprint", "std__io__eprintln"}
IsPrintCall(callee) == callee.kind \in {"ident", "field"} /\ callee.name \in PrintNames
PrintableKinds == {"str", "bool", "unknown"} \cup Numerics \cup Infers

(* The method without its receiver. *)
MethodForField(c, object, field) ==
    LET signature == c.kinds[c.methods[<<Resolved(c, object).name, field>>]]
        params == Params(signature)
    IN InternFunction(c, IF params = <<>> THEN <<>> ELSE Tail(params), ReturnType(signature))
HasMethod(c, object, field) ==
    ResolvedKind(c, object) = "struct" /\ <<Resolved(c, object).name, field>> \in DOMAIN c.methods

IsAssignmentTarget(c, n) ==
    \/ n.kind = "ident" /\ IsAssignable(c, n.name)
    \/ n.kind = "field" /\ n.of[1].kind = "ident" /\ IsAssignable(c, n.of[1].name)
RECURSIVE IsConstExpr(_, _)
IsConstExpr(c, n) ==
    \/ n.kind \in LiteralKinds
    \/ n.kind = "ident" /\ n.name \in c.consts
    \/ n.kind \in {"unary", "binary"} /\ \A i \in DOMAIN n.of : IsConstExpr(c, n.of[i])

-----------------------------------------------------------------------------
(* Calls of generic functions *)

TypeParamNames(f) == {f.of[1].of[i].name : i \in DOMAIN f.of[1].of}
RECURSIVE InstantiateTemplate(_, _, _)
InstantiateTemplate(c, n, bindings) ==
    CASE n = Absent -> Returns(c, Unit)
      [] n.kind = "named" ->
            IF n.name \in DOMAIN bindings THEN Returns(c, bindings[n.name])
            ELSE ResolveNamedType(c, n.name, <<>>)
      [] n.kind = "infer" -> FreshInfer(c, "infer")
      [] n.kind = "generic" ->
            LET Arg(d, i) == InstantiateTemplate(d, n.of[i], bindings)
                d == FoldLeftDomain(Arg, c, n.of)
            IN IF n.name \in ArrayNames /\ Len(n.of) = 1 THEN InternArray(d, d.ty) ELSE Returns(d, Unknown)

Satisfies(kind, constraint) ==
    \/ kind \in Numerics
    \/ constraint \in {"Ordered", "Eq"} /\ kind = "str"
    \/ constraint = "Eq" /\ kind = "bool"
(* The first type parameter that stays open or breaks a constraint ends it. *)
SettleTypeParam(c, n, binding, at) ==
    LET d == Default(c, binding)
        kind == Kind(d, d.ty)
    IN IF c.ty = None THEN c
       ELSE IF kind \in Infers \cup {"unknown"} THEN Returns(Report(d, "InferenceFailure", at), None)
       ELSE IF \E i \in DOMAIN n.of : ~Satisfies(kind, n.of[i].name)
       THEN Returns(Mismatch(d, "TypeMismatch", at, I32, d.ty), None)
       ELSE d
RecordInstance(c, f, args, signature) ==
    IF \E i \in DOMAIN c.pending : c.pending[i].name = f.name /\ c.pending[i].args = args THEN c
    ELSE [c EXCEPT !.pending = Append(@, [name |-> f.name, args |-> args, ty |-> signature])]

InstantiateSignature(c, f, bindings) ==
    LET Param(d, i) ==
            LET e == InstantiateTemplate(d.c, f.of[2].of[i].of[1], bindings)
                g == Default(e, e.ty)
            IN [c |-> g, params |-> Append(d.params, g.ty)]
        all == FoldLeftDomain(Param, [c |-> c, params |-> <<>>], f.of[2].of)
        ret == InstantiateTemplate(all.c, f.of[3], bindings)
        d == Default(ret, ret.ty)
    IN InternFunction(d, all.params, d.ty)

-----------------------------------------------------------------------------
(* Expressions *)

RECURSIVE CheckExpr(_, _, _)

Operand(c, n, p, i) == CheckExpr(c, n.of[i], Sub(p, i))
RecordResolved(c, p, ty) == Record(c, p, Root(c, ty))

VisitLiteral(c, n, p) ==
    LET d == CASE n.kind = "int" -> FreshInfer(c, "int") [] n.kind = "float" -> Returns(c, F64)
               [] n.kind = "bool" -> Returns(c, Bool) [] n.kind = "string" -> Returns(c, Str)
    IN Record(d, p, d.ty)
VisitIdent(c, n, p) ==
    IF IsVisible(c, n.name) THEN Record(c, p, Get(c, n.name))
    ELSE Record(Report(c, "UnknownIdentifier", p), p, Unknown)

VisitBinary(c, n, p) ==
    LET left == Operand(c, n, p, 1)
        right == Operand(left, n, p, 2)
        Both(Require(_, _, _)) == Require(Require(right, left.ty, Sub(p, 1)), right.ty, Sub(p, 2))
    IN CASE n.name \in {"+", "-", "*", "/", "%"} ->
              LET d == Unify(Both(RequireNumeric), left.ty, right.ty, p) IN RecordResolved(d, p, d.ty)
         [] n.name \in {"==", "!=", "<", "<=", ">", ">="} ->
              Record(Unify(right, left.ty, right.ty, p), p, Bool)
         [] n.name \in {"and", "or"} -> Record(Both(RequireBool), p, Bool)
VisitUnary(c, n, p) ==
    LET d == Operand(c, n, p, 1)
    IN IF n.name = "not" THEN Record(RequireBool(d, d.ty, Sub(p, 1)), p, Bool)
       ELSE RecordResolved(RequireNumeric(d, d.ty, Sub(p, 1)), p, d.ty)

VisitField(c, n, p) ==
    LET d == Operand(c, n, p, 1)
        kind == ResolvedKind(d, d.ty)
        fields == d.fields[Root(d, d.ty)]
        named == {i \in DOMAIN fields : fields[i].name = n.name}
    IN CASE kind = "unknown" -> Record(d, p, Unknown)
         [] kind = "struct" ->
              IF named = {} THEN Record(Report(d, "UnknownField", p), p, Unknown)
              ELSE Record(d, p, fields[CHOOSE i \in named : \A j \in named : i <= j].ty)
         [] OTHER -> Record(Report(d, "NotFieldAccessible", Sub(p, 1)), p, Unknown)
(* An unusable object is reported only when nothing in it was. *)
VisitIndex(c, n, p) ==
    LET object == Operand(c, n, p, 1)
        index == Operand(object, n, p, 2)
        d == Unify(index, I32, index.ty, Sub(p, 2))
        kind == ResolvedKind(d, object.ty)
    IN IF kind = "array" THEN Record(d, p, Resolved(d, object.ty).of[1])
       ELSE IF kind = "unknown" \/ Len(d.errors) > Len(c.errors) THEN Record(d, p, Unknown)
       ELSE Record(Report(d, "NotIndexable", Sub(p, 1)), p, Unknown)
VisitAssign(c, n, p) ==
    LET target == Operand(c, n, p, 1)
        value == Operand(target, n, p, 2)
        checked == IF IsAssignmentTarget(value, n.of[1]) \/ Len(value.errors) > Len(c.errors) THEN value
                   ELSE Report(value, "InvalidAssignmentTarget", p)
        d == Unify(checked, target.ty, value.ty, p)
    IN RecordResolved(d, p, d.ty)

VisitPrintCall(c, n, p) ==
    LET callee == Operand(c, n, p, 1)
        arg == Operand(callee, n, p, 2)
    IN IF Len(n.of) # 2 THEN Record(Report(callee, "ArgumentCountMismatch", p), p, Unknown)
       ELSE IF ResolvedKind(arg, arg.ty) \notin PrintableKinds
       THEN Record(Mismatch(arg, "TypeMismatch", Sub(p, 2), Str, Root(arg, arg.ty)), p, Unknown)
       ELSE Record(arg, p, Unit)

CheckArgument(c, n, p, i, expected) ==
    LET d == Operand(c, n, p, i)
    IN IF CanWiden(d, expected, d.ty) THEN d ELSE Unify(d, expected, d.ty, Sub(p, i))
CheckArguments(c, n, p, signature) ==
    LET params == Params(signature)
        counted == IF Len(params) = Len(n.of) - 1 THEN c ELSE Report(c, "ArgumentCountMismatch", p)
        Arg(d, i) == IF i < Len(n.of) THEN CheckArgument(d, n, p, i + 1, params[i]) ELSE d
    IN Record(FoldLeftDomain(Arg, counted, params), p, ReturnType(signature))

InstantiateGeneric(c, n, p, f) ==
    LET params == f.of[2].of
        counted == IF Len(params) = Len(n.of) - 1 THEN c ELSE Report(c, "ArgumentCountMismatch", p)
        Variable(d, i) == FreshInfer(d, "infer")
        open == FoldLeftDomain(Variable, counted, f.of[1].of)
        first(name) == CHOOSE i \in DOMAIN f.of[1].of :
            f.of[1].of[i].name = name /\ \A j \in 1 .. i - 1 : f.of[1].of[j].name # name
        bindings == [name \in TypeParamNames(f) |-> Len(counted.kinds) + first(name)]
        Arg(d, i) ==
            IF i >= Len(n.of) THEN d
            ELSE LET e == InstantiateTemplate(d, params[i].of[1], bindings)
                     g == Operand(e, n, p, i + 1)
                 IN Unify(g, e.ty, g.ty, Sub(p, i + 1))
        Settle(d, i) == SettleTypeParam(d, f.of[1].of[i], bindings[f.of[1].of[i].name], p)
        settled == FoldLeftDomain(Settle, Returns(FoldLeftDomain(Arg, open, params), Unit), f.of[1].of)
        args == [i \in DOMAIN f.of[1].of |-> Root(settled, bindings[f.of[1].of[i].name])]
        d == InstantiateSignature(settled, f, [name \in TypeParamNames(f) |-> args[first(name)]])
    IN IF settled.ty = None THEN Record(settled, p, Unknown)
       ELSE Record(Record(RecordInstance(d, f, args, d.ty), Sub(p, 1), d.ty), p, ReturnType(d.kinds[d.ty]))

(* A callee that is no method is checked as an expression, so that the     *)
(* object of a field that is no method either is checked twice.            *)
VisitOtherCall(c, n, p) ==
    LET d == Operand(c, n, p, 1)
    IN IF ResolvedKind(d, d.ty) = "function" THEN CheckArguments(d, n, p, Resolved(d, d.ty))
       ELSE Record(IF Len(d.errors) > Len(c.errors) THEN d ELSE Report(d, "NotCallable", Sub(p, 1)), p, Unknown)
VisitFieldCall(c, n, p) ==
    LET callee == n.of[1]
        object == Operand(c, callee, Sub(p, 1), 1)
        method == MethodForField(object, object.ty, callee.name)
    IN IF HasMethod(object, object.ty, callee.name)
       THEN CheckArguments(Record(method, Sub(p, 1), method.ty), n, p, Resolved(method, method.ty))
       ELSE VisitOtherCall(object, n, p)
VisitCall(c, n, p) ==
    LET callee == n.of[1]
    IN IF callee.kind = "ident" /\ callee.name \in DOMAIN c.generics
       THEN InstantiateGeneric(c, n, p, c.generics[callee.name])
       ELSE IF IsPrintCall(callee) THEN VisitPrintCall(c, n, p)
       ELSE IF callee.kind = "field" THEN VisitFieldCall(c, n, p)
       ELSE VisitOtherCall(c, n, p)

CheckExpr(c, n, p) ==
    CASE n.kind \in LiteralKinds -> VisitLiteral(c, n, p)
      [] n.kind = "ident" -> VisitIdent(c, n, p)
      [] n.kind = "binary" -> VisitBinary(c, n, p)
      [] n.kind = "unary" -> VisitUnary(c, n, p)
      [] n.kind = "call" -> VisitCall(c, n, p)
      [] n.kind = "field" -> VisitField(c, n, p)
      [] n.kind = "index" -> VisitIndex(c, n, p)
      [] n.kind = "assign" -> VisitAssign(c, n, p)

-----------------------------------------------------------------------------
(* Statements *)

RECURSIVE VisitStmt(_, _, _)
VisitBlock(c, n, p) == Record(PopScope(Visit(VisitStmt, PushScope(c), n, p)), p, Unit)

(* A declared `_`, and an initializer that is still open, must be settled  *)
(* by the declaration itself; without a declared type the rest is an i32.  *)
BindDeclared(c, n, p, declared, inferred) ==
    LET unified == Unify(c, declared, inferred, p)
        resolved == Root(unified, unified.ty)
        open == Infers \cap {Kind(c, declared), Kind(c, inferred)} # {}
        fails == open /\ Kind(unified, resolved) \in Infers \cup {"unknown"}
        d == IF fails THEN Report(unified, "InferenceFailure", p) ELSE unified
    IN Returns(d, IF fails THEN Unknown ELSE resolved)
VisitLet(c, n, p) ==
    LET declared == IF n.of[1] = Absent THEN c ELSE ResolveType(c, n.of[1], Sub(p, 1))
        value == CheckExpr(declared, n.of[2], Sub(p, 2))
        d == IF n.of[1] = Absent THEN Default(value, value.ty)
             ELSE BindDeclared(value, n, p, declared.ty, value.ty)
    IN InsertAssignable(Record(d, p, d.ty), n.name, d.ty)

(* A return outside of a body does not parse; inside an intent or a flow   *)
(* it carries no value, and the value is not looked at.                    *)
VisitReturn(c, n, p) ==
    LET expected == Last(c.returns)
        hasValue == n.of[1] # Absent
        d == IF hasValue THEN CheckExpr(c, n.of[1], Sub(p, 1)) ELSE Returns(c, Unit)
        e == Unify(d, expected, d.ty, p)
        known == "unknown" \notin {ResolvedKind(d, expected), ResolvedKind(d, d.ty)}
        wrong == ResolvedKind(e, e.ty) = "unknown"
    IN IF hasValue /\ ~Last(c.valueReturn) THEN Record(Report(c, "InvalidControlFlow", p), p, Unit)
       ELSE IF ~known THEN Record(d, p, expected)
       ELSE IF ~wrong THEN Record(e, p, expected)
       ELSE Record(Mismatch(e, "ReturnTypeMismatch", p, Root(d, expected), Root(d, d.ty)), p, expected)

VisitIf(c, n, p) ==
    LET condition == Operand(c, n, p, 1)
        then == VisitBlock(RequireBool(condition, condition.ty, Sub(p, 1)), n.of[2], Sub(p, 2))
    IN Record(IF n.of[3] = Absent THEN then ELSE VisitBlock(then, n.of[3], Sub(p, 3)), p, Unit)
VisitLoopBody(c, n, p) ==
    LET d == VisitBlock([c EXCEPT !.loops = @ + 1], n, p) IN [d EXCEPT !.loops = @ - 1]
VisitWhile(c, n, p) ==
    LET condition == Operand(c, n, p, 1)
    IN Record(VisitLoopBody(RequireBool(condition, condition.ty, Sub(p, 1)), n.of[2], Sub(p, 2)), p, Unit)
VisitFor(c, n, p) ==
    LET iterator == Operand(c, n, p, 1)
        kind == ResolvedKind(iterator, iterator.ty)
        d == IF kind \in {"array", "unknown"} THEN iterator ELSE Report(iterator, "NotIndexable", Sub(p, 1))
        element == IF kind = "array" THEN Resolved(iterator, iterator.ty).of[1] ELSE Unknown
        body == VisitLoopBody(InsertAssignable(PushScope(d), n.name, element), n.of[2], Sub(p, 2))
    IN Record(PopScope(body), p, Unit)
VisitJump(c, n, p) ==
    Record(IF c.loops = 0 THEN Report(c, "InvalidControlFlow", p) ELSE c, p, Unit)

VisitStmt(c, n, p) ==
    CASE n.kind = "let" -> VisitLet(c, n, p)
      [] n.kind = "do" -> LET d == CheckExpr(c, n.of[1], Sub(p, 1)) IN Record(d, p, d.ty)
      [] n.kind = "return" -> VisitReturn(c, n, p)
      [] n.kind = "if" -> VisitIf(c, n, p)
      [] n.kind = "while" -> VisitWhile(c, n, p)
      [] n.kind = "for" -> VisitFor(c, n, p)
      [] n.kind \in {"break", "continue"} -> VisitJump(c, n, p)

-----------------------------------------------------------------------------
(* Declarations *)

EnterBody(c, ret, valueReturn) ==
    [PushScope(c) EXCEPT !.returns = Append(@, ret), !.valueReturn = Append(@, valueReturn)]
LeaveBody(c) == [PopScope(c) EXCEPT !.returns = Front(@), !.valueReturn = Front(@)]

VisitFunc(c, f, p) ==
    LET signature == c.kinds[TypeOf(c, p)]
        Param(d, i) ==
            InsertAssignable(Record(d, Item(p, 2, i), signature.of[i]), f.of[2].of[i].name, signature.of[i])
        inside == EnterBody(c, ReturnType(signature), TRUE)
        count == IF Len(Params(signature)) < Len(f.of[2].of) THEN Len(Params(signature)) ELSE Len(f.of[2].of)
    IN LeaveBody(VisitBlock(FoldLeftDomain(Param, inside, SubSeq(f.of[2].of, 1, count)), f.of[4], Sub(p, 4)))
VisitConst(c, n, p) ==
    LET declared == ResolveType(c, n.of[1], Sub(p, 1))
        value == CheckExpr(declared, n.of[2], Sub(p, 2))
        constant == IF IsConstExpr(value, n.of[2]) THEN value
                    ELSE Report(value, "InvalidConstInitializer", Sub(p, 2))
        d == Unify(constant, declared.ty, value.ty, p)
        ty == Root(d, d.ty)
    IN [Insert(Record(d, p, ty), n.name, ty) EXCEPT !.consts = @ \cup {n.name}]
VisitStruct(c, n, p) == Visit(ResolveMember, Record(c, p, c.structs[n.name]), n.of[2], Sub(p, 2))
(* A method is looked up by its name: of two with one name, the last one's *)
(* signature serves both.                                                  *)
VisitMethod(c, f, p, impl) ==
    LET target == IF impl \in DOMAIN c.structs THEN c.structs[impl] ELSE Unknown
        known == <<impl, f.name>> \in DOMAIN c.methods
        d == IF known THEN Returns(c, c.methods[<<impl, f.name>>]) ELSE CollectSignature(c, f, p, target)
    IN VisitFunc(Record(d, p, d.ty), f, p)
VisitImpl(c, n, p) == Visit(LAMBDA d, f, q : VisitMethod(d, f, q, n.name), c, n.of[2], Sub(p, 2))
VisitIntent(c, n, p) ==
    LET constraints == Visit(CheckExpr, EnterBody(c, Unit, FALSE), n.of[1], Sub(p, 1))
    IN Record(LeaveBody(VisitBlock(constraints, n.of[2], Sub(p, 2))), p, Unit)
VisitStage(c, n, p) == Record(VisitBlock(c, n.of[1], Sub(p, 1)), p, Unit)
VisitFlow(c, n, p) ==
    LET stages == Visit(VisitStage, EnterBody(c, Unit, FALSE), n.of[1], Sub(p, 1))
        all == IF n.of[2] = Absent THEN stages ELSE VisitBlock(stages, n.of[2], Sub(p, 2))
    IN Record(LeaveBody(all), p, Unit)

VisitDecl(c, n, p) ==
    CASE IsGeneric(n) -> Record(Report(c, "UnsupportedFeature", p), p, Unit)
      [] n.kind = "func" /\ ~IsGeneric(n) -> VisitFunc(c, n, p)
      [] n.kind = "let" -> VisitLet(Report(c, "UnsupportedFeature", p), n, p)
      [] n.kind = "const" -> VisitConst(c, n, p)
      [] n.kind = "struct" /\ ~IsGeneric(n) -> VisitStruct(c, n, p)
      [] n.kind = "impl" /\ ~IsGeneric(n) -> VisitImpl(c, n, p)
      [] n.kind = "extern" -> Record(c, p, Get(c, n.name))
      [] n.kind = "intent" -> VisitIntent(c, n, p)
      [] n.kind = "flow" -> VisitFlow(c, n, p)
      [] n.kind \in {"import", "from"} -> Record(c, p, Unit)

-----------------------------------------------------------------------------
(* After the walk *)

FinalizeNothing(c) == c
FinalizeTable(c) ==
    [c EXCEPT !.table = [q \in DOMAIN @ |->
        IF ResolvedKind(c, @[q]) \in Infers THEN I32 ELSE Root(c, @[q])]]

(* check_generic_instantiation: a walk of its own over the body, with an   *)
(* empty table and nothing unified; what it leaves is put back after it.   *)
CheckInstance(c, n, p, request) ==
    LET signature == c.kinds[request.ty]
        fresh == [c EXCEPT !.table = <<>>, !.parents = [t \in DOMAIN @ |-> t],
                           !.returns = <<ReturnType(signature)>>, !.valueReturn = <<TRUE>>,
                           !.scopes = Append(@, <<>>)]
        Param(d, i) ==
            Record(Record(Insert(d, n.of[2].of[i].name, signature.of[i]), Item(p, 2, i), signature.of[i]),
                   Sub(Item(p, 2, i), 1), signature.of[i])
        typed == FoldLeftDomain(Param, Record(fresh, p, request.ty), n.of[2].of)
        returned == IF n.of[3] = Absent THEN typed ELSE Record(typed, Sub(p, 3), ReturnType(signature))
        body == FinalizeTable(VisitBlock(returned, n.of[4], Sub(p, 4)))
        instance == [name |-> n.name, args |-> request.args, ty |-> request.ty, table |-> body.table]
    IN [body EXCEPT !.table = c.table, !.scopes = c.scopes,
                    !.returns = c.returns, !.valueReturn = c.valueReturn,
                    !.parents = [t \in DOMAIN @ |-> IF t \in DOMAIN c.parents THEN c.parents[t] ELSE t],
                    !.instances = IF body.errors = c.errors THEN Append(@, instance) ELSE @]

RECURSIVE ReturnSites(_, _)
(* The paths of the return statements of a block, in the order of the text. *)
ReturnSites(n, p) ==
    LET Site(sites, i) == sites \o ReturnSites(n.of[i], Sub(p, i))
    IN CASE n.kind = "return" -> <<[at |-> p, value |-> n.of[1]]>>
         [] n.kind \in {"block", "if", "while", "for"} -> FoldLeftDomain(Site, <<>>, n.of)
         [] OTHER -> <<>>
RECURSIVE GuaranteesReturn(_)
GuaranteesReturn(n) ==
    \/ n.kind = "return"
    \/ n.kind = "block" /\ n.of # <<>> /\ GuaranteesReturn(Last(n.of))
    \/ n.kind = "if" /\ GuaranteesReturn(n.of[2]) /\ GuaranteesReturn(n.of[3])

(* infer_function_return_type over the settled return sites: the first one *)
(* is the candidate.                                                       *)
InferReturn(c, sites, types, guaranteed) ==
    LET wrong == {i \in DOMAIN sites : types[i] # types[1]}
        first == CHOOSE i \in wrong : \A j \in wrong : i <= j
    IN CASE sites = <<>> -> Returns(c, Unit)
         [] sites # <<>> /\ wrong # {} ->
              Returns(Mismatch(c, "ReturnTypeMismatch", sites[first].at, types[1], types[first]), Unknown)
         [] OTHER ->
              IF types[1] # Unit /\ ~guaranteed
              THEN Returns(Mismatch(c, "ReturnTypeMismatch", sites[1].at, types[1], Unit), Unknown)
              ELSE Returns(c, types[1])

FinalizeFunction(c, f, p) ==
    LET signature == c.kinds[TypeOf(c, p)]
        sites == ReturnSites(f.of[4], Sub(p, 4))
        SiteType(d, i) ==
            IF sites[i].value = Absent THEN Unit ELSE TypeOf(d, Sub(sites[i].at, 1))
        settled == FoldLeftDomain(LAMBDA d, i : Default(d, SiteType(d, i)), c, sites)
        types == [i \in DOMAIN sites |-> Root(settled, SiteType(settled, i))]
        inferred == InferReturn(settled, sites, types, GuaranteesReturn(f.of[4]))
        unified == Unify(inferred, ReturnType(signature), inferred.ty, p)
        bad == ResolvedKind(unified, unified.ty) = "unknown"
        reported == IF ~bad THEN unified
                    ELSE Mismatch(unified, "ReturnTypeMismatch", p, Root(unified, ReturnType(signature)), inferred.ty)
        d == InternFunction(reported, Params(signature), IF bad THEN inferred.ty ELSE Root(unified, unified.ty))
    IN Insert(Record(d, p, d.ty), f.name, d.ty)
FinalizeUnannotated(c, f, p) == IF f.of[3] # Absent THEN c ELSE FinalizeFunction(c, f, p)
FinalizeMethod(c, f, p, impl) ==
    LET d == FinalizeUnannotated(c, f, p)
    IN [d EXCEPT !.methods = IF f.of[3] # Absent THEN @ ELSE (<<impl, f.name>> :> TypeOf(d, p)) @@ @]
FinalizeDecl(c, n, p) ==
    CASE n.kind = "func" /\ ~IsGeneric(n) -> FinalizeUnannotated(c, n, p)
      [] n.kind = "impl" /\ ~IsGeneric(n) ->
            Visit(LAMBDA d, f, q : FinalizeMethod(d, f, q, n.name), c, n.of[2], Sub(p, 2))
      [] OTHER -> c
FinalizeSignatures(c, decls) == Visit(FinalizeDecl, c, List("program", decls), <<>>)

(* check_pending_monomorphs: one request; the first declaration of its     *)
(* name is checked, and a request that has its instance is passed over.    *)
CheckRequest(c, decls, i) ==
    LET request == c.pending[i]
        same == {d \in DOMAIN decls : decls[d].kind = "func" /\ IsGeneric(decls[d]) /\ decls[d].name = request.name}
        decl == CHOOSE d \in same : \A e \in same : d <= e
        done == \E k \in DOMAIN c.instances :
                    c.instances[k].name = request.name /\ c.instances[k].args = request.args
    IN IF done THEN c ELSE CheckInstance(c, decls[decl], <<decl>>, request)
=============================================================================
