----------------------------- MODULE SyntaxTree -----------------------------
(***************************************************************************)
(* crates/ast: which trees there are.  A node is [kind, name, of, line];   *)
(* what the enums of the crate allow is stated as predicates on nodes.     *)
(* Nodes of the same form are one kind here (a function with and without   *)
(* type parameters), and a sequence of nodes is a node of its own.         *)
(***************************************************************************)
EXTENDS Integers, Sequences

Node(kind, name, of, line) == [kind |-> kind, name |-> name, of |-> of, line |-> line]
Absent == Node("none", "", <<>>, 0)
List(kind, of) == Node(kind, "", of, 0)

Holds(n, kind, arity) == n.kind = kind /\ Len(n.of) = arity
IsListOf(n, kind, Is(_)) == n.kind = kind /\ \A i \in DOMAIN n.of : Is(n.of[i])
OrAbsent(n, Is(_)) == n = Absent \/ Is(n)

-----------------------------------------------------------------------------
RECURSIVE IsType(_), IsExpr(_), IsStmt(_)

IsInferType(t) == t.kind = "infer" /\ t.of = <<>>
IsNamedType(t) == t.kind = "named" /\ t.of = <<>>
IsGenericType(t) == t.kind = "generic" /\ \A i \in DOMAIN t.of : IsType(t.of[i])
IsType(t) == IsInferType(t) \/ IsNamedType(t) \/ IsGenericType(t)
IsConstraint(c) == c.kind = "constraint" /\ c.name \in {"Ordered", "Eq", "Numeric"}
IsTypeParam(t) == IsListOf(t, "typeparam", IsConstraint)
IsTypeParams(n) == IsListOf(n, "typeparams", IsTypeParam)

-----------------------------------------------------------------------------
BinOps == {"or", "and", "+", "-", "*", "/", "%", "==", "!=", "<", "<=", ">", ">="}
UnaryOps == {"-", "not"}
LiteralKinds == {"int", "float", "bool", "string"}

IsBinary(e) == Holds(e, "binary", 2) /\ e.name \in BinOps /\ IsExpr(e.of[1]) /\ IsExpr(e.of[2])
IsUnary(e) == Holds(e, "unary", 1) /\ e.name \in UnaryOps /\ IsExpr(e.of[1])
IsCall(e) == e.kind = "call" /\ e.of # <<>> /\ \A i \in DOMAIN e.of : IsExpr(e.of[i])
IsFieldAccess(e) == Holds(e, "field", 1) /\ IsExpr(e.of[1])
IsIndex(e) == Holds(e, "index", 2) /\ IsExpr(e.of[1]) /\ IsExpr(e.of[2])
IsAssign(e) == Holds(e, "assign", 2) /\ IsExpr(e.of[1]) /\ IsExpr(e.of[2])
IsIdent(e) == Holds(e, "ident", 0)
IsLiteral(e) == e.kind \in LiteralKinds /\ e.of = <<>>
IsExpr(e) ==
    \/ IsBinary(e) \/ IsUnary(e) \/ IsCall(e) \/ IsFieldAccess(e)
    \/ IsIndex(e) \/ IsAssign(e) \/ IsIdent(e) \/ IsLiteral(e)

-----------------------------------------------------------------------------
IsBlock(n) == IsListOf(n, "block", IsStmt)
IsLet(n) == Holds(n, "let", 2) /\ OrAbsent(n.of[1], IsType) /\ IsExpr(n.of[2])
IsExprStmt(n) == Holds(n, "do", 1) /\ IsExpr(n.of[1])
IsReturn(n) == Holds(n, "return", 1) /\ OrAbsent(n.of[1], IsExpr)
IsIf(n) == Holds(n, "if", 3) /\ IsExpr(n.of[1]) /\ IsBlock(n.of[2]) /\ OrAbsent(n.of[3], IsBlock)
IsWhile(n) == Holds(n, "while", 2) /\ IsExpr(n.of[1]) /\ IsBlock(n.of[2])
IsFor(n) == Holds(n, "for", 2) /\ IsExpr(n.of[1]) /\ IsBlock(n.of[2])
IsJump(n) == n.kind \in {"break", "continue"} /\ n.of = <<>>
IsStmt(n) == IsLet(n) \/ IsExprStmt(n) \/ IsReturn(n) \/ IsIf(n) \/ IsWhile(n) \/ IsFor(n) \/ IsJump(n)

-----------------------------------------------------------------------------
IsParam(n) == Holds(n, "param", 1) /\ IsType(n.of[1])
IsParams(n) == IsListOf(n, "params", IsParam)
IsField(n) == Holds(n, "member", 1) /\ IsType(n.of[1])
IsFunc(n) ==
    /\ Holds(n, "func", 4)
    /\ IsTypeParams(n.of[1]) /\ IsParams(n.of[2]) /\ OrAbsent(n.of[3], IsType) /\ IsBlock(n.of[4])
IsConst(n) == Holds(n, "const", 2) /\ IsType(n.of[1]) /\ IsExpr(n.of[2])
IsStruct(n) == Holds(n, "struct", 2) /\ IsTypeParams(n.of[1]) /\ IsListOf(n.of[2], "fields", IsField)
IsMethod(n) == IsFunc(n) /\ n.of[1].of = <<>>
IsImpl(n) == Holds(n, "impl", 2) /\ IsTypeParams(n.of[1]) /\ IsListOf(n.of[2], "methods", IsMethod)
IsExtern(n) == Holds(n, "extern", 2) /\ IsParams(n.of[1]) /\ IsType(n.of[2])
IsIntent(n) == Holds(n, "intent", 2) /\ IsListOf(n.of[1], "constraints", IsExpr) /\ IsBlock(n.of[2])
IsStage(n) == Holds(n, "stage", 1) /\ IsBlock(n.of[1])
IsFlow(n) == Holds(n, "flow", 2) /\ IsListOf(n.of[1], "stages", IsStage) /\ OrAbsent(n.of[2], IsBlock)
IsImportSymbol(n) == Holds(n, "symbol", 1)
IsImportDecl(n) ==
    /\ n.kind \in {"import", "from"} /\ Len(n.of) = 3 /\ n.of[1].kind = "path"
    /\ n.kind = "from" => IsListOf(n.of[2], "names", IsImportSymbol)
IsDecl(n) ==
    \/ IsFunc(n) \/ IsLet(n) \/ IsConst(n) \/ IsStruct(n) \/ IsImpl(n)
    \/ IsImportDecl(n) \/ IsExtern(n) \/ IsIntent(n) \/ IsFlow(n)
=============================================================================
