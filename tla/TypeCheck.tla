----------------------------- MODULE TypeCheck -----------------------------
(***************************************************************************)
(* TypeChecker::check over one program: the signatures, every declaration  *)
(* in turn, the requested instances of generic functions, the inferred     *)
(* return types.                                                           *)
(***************************************************************************)
EXTENDS TypeChecker

CONSTANT Programs
(* The parts of the walk are parameters, CollectTopLevel, VisitDecl,       *)
(* CheckRequest and Conclude in the configuration: TLC expands whatever an *)
(* action calls before it starts, and stops at a parameter.                *)
CONSTANTS
    Collected(_),         \* the checker that knows the signatures of a program
    Visited(_, _, _),     \* the checker after a declaration
    WithInstance(_, _, _),\* the checker after the n-th requested instance
    Concluded(_, _)       \* the checker at the end

VARIABLES decls, phase, next, checker
vars == <<decls, phase, next, checker>>

R == INSTANCE TypeRules

-----------------------------------------------------------------------------
Init ==
    /\ decls \in Programs
    /\ phase = "collect" /\ next = 1 /\ checker = NewChecker

Collect ==
    /\ phase = "collect"
    /\ phase' = "declarations" /\ checker' = Collected(decls)
    /\ UNCHANGED <<decls, next>>

CheckDecl ==
    /\ phase = "declarations" /\ next \in DOMAIN decls /\ ~checker.endless
    /\ checker' = Visited(checker, decls[next], <<next>>)
    /\ next' = next + 1
    /\ UNCHANGED <<decls, phase>>

BeginInstances ==
    /\ phase = "declarations" /\ next \notin DOMAIN decls /\ ~checker.endless
    /\ phase' = "instances" /\ next' = 1
    /\ UNCHANGED <<decls, checker>>

(* The list grows while it is worked off: a body may request more. *)
CheckPendingInstance ==
    /\ phase = "instances" /\ next \in DOMAIN checker.pending /\ ~checker.endless
    /\ checker' = WithInstance(checker, decls, next)
    /\ next' = next + 1
    /\ UNCHANGED <<decls, phase>>

Conclude(c, program) ==
    LET signed == FinalizeSignatures(c, program)
    IN IF signed.errors = <<>> THEN FinalizeTable(signed) ELSE signed
Finish ==
    /\ phase = "instances" /\ next \notin DOMAIN checker.pending /\ ~checker.endless
    /\ checker' = Concluded(checker, decls)
    /\ phase' = "end"
    /\ UNCHANGED <<decls, next>>

Return ==
    /\ phase = "end"
    /\ phase' = "returned"
    /\ UNCHANGED <<decls, next, checker>>
(* A walk that never ends takes the process with it. *)
Overflow ==
    /\ checker.endless /\ phase # "crashed"
    /\ phase' = "crashed"
    /\ UNCHANGED <<decls, next, checker>>
Done == phase \in {"returned", "crashed"} /\ UNCHANGED vars
Next == Collect \/ CheckDecl \/ BeginInstances \/ CheckPendingInstance \/ Finish \/ Return \/ Overflow \/ Done
Spec == Init /\ [][Next]_vars

(* The properties below are of the states a step is taken from: every state *)
(* but the one after the return, or the crash.                              *)

(* The same walk as one operator, for programs without generic functions. *)
Verdict(program) ==
    LET all == List("program", program)
    IN FinalizeSignatures(Visit(VisitDecl, CollectTopLevel(program), all, <<>>), program).errors = <<>>
-----------------------------------------------------------------------------
(* What the checker leaves, as terms *)

RECURSIVE TermOf(_, _)
TermOf(c, t) ==
    LET k == Resolved(c, t)
    IN R!Term(IF k.kind \in Infers THEN "i32" ELSE k.kind, k.name, [i \in DOMAIN k.of |-> TermOf(c, k.of[i])])
Assigned(c, table) == [q \in DOMAIN table |-> TermOf(c, table[q])]
Accepted == phase = "end" /\ checker.errors = <<>>

(* What is open until the walk is over: the result of a function without   *)
(* a return type, and a parameter whose type has a `_` in it.              *)
RECURSIVE HasInfer(_), Mentions(_), UnannotatedNames(_), Operands(_)
HasInfer(n) == n.kind = "infer" \/ \E i \in DOMAIN n.of : HasInfer(n.of[i])
Mentions(n) ==
    (IF n.kind \in {"ident", "field"} THEN {n.name} ELSE {}) \cup UNION {Mentions(n.of[i]) : i \in DOMAIN n.of}
UnannotatedNames(n) ==
    (IF (n.kind = "func" /\ n.of[3] = Absent) \/ (n.kind = "param" /\ HasInfer(n)) THEN {n.name} ELSE {})
    \cup UNION {UnannotatedNames(n.of[i]) : i \in DOMAIN n.of}
(* The nodes that must be numbers or must be printable. *)
Operands(n) ==
    (IF n.kind = "binary" \/ (n.kind = "unary" /\ n.name = "-") \/ (n.kind = "call" /\ IsPrintCall(n.of[1]))
     THEN {n.of[i] : i \in DOMAIN n.of} ELSE {})
    \cup UNION {Operands(n.of[i]) : i \in DOMAIN n.of}
OperandsAreSettled ==
    LET all == List("program", decls)
    IN \A e \in Operands(all) : Mentions(e) \cap UnannotatedNames(all) = {}

RECURSIVE IsFiniteWithin(_, _, _)
IsFiniteWithin(c, t, depth) ==
    /\ depth > 0
    /\ \A i \in DOMAIN Resolved(c, t).of : IsFiniteWithin(c, Resolved(c, t).of[i], depth - 1)
TypesAreFinite(c) == \A t \in DOMAIN c.kinds : IsFiniteWithin(c, t, Len(c.kinds))

(* A program the checker accepts has the types it was given: with every    *)
(* node's recorded type read as a term, each expression, statement and     *)
(* declaration obeys the typing rules of TypeRules. Left out, because the  *)
(* code does not keep it there: operands whose type is open when they are  *)
(* checked, and types without an end.                                      *)
AcceptedIsWellTyped ==
    [][Accepted /\ OperandsAreSettled /\ TypesAreFinite(checker)
        => R!WellTyped(R!World(decls, Assigned(checker, checker.table)))]_vars

-----------------------------------------------------------------------------
InstanceIsWellTyped(instance) ==
    LET d == CHOOSE i \in DOMAIN decls : IsGeneric(decls[i]) /\ decls[i].name = instance.name
        outer == Assigned(checker, checker.table)
        args == [i \in DOMAIN instance.args |-> TermOf(checker, instance.args[i])]
        w == R!World(decls, Assigned(checker, instance.table) @@ outer)
    IN DOMAIN checker.generics \cap Mentions(decls[d].of[4]) = {} =>
           R!TypedInstance(w, d, args, R!Globals(decls, outer, d))
InstancesHold ==
    phase = "end" =>
        /\ \A i, j \in DOMAIN checker.instances :
               i # j => <<checker.instances[i].name, checker.instances[i].args>>
                            # <<checker.instances[j].name, checker.instances[j].args>>
        /\ \A i \in DOMAIN checker.instances : InstanceIsWellTyped(checker.instances[i])
(* Two calls of a generic function with the same type arguments share one  *)
(* checked body, two with different arguments never do, and every body     *)
(* checked for an instance obeys the typing rules with the arguments in    *)
(* place of the parameters. A body that requests further instances through *)
(* its own parameters is left out of the rules.                            *)
InstancesAreWellTyped == [][InstancesHold]_vars

(* Whatever has been joined, a type once known is what it was: a class that *)
(* holds a struct, a function or a number of one width is represented by   *)
(* the same struct, a function of the same arity, the same width. Only open *)
(* types and integer literals take the kind of what they are joined with.  *)
ClassesKeepTheirKind ==
    \A t \in DOMAIN checker.kinds :
        LET mine == checker.kinds[t]
            root == Resolved(checker, t)
        IN CASE mine.kind = "infer" -> TRUE
             [] mine.kind = "int" -> root.kind \in Numerics \cup {"int"}
             [] OTHER -> root.kind = mine.kind /\ root.name = mine.name /\ Len(root.of) = Len(mine.of)

IsWritten(all) == UnannotatedNames(all) = {} /\ ~HasInfer(all)
(* Where every type is written, functions, structs and methods may be      *)
(* declared in any order: the program and its reverse get one verdict.     *)
OrderDoesNotMatter ==
    [][phase = "end" /\ IsWritten(List("program", decls))
    /\ (\A i \in DOMAIN decls : decls[i].kind \in {"func", "struct", "impl", "extern"} /\ ~IsGeneric(decls[i]))
        => (Verdict(Reverse(decls)) <=> checker.errors = <<>>)]_vars

(* A walk without an end, which the checker does have, needs an unwritten  *)
(* type: where every parameter, result and array says its type, the union  *)
(* of two types always comes to an end.                                    *)
WrittenTypesEnd == [][checker.endless => ~IsWritten(List("program", decls))]_vars

(* Type invariant: between two declarations every scope, return type and   *)
(* loop that the walk opened is closed again, and the solver's classes are *)
(* sound.                                                                  *)
TypeOK ==
    /\ phase \in {"collect", "declarations", "instances", "end", "returned", "crashed"} /\ next \in Nat
    /\ checker.parents \in [DOMAIN checker.kinds -> DOMAIN checker.kinds]
    /\ \A q \in DOMAIN checker.table : checker.table[q] \in DOMAIN checker.kinds
    /\ Len(checker.scopes) = 1 /\ Len(checker.assignable) = 1
    /\ checker.returns = <<>> /\ checker.valueReturn = <<>> /\ checker.loops = 0
    /\ ClassesKeepTheirKind

(* Negation is of a number: the one claim about operands without the       *)
(* conditions of AcceptedIsWellTyped.                                      *)
RECURSIVE NegatedAt(_, _)
NegatedAt(n, p) ==
    (IF n.kind = "unary" /\ n.name = "-" THEN {Sub(p, 1)} ELSE {})
    \cup UNION {NegatedAt(n.of[i], Sub(p, i)) : i \in DOMAIN n.of}
NegatedAreNumbers ==
    [][Accepted => \A q \in NegatedAt(List("program", decls), <<>>) :
                    Kind(checker, checker.table[q]) \in Numerics]_vars
=============================================================================
