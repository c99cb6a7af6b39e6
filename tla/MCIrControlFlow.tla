--------------------------- MODULE MCIrControlFlow ---------------------------
(* Programs for IrLowering, in three families that share one state space:  *)
(* any statements at all up to a small size; control flow around a single  *)
(* name, larger; and declarations, blocks and loops with two names, of     *)
(* which one is also a constant of the module.                             *)
EXTENDS IrControlFlow

CONSTANTS
    SmallSize,   \* bound: size of a program of any statements
    ScopesSize   \* bound: size of a program about scopes

Size == Len(program) + Len(frames)
MadeOf(kinds) == \A p \in Tokens : program[p].kind \in kinds \cup {"stage", "endif", "endwhile", "endfor"}

AnyStatements == Size <= SmallSize
OneNameFlow ==
    /\ MadeOf({"use", "return", "break", "continue", "if", "else", "while", "for"})
    /\ \A p \in Tokens : program[p].name \in Consts \cup {NoName}
TwoNameScopes ==
    /\ Size <= ScopesSize
    /\ MadeOf({"let", "use", "assign", "if", "else", "for", "break"})

Families == AnyStatements \/ OneNameFlow \/ TwoNameScopes
=============================================================================
