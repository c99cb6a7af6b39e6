----------------------------- MODULE CallScopes -----------------------------
(***************************************************************************)
(* What a running program sees of names under dynamic scoping: each call   *)
(* has blocks of its own, and a block takes its names along when it ends,  *)
(* however it ends.  A call declares and assigns names of its own; where   *)
(* it reads a name or calls a function, its own names are seen, then those *)
(* of its callers, the latest first, and only then the module's.  How      *)
(* control moves is left open.                                             *)
(***************************************************************************)
EXTENDS Naturals, Sequences, SequencesExt

CONSTANTS
    Consts,      \* names of module constants
    Functions,   \* names of functions
    Builtin,     \* the function that prints its argument
    Locals,      \* names programs declare
    Values,
    ConstValue   \* the value of every constant

VARIABLES
    calls,   \* open calls, each a sequence of blocks, each a function name -> value
    printed,
    lost     \* whether the run failed for a function it did not find

vars == <<calls, printed, lost>>

Blocks == UNION {[names -> Values] : names \in SUBSET Locals}
NoNames == [n \in {} |-> ConstValue]
Declare(block, name, value) == [n \in DOMAIN block \cup {name} |-> IF n = name THEN value ELSE block[n]]

Current == Last(calls)
Change(call) == calls' = Append(Front(calls), call)

(* The blocks of a call that have a name *)
Declaring(call, name) == {i \in DOMAIN call : name \in DOMAIN call[i]}
Greatest(S) == CHOOSE i \in S : \A j \in S : j <= i
Innermost(call, name) == Greatest(Declaring(call, name))

(* The calls that have a name; the current call sees it in all of them. *)
Holders(name) == {k \in DOMAIN calls : Declaring(calls[k], name) # {}}
ValueOf(name) ==
    IF Holders(name) = {} THEN ConstValue
    ELSE LET call == calls[Greatest(Holders(name))] IN call[Innermost(call, name)][name]

Init == calls = <<>> /\ printed = <<>> /\ lost = FALSE

(* A run starts; what an earlier run left behind is gone. *)
Start ==
    /\ calls = <<>>
    /\ calls' = <<<<NoNames, NoNames>>>>
    /\ printed' = <<>>
    /\ lost' = FALSE

(* A run fails, or main returns. *)
Stop == calls' = <<>> /\ UNCHANGED <<printed, lost>>

OpenBlocks ==
    /\ calls # <<>>
    /\ \/ Change(Append(Current, NoNames))
       \/ \E first \in Blocks : Change(Current \o <<first, NoNames>>)
    /\ UNCHANGED <<printed, lost>>

CloseBlocks ==
    /\ calls # <<>>
    /\ \E n \in 2 .. Len(Current) - 1 : Change(SubSeq(Current, 1, n))
    /\ UNCHANGED <<printed, lost>>

Let ==
    /\ calls # <<>>
    /\ \E n \in Locals, v \in Values :
            Change(Append(Front(Current), Declare(Last(Current), n, v)))
    /\ UNCHANGED <<printed, lost>>

Assign ==
    /\ calls # <<>>
    /\ \E n \in Locals, v \in Values :
            /\ Declaring(Current, n) # {}
            /\ Change([Current EXCEPT ![Innermost(Current, n)][n] = v])
    /\ UNCHANGED <<printed, lost>>

Println ==
    /\ calls # <<>> /\ Holders(Builtin) = {}
    /\ \E n \in Consts \cup Locals :
            /\ n \in Consts \/ Declaring(Current, n) # {}
            /\ printed' = Append(printed, ValueOf(n))
    /\ UNCHANGED <<calls, lost>>

Call ==
    /\ calls # <<>> /\ \E f \in Functions : Holders(f) = {}
    /\ \E parameters \in Blocks : calls' = Append(calls, <<parameters, NoNames>>)
    /\ UNCHANGED <<printed, lost>>

Leave ==
    /\ Len(calls) > 1
    /\ calls' = Front(calls)
    /\ UNCHANGED <<printed, lost>>

(* A call finds a local where its function should be; the run fails. *)
Misread ==
    /\ calls # <<>> /\ \E f \in Functions : Holders(f) # {}
    /\ calls' = <<>>
    /\ lost' = TRUE
    /\ UNCHANGED printed

Next ==
    \/ Start \/ Stop
    \/ OpenBlocks \/ CloseBlocks
    \/ Let \/ Assign \/ Println
    \/ Call \/ Leave \/ Misread

Spec == Init /\ [][Next]_vars
=============================================================================
