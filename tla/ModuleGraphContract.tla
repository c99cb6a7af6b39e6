------------------------ MODULE ModuleGraphContract ------------------------
(***************************************************************************)
(* What ModuleGraph::build promises its caller, without its algorithm: one *)
(* answer for the program rooted at Entry.  The answer is either the whole *)
(* set of reachable files in an order in which every file comes after the  *)
(* files it imports, or a real import cycle among them, or the failure of  *)
(* some reachable import to resolve.                                       *)
(***************************************************************************)
EXTENDS Naturals, Sequences

CONSTANTS Files,       \* canonical paths of source files
          Entry,       \* the file handed to the build
          Unresolved   \* an import that no file answers

VARIABLES imports,     \* [Files -> Seq(Files \cup {Unresolved})]
          answer       \* the record build returns

vars == <<imports, answer>>

NoAnswer == [kind |-> "none", order |-> <<>>, cycle |-> <<>>]

SeqRange(s) == {s[i] : i \in DOMAIN s}

ImportedFiles(f) == SeqRange(imports[f]) \cap Files

(* A file is reachable when it is in every set that holds Entry and is     *)
(* closed under imports.                                                   *)
Closed(S) == \A f \in S : ImportedFiles(f) \subseteq S
Reachable == {f \in Files : \A S \in SUBSET Files : Entry \in S /\ Closed(S) => f \in S}

DependencyFirst(order) ==
    \A i \in DOMAIN order : \A f \in ImportedFiles(order[i]) :
        \E j \in 1 .. i - 1 : order[j] = f

Ordered(ans) ==
    /\ ans.kind = "ok"
    /\ SeqRange(ans.order) = Reachable
    /\ \A i, j \in DOMAIN ans.order : ans.order[i] = ans.order[j] => i = j
    /\ DependencyFirst(ans.order)
    /\ ans.cycle = <<>>

CycleFound(ans) ==
    /\ ans.kind = "cycle"
    /\ Len(ans.cycle) >= 2
    /\ ans.cycle[1] = ans.cycle[Len(ans.cycle)]
    /\ SeqRange(ans.cycle) \subseteq Reachable
    /\ \A i \in 1 .. Len(ans.cycle) - 1 : ans.cycle[i + 1] \in ImportedFiles(ans.cycle[i])
    /\ ans.order = <<>>

ImportFailed(ans) ==
    /\ ans = [NoAnswer EXCEPT !.kind = "unresolved"]
    /\ \E f \in Reachable : Unresolved \in SeqRange(imports[f])

Init == answer = NoAnswer

Answer ==
    /\ answer = NoAnswer
    /\ Ordered(answer') \/ CycleFound(answer') \/ ImportFailed(answer')
    /\ UNCHANGED imports

Spec == Init /\ [][Answer]_vars
=============================================================================
