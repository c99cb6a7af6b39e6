---------------------------- MODULE ModuleGraph ----------------------------
(***************************************************************************)
(* The module graph of one program (crates/module_graph/src/lib.rs):       *)
(* build discovers the files reachable from the entry breadth first,       *)
(* topo_sort orders them with Kahn's algorithm, and detect_cycles names a  *)
(* cycle when the order is incomplete.                                     *)
(*                                                                         *)
(* The text of the files is abstracted to the list of files their import   *)
(* lines resolve to; Unresolved stands for an import the resolver refuses  *)
(* and for an import line that does not parse.  A module id is a position  *)
(* in `nodes` (the id of the code plus one).  The hash maps are iterated   *)
(* in an unspecified order, so wherever an order comes from one of them,   *)
(* every order is possible.                                                *)
(***************************************************************************)
EXTENDS Integers, Sequences, FiniteSets

CONSTANTS Files, Entry, Unresolved,
          ImportLists  \* the import lists a file may have

ASSUME FilesAssumption ==
    /\ Entry \in Files
    /\ Unresolved \notin Files
    /\ ImportLists \subseteq Seq(Files \cup {Unresolved})

VARIABLES
    imports,  \* the source files: what each of them imports, in order
    phase,    \* "discover", "sort", "detect" or "done"
    outcome,  \* "none", then "ok", "cycle" or "unresolved"
    nodes,    \* nodes[id] is the file of module id; its inverse is by_path
    edges,    \* edges[id] is the list of ids it imports
    pending,  \* ids queued for discovery
    current,  \* the id whose imports are being resolved, 0 for none
    todo,     \* the imports of `current` still to resolve
    found,    \* discovered_edges of `current`
    indegree, \* per id, how many of its imports are not ordered yet
    ready,    \* ids whose imports are all ordered
    order,    \* the order built so far
    stack,    \* detect_cycles: the path from the root of the search
    next,     \* detect_cycles: per id, the position of the next import
    visited,  \* detect_cycles: ids in state Visited
    cycle     \* the cycle reported

discoverVars == <<nodes, edges, pending, current, todo, found>>
sortVars == <<indegree, ready, order>>
detectVars == <<stack, next, visited, cycle>>
vars == <<imports, phase, outcome, discoverVars, sortVars, detectVars>>

Ids == 1 .. Len(nodes)
Elems(s) == {s[i] : i \in 1 .. Len(s)}
Deps(id) == Elems(edges[id])
IdOf(file) == CHOOSE id \in Ids : nodes[id] = file
(* Mutant of PushNew: discovered_edges without its `contains` test. *)
PushAlways(s, x) == Append(s, x)

PushNew(s, x) == IF x \in Elems(s) THEN s ELSE Append(s, x)

(* The sequences that list each element of the finite set S once. *)
Listings(S) == {s \in [1 .. Cardinality(S) -> S] : Elems(s) = S}

Init ==
    /\ imports \in [Files -> ImportLists]
    /\ phase = "discover"
    /\ outcome = "none"
    /\ nodes = <<Entry>>
    /\ edges = <<<<>>>>
    /\ pending = <<1>>
    /\ current = 0
    /\ todo = <<>>
    /\ found = <<>>
    /\ indegree = <<>>
    /\ ready = <<>>
    /\ order = <<>>
    /\ stack = <<>>
    /\ next = <<>>
    /\ visited = {}
    /\ cycle = <<>>

-----------------------------------------------------------------------------
(* build: breadth-first discovery *)

(* Mutant of PopPending: the module is looked at, not taken out. *)
PeekPending ==
    /\ phase = "discover"
    /\ current = 0
    /\ pending # <<>>
    /\ current' = Head(pending)
    /\ todo' = imports[nodes[Head(pending)]]
    /\ found' = <<>>
    /\ UNCHANGED <<imports, phase, outcome, nodes, edges, pending, sortVars, detectVars>>

PopPending ==
    /\ phase = "discover"
    /\ current = 0
    /\ pending # <<>>
    /\ current' = Head(pending)
    /\ pending' = Tail(pending)
    /\ todo' = imports[nodes[Head(pending)]]
    /\ found' = <<>>
    /\ UNCHANGED <<imports, phase, outcome, nodes, edges, sortVars, detectVars>>

(* The resolver refuses the import: the error leaves build at once. *)
ImportUnresolved ==
    /\ phase = "discover"
    /\ current # 0
    /\ todo # <<>>
    /\ Head(todo) = Unresolved
    /\ phase' = "done"
    /\ outcome' = "unresolved"
    /\ UNCHANGED <<imports, discoverVars, sortVars, detectVars>>

ImportKnown ==
    /\ phase = "discover"
    /\ current # 0
    /\ todo # <<>>
    /\ Head(todo) \in Elems(nodes)
    /\ found' = PushNew(found, IdOf(Head(todo)))
    /\ todo' = Tail(todo)
    /\ UNCHANGED <<imports, phase, outcome, nodes, edges, pending, current, sortVars, detectVars>>

(* Mutant of ImportCreated: next_id is raised before it is used. *)
ImportCreatedAhead ==
    LET created == Len(nodes) + 2
    IN  /\ phase = "discover"
        /\ current # 0
        /\ todo # <<>>
        /\ Head(todo) \in Files \ Elems(nodes)
        /\ nodes' = Append(nodes, Head(todo))
        /\ edges' = Append(edges, <<>>)
        /\ pending' = Append(pending, created)
        /\ found' = PushNew(found, created)
        /\ todo' = Tail(todo)
        /\ UNCHANGED <<imports, phase, outcome, current, sortVars, detectVars>>

ImportCreated ==
    LET created == Len(nodes) + 1
    IN  /\ phase = "discover"
        /\ current # 0
        /\ todo # <<>>
        /\ Head(todo) \in Files \ Elems(nodes)
        /\ nodes' = Append(nodes, Head(todo))
        /\ edges' = Append(edges, <<>>)
        /\ pending' = Append(pending, created)
        /\ found' = PushNew(found, created)
        /\ todo' = Tail(todo)
        /\ UNCHANGED <<imports, phase, outcome, current, sortVars, detectVars>>

RecordEdges ==
    /\ phase = "discover"
    /\ current # 0
    /\ todo = <<>>
    /\ edges' = [edges EXCEPT ![current] = found]
    /\ current' = 0
    /\ UNCHANGED <<imports, phase, outcome, nodes, pending, todo, found, sortVars, detectVars>>

-----------------------------------------------------------------------------
(* topo_sort: Kahn's algorithm *)

BeginSort ==
    /\ phase = "discover"
    /\ current = 0
    /\ pending = <<>>
    /\ phase' = "sort"
    /\ indegree' = [id \in Ids |-> Len(edges[id])]
    /\ ready' \in Listings({id \in Ids : edges[id] = <<>>})
    /\ UNCHANGED <<imports, outcome, discoverVars, order, detectVars>>

Importers(id) == {other \in Ids : id \in Deps(other)}

(* Mutants of Decrement: an importer is released by its first import, and  *)
(* never.                                                                  *)
DecrementToZero(n) == 0
DecrementNothing(n) == n
Decrement(n) == IF n = 0 THEN 0 ELSE n - 1

PopReady ==
    LET id == Head(ready)
        lowered == [other \in Ids |-> IF other \in Importers(id)
                                      THEN Decrement(indegree[other])
                                      ELSE indegree[other]]
    IN  /\ phase = "sort"
        /\ ready # <<>>
        /\ order' = Append(order, id)
        /\ indegree' = lowered
        /\ \E freed \in Listings({other \in Importers(id) : lowered[other] = 0}) :
              ready' = Tail(ready) \o freed
        /\ UNCHANGED <<imports, phase, outcome, discoverVars, detectVars>>

SortComplete ==
    /\ phase = "sort"
    /\ ready = <<>>
    /\ Len(order) = Len(nodes)
    /\ phase' = "done"
    /\ outcome' = "ok"
    /\ UNCHANGED <<imports, discoverVars, sortVars, detectVars>>

SortIncomplete ==
    /\ phase = "sort"
    /\ ready = <<>>
    /\ Len(order) # Len(nodes)
    /\ phase' = "detect"
    /\ next' = [id \in Ids |-> 1]
    /\ UNCHANGED <<imports, outcome, discoverVars, sortVars, stack, visited, cycle>>

-----------------------------------------------------------------------------
(* detect_cycles: depth-first search *)

Top == stack[Len(stack)]
Explored == next[Top] > Len(edges[Top])
NextDep == edges[Top][next[Top]]

(* With every module Visited the search returns None, and topo_sort would  *)
(* report the default, an empty cycle.                                     *)
EnterRoot ==
    /\ phase = "detect"
    /\ stack = <<>>
    /\ IF Ids = visited
       THEN phase' = "done" /\ outcome' = "cycle" /\ stack' = stack
       ELSE /\ \E root \in Ids \ visited : stack' = <<root>>
            /\ UNCHANGED <<phase, outcome>>
    /\ UNCHANGED <<imports, discoverVars, sortVars, next, visited, cycle>>

(* Mutant of CloseCycle: the whole path, not the part from `start` on. *)
CloseCycleFromRoot ==
    /\ phase = "detect"
    /\ stack # <<>>
    /\ ~Explored
    /\ NextDep \in Elems(stack)
    /\ cycle' = Append(stack, NextDep)
    /\ phase' = "done"
    /\ outcome' = "cycle"
    /\ UNCHANGED <<imports, discoverVars, sortVars, stack, next, visited>>

CloseCycle ==
    /\ phase = "detect"
    /\ stack # <<>>
    /\ ~Explored
    /\ \E start \in 1 .. Len(stack) :
          /\ stack[start] = NextDep
          /\ cycle' = Append(SubSeq(stack, start, Len(stack)), NextDep)
    /\ phase' = "done"
    /\ outcome' = "cycle"
    /\ UNCHANGED <<imports, discoverVars, sortVars, stack, next, visited>>

(* An import that is off the path: searched unless it is Visited. *)
FollowDep ==
    /\ phase = "detect"
    /\ stack # <<>>
    /\ ~Explored
    /\ NextDep \notin Elems(stack)
    /\ next' = [next EXCEPT ![Top] = @ + 1]
    /\ stack' = IF NextDep \in visited THEN stack ELSE Append(stack, NextDep)
    /\ UNCHANGED <<imports, phase, outcome, discoverVars, sortVars, visited, cycle>>

LeaveModule ==
    /\ phase = "detect"
    /\ stack # <<>>
    /\ Explored
    /\ visited' = visited \cup {Top}
    /\ stack' = SubSeq(stack, 1, Len(stack) - 1)
    /\ UNCHANGED <<imports, phase, outcome, discoverVars, sortVars, next, cycle>>

-----------------------------------------------------------------------------
Discover == PopPending \/ ImportUnresolved \/ ImportKnown \/ ImportCreated \/ RecordEdges
Sort == BeginSort \/ PopReady \/ SortComplete \/ SortIncomplete
Detect == EnterRoot \/ CloseCycle \/ FollowDep \/ LeaveModule

Next == Discover \/ Sort \/ Detect

Spec == Init /\ [][Next]_vars
FairSpec == Spec /\ WF_vars(Next)

-----------------------------------------------------------------------------
(* Properties *)

DiscoverTypes ==
    /\ nodes \in Seq(Files)
    /\ edges \in Seq(Seq(Ids))
    /\ Len(edges) = Len(nodes)
    /\ pending \in Seq(Ids)
    /\ current \in 0 .. Len(nodes)
    /\ todo \in Seq(Files \cup {Unresolved})
    /\ found \in Seq(Ids)

SortTypes ==
    /\ indegree \in Seq(Nat)
    /\ phase = "sort" => Len(indegree) = Len(nodes)
    /\ ready \in Seq(Ids)
    /\ order \in Seq(Ids)

DetectTypes ==
    /\ stack \in Seq(Ids)
    /\ next \in Seq(Nat \ {0})
    /\ phase = "detect" => Len(next) = Len(nodes)
    /\ visited \subseteq Ids
    /\ cycle \in Seq(Ids)

(* Every variable keeps the shape of the structure it stands for. *)
TypeOK ==
    /\ imports \in [Files -> Seq(Files \cup {Unresolved})]
    /\ phase \in {"discover", "sort", "detect", "done"}
    /\ outcome \in {"none", "ok", "cycle", "unresolved"}
    /\ DiscoverTypes
    /\ SortTypes
    /\ DetectTypes

(* At every moment of the sort, a module is ordered only after every       *)
(* module it imports: compile_all compiles in this order and reads the     *)
(* exports of the imports it finds already registered.                     *)
DependencyFirst ==
    \A i \in 1 .. Len(order) : \A dep \in Deps(order[i]) :
        \E j \in 1 .. i - 1 : order[j] = dep

(* Once discovery is over, the edges of a module are the modules of its    *)
(* imports, each listed once, and no two modules share a file.             *)
GraphIsFaithful ==
    phase \in {"sort", "detect"} =>
        \A id \in Ids :
            /\ {nodes[dep] : dep \in Deps(id)} = Elems(imports[nodes[id]])
            /\ Len(edges[id]) = Cardinality(Deps(id))
            /\ \A other \in Ids : nodes[other] = nodes[id] => other = id

(* An incomplete sort is blamed on a cycle only when there is one: the     *)
(* modules left over all import a module that is left over.                *)
CycleIsJustified ==
    phase = "detect" \/ outcome = "cycle" =>
        \E left \in SUBSET Ids :
            /\ left # {}
            /\ \A id \in left : Deps(id) \cap left # {}

(* The invariant of Kahn's loop, from which the two properties above       *)
(* follow: the indegree of a module counts the imports that are not        *)
(* ordered yet, and the modules with indegree zero are exactly those       *)
(* ordered or queued as ready, each once.                                  *)
NoRepeats(s) == \A i, j \in 1 .. Len(s) : s[i] = s[j] => i = j
Waiting(id) == Deps(id) \ Elems(order)

ImportsListedOnce == NoRepeats(found) /\ \A id \in Ids : NoRepeats(edges[id])

ReadyExactlyAtZero ==
    /\ \A id \in Ids : indegree[id] = Cardinality(Waiting(id))
    /\ NoRepeats(order) /\ NoRepeats(ready)
    /\ Elems(order) \cap Elems(ready) = {}
    /\ \A id \in Ids : indegree[id] = 0 <=> id \in Elems(order) \cup Elems(ready)

SortInv ==
    /\ ImportsListedOnce
    /\ phase = "discover" => order = <<>> /\ outcome = "none"
    /\ phase = "sort" => ReadyExactlyAtZero /\ outcome = "none"
    /\ phase = "detect" => outcome = "none"
    /\ DependencyFirst
    /\ CycleIsJustified

(* build returns, whatever the files import. *)
Terminates == <>(outcome # "none")

(* build gives the answer its contract describes, and gives it once.       *)
FilesAt(ids) == [i \in 1 .. Len(ids) |-> nodes[ids[i]]]

answer == [kind  |-> outcome,
           order |-> IF outcome = "ok" THEN FilesAt(order) ELSE <<>>,
           cycle |-> FilesAt(cycle)]

Contract == INSTANCE ModuleGraphContract
KeepsContract == Contract!Spec
=============================================================================
