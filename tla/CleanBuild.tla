----------------------------- MODULE CleanBuild -----------------------------
(***************************************************************************)
(* The build without a cache: each build reads the modules of its program  *)
(* in order and links what compiling exactly those texts yields.  It is    *)
(* what a user expects of `thagc build`, cached or not.                    *)
(***************************************************************************)
EXTENDS BuildInputs

CONSTANT Procs

VARIABLES source,  \* in SourceTrees, the files on disk
          build    \* [Procs -> [state, request, read, linked]]

vars == <<source, build>>

NoBuild == [state |-> "idle", request |-> NoRequest, read |-> <<>>, linked |-> <<>>]

Init ==
    /\ source \in SourceTrees
    /\ build = [p \in Procs |-> NoBuild]

Edit ==
    /\ \E m \in Modules : \E text \in TextsOf(m) : source' = [source EXCEPT ![m] = text]
    /\ UNCHANGED build

Start(p) ==
    /\ build[p].state \in {"idle", "done"}
    /\ \E r \in Requests :
          build' = [build EXCEPT ![p] = [NoBuild EXCEPT !.state = "building", !.request = r]]
    /\ UNCHANGED source

Read(p) ==
    LET b == build[p]
    IN  /\ b.state = "building"
        /\ Len(b.read) < Size(b.request)
        /\ build' = [build EXCEPT ![p].read =
                        Append(b.read, source[ModuleAt(b.request, Len(b.read) + 1)])]
        /\ UNCHANGED source

Link(p) ==
    LET b == build[p]
    IN  /\ b.state = "building"
        /\ Len(b.read) = Size(b.request)
        /\ build' = [build EXCEPT ![p] =
                        [b EXCEPT !.state = "done",
                                  !.linked = [i \in 1 .. Size(b.request) |->
                                                 Compiled(b.request, b.read, i)]]]
        /\ UNCHANGED source

Fail(p) ==
    /\ build[p].state = "building"
    /\ build' = [build EXCEPT ![p] = NoBuild]
    /\ UNCHANGED source

Next == Edit \/ \E p \in Procs : Start(p) \/ Read(p) \/ Link(p) \/ Fail(p)

Spec == Init /\ [][Next]_vars
=============================================================================
