---------------------------- MODULE MCBuildCache ----------------------------
(* A program and its library, which is a program of its own too: the same  *)
(* file once as an entry, without a namespace, once as a dependency, and   *)
(* numbered differently by discovery.                                      *)
EXTENDS BuildCache, TLC

CONSTANTS App, Lib

MCDeps == (App :> {Lib}) @@ (Lib :> {})

TwoModules == {App, Lib}
AppProgram == <<Lib, App>>
LibProgram == <<Lib>>
EntryLibPrograms == {AppProgram, LibProgram}
EntryLibIds == (AppProgram :> (Lib :> 1 @@ App :> 0)) @@ (LibProgram :> (Lib :> 0))
EntryLibOutputs == (AppProgram :> "app") @@ (LibProgram :> "lib")

Plain == [opt |-> "O0", defines |-> <<>>, features |-> <<>>]
Fast == [opt |-> "O0", defines |-> <<>>, features |-> <<<<"f">>>>]
MCFlags == {Plain, Fast}

Request(program, flags, emit) == [program |-> program, flags |-> flags, emit |-> emit]

BinRequests == {Request(prog, Plain, {}) : prog \in Programs} \cup {Request(AppProgram, Fast, {})}
MixedRequests == {Request(AppProgram, Plain, emit) : emit \in {{"text"}, {"obj"}}}
                    \cup {Request(LibProgram, Plain, {})}

Symmetry == Permutations(Procs)
=============================================================================
