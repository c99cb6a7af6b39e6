---------------------------- MODULE BuildInputs ----------------------------
(***************************************************************************)
(* What `thagc build` works on, shared by the incremental build            *)
(* (BuildCache) and by the build without a cache (CleanBuild): programs,   *)
(* requests, and what compiling one module yields.                         *)
(*                                                                         *)
(* A source text is a pair of a body and an exported signature: the object *)
(* code of a module depends on its own text, on the signatures of the      *)
(* modules it imports, and on the flags.  Files hold different texts: a    *)
(* text names its module.                                                  *)
(***************************************************************************)
EXTENDS Naturals, Sequences, SequencesExt

CONSTANTS
    Modules,      \* source files, by canonical path
    Deps,         \* Deps[m]: the modules m imports
    Programs,     \* each a sequence of modules, imports first, the entry last
    ModuleIds,    \* ModuleIds[program][m]: the id discovery gives m
    Outputs,      \* Outputs[program]: the output path of the program
    Bodies, Signatures,
    Flags,        \* records [opt, defines, features]; the last two are
                  \* sequences of words, a word is a sequence of letters
    Requests      \* records [program, flags, emit] with emit \subseteq {"obj", "text"}

ASSUME InputsAssumption ==
    /\ Programs \subseteq Seq(Modules)
    /\ <<>> \notin Programs
    /\ \A m \in Modules : Deps[m] \subseteq Modules
    /\ Requests \subseteq [program : Programs, flags : Flags, emit : SUBSET {"obj", "text"}]

NoFlags == [opt |-> "none", defines |-> <<>>, features |-> <<>>]
NoRequest == [program |-> <<>>, flags |-> NoFlags, emit |-> {}]

TextsOf(m) == [module : {m}, body : Bodies, signature : Signatures]
Texts == [module : Modules, body : Bodies, signature : Signatures]
SourceTrees ==
    {tree \in [Modules -> Texts] : \A m \in Modules : tree[m].module = m}

Size(request) == Len(request.program)
ModuleAt(request, i) == request.program[i]
IsEntry(request, i) == i = Size(request)

(* module_namespace_for: the entry has none, a dependency has its own. *)
Namespace(request, i) == IF IsEntry(request, i) THEN "" ELSE ModuleAt(request, i)

PositionOf(request, m) == CHOOSE j \in 1 .. Size(request) : ModuleAt(request, j) = m

(* The object code of the i-th module: `read` holds the sources of the     *)
(* modules up to i as this build read them.                                *)
Compiled(request, read, i) ==
    [source    |-> read[i],
     namespace |-> Namespace(request, i),
     flags     |-> request.flags,
     imports   |-> [dep \in Deps[ModuleAt(request, i)] |->
                        read[PositionOf(request, dep)].signature]]

(* Mutant of FlagHash: defines and features left out of the hash. *)
OptionHash(flags) == <<flags.opt, <<>>>>

(* module_hash: the words of the defines and of the features are fed to    *)
(* the hasher one after the other, with nothing between them.              *)
FlagHash(flags) == <<flags.opt, FlattenSeq(flags.defines \o flags.features)>>
ModuleHash(request, source, i) == <<source, Namespace(request, i), FlagHash(request.flags)>>
=============================================================================
