-------------------------- MODULE ModuleResolution --------------------------
(***************************************************************************)
(* Which file an import names (resolver.rs, and the resolution of the      *)
(* legacy loader in pipeline.rs), and what a module is called after it was *)
(* found.                                                                  *)
(*                                                                         *)
(* A path is the sequence of its names; the last one stands for a file     *)
(* with the extension .tg.  A project has its files (each with its         *)
(* declarations, and whether it parses), its entry and its include         *)
(* directories, all of them absolute and canonical.  The files do not      *)
(* change meanwhile, so the caches of both resolvers answer what they      *)
(* would find again.                                                       *)
(***************************************************************************)
EXTENDS SyntaxTree, SequencesExt

StdlibRoot == <<"stdlib">>
Missing == <<>>
FirstFound(candidates) ==
    LET found == SelectSeq(candidates, LAMBDA path : path # Missing)
    IN IF found = <<>> THEN Missing ELSE Head(found)

(* project_root: what holds the innermost `src`, else the entry's place. *)
ProjectRoot(project) ==
    LET src == {i \in 1 .. Len(project.entry) - 1 : project.entry[i] = "src"}
    IN IF src = {} THEN Front(project.entry)
       ELSE SubSeq(project.entry, 1, (CHOOSE i \in src : \A j \in src : j <= i) - 1)

(* Mutant: lib/main.tg in a directory of that name only. *)
CandidateFile(project, root, segments) ==
    IF root \o segments \in DOMAIN project.files THEN root \o segments ELSE Missing
(* find_module_candidates: lib.tg, then lib/main.tg. *)
Candidate(project, root, segments) ==
    LET file == root \o segments
        nested == Append(file, "main")
    IN IF segments # <<>> /\ file \in DOMAIN project.files THEN file
       ELSE IF nested \in DOMAIN project.files THEN nested ELSE Missing

DependencyRoots(project) ==
    FlattenSeq([i \in DOMAIN project.includes |-> <<project.includes[i], Append(project.includes[i], "src")>>])
RelativeCandidate(project, from, level, segments) ==
    IF level > Len(from) THEN Missing
    ELSE Candidate(project, SubSeq(from, 1, Len(from) - level), segments)

-----------------------------------------------------------------------------
(* resolver.rs: an import is its path, how many directories up it starts   *)
(* (0: it is not relative), and whether its last name may be a symbol.     *)

Resolved(source, path) == [source |-> source, path |-> path]
NotFound == Resolved("none", Missing)

ResolveProjectPath(project, segments) ==
    LET root == ProjectRoot(project)
        below == Candidate(project, Append(root, "src"), segments)
        direct == Candidate(project, root, segments)
    IN FirstFound(IF Head(segments) = "src" THEN <<direct>> ELSE <<below, direct>>)
ResolveSingleName(project, name) ==
    LET std == Candidate(project, StdlibRoot, <<name>>)
        dependency == FirstFound([i \in DOMAIN DependencyRoots(project) |->
                                    Candidate(project, DependencyRoots(project)[i], <<name>>)])
    IN IF std # Missing THEN Resolved("std", std)
       ELSE IF dependency # Missing THEN Resolved(name, dependency)
       ELSE Resolved("project", ResolveProjectPath(project, <<name>>))
ResolveSegments(project, segments) ==
    LET own == ResolveProjectPath(project, segments)
        std == Candidate(project, StdlibRoot, Tail(segments))
    IN IF own # Missing THEN Resolved("project", own)
       ELSE IF Head(segments) = "std" THEN Resolved("std", std) ELSE NotFound

ImportSpec(level, segments, fallback) == [level |-> level, segments |-> segments, fallback |-> fallback]
Resolve(project, from, spec) ==
    LET whole == ResolveSegments(project, spec.segments)
    IN IF spec.level > 0
       THEN Resolved("project", RelativeCandidate(project, from, spec.level, spec.segments))
       ELSE IF spec.segments = <<>> THEN NotFound
       ELSE IF Len(spec.segments) = 1 THEN ResolveSingleName(project, Head(spec.segments))
       ELSE IF whole.path = Missing /\ spec.fallback THEN ResolveSegments(project, Front(spec.segments))
       ELSE whole

-----------------------------------------------------------------------------
(* session.rs: the name of a module, from where its file was found *)

WithoutRoot(path, root) == IF IsPrefix(root, path) THEN SubSeq(path, Len(root) + 1, Len(path)) ELSE path
WithoutMain(path) == IF path # <<>> /\ Last(path) = "main" THEN Front(path) ELSE path
ModuleSegments(project, module) ==
    LET roots == SelectSeq(project.includes, LAMBDA root : IsPrefix(root, module.path))
    IN CASE module.source = "std" -> <<"std">> \o WithoutMain(WithoutRoot(module.path, StdlibRoot))
         [] module.source = "project" -> WithoutMain(WithoutRoot(module.path, ProjectRoot(project)))
         [] OTHER -> <<module.source>> \o
                WithoutMain(IF roots = <<>> THEN module.path ELSE WithoutRoot(module.path, Head(roots)))
Joined(segments) ==
    IF segments = <<>> THEN ""
    ELSE FoldLeft(LAMBDA text, segment : text \o "__" \o segment, Head(segments), Tail(segments))
Qualified(namespace, name) == IF namespace = "" THEN name ELSE namespace \o "__" \o name

-----------------------------------------------------------------------------
(* pipeline.rs: the legacy loader looks in other places, in another order *)

(* Mutant: a longer path is not looked for under `src`. *)
ResolveImportPathDirect(project, from, level, segments) ==
    LET root == ProjectRoot(project)
        below == Candidate(project, Append(root, "src"), segments)
    IN IF level > 0 THEN RelativeCandidate(project, from, level, segments)
       ELSE FirstFound(<<Candidate(project, StdlibRoot, segments)>>
                       \o (IF Len(segments) = 1 THEN <<below>> ELSE <<>>) \o <<Candidate(project, root, segments)>>)
ResolveImportPath(project, from, level, segments) ==
    LET root == ProjectRoot(project)
        std == Candidate(project, StdlibRoot, segments)
        prefixed == Candidate(project, StdlibRoot, Tail(segments))
        dependencies == [i \in DOMAIN DependencyRoots(project) |->
                            Candidate(project, DependencyRoots(project)[i], segments)]
        below == Candidate(project, Append(root, "src"), segments)
        direct == Candidate(project, root, segments)
    IN IF level > 0 THEN RelativeCandidate(project, from, level, segments)
       ELSE FirstFound((IF Len(segments) > 1 /\ Head(segments) = "std" THEN <<prefixed>> ELSE <<>>)
                       \o <<std>> \o dependencies
                       \o (IF Len(segments) = 1 THEN <<below>> ELSE <<>>) \o <<direct>>
                       \o (IF Head(segments) # "src" THEN <<below>> ELSE <<>>))
=============================================================================
