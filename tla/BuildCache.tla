----------------------------- MODULE BuildCache -----------------------------
(***************************************************************************)
(* The incremental build of `thagc build` (tools/thagore-cli/src/          *)
(* session.rs): CompilationSession::compile_all compiles the modules of a  *)
(* program in order, reuses the object a cache entry names when the hash   *)
(* of the module agrees, and saves the cache when every module succeeded.  *)
(*                                                                         *)
(* Several thagc processes may build in one project directory; nothing     *)
(* locks the cache file or the objects, and files are written in place.    *)
(* A user edits sources while they run.                                    *)
(***************************************************************************)
EXTENDS BuildInputs, FiniteSets

CONSTANTS
    Procs,             \* thagc processes that run at the same time
    EditableSignatures,\* modules whose exported signature the user changes
    CanFail,           \* whether a build may fail or its process crash
    MaxEdits,          \* bound: edits in a behaviour
    MaxBuilds          \* bound: builds in a behaviour

ASSUME BoundsAssumption == MaxEdits \in Nat /\ MaxBuilds \in Nat

VARIABLES
    source,     \* in SourceTrees, the files on disk
    files,      \* object files on disk: path -> compiled module, or Torn
    contended,  \* paths two processes have been writing at the same time
    cacheFile,  \* modules.cache on disk: module -> [hash, object]
    overlaid,   \* the caches processes wrote over each other, when it holds a mixture
    mixed,      \* history: the entries in the file came of such a mixture
    session,    \* [Procs -> session], one CompilationSession each
    edits, builds

vars == <<source, files, contended, cacheFile, overlaid, mixed, session, edits, builds>>

Torn == [torn |-> TRUE]  \* the content of an object file that was not fully written
Empty == [m \in {} |-> 0]

(* mixed: history, whether the cache it loaded came of saves that overlapped. *)
NoSession == [pc |-> "idle", request |-> NoRequest, cache |-> Empty, mixed |-> FALSE,
              read |-> <<>>, objects |-> <<>>, linked |-> <<>>]

Put(f, k, v) == [x \in DOMAIN f \cup {k} |-> IF x = k THEN v ELSE f[x]]
Step(p, changes) == session' = [session EXCEPT ![p] = changes]

-----------------------------------------------------------------------------
(* The module a session is at, its hash and its object path *)

At(s) == Len(s.read)
Module(s) == ModuleAt(s.request, At(s))
Hash(s) == ModuleHash(s.request, s.read[At(s)], At(s))

BuildPath(id, hash) == [dir |-> "build", id |-> id, hash |-> hash]
OutputPath(request) == [dir |-> "out", name |-> Outputs[request.program]]

ObjectPath(s) ==
    IF IsEntry(s.request, At(s)) /\ "obj" \in s.request.emit
    THEN OutputPath(s.request)
    ELSE BuildPath(ModuleIds[s.request.program][Module(s)], Hash(s))

WantsEntryText(s) == IsEntry(s.request, At(s)) /\ "text" \in s.request.emit

(* Mutant of IsHit: any entry of the module will do. *)
IsHitAnyHash(s) ==
    /\ Module(s) \in DOMAIN s.cache
    /\ s.cache[Module(s)].object \in DOMAIN files

(* ModuleCache::lookup: the entry has this hash and its object is a file.  *)
IsHit(s) ==
    /\ Module(s) \in DOMAIN s.cache
    /\ s.cache[Module(s)].hash = Hash(s)
    /\ s.cache[Module(s)].object \in DOMAIN files

Emitting(path) == {p \in Procs : session[p].pc = "emit" /\ ObjectPath(session[p]) = path}

AfterModule(s) == IF At(s) = Size(s.request) THEN "save" ELSE "read"

-----------------------------------------------------------------------------
Init ==
    /\ source \in SourceTrees
    /\ files = Empty
    /\ contended = {}
    /\ cacheFile = Empty
    /\ overlaid = {}
    /\ mixed = FALSE
    /\ session = [p \in Procs |-> NoSession]
    /\ edits = 0
    /\ builds = 0

(* The user saves another text of a module. *)
Edit ==
    /\ edits < MaxEdits
    /\ \E m \in Modules : \E text \in TextsOf(m) :
          /\ text # source[m]
          /\ m \notin EditableSignatures => text.signature = source[m].signature
          /\ source' = [source EXCEPT ![m] = text]
    /\ edits' = edits + 1
    /\ UNCHANGED <<files, contended, cacheFile, overlaid, mixed, session, builds>>

(* What ModuleCache::load may read from a file that processes have written *)
(* over each other: bytes of one and of another from any offset on.  It    *)
(* reads line by line and lets a later line replace an earlier one, so     *)
(* that the path, the hash and the object of an entry may each come from   *)
(* another entry of any writer; a line cut in the middle names nothing.    *)
Mixtures(caches) ==
    LET entries == UNION {{c[m] : m \in DOMAIN c} : c \in caches}
        pairs == {[hash |-> x.hash, object |-> y.object] : x \in entries, y \in entries}
    IN  UNION {[found -> pairs] : found \in SUBSET UNION {DOMAIN c : c \in caches}}

Loadable == IF overlaid = {} THEN {cacheFile} ELSE Mixtures(overlaid)

(* CompilationSession::new loads the cache once, at the start. *)
StartBuild(p) ==
    /\ session[p].pc \in {"idle", "done"}
    /\ builds < MaxBuilds
    /\ \E r \in Requests, cache \in Loadable :
          Step(p, [NoSession EXCEPT !.pc = "read", !.request = r, !.cache = cache,
                                    !.mixed = mixed])
    /\ builds' = builds + 1
    /\ UNCHANGED <<source, files, contended, cacheFile, overlaid, mixed, edits>>

(* compile_module reads the source; parsing, import resolution and type    *)
(* checking depend on what was read so far, whether the object is reused   *)
(* or not.                                                                 *)
ReadSource(p) ==
    LET s == session[p]
        i == Len(s.read) + 1
    IN  /\ s.pc = "read"
        /\ Step(p, [s EXCEPT !.pc = "lookup",
                             !.read = Append(@, source[ModuleAt(s.request, i)])])
        /\ UNCHANGED <<source, files, contended, cacheFile, overlaid, mixed, edits, builds>>

(* Mutant of UseCached: the early return forgets the object. *)
UseCachedUnlisted(p) ==
    LET s == session[p]
    IN  /\ s.pc = "lookup"
        /\ IsHit(s)
        /\ ~WantsEntryText(s)
        /\ Step(p, [s EXCEPT !.pc = AfterModule(s)])
        /\ UNCHANGED <<source, files, contended, cacheFile, overlaid, mixed, edits, builds>>

UseCached(p) ==
    LET s == session[p]
    IN  /\ s.pc = "lookup"
        /\ IsHit(s)
        /\ ~WantsEntryText(s)
        /\ Step(p, [s EXCEPT !.pc = AfterModule(s),
                             !.objects = Append(@, s.cache[Module(s)].object)])
        /\ UNCHANGED <<source, files, contended, cacheFile, overlaid, mixed, edits, builds>>

(* Mutant of BeginEmit: an object that is there is taken for one that      *)
(* another process is writing, and waited for.                             *)
BeginEmitWaits(p) ==
    LET s == session[p]
        path == ObjectPath(s)
    IN  /\ s.pc = "lookup"
        /\ ~IsHit(s) \/ WantsEntryText(s)
        /\ path \notin DOMAIN files
        /\ files' = Put(files, path, Torn)
        /\ Step(p, [s EXCEPT !.pc = "emit"])
        /\ UNCHANGED <<source, contended, cacheFile, overlaid, mixed, edits, builds>>

(* emit_object opens the object in place, truncating it ... *)
BeginEmit(p) ==
    LET s == session[p]
        path == ObjectPath(s)
    IN  /\ s.pc = "lookup"
        /\ ~IsHit(s) \/ WantsEntryText(s)
        /\ files' = Put(files, path, Torn)
        /\ contended' = IF Emitting(path) = {} THEN contended \ {path}
                                               ELSE contended \cup {path}
        /\ Step(p, [s EXCEPT !.pc = "emit"])
        /\ UNCHANGED <<source, cacheFile, overlaid, mixed, edits, builds>>

(* Mutants of EndEmit: a write error goes unnoticed ... *)
EndEmitUnchecked(p) ==
    LET s == session[p]
        path == ObjectPath(s)
    IN  /\ s.pc = "emit"
        /\ \E content \in {Compiled(s.request, s.read, At(s)), Torn} :
              files' = Put(files, path, content)
        /\ Step(p, [s EXCEPT !.pc = AfterModule(s),
                             !.objects = Append(@, path),
                             !.cache = Put(@, Module(s), [hash |-> Hash(s), object |-> path])])
        /\ UNCHANGED <<source, contended, cacheFile, overlaid, mixed, edits, builds>>

(* ... and the text that is compiled is read again after it was hashed.    *)
EndEmitRereads(p) ==
    LET s == session[p]
        path == ObjectPath(s)
        reread == [s.read EXCEPT ![At(s)] = source[Module(s)]]
    IN  /\ s.pc = "emit"
        /\ files' = Put(files, path, Compiled(s.request, reread, At(s)))
        /\ Step(p, [s EXCEPT !.pc = AfterModule(s),
                             !.objects = Append(@, path),
                             !.cache = Put(@, Module(s), [hash |-> Hash(s), object |-> path])])
        /\ UNCHANGED <<source, contended, cacheFile, overlaid, mixed, edits, builds>>

(* ... and later has written all of it.  When two processes write one path *)
(* at the same time, either the object or a mixture is left.               *)
EndEmit(p) ==
    LET s == session[p]
        path == ObjectPath(s)
        whole == Compiled(s.request, s.read, At(s))
    IN  /\ s.pc = "emit"
        /\ \E content \in IF path \in contended THEN {whole, Torn} ELSE {whole} :
              files' = Put(files, path, content)
        /\ Step(p, [s EXCEPT !.pc = AfterModule(s),
                             !.objects = Append(@, path),
                             !.cache = Put(@, Module(s), [hash |-> Hash(s), object |-> path])])
        /\ UNCHANGED <<source, contended, cacheFile, overlaid, mixed, edits, builds>>

Saving == {p \in Procs : session[p].pc = "saving"}

(* ModuleCache::save truncates the file and writes the entries in path     *)
(* order; a reader, or a crash, may find any first part of them (any       *)
(* subset stands for the prefixes), or a mixture when another process is   *)
(* writing the file too.                                                   *)
BeginSave(p) ==
    LET s == session[p]
    IN  /\ s.pc = "save"
        /\ \/ /\ Saving = {}
              /\ \E part \in SUBSET DOMAIN s.cache : cacheFile' = [m \in part |-> s.cache[m]]
              /\ overlaid' = {}
              /\ mixed' = s.mixed
           \/ /\ Saving # {}
              /\ cacheFile' = Empty
              /\ overlaid' = overlaid \cup {session[q].cache : q \in Saving \cup {p}}
              /\ mixed' = TRUE
        /\ Step(p, [s EXCEPT !.pc = "saving"])
        /\ UNCHANGED <<source, files, contended, edits, builds>>

EndSave(p) ==
    LET s == session[p]
    IN  /\ s.pc = "saving"
        /\ cacheFile' = IF overlaid = {} THEN s.cache ELSE Empty
        /\ mixed' = (mixed \/ s.mixed)
        /\ Step(p, [s EXCEPT !.pc = "link"])
        /\ UNCHANGED <<source, files, contended, overlaid, edits, builds>>

(* link reads the objects from disk. *)
Link(p) ==
    LET s == session[p]
    IN  /\ s.pc = "link"
        /\ Step(p, [s EXCEPT !.pc = "done",
                             !.linked = [i \in 1 .. Len(s.objects) |-> files[s.objects[i]]]])
        /\ UNCHANGED <<source, files, contended, cacheFile, overlaid, mixed, edits, builds>>

(* A diagnostic, a write error or a crash ends the build: what the session *)
(* held in memory is gone, what it wrote stays.                            *)
Abandon(p) ==
    /\ CanFail
    /\ session[p].pc \notin {"idle", "done"}
    /\ Step(p, NoSession)
    /\ UNCHANGED <<source, files, contended, cacheFile, overlaid, mixed, edits, builds>>

Progress(p) ==
    \/ ReadSource(p) \/ UseCached(p) \/ BeginEmit(p) \/ EndEmit(p)
    \/ BeginSave(p) \/ EndSave(p) \/ Link(p)

Next ==
    \/ Edit
    \/ \E p \in Procs : StartBuild(p) \/ Progress(p) \/ Abandon(p)

Spec == Init /\ [][Next]_vars
FairSpec == Spec /\ \A p \in Procs : WF_vars(Progress(p))

-----------------------------------------------------------------------------
(* Properties *)

IsBuildPath(path) == path.dir = "build"
BuildHash(path, hash) == IsBuildPath(path) => path.hash = hash
ContentHash(c) == <<c.source, c.namespace, FlagHash(c.flags)>>

(* The shape of a session, its place in the program, and that every object *)
(* it or a cache names is a file.                                          *)
CacheOK(cache, paths) ==
    /\ DOMAIN cache \subseteq Modules
    /\ \A m \in DOMAIN cache : cache[m].object \in paths

SessionOK(s, paths) ==
    /\ s = [pc |-> s.pc, request |-> s.request, cache |-> s.cache, mixed |-> s.mixed,
            read |-> s.read, objects |-> s.objects, linked |-> s.linked]
    /\ s.mixed \in BOOLEAN
    /\ s.read \in Seq(Texts)
    /\ s.objects \in Seq(paths)
    /\ CacheOK(s.cache, paths)
    /\ s.pc # "idle" => s.request \in Requests
    /\ \/ s.pc = "idle"
       \/ s.pc = "read" /\ At(s) < Size(s.request) /\ Len(s.objects) = At(s)
       \/ s.pc \in {"lookup", "emit"} /\ At(s) <= Size(s.request) /\ Len(s.objects) = At(s) - 1
       \/ s.pc \in {"save", "saving", "link", "done"}
             /\ At(s) = Size(s.request) /\ Len(s.objects) = At(s)

TypeOK ==
    /\ source \in SourceTrees
    /\ contended \subseteq DOMAIN files
    /\ \A cache \in {cacheFile} \cup overlaid : CacheOK(cache, DOMAIN files)
    /\ mixed \in BOOLEAN
    /\ overlaid # {} => mixed
    /\ DOMAIN session = Procs
    /\ \A p \in Procs : SessionOK(session[p], DOMAIN files)
    /\ edits \in 0 .. MaxEdits
    /\ builds \in 0 .. MaxBuilds

(* Whoever wrote it, whoever crashed: an object in the build directory is  *)
(* named by the hash of what it was compiled from.  An entry of the cache, *)
(* on disk or in memory, pairs that object with that hash, as long as no   *)
(* two processes saved modules.cache at the same time: then any number of  *)
(* them may share the directory without a lock, and lose each other's      *)
(* entries, and still agree.  What overlapping saves leave is the file's   *)
(* until a session that did not load it saves alone.                       *)
ObjectsMatchNames ==
    \A path \in DOMAIN files :
        IsBuildPath(path) /\ files[path] # Torn => path.hash = ContentHash(files[path])

EntriesMatchNames(cache) == \A m \in DOMAIN cache : BuildHash(cache[m].object, cache[m].hash)

DirectoryIsConsistent ==
    /\ ObjectsMatchNames
    /\ ~mixed => EntriesMatchNames(cacheFile)
    /\ \A p \in Procs : ~session[p].mixed => EntriesMatchNames(session[p].cache)

(* A finished build whose cache was not a mixture never links, from the    *)
(* build directory, an object of another text, another namespace or other  *)
(* flags than its own: it is either not a whole object or compiled from    *)
(* the source this build read.                                             *)
LinksItsSource(s) ==
    \A i \in DOMAIN s.linked :
        \/ ~IsBuildPath(s.objects[i])
        \/ s.linked[i] = Torn
        \/ ContentHash(s.linked[i]) = ModuleHash(s.request, s.read[i], i)

LinkedFromSource ==
    \A p \in Procs :
        session[p].pc = "done" /\ ~session[p].mixed => LinksItsSource(session[p])

(* A build that crashes never leaves a torn object that a later build      *)
(* would take for a good one: the entries of modules.cache name objects    *)
(* that were written completely.                                           *)
SavedObjectsAreWhole == \A m \in DOMAIN cacheFile : files[cacheFile[m].object] # Torn

(* Every build that starts ends, with a binary or with a failure.          *)
BuildsEnd ==
    \A p \in Procs : session[p].pc = "read" ~> session[p].pc \in {"idle", "done"}

(* The cache is invisible: a build with it links what a build without it   *)
(* would have linked from the texts it read.                               *)
BuildOf(s) ==
    [state   |-> IF s.pc \in {"idle", "done"} THEN s.pc ELSE "building",
     request |-> s.request,
     read    |-> s.read,
     linked  |-> s.linked]
Clean == INSTANCE CleanBuild WITH build <- [p \in Procs |-> BuildOf(session[p])]
KeepsCleanBuild == Clean!Spec
=============================================================================
