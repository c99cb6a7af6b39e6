-------------------------- MODULE BuildCacheProofs --------------------------
(***************************************************************************)
(* Proofs about BuildCache: for every set of programs, requests and        *)
(* processes, as long as no two saves of the cache file overlap, the build *)
(* directory and the cache agree on what an object was compiled from, and  *)
(* a build links no object of another source.                              *)
(***************************************************************************)
EXTENDS BuildCache, SequenceTheorems, TLAPS

-----------------------------------------------------------------------------
(* The inductive invariant *)

(* Every object a session has gathered so far is named by the hash of the  *)
(* source the session read at the same position.                           *)
ObjectsNameSources(s) ==
    \A i \in 1 .. Len(s.objects) : BuildHash(s.objects[i], ModuleHash(s.request, s.read[i], i))

SessionNamed(s) ==
    ~s.mixed => /\ EntriesMatchNames(s.cache)
                /\ ObjectsNameSources(s)
                /\ s.pc = "done" => LinksItsSource(s)

NamesInv ==
    /\ ObjectsMatchNames
    /\ ~mixed => EntriesMatchNames(cacheFile)
    /\ \A p \in Procs : SessionNamed(session[p])

-----------------------------------------------------------------------------
(* Lemmas about a single session *)

(* Files are only added: what was sound stays sound.                       *)
LEMMA SessionWidens ==
    ASSUME NEW s, NEW P, NEW Q, P \subseteq Q, SessionOK(s, P)
    PROVE  SessionOK(s, Q)
<1>1. Seq(P) \subseteq Seq(Q)
  BY SeqMonotonic
<1> QED
  BY <1>1 DEF SessionOK, CacheOK

LEMMA NoSessionOK ==
    ASSUME NEW P
    PROVE  SessionOK(NoSession, P) /\ SessionNamed(NoSession)
<1>1. NoSession.pc = "idle" /\ NoSession.read = <<>> /\ NoSession.objects = <<>>
      /\ NoSession.cache = Empty
  BY DEF NoSession
<1>2. DOMAIN Empty = {}
  BY DEF Empty
<1>3. SessionOK(NoSession, P)
  BY <1>1, <1>2 DEF NoSession, SessionOK, CacheOK
<1>4. Len(NoSession.objects) = 0
  BY <1>1
<1> QED
  BY <1>1, <1>2, <1>3, <1>4 DEF SessionNamed, EntriesMatchNames, ObjectsNameSources

(* A request names a program with at least one module.                     *)
LEMMA RequestHasModules ==
    ASSUME NEW r \in Requests
    PROVE  /\ r.program \in Seq(Modules)
           /\ Size(r) \in Nat
           /\ Size(r) > 0
<1>1. r.program \in Programs
  BY InputsAssumption
<1>2. r.program \in Seq(Modules) /\ r.program # <<>>
  BY <1>1, InputsAssumption
<1> QED
  BY <1>2, EmptySeq, LenProperties DEF Size

LEMMA StartKeeps ==
    ASSUME NEW P, NEW r \in Requests, NEW cache, CacheOK(cache, P),
           NEW mixture \in BOOLEAN, ~mixture => EntriesMatchNames(cache),
           NEW t, t = [NoSession EXCEPT !.pc = "read", !.request = r, !.cache = cache,
                                        !.mixed = mixture]
    PROVE  SessionOK(t, P) /\ SessionNamed(t)
<1>1. /\ t = [pc |-> "read", request |-> r, cache |-> cache, mixed |-> mixture,
              read |-> <<>>, objects |-> <<>>, linked |-> <<>>]
  BY DEF NoSession
<1>2. /\ t.pc = "read" /\ t.request = r /\ t.cache = cache /\ t.mixed = mixture
      /\ t.read = <<>> /\ t.objects = <<>>
  <2>1. NoSession.read = <<>> /\ NoSession.objects = <<>>
    BY DEF NoSession
  <2>2. t.pc = "read" /\ t.request = r /\ t.cache = cache /\ t.mixed = mixture
    BY <1>1
  <2>3. t.read = NoSession.read /\ t.objects = NoSession.objects
    BY DEF NoSession
  <2> QED
    BY <2>1, <2>2, <2>3
<1>3. Len(<<>>) = 0
  OBVIOUS
<1>4. Size(r) \in Nat /\ Size(r) > 0
  BY RequestHasModules
<1>5. SessionOK(t, P)
  <2>1. At(t) < Size(t.request) /\ Len(t.objects) = At(t)
    BY <1>2, <1>3, <1>4 DEF At
  <2>2. t.read \in Seq(Texts) /\ t.objects \in Seq(P)
    BY <1>2, EmptySeq
  <2> QED
    BY <1>1, <1>2, <2>1, <2>2 DEF SessionOK
<1>6. ObjectsNameSources(t)
  BY <1>2, <1>3 DEF ObjectsNameSources
<1> QED
  BY <1>2, <1>5, <1>6 DEF SessionNamed

LEMMA ReadKeeps ==
    ASSUME NEW s, NEW P, SessionOK(s, P), SessionNamed(s), s.pc = "read",
           NEW text \in Texts,
           NEW t, t = [s EXCEPT !.pc = "lookup", !.read = Append(@, text)]
    PROVE  SessionOK(t, P) /\ SessionNamed(t)
<1>1. /\ t.pc = "lookup" /\ t.request = s.request /\ t.cache = s.cache /\ t.mixed = s.mixed
      /\ t.objects = s.objects /\ t.linked = s.linked
      /\ t.read = Append(s.read, text)
      /\ t = [pc |-> t.pc, request |-> t.request, cache |-> t.cache, mixed |-> t.mixed,
              read |-> t.read, objects |-> t.objects, linked |-> t.linked]
  BY DEF SessionOK
<1>2. /\ s.read \in Seq(Texts) /\ s.objects \in Seq(P)
      /\ Len(s.read) < Size(s.request) /\ Len(s.objects) = Len(s.read)
      /\ s.request \in Requests
  BY DEF SessionOK, At
<1>3. /\ t.read \in Seq(Texts) /\ Len(t.read) = Len(s.read) + 1
      /\ \A i \in 1 .. Len(s.read) : t.read[i] = s.read[i]
  BY <1>1, <1>2
<1>4. Size(s.request) \in Nat
  BY <1>2, RequestHasModules
<1>5. SessionOK(t, P)
  <2>1. At(t) <= Size(t.request) /\ Len(t.objects) = At(t) - 1
    BY <1>1, <1>2, <1>3, <1>4 DEF At
  <2> QED
    BY <1>1, <1>2, <1>3, <2>1 DEF SessionOK
<1>6. ~s.mixed => ObjectsNameSources(t)
  BY <1>1, <1>2, <1>3 DEF SessionNamed, ObjectsNameSources
<1> QED
  BY <1>1, <1>5, <1>6 DEF SessionNamed

(* The next object: reused or just written, it is named by the hash of the *)
(* module the session is at.                                               *)
LEMMA GatherKeeps ==
    ASSUME NEW s, NEW P, SessionOK(s, P), SessionNamed(s), s.pc \in {"lookup", "emit"},
           NEW path \in P, ~s.mixed => BuildHash(path, Hash(s)),
           NEW cache, CacheOK(cache, P), ~s.mixed => EntriesMatchNames(cache),
           NEW t, t = [s EXCEPT !.pc = AfterModule(s), !.objects = Append(@, path),
                                !.cache = cache]
    PROVE  SessionOK(t, P) /\ SessionNamed(t)
<1>1. /\ t.pc = AfterModule(s) /\ t.request = s.request /\ t.cache = cache
      /\ t.mixed = s.mixed /\ t.objects = Append(s.objects, path)
      /\ t.linked = s.linked /\ t.read = s.read
      /\ t = [pc |-> t.pc, request |-> t.request, cache |-> t.cache, mixed |-> t.mixed,
              read |-> t.read, objects |-> t.objects, linked |-> t.linked]
  BY DEF SessionOK
<1>2. /\ s.read \in Seq(Texts) /\ s.objects \in Seq(P)
      /\ Len(s.read) <= Size(s.request) /\ Len(s.objects) = Len(s.read) - 1
      /\ s.request \in Requests
  BY DEF SessionOK, At
<1>3. /\ t.objects \in Seq(P) /\ Len(t.objects) = Len(s.read)
      /\ \A i \in 1 .. Len(s.objects) : t.objects[i] = s.objects[i]
      /\ t.objects[Len(s.read)] = path
  BY <1>1, <1>2
<1>4. Size(s.request) \in Nat /\ Len(s.read) \in Nat
  BY <1>2, RequestHasModules
<1>5. SessionOK(t, P)
  <2>1. t.pc \in {"read", "save"}
    BY <1>1 DEF AfterModule
  <2>2. \/ t.pc = "read" /\ At(t) < Size(t.request) /\ Len(t.objects) = At(t)
        \/ t.pc = "save" /\ At(t) = Size(t.request) /\ Len(t.objects) = At(t)
    BY <1>1, <1>2, <1>3, <1>4 DEF At, AfterModule
  <2> QED
    BY <1>1, <1>2, <1>3, <2>1, <2>2 DEF SessionOK
<1>6. ~s.mixed => ObjectsNameSources(t)
  <2> SUFFICES ASSUME ~s.mixed, NEW i \in 1 .. Len(t.objects)
               PROVE  BuildHash(t.objects[i], ModuleHash(t.request, t.read[i], i))
    BY DEF ObjectsNameSources
  <2>1. CASE i = Len(s.read)
    BY <1>1, <1>3, <2>1 DEF Hash, At
  <2>2. CASE i # Len(s.read)
    <3>1. i \in 1 .. Len(s.objects)
      BY <1>2, <1>3, <1>4, <2>2
    <3> QED
      BY <1>1, <1>3, <3>1 DEF SessionNamed, ObjectsNameSources
  <2> QED
    BY <2>1, <2>2
<1>7. t.pc # "done"
  BY <1>1 DEF AfterModule
<1> QED
  BY <1>1, <1>5, <1>6, <1>7 DEF SessionNamed

(* A step that changes nothing but the program counter.                    *)
LEMMA CounterKeeps ==
    ASSUME NEW s, NEW P, SessionOK(s, P), SessionNamed(s), NEW pc,
           \/ s.pc = "lookup" /\ pc = "emit"
           \/ s.pc = "save" /\ pc = "saving"
           \/ s.pc = "saving" /\ pc = "link",
           NEW t, t = [s EXCEPT !.pc = pc]
    PROVE  SessionOK(t, P) /\ SessionNamed(t)
<1>1. /\ t.pc = pc /\ t.request = s.request /\ t.cache = s.cache /\ t.mixed = s.mixed
      /\ t.objects = s.objects /\ t.linked = s.linked /\ t.read = s.read
      /\ t = [pc |-> t.pc, request |-> t.request, cache |-> t.cache, mixed |-> t.mixed,
              read |-> t.read, objects |-> t.objects, linked |-> t.linked]
  BY DEF SessionOK
<1>2. SessionOK(t, P)
  BY <1>1 DEF SessionOK, At
<1> QED
  BY <1>1, <1>2 DEF SessionNamed, ObjectsNameSources

(* link reads the objects: each is whole and of the source at its place,   *)
(* or torn, or lies outside the build directory.                           *)
LEMMA LinkKeeps ==
    ASSUME NEW s, SessionOK(s, DOMAIN files), SessionNamed(s), s.pc = "link",
           ObjectsMatchNames,
           NEW t, t = [s EXCEPT !.pc = "done",
                                !.linked = [i \in 1 .. Len(s.objects) |-> files[s.objects[i]]]]
    PROVE  SessionOK(t, DOMAIN files) /\ SessionNamed(t)
<1>1. /\ t.pc = "done" /\ t.request = s.request /\ t.cache = s.cache /\ t.mixed = s.mixed
      /\ t.objects = s.objects /\ t.read = s.read
      /\ t.linked = [i \in 1 .. Len(s.objects) |-> files[s.objects[i]]]
      /\ t = [pc |-> t.pc, request |-> t.request, cache |-> t.cache, mixed |-> t.mixed,
              read |-> t.read, objects |-> t.objects, linked |-> t.linked]
  BY DEF SessionOK
<1>2. SessionOK(t, DOMAIN files)
  BY <1>1 DEF SessionOK, At
<1>3. ~s.mixed => ObjectsNameSources(t)
  BY <1>1 DEF SessionNamed, ObjectsNameSources
<1>4. ~s.mixed => LinksItsSource(t)
  <2> SUFFICES ASSUME ~s.mixed, NEW i \in 1 .. Len(s.objects), IsBuildPath(s.objects[i]),
                      files[s.objects[i]] # Torn
               PROVE  ContentHash(files[s.objects[i]]) = ModuleHash(s.request, s.read[i], i)
    BY <1>1 DEF LinksItsSource
  <2>1. s.objects[i] \in DOMAIN files
    BY DEF SessionOK
  <2>2. s.objects[i].hash = ContentHash(files[s.objects[i]])
    BY <2>1 DEF ObjectsMatchNames
  <2>3. s.objects[i].hash = ModuleHash(s.request, s.read[i], i)
    BY DEF SessionNamed, ObjectsNameSources, BuildHash
  <2> QED
    BY <2>2, <2>3
<1> QED
  BY <1>1, <1>2, <1>3, <1>4 DEF SessionNamed

-----------------------------------------------------------------------------
(* Lemmas about paths and files *)

LEMMA PathIsNamed ==
    ASSUME NEW s
    PROVE  /\ BuildHash(ObjectPath(s), Hash(s))
           /\ ContentHash(Compiled(s.request, s.read, At(s))) = Hash(s)
<1>1. ~IsBuildPath(OutputPath(s.request))
  BY DEF IsBuildPath, OutputPath
<1>2. \A id : BuildPath(id, Hash(s)).hash = Hash(s)
  BY DEF BuildPath
<1>3. BuildHash(ObjectPath(s), Hash(s))
  BY <1>1, <1>2 DEF BuildHash, ObjectPath
<1>4. ContentHash(Compiled(s.request, s.read, At(s))) = Hash(s)
  BY DEF ContentHash, Compiled, Hash, ModuleHash
<1> QED
  BY <1>3, <1>4

(* A step of one session: every other session stays sound when files are   *)
(* only added.                                                             *)
LEMMA SessionStep ==
    ASSUME TypeOK, NamesInv, NEW p \in Procs, NEW t, Step(p, t),
           DOMAIN files \subseteq DOMAIN files',
           SessionOK(t, DOMAIN files'), SessionNamed(t)
    PROVE  /\ DOMAIN session' = Procs
           /\ \A q \in Procs : SessionOK(session'[q], DOMAIN files') /\ SessionNamed(session'[q])
<1>1. DOMAIN session = Procs /\ session' = [session EXCEPT ![p] = t]
  BY DEF TypeOK, Step
<1>2. \A q \in Procs : session'[q] = IF q = p THEN t ELSE session[q]
  BY <1>1
<1>3. ASSUME NEW q \in Procs, q # p
      PROVE  SessionOK(session'[q], DOMAIN files') /\ SessionNamed(session'[q])
  <2>1. SessionOK(session[q], DOMAIN files) /\ SessionNamed(session[q])
    BY DEF TypeOK, NamesInv
  <2>2. SessionOK(session[q], DOMAIN files')
    BY <2>1, SessionWidens
  <2> QED
    BY <1>2, <1>3, <2>1, <2>2
<1> QED
  BY <1>1, <1>2, <1>3

-----------------------------------------------------------------------------
(* Every step keeps the types and the names *)

LEMMA InitHolds == Init => TypeOK /\ NamesInv
<1> SUFFICES ASSUME Init PROVE TypeOK /\ NamesInv
  OBVIOUS
<1>1. DOMAIN Empty = {}
  BY DEF Empty
<1>2. \A p \in Procs : SessionOK(session[p], DOMAIN files) /\ SessionNamed(session[p])
  BY NoSessionOK DEF Init
<1>3. TypeOK
  <2>1. CacheOK(Empty, DOMAIN files)
    BY <1>1 DEF CacheOK
  <2>2. \A cache \in {cacheFile} \cup overlaid : cache = Empty
    BY DEF Init
  <2>3. \A cache \in {cacheFile} \cup overlaid : CacheOK(cache, DOMAIN files)
    BY <2>1, <2>2
  <2>4. contended \subseteq DOMAIN files /\ mixed \in BOOLEAN /\ overlaid = {}
    BY DEF Init
  <2>5. DOMAIN session = Procs /\ source \in SourceTrees
        /\ edits \in 0 .. MaxEdits /\ builds \in 0 .. MaxBuilds
    BY BoundsAssumption DEF Init
  <2> QED
    BY <1>2, <2>3, <2>4, <2>5 DEF TypeOK
<1>4. NamesInv
  BY <1>1, <1>2 DEF Init, NamesInv, ObjectsMatchNames, EntriesMatchNames
<1> QED
  BY <1>3, <1>4

(* The steps of a session that write no file. *)
LEMMA QuietStep ==
    ASSUME TypeOK, NamesInv, NEW p \in Procs, NEW t, Step(p, t),
           UNCHANGED <<source, files, contended, cacheFile, overlaid, mixed, edits>>,
           builds' \in 0 .. MaxBuilds,
           SessionOK(t, DOMAIN files), SessionNamed(t)
    PROVE  TypeOK' /\ NamesInv'
<1>1. /\ DOMAIN session' = Procs
      /\ \A q \in Procs : SessionOK(session'[q], DOMAIN files') /\ SessionNamed(session'[q])
  BY SessionStep
<1>2. TypeOK'
  BY <1>1 DEF TypeOK
<1>3. NamesInv'
  BY <1>1 DEF NamesInv, ObjectsMatchNames
<1> QED
  BY <1>2, <1>3

LEMMA EditHolds == ASSUME TypeOK, NamesInv, Edit PROVE TypeOK' /\ NamesInv'
<1>1. PICK m \in Modules : \E text \in TextsOf(m) : source' = [source EXCEPT ![m] = text]
  BY DEF Edit
<1>2. source \in [Modules -> Texts] /\ \A n \in Modules : source[n].module = n
  BY DEF TypeOK, SourceTrees
<1>3. \A text \in TextsOf(m) : text \in Texts /\ text.module = m
  BY DEF TextsOf, Texts
<1>4. source' \in SourceTrees
  BY <1>1, <1>2, <1>3 DEF SourceTrees
<1>5. edits' \in 0 .. MaxEdits
  BY BoundsAssumption DEF Edit, TypeOK
<1>6. TypeOK'
  BY <1>4, <1>5 DEF Edit, TypeOK
<1>7. NamesInv'
  BY DEF Edit, NamesInv, ObjectsMatchNames
<1> QED
  BY <1>6, <1>7

(* Every entry of a mixture names an object of one of the caches. *)
LEMMA MixturesOK ==
    ASSUME NEW P, NEW caches, \A c \in caches : CacheOK(c, P), NEW found \in Mixtures(caches)
    PROVE  CacheOK(found, P)
<1> DEFINE entries == UNION {{c[m] : m \in DOMAIN c} : c \in caches}
           pairs == {[hash |-> x.hash, object |-> y.object] : x \in entries, y \in entries}
           modules == UNION {DOMAIN c : c \in caches}
<1>1. \A e \in entries : e.object \in P
  BY DEF CacheOK
<1>2. modules \subseteq Modules
  BY DEF CacheOK
<1>3. \A e \in pairs : e.object \in P
  BY <1>1
<1>4. PICK kept \in SUBSET modules : found \in [kept -> pairs]
  BY DEF Mixtures
<1> HIDE DEF entries, pairs, modules
<1> QED
  BY <1>2, <1>3, <1>4 DEF CacheOK

(* What a session may load names files, and rightly unless it is mixed. *)
LEMMA LoadableIsNamed ==
    ASSUME TypeOK, NamesInv, NEW cache \in Loadable
    PROVE  /\ CacheOK(cache, DOMAIN files)
           /\ mixed \in BOOLEAN
           /\ ~mixed => EntriesMatchNames(cache)
<1>1. CASE overlaid = {}
  BY <1>1 DEF Loadable, TypeOK, NamesInv
<1>2. CASE overlaid # {}
  BY <1>2, MixturesOK DEF Loadable, TypeOK
<1> QED
  BY <1>1, <1>2

LEMMA StartBuildHolds ==
    ASSUME TypeOK, NamesInv, NEW p \in Procs, StartBuild(p)
    PROVE  TypeOK' /\ NamesInv'
<1>1. PICK r \in Requests, cache \in Loadable :
        Step(p, [NoSession EXCEPT !.pc = "read", !.request = r, !.cache = cache,
                                  !.mixed = mixed])
  BY DEF StartBuild
<1> DEFINE t == [NoSession EXCEPT !.pc = "read", !.request = r, !.cache = cache,
                                  !.mixed = mixed]
<1>2. CacheOK(cache, DOMAIN files) /\ mixed \in BOOLEAN /\ (~mixed => EntriesMatchNames(cache))
  BY LoadableIsNamed
<1>3. SessionOK(t, DOMAIN files) /\ SessionNamed(t)
  BY <1>2, StartKeeps
<1>4. builds' \in 0 .. MaxBuilds
  BY BoundsAssumption DEF StartBuild, TypeOK
<1>5. UNCHANGED <<source, files, contended, cacheFile, overlaid, mixed, edits>>
  BY DEF StartBuild
<1> HIDE DEF t
<1> QED
  BY <1>1, <1>3, <1>4, <1>5, QuietStep DEF t

LEMMA ReadSourceHolds ==
    ASSUME TypeOK, NamesInv, NEW p \in Procs, ReadSource(p)
    PROVE  TypeOK' /\ NamesInv'
<1> DEFINE s == session[p]
           text == source[ModuleAt(s.request, Len(s.read) + 1)]
           t == [s EXCEPT !.pc = "lookup", !.read = Append(@, text)]
<1>1. SessionOK(s, DOMAIN files) /\ SessionNamed(s) /\ s.pc = "read"
  BY DEF TypeOK, NamesInv, ReadSource
<1>2. text \in Texts
  <2>1. s.request \in Requests /\ Len(s.read) < Size(s.request) /\ Len(s.read) \in Nat
    BY <1>1, LenProperties DEF SessionOK, At
  <2>2. ModuleAt(s.request, Len(s.read) + 1) \in Modules
    BY <2>1, RequestHasModules DEF ModuleAt, Size
  <2> QED
    BY <2>2 DEF TypeOK, SourceTrees
<1> HIDE DEF text
<1>3. SessionOK(t, DOMAIN files) /\ SessionNamed(t)
  BY <1>1, <1>2, ReadKeeps
<1>4. Step(p, t) /\ UNCHANGED <<source, files, contended, cacheFile, overlaid, mixed, edits, builds>>
  BY DEF ReadSource, text
<1>5. builds' \in 0 .. MaxBuilds
  BY <1>4 DEF TypeOK
<1> HIDE DEF t
<1> QED
  BY <1>3, <1>4, <1>5, QuietStep

LEMMA UseCachedHolds ==
    ASSUME TypeOK, NamesInv, NEW p \in Procs, UseCached(p)
    PROVE  TypeOK' /\ NamesInv'
<1> DEFINE s == session[p]
           path == s.cache[Module(s)].object
           t == [s EXCEPT !.pc = AfterModule(s), !.objects = Append(@, path)]
<1>1. SessionOK(s, DOMAIN files) /\ SessionNamed(s) /\ s.pc = "lookup" /\ IsHit(s)
  BY DEF TypeOK, NamesInv, UseCached
<1>2. path \in DOMAIN files /\ (~s.mixed => BuildHash(path, Hash(s)))
  BY <1>1 DEF IsHit, SessionNamed, EntriesMatchNames
<1>3. CacheOK(s.cache, DOMAIN files) /\ (~s.mixed => EntriesMatchNames(s.cache))
  BY <1>1 DEF SessionOK, SessionNamed
<1>4. t = [s EXCEPT !.pc = AfterModule(s), !.objects = Append(@, path), !.cache = s.cache]
  BY <1>1 DEF SessionOK
<1>5. Step(p, t) /\ UNCHANGED <<source, files, contended, cacheFile, overlaid, mixed, edits, builds>>
  BY DEF UseCached
<1>6. builds' \in 0 .. MaxBuilds
  BY <1>5 DEF TypeOK
<1> HIDE DEF path, t
<1>7. SessionOK(t, DOMAIN files) /\ SessionNamed(t)
  BY <1>1, <1>2, <1>3, <1>4, GatherKeeps
<1> QED
  BY <1>5, <1>6, <1>7, QuietStep

(* Emission: only EndEmit leaves something else than Torn, and what it     *)
(* leaves is what the path is named after.                                 *)
LEMMA BeginEmitHolds ==
    ASSUME TypeOK, NamesInv, NEW p \in Procs, BeginEmit(p)
    PROVE  TypeOK' /\ NamesInv'
<1> DEFINE s == session[p]
           path == ObjectPath(s)
           t == [s EXCEPT !.pc = "emit"]
<1>1. SessionOK(s, DOMAIN files) /\ SessionNamed(s) /\ s.pc = "lookup"
  BY DEF TypeOK, NamesInv, BeginEmit
<1>2. files' = Put(files, path, Torn) /\ contended' \subseteq contended \cup {path}
      /\ Step(p, t) /\ UNCHANGED <<source, cacheFile, overlaid, mixed, edits, builds>>
  BY DEF BeginEmit
<1> HIDE DEF path, t
<1>3. /\ DOMAIN files' = DOMAIN files \cup {path}
      /\ \A x \in DOMAIN files : x # path => files'[x] = files[x]
      /\ files'[path] = Torn
  BY <1>2 DEF Put
<1>4. SessionOK(t, DOMAIN files') /\ SessionNamed(t)
  BY <1>1, <1>3, CounterKeeps, SessionWidens DEF t
<1>5. /\ DOMAIN session' = Procs
      /\ \A q \in Procs : SessionOK(session'[q], DOMAIN files') /\ SessionNamed(session'[q])
  BY <1>2, <1>3, <1>4, SessionStep
<1>6. TypeOK'
  BY <1>2, <1>3, <1>5 DEF TypeOK, CacheOK
<1>7. ObjectsMatchNames'
  BY <1>3 DEF NamesInv, ObjectsMatchNames
<1>8. NamesInv'
  BY <1>2, <1>5, <1>7 DEF NamesInv
<1> QED
  BY <1>6, <1>8

LEMMA EndEmitHolds ==
    ASSUME TypeOK, NamesInv, NEW p \in Procs, EndEmit(p)
    PROVE  TypeOK' /\ NamesInv'
<1> DEFINE s == session[p]
           path == ObjectPath(s)
           whole == Compiled(s.request, s.read, At(s))
           entry == [hash |-> Hash(s), object |-> path]
           cache == Put(s.cache, Module(s), entry)
           t == [s EXCEPT !.pc = AfterModule(s), !.objects = Append(@, path),
                          !.cache = Put(@, Module(s), entry)]
<1>1. SessionOK(s, DOMAIN files) /\ SessionNamed(s) /\ s.pc = "emit"
  BY DEF TypeOK, NamesInv, EndEmit
<1>2. PICK content \in {whole, Torn} : files' = Put(files, path, content)
  BY DEF EndEmit
<1>3. Step(p, t) /\ UNCHANGED <<source, contended, cacheFile, overlaid, mixed, edits, builds>>
  BY DEF EndEmit
<1>4. BuildHash(path, Hash(s)) /\ ContentHash(whole) = Hash(s)
  BY PathIsNamed
<1>5. Module(s) \in Modules
  <2>1. /\ s.request \in Requests /\ At(s) <= Size(s.request)
        /\ Len(s.objects) = At(s) - 1 /\ Len(s.objects) \in Nat /\ At(s) \in Nat
    BY <1>1, LenProperties DEF SessionOK, At
  <2>2. At(s) \in 1 .. Size(s.request)
    BY <2>1, RequestHasModules
  <2> QED
    BY <2>1, <2>2, RequestHasModules DEF Module, ModuleAt, Size
<1>6. entry.object = path /\ entry.hash = Hash(s)
  OBVIOUS
<1>7. t = [s EXCEPT !.pc = AfterModule(s), !.objects = Append(@, path), !.cache = cache]
  BY <1>1 DEF SessionOK
<1> HIDE DEF path, whole, entry, t
<1>8. /\ DOMAIN files' = DOMAIN files \cup {path}
      /\ \A x \in DOMAIN files : x # path => files'[x] = files[x]
      /\ files'[path] = content
  BY <1>2 DEF Put
<1>9. CacheOK(cache, DOMAIN files') /\ (~s.mixed => EntriesMatchNames(cache))
  <2>1. /\ DOMAIN cache = DOMAIN s.cache \cup {Module(s)}
        /\ cache[Module(s)] = entry
        /\ \A m \in DOMAIN s.cache : m # Module(s) => cache[m] = s.cache[m]
    BY DEF Put
  <2>2. CacheOK(s.cache, DOMAIN files) /\ (~s.mixed => EntriesMatchNames(s.cache))
    BY <1>1 DEF SessionOK, SessionNamed
  <2> HIDE DEF cache
  <2> QED
    BY <1>4, <1>5, <1>6, <1>8, <2>1, <2>2 DEF CacheOK, EntriesMatchNames
<1> HIDE DEF cache
<1>10. SessionOK(s, DOMAIN files')
  BY <1>1, <1>8, SessionWidens
<1>11. SessionOK(t, DOMAIN files') /\ SessionNamed(t)
  BY <1>1, <1>4, <1>7, <1>8, <1>9, <1>10, GatherKeeps
<1>12. /\ DOMAIN session' = Procs
       /\ \A q \in Procs : SessionOK(session'[q], DOMAIN files') /\ SessionNamed(session'[q])
  BY <1>3, <1>8, <1>11, SessionStep
<1>13. TypeOK'
  BY <1>3, <1>8, <1>12 DEF TypeOK, CacheOK
<1>14. ObjectsMatchNames'
  BY <1>2, <1>4, <1>8 DEF NamesInv, ObjectsMatchNames, BuildHash
<1>15. NamesInv'
  BY <1>3, <1>12, <1>14 DEF NamesInv
<1> QED
  BY <1>13, <1>15

(* Saving: the file holds entries of the session, or is known to be mixed. *)
LEMMA SaveStep ==
    ASSUME TypeOK, NamesInv, NEW p \in Procs, NEW pc,
           \/ session[p].pc = "save" /\ pc = "saving"
           \/ session[p].pc = "saving" /\ pc = "link",
           Step(p, [session[p] EXCEPT !.pc = pc]),
           UNCHANGED <<source, files, contended, edits, builds>>,
           \A cache \in {cacheFile'} \cup overlaid' : CacheOK(cache, DOMAIN files),
           mixed' \in BOOLEAN, overlaid' # {} => mixed',
           ~mixed' => EntriesMatchNames(cacheFile')
    PROVE  TypeOK' /\ NamesInv'
<1> DEFINE t == [session[p] EXCEPT !.pc = pc]
<1>1. SessionOK(session[p], DOMAIN files) /\ SessionNamed(session[p])
  BY DEF TypeOK, NamesInv
<1>2. SessionOK(t, DOMAIN files') /\ SessionNamed(t)
  BY <1>1, CounterKeeps
<1> HIDE DEF t
<1>3. /\ DOMAIN session' = Procs
      /\ \A q \in Procs : SessionOK(session'[q], DOMAIN files') /\ SessionNamed(session'[q])
  BY <1>2, SessionStep DEF t
<1>4. TypeOK'
  BY <1>3 DEF TypeOK
<1>5. NamesInv'
  BY <1>3 DEF NamesInv, ObjectsMatchNames
<1> QED
  BY <1>4, <1>5

LEMMA BeginSaveHolds ==
    ASSUME TypeOK, NamesInv, NEW p \in Procs, BeginSave(p)
    PROVE  TypeOK' /\ NamesInv'
<1> DEFINE s == session[p]
<1>1. /\ CacheOK(s.cache, DOMAIN files) /\ s.mixed \in BOOLEAN
      /\ ~s.mixed => EntriesMatchNames(s.cache)
  BY DEF TypeOK, NamesInv, SessionOK, SessionNamed
<1>2. /\ \A cache \in {cacheFile'} \cup overlaid' : CacheOK(cache, DOMAIN files)
      /\ mixed' \in BOOLEAN
      /\ overlaid' # {} => mixed'
      /\ ~mixed' => EntriesMatchNames(cacheFile')
  <2>1. CASE Saving = {}
    <3>1. PICK part \in SUBSET DOMAIN s.cache : cacheFile' = [m \in part |-> s.cache[m]]
      BY <2>1 DEF BeginSave
    <3>2. overlaid' = {} /\ mixed' = s.mixed
      BY <2>1 DEF BeginSave
    <3>3. CacheOK(cacheFile', DOMAIN files)
      BY <1>1, <3>1 DEF CacheOK
    <3>4. ~s.mixed => EntriesMatchNames(cacheFile')
      BY <1>1, <3>1 DEF EntriesMatchNames
    <3> QED
      BY <1>1, <3>2, <3>3, <3>4
  <2>2. CASE Saving # {}
    <3>1. /\ cacheFile' = Empty /\ mixed' = TRUE
          /\ overlaid' = overlaid \cup {session[q].cache : q \in Saving \cup {p}}
      BY <2>2 DEF BeginSave
    <3>2. CacheOK(Empty, DOMAIN files)
      BY DEF CacheOK, Empty
    <3>3. \A q \in Saving \cup {p} : CacheOK(session[q].cache, DOMAIN files)
      BY DEF TypeOK, SessionOK, Saving
    <3> QED
      BY <3>1, <3>2, <3>3 DEF TypeOK
  <2> QED
    BY <2>1, <2>2
<1> QED
  BY <1>2, SaveStep DEF BeginSave

LEMMA EndSaveHolds ==
    ASSUME TypeOK, NamesInv, NEW p \in Procs, EndSave(p)
    PROVE  TypeOK' /\ NamesInv'
<1> DEFINE s == session[p]
<1>1. /\ CacheOK(s.cache, DOMAIN files)
      /\ ~s.mixed => EntriesMatchNames(s.cache)
  BY DEF TypeOK, NamesInv, SessionOK, SessionNamed
<1>2. CacheOK(Empty, DOMAIN files)
  BY DEF CacheOK, Empty
<1>3. CacheOK(cacheFile', DOMAIN files) /\ UNCHANGED overlaid
  BY <1>1, <1>2 DEF EndSave
<1>4. mixed' = (mixed \/ s.mixed) /\ mixed \in BOOLEAN /\ s.mixed \in BOOLEAN
  BY DEF EndSave, TypeOK, SessionOK
<1>5. EntriesMatchNames(Empty)
  BY DEF EntriesMatchNames, Empty
<1>6. ~mixed' => EntriesMatchNames(cacheFile')
  BY <1>1, <1>4, <1>5 DEF EndSave
<1>7. \A cache \in {cacheFile'} \cup overlaid' : CacheOK(cache, DOMAIN files)
  BY <1>3 DEF TypeOK
<1>8. mixed' \in BOOLEAN /\ (overlaid' # {} => mixed')
  BY <1>3, <1>4 DEF TypeOK
<1> QED
  BY <1>6, <1>7, <1>8, SaveStep DEF EndSave

LEMMA LinkHolds ==
    ASSUME TypeOK, NamesInv, NEW p \in Procs, Link(p)
    PROVE  TypeOK' /\ NamesInv'
<1> DEFINE s == session[p]
           t == [s EXCEPT !.pc = "done",
                          !.linked = [i \in 1 .. Len(s.objects) |-> files[s.objects[i]]]]
<1>1. SessionOK(s, DOMAIN files) /\ SessionNamed(s) /\ s.pc = "link" /\ ObjectsMatchNames
  BY DEF TypeOK, NamesInv, Link
<1>2. SessionOK(t, DOMAIN files) /\ SessionNamed(t)
  BY <1>1, LinkKeeps
<1>3. Step(p, t) /\ UNCHANGED <<source, files, contended, cacheFile, overlaid, mixed, edits, builds>>
  BY DEF Link
<1>4. builds' \in 0 .. MaxBuilds
  BY <1>3 DEF TypeOK
<1> HIDE DEF t
<1> QED
  BY <1>2, <1>3, <1>4, QuietStep

LEMMA AbandonHolds ==
    ASSUME TypeOK, NamesInv, NEW p \in Procs, Abandon(p)
    PROVE  TypeOK' /\ NamesInv'
<1>1. Step(p, NoSession) /\ UNCHANGED <<source, files, contended, cacheFile, overlaid, mixed, edits, builds>>
  BY DEF Abandon
<1>2. builds' \in 0 .. MaxBuilds
  BY <1>1 DEF TypeOK
<1> QED
  BY <1>1, <1>2, NoSessionOK, QuietStep

LEMMA NextHolds == TypeOK /\ NamesInv /\ [Next]_vars => TypeOK' /\ NamesInv'
<1> SUFFICES ASSUME TypeOK, NamesInv, [Next]_vars PROVE TypeOK' /\ NamesInv'
  OBVIOUS
<1>1. CASE UNCHANGED vars
  BY <1>1 DEF vars, TypeOK, NamesInv, ObjectsMatchNames
<1>2. CASE Edit
  BY <1>2, EditHolds
<1>3. ASSUME NEW p \in Procs, StartBuild(p) \/ Progress(p) \/ Abandon(p)
      PROVE  TypeOK' /\ NamesInv'
  BY <1>3, StartBuildHolds, ReadSourceHolds, UseCachedHolds, BeginEmitHolds, EndEmitHolds,
     BeginSaveHolds, EndSaveHolds, LinkHolds, AbandonHolds DEF Progress
<1> QED
  BY <1>1, <1>2, <1>3 DEF Next

-----------------------------------------------------------------------------
(* The theorems *)

(* session.rs: every object a session or the cache names is a file, and a  *)
(* session has one object for each module it has finished.                 *)
THEOREM TypeCorrect == Spec => []TypeOK
<1> QED
  BY InitHolds, NextHolds, PTL DEF Spec

(* Any number of thagc processes, crashes at any step and edits at any     *)
(* time: an object in the build directory is named by the hash of what it  *)
(* was compiled from, and every cache entry that comes of no overlapping   *)
(* saves pairs the two rightly (ModuleCache::load, record and save).       *)
THEOREM DirectoryConsistency == Spec => []DirectoryIsConsistent
<1>1. NamesInv => DirectoryIsConsistent
  BY DEF NamesInv, DirectoryIsConsistent, SessionNamed
<1> QED
  BY <1>1, InitHolds, NextHolds, PTL DEF Spec

(* A finished build that loaded no mixture of caches has linked, for each  *)
(* module, the object of the source it read, unless that object lies       *)
(* outside the build directory or is not whole.                            *)
THEOREM LinksOwnSource == Spec => []LinkedFromSource
<1>1. NamesInv => LinkedFromSource
  BY DEF NamesInv, LinkedFromSource, SessionNamed
<1> QED
  BY <1>1, InitHolds, NextHolds, PTL DEF Spec

-----------------------------------------------------------------------------
(* The cache of the incremental build is invisible to a user who runs one  *)
(* build at a time: whatever was built, edited and aborted before, an      *)
(* entry of the cache names an object that was written completely, and a   *)
(* build links what compiling the texts it read would yield (CleanBuild).  *)
(*                                                                         *)
(* The conditions under which this holds are hypotheses of the theorems.   *)
(* The module graph meets two of them, EachModuleOnce and ImportsFirst;    *)
(* without each of the others the code does not keep the promise.          *)

(* No two thagc processes build in the directory at the same time. *)
OneProcess == \A p, q \in Procs : p = q

(* No build asks for LLVM text, or for the object at the output path. *)
PlainBuilds == \A r \in Requests : r.emit = {}

(* The build order lists every module once and after its imports: what     *)
(* ModuleGraphProofs proves of the order compile_all is given.             *)
EachModuleOnce ==
    \A prog \in Programs : \A i, j \in 1 .. Len(prog) : prog[i] = prog[j] => i = j
ImportsFirst ==
    \A prog \in Programs : \A i \in 1 .. Len(prog) : \A dep \in Deps[prog[i]] :
        \E j \in 1 .. i - 1 : prog[j] = dep

(* Edits change bodies, and leave what a module exports as it is. *)
SignaturesFixed == EditableSignatures = {}

(* The hash tells the flags of the builds apart. *)
FlagHashSeparates == \A f, g \in Flags : FlagHash(f) = FlagHash(g) => f = g

-----------------------------------------------------------------------------
(* Entries name whole objects *)

EntryNames(m, entry) ==
    /\ IsBuildPath(entry.object)
    /\ entry.object.hash = entry.hash
    /\ entry.hash[1].module = m

(* An entry names an object that is whole on `disk`, and none of the paths *)
(* that are being written.                                                 *)
EntriesWhole(cache, disk, writing) ==
    \A m \in DOMAIN cache :
        /\ EntryNames(m, cache[m])
        /\ cache[m].object \notin writing
        /\ disk[cache[m].object] # Torn

Compiling(s) == s.pc \in {"read", "lookup", "emit"}
Writing(s) == IF s.pc = "emit" THEN {ObjectPath(s)} ELSE {}

SameEntry(m, cache, saved) ==
    /\ m \in DOMAIN cache <=> m \in DOMAIN saved
    /\ m \in DOMAIN cache => cache[m] = saved[m]

ReadsItsModules(s) == \A i \in 1 .. Len(s.read) : s.read[i].module = ModuleAt(s.request, i)

(* Until it saves, a session leaves the entries of the modules still to    *)
(* come as it loaded them.                                                 *)
SessionWhole(s, disk, saved) ==
    /\ EntriesWhole(s.cache, disk, Writing(s))
    /\ EntriesWhole(saved, disk, Writing(s))
    /\ ReadsItsModules(s)
    /\ Compiling(s) => \A i \in Len(s.objects) + 1 .. Size(s.request) :
                          SameEntry(ModuleAt(s.request, i), s.cache, saved)

WholeInv ==
    /\ contended = {}
    /\ overlaid = {}
    /\ EntriesWhole(cacheFile, files, {})
    /\ \A p \in Procs : SessionWhole(session[p], files, cacheFile)

-----------------------------------------------------------------------------
(* A single session *)

LEMMA NoSessionWhole ==
    ASSUME NEW disk, NEW saved, EntriesWhole(saved, disk, {})
    PROVE  SessionWhole(NoSession, disk, saved)
<1>1. NoSession.pc = "idle" /\ NoSession.cache = Empty /\ NoSession.read = <<>>
  BY DEF NoSession
<1>2. DOMAIN Empty = {} /\ Len(<<>>) = 0
  BY DEF Empty
<1>3. Writing(NoSession) = {}
  BY <1>1 DEF Writing
<1> QED
  BY <1>1, <1>2, <1>3 DEF SessionWhole, EntriesWhole, ReadsItsModules, Compiling

LEMMA StartIsWhole ==
    ASSUME NEW disk, NEW saved, EntriesWhole(saved, disk, {}), NEW r, NEW mixture,
           NEW t, t = [NoSession EXCEPT !.pc = "read", !.request = r, !.cache = saved,
                                        !.mixed = mixture]
    PROVE  SessionWhole(t, disk, saved)
<1>1. t.pc = "read" /\ t.cache = saved /\ t.read = <<>> /\ Len(<<>>) = 0
  BY DEF NoSession
<1>2. Writing(t) = {}
  BY <1>1 DEF Writing
<1>3. \A m : SameEntry(m, saved, saved)
  BY DEF SameEntry
<1> QED
  BY ONLY <1>1, <1>2, <1>3, EntriesWhole(saved, disk, {}) DEF SessionWhole, ReadsItsModules

LEMMA ReadIsWhole ==
    ASSUME NEW s, NEW P, SessionOK(s, P), s.pc = "read",
           NEW disk, NEW saved, SessionWhole(s, disk, saved),
           NEW text \in Texts, text.module = ModuleAt(s.request, Len(s.read) + 1),
           NEW t, t = [s EXCEPT !.pc = "lookup", !.read = Append(@, text)]
    PROVE  SessionWhole(t, disk, saved)
<1>1. /\ t.pc = "lookup" /\ t.request = s.request /\ t.cache = s.cache
      /\ t.objects = s.objects /\ t.read = Append(s.read, text)
  BY DEF SessionOK
<1>2. /\ s.read \in Seq(Texts) /\ Len(s.read) \in Nat
      /\ Len(t.read) = Len(s.read) + 1 /\ t.read[Len(s.read) + 1] = text
      /\ \A i \in 1 .. Len(s.read) : t.read[i] = s.read[i]
  BY <1>1, AppendProperties, LenProperties DEF SessionOK
<1>3. Writing(t) = {} /\ Writing(s) = {}
  BY <1>1 DEF Writing
<1>4. ReadsItsModules(t)
  BY <1>1, <1>2 DEF SessionWhole, ReadsItsModules
<1> QED
  BY <1>1, <1>3, <1>4 DEF SessionWhole, Compiling

(* A session that reuses an object leaves the entries as they are. *)
LEMMA UseIsWhole ==
    ASSUME NEW s, NEW P, SessionOK(s, P), s.pc = "lookup",
           NEW disk, NEW saved, SessionWhole(s, disk, saved),
           NEW path \in P,
           NEW t, t = [s EXCEPT !.pc = AfterModule(s), !.objects = Append(@, path)]
    PROVE  SessionWhole(t, disk, saved)
<1>1. /\ t.pc = AfterModule(s) /\ t.request = s.request /\ t.cache = s.cache
      /\ t.objects = Append(s.objects, path) /\ t.read = s.read
  BY DEF SessionOK
<1>2. s.objects \in Seq(P) /\ Len(t.objects) = Len(s.objects) + 1 /\ Len(s.objects) \in Nat
  BY <1>1, AppendProperties, LenProperties DEF SessionOK
<1>3. Writing(t) = {} /\ Writing(s) = {}
  BY <1>1 DEF Writing, AfterModule
<1>4. \A i \in Len(t.objects) + 1 .. Size(t.request) :
         SameEntry(ModuleAt(t.request, i), t.cache, saved)
  BY <1>1, <1>2 DEF SessionWhole, Compiling, Size
<1> QED
  BY <1>1, <1>3, <1>4 DEF SessionWhole, ReadsItsModules

(* A step past the compilation that changes the counter or what is linked. *)
LEMMA LaterIsWhole ==
    ASSUME NEW s, NEW disk, NEW saved, SessionWhole(s, disk, saved),
           NEW other, EntriesWhole(other, disk, {}), NEW t,
           t.pc \in {"saving", "link", "done"}, ~Compiling(s),
           t.cache = s.cache, t.read = s.read, t.request = s.request
    PROVE  SessionWhole(t, disk, other)
<1>1. Writing(t) = {} /\ Writing(s) = {} /\ ~Compiling(t)
  BY DEF Writing, Compiling
<1> QED
  BY <1>1 DEF SessionWhole, ReadsItsModules

LEMMA AtModule ==
    ASSUME NEW s, NEW P, SessionOK(s, P), s.pc \in {"lookup", "emit"},
           ReadsItsModules(s), PlainBuilds
    PROVE  /\ At(s) \in 1 .. Size(s.request) /\ At(s) = Len(s.objects) + 1 /\ At(s) = Len(s.read)
           /\ Len(s.objects) \in Nat /\ Size(s.request) \in Nat /\ s.request \in Requests
           /\ Hash(s)[1].module = Module(s) /\ Hash(s)[1] = s.read[At(s)]
           /\ ObjectPath(s) = BuildPath(ModuleIds[s.request.program][Module(s)], Hash(s))
           /\ IsBuildPath(ObjectPath(s)) /\ ObjectPath(s).hash = Hash(s)
           /\ ~WantsEntryText(s)
<1>1. /\ s.request \in Requests /\ s.read \in Seq(Texts) /\ At(s) <= Size(s.request)
      /\ Len(s.objects) = At(s) - 1 /\ At(s) = Len(s.read)
      /\ Len(s.objects) \in Nat /\ At(s) \in Nat
  BY LenProperties DEF SessionOK, At
<1>2. Size(s.request) \in Nat
  BY <1>1, RequestHasModules
<1>3. Hash(s)[1] = s.read[At(s)] /\ s.read[At(s)].module = Module(s)
  BY <1>1 DEF Hash, ModuleHash, ReadsItsModules, Module
<1>4. ObjectPath(s) = BuildPath(ModuleIds[s.request.program][Module(s)], Hash(s))
  BY <1>1 DEF ObjectPath, PlainBuilds
<1>5. IsBuildPath(ObjectPath(s)) /\ ObjectPath(s).hash = Hash(s)
  BY <1>4 DEF IsBuildPath, BuildPath
<1>6. ~WantsEntryText(s)
  BY <1>1 DEF WantsEntryText, PlainBuilds
<1> QED
  BY <1>1, <1>2, <1>3, <1>4, <1>5, <1>6

(* Two entries with one object are of one module: the hash in the path is  *)
(* the hash of the source text, and that names the module.                 *)
LEMMA MissNamesNoEntry ==
    ASSUME PlainBuilds, TypeOK, WholeInv, NEW p \in Procs, BeginEmit(p)
    PROVE  LET s == session[p]
           IN  /\ \A m \in DOMAIN s.cache : s.cache[m].object # ObjectPath(s)
               /\ \A m \in DOMAIN cacheFile : cacheFile[m].object # ObjectPath(s)
<1> DEFINE s == session[p]
<1>1. /\ SessionOK(s, DOMAIN files) /\ SessionWhole(s, files, cacheFile) /\ s.pc = "lookup"
      /\ ~IsHit(s) \/ WantsEntryText(s)
  BY DEF TypeOK, WholeInv, BeginEmit
<1> HIDE DEF s
<1>2. ReadsItsModules(s) /\ EntriesWhole(s.cache, files, {}) /\ EntriesWhole(cacheFile, files, {})
  BY <1>1 DEF SessionWhole, Writing
<1>3. /\ Hash(s)[1].module = Module(s) /\ ObjectPath(s).hash = Hash(s) /\ ~IsHit(s)
      /\ Module(s) = ModuleAt(s.request, At(s))
      /\ At(s) \in Len(s.objects) + 1 .. Size(s.request)
  BY <1>1, <1>2, AtModule DEF Module
<1>4. \A m \in DOMAIN s.cache : s.cache[m].object # ObjectPath(s)
  <2> SUFFICES ASSUME NEW m \in DOMAIN s.cache, s.cache[m].object = ObjectPath(s) PROVE FALSE
    OBVIOUS
  <2>1. s.cache[m].hash = Hash(s) /\ m = Module(s)
    BY <1>2, <1>3 DEF EntriesWhole, EntryNames
  <2>2. s.cache[m].object \in DOMAIN files
    BY <1>1 DEF SessionOK, CacheOK
  <2> QED
    BY <1>3, <2>1, <2>2 DEF IsHit
<1>5. \A m \in DOMAIN cacheFile : cacheFile[m].object # ObjectPath(s)
  <2> SUFFICES ASSUME NEW m \in DOMAIN cacheFile, cacheFile[m].object = ObjectPath(s) PROVE FALSE
    OBVIOUS
  <2>1. m = Module(s)
    BY <1>2, <1>3 DEF EntriesWhole, EntryNames
  <2>2. SameEntry(m, s.cache, cacheFile)
    BY <1>1, <1>3, <2>1 DEF SessionWhole, Compiling
  <2> QED
    BY <1>4, <2>2 DEF SameEntry
<1> QED
  BY <1>4, <1>5 DEF s

LEMMA WholeIsNotTorn == ASSUME NEW r, NEW read, NEW i PROVE Compiled(r, read, i) # Torn
<1>1. "source" \in DOMAIN Compiled(r, read, i)
  BY DEF Compiled
<1>2. "source" \notin DOMAIN Torn
  BY DEF Torn
<1> QED
  BY <1>1, <1>2

-----------------------------------------------------------------------------
(* Every step keeps the entries whole *)

LEMMA OnlySession ==
    ASSUME OneProcess, TypeOK, NEW p \in Procs, NEW t, Step(p, t)
    PROVE  Procs = {p} /\ session'[p] = t
BY DEF OneProcess, TypeOK, Step

(* A step of the one session that writes no file, or only adds to what the *)
(* session and the cache on disk agree on.                                 *)
LEMMA WholeStep ==
    ASSUME OneProcess, TypeOK, NEW p \in Procs, NEW t, Step(p, t), contended' = {},
           overlaid' = {}, EntriesWhole(cacheFile', files', {}), SessionWhole(t, files', cacheFile')
    PROVE  WholeInv'
<1>1. Procs = {p} /\ session'[p] = t
  BY OnlySession
<1> QED
  BY <1>1 DEF WholeInv

LEMMA BeginEmitIsWhole ==
    ASSUME OneProcess, PlainBuilds, TypeOK, WholeInv, NEW p \in Procs, BeginEmit(p)
    PROVE  WholeInv'
<1> PICK s : s = session[p]
  OBVIOUS
<1> PICK path : path = ObjectPath(s)
  OBVIOUS
<1> PICK t : t = [s EXCEPT !.pc = "emit"]
  OBVIOUS
<1>1. /\ SessionOK(s, DOMAIN files) /\ SessionWhole(s, files, cacheFile) /\ s.pc = "lookup"
      /\ files' = Put(files, path, Torn) /\ Step(p, t)
      /\ UNCHANGED <<cacheFile, overlaid>> /\ overlaid = {}
      /\ contended' = IF Emitting(path) = {} THEN contended \ {path} ELSE contended \cup {path}
  BY DEF TypeOK, WholeInv, BeginEmit
<1>2. /\ \A m \in DOMAIN s.cache : s.cache[m].object # path
      /\ \A m \in DOMAIN cacheFile : cacheFile[m].object # path
  BY MissNamesNoEntry
<1>3. contended' = {}
  <2>1. Emitting(path) = {}
    BY <1>1, OnlySession DEF Emitting
  <2> QED
    BY <1>1, <2>1 DEF WholeInv
<1>4. /\ t.pc = "emit" /\ t.request = s.request /\ t.cache = s.cache
      /\ t.objects = s.objects /\ t.read = s.read
  BY <1>1 DEF SessionOK
<1>5. ObjectPath(t) = path /\ Writing(t) = {path} /\ Writing(s) = {}
  BY <1>1, <1>4, SMTT(30) DEF Writing, ObjectPath, Hash, Module, At
<1>6. \A x \in DOMAIN files : x # path => files'[x] = files[x]
  BY <1>1 DEF Put
<1>7. CacheOK(s.cache, DOMAIN files) /\ CacheOK(cacheFile, DOMAIN files)
  BY <1>1 DEF TypeOK, SessionOK
<1>8. EntriesWhole(s.cache, files', {path}) /\ EntriesWhole(cacheFile, files', {path})
  BY <1>1, <1>2, <1>5, <1>6, <1>7 DEF SessionWhole, EntriesWhole, CacheOK
<1>9. SessionWhole(t, files', cacheFile')
  BY <1>1, <1>4, <1>5, <1>8 DEF SessionWhole, ReadsItsModules, Compiling, SameEntry
<1>10. EntriesWhole(cacheFile', files', {})
  BY <1>1, <1>8 DEF EntriesWhole
<1> QED
  BY <1>1, <1>3, <1>9, <1>10, WholeStep

LEMMA EndEmitIsWhole ==
    ASSUME OneProcess, PlainBuilds, EachModuleOnce, TypeOK, WholeInv, NEW p \in Procs, EndEmit(p)
    PROVE  WholeInv'
<1> PICK s : s = session[p]
  OBVIOUS
<1> PICK path : path = ObjectPath(s)
  OBVIOUS
<1> PICK entry : entry = [hash |-> Hash(s), object |-> path]
  OBVIOUS
<1> PICK t : t = [s EXCEPT !.pc = AfterModule(s), !.objects = Append(@, path),
                           !.cache = Put(@, Module(s), entry)]
  OBVIOUS
<1> PICK whole : whole = Compiled(s.request, s.read, At(s))
  OBVIOUS
<1>1. /\ SessionOK(s, DOMAIN files) /\ SessionWhole(s, files, cacheFile) /\ s.pc = "emit"
      /\ Step(p, t) /\ UNCHANGED <<cacheFile, contended, overlaid>> /\ contended = {} /\ overlaid = {}
      /\ files' = Put(files, path, whole)
  BY DEF TypeOK, WholeInv, EndEmit
<1>2. /\ t.pc = AfterModule(s) /\ t.request = s.request /\ t.cache = Put(s.cache, Module(s), entry)
      /\ t.objects = Append(s.objects, path) /\ t.read = s.read
  BY <1>1 DEF SessionOK
<1>3. /\ ReadsItsModules(s) /\ EntriesWhole(s.cache, files, {path})
      /\ EntriesWhole(cacheFile, files, {path})
  BY <1>1 DEF SessionWhole, Writing
<1>4. /\ At(s) \in 1 .. Size(s.request) /\ At(s) = Len(s.objects) + 1 /\ Len(s.objects) \in Nat
      /\ s.request \in Requests /\ Size(s.request) \in Nat
      /\ Hash(s)[1].module = Module(s) /\ IsBuildPath(path) /\ path.hash = Hash(s)
  BY <1>1, <1>3, AtModule
<1>5. EntryNames(Module(s), entry) /\ entry.object = path
  BY <1>4 DEF EntryNames
<1>6. /\ \A x \in DOMAIN files : x # path => files'[x] = files[x]
      /\ files'[path] = whole /\ whole # Torn
  BY <1>1, WholeIsNotTorn DEF Put
<1>7. CacheOK(s.cache, DOMAIN files) /\ CacheOK(cacheFile, DOMAIN files)
  BY <1>1 DEF TypeOK, SessionOK
<1>8. /\ DOMAIN t.cache = DOMAIN s.cache \cup {Module(s)} /\ t.cache[Module(s)] = entry
      /\ \A m \in DOMAIN s.cache : m # Module(s) => t.cache[m] = s.cache[m]
  BY <1>2 DEF Put
<1>9. EntriesWhole(cacheFile, files', {})
  BY <1>3, <1>6, <1>7 DEF EntriesWhole, CacheOK
<1>10. EntriesWhole(t.cache, files', {})
  BY <1>3, <1>5, <1>6, <1>7, <1>8 DEF EntriesWhole, CacheOK
<1>11. Writing(t) = {}
  BY <1>2 DEF Writing, AfterModule
<1>12. ASSUME NEW i \in Len(t.objects) + 1 .. Size(t.request)
       PROVE  SameEntry(ModuleAt(t.request, i), t.cache, cacheFile)
  <2>1. Len(t.objects) = Len(s.objects) + 1
    BY <1>1, <1>2, AppendProperties DEF SessionOK
  <2>2. i \in Len(s.objects) + 1 .. Size(s.request) /\ i \in 1 .. Size(s.request) /\ i # At(s)
    BY <1>2, <1>4, <1>12, <2>1
  <2>3. ModuleAt(s.request, i) # Module(s)
    <3>1. s.request.program \in Programs
      BY <1>4, InputsAssumption
    <3> QED
      BY <1>4, <2>2, <3>1 DEF EachModuleOnce, ModuleAt, Module, Size
  <2>4. SameEntry(ModuleAt(s.request, i), s.cache, cacheFile)
    BY <1>1, <2>2 DEF SessionWhole, Compiling
  <2> QED
    BY <1>2, <1>8, <2>3, <2>4 DEF SameEntry
<1>13. SessionWhole(t, files', cacheFile')
  BY <1>1, <1>2, <1>3, <1>9, <1>10, <1>11, <1>12 DEF SessionWhole, ReadsItsModules
<1> QED
  BY <1>1, <1>9, <1>13, WholeStep

LEMMA SaveIsWhole ==
    ASSUME OneProcess, TypeOK, WholeInv, NEW p \in Procs, BeginSave(p) \/ EndSave(p)
    PROVE  WholeInv'
<1> PICK s : s = session[p]
  OBVIOUS
<1>1. /\ SessionWhole(s, files, cacheFile) /\ s.pc \in {"save", "saving"} /\ contended = {}
      /\ SessionOK(s, DOMAIN files) /\ UNCHANGED <<files, contended>> /\ overlaid = {}
  BY DEF TypeOK, WholeInv, BeginSave, EndSave
<1>2. PICK pc \in {"saving", "link"} : Step(p, [s EXCEPT !.pc = pc])
  BY DEF BeginSave, EndSave
<1> PICK t : t = [s EXCEPT !.pc = pc]
  OBVIOUS
<1>3. t.pc = pc /\ t.request = s.request /\ t.cache = s.cache /\ t.read = s.read
  BY <1>1 DEF SessionOK
<1>4. EntriesWhole(s.cache, files, {}) /\ EntriesWhole(cacheFile, files, {})
  BY <1>1 DEF SessionWhole, Writing
<1>5. EntriesWhole(cacheFile', files, {}) /\ overlaid' = {}
  <2>1. CASE BeginSave(p)
    <3>1. session[p].pc = "save"
      BY <2>1 DEF BeginSave
    <3>2. Saving = {}
      BY <3>1 DEF OneProcess, Saving
    <3>3. /\ \E part \in SUBSET DOMAIN s.cache : cacheFile' = [m \in part |-> s.cache[m]]
          /\ overlaid' = {}
      BY <2>1, <3>2 DEF BeginSave
    <3> QED
      BY <1>4, <3>3 DEF EntriesWhole
  <2>2. CASE EndSave(p)
    <3>1. cacheFile' = s.cache /\ overlaid' = {}
      BY <1>1, <2>2 DEF EndSave
    <3> QED
      BY <1>4, <3>1
  <2> QED
    BY <2>1, <2>2
<1>6. SessionWhole(t, files, cacheFile')
  <2>1. ~Compiling(s) /\ t.pc \in {"saving", "link", "done"} /\ SessionWhole(s, files, cacheFile)
    BY <1>1, <1>3 DEF Compiling
  <2> QED
    BY ONLY <1>3, <1>5, <2>1, LaterIsWhole
<1> QED
  BY <1>1, <1>2, <1>5, <1>6, WholeStep

(* The steps that change the session and nothing on disk. *)
LEMMA SessionStepIsWhole ==
    ASSUME OneProcess, TypeOK, WholeInv, NEW p \in Procs,
           StartBuild(p) \/ ReadSource(p) \/ UseCached(p) \/ Link(p) \/ Abandon(p)
    PROVE  WholeInv'
<1> PICK s : s = session[p]
  OBVIOUS
<1>1. /\ SessionWhole(s, files, cacheFile) /\ SessionOK(s, DOMAIN files)
      /\ EntriesWhole(cacheFile, files, {})
      /\ UNCHANGED <<files, contended, cacheFile, overlaid>> /\ contended = {} /\ overlaid = {}
  BY DEF TypeOK, WholeInv, StartBuild, ReadSource, UseCached, Link, Abandon
<1>2. ASSUME NEW t, Step(p, t), SessionWhole(t, files, cacheFile)
      PROVE  WholeInv'
    BY <1>1, <1>2, WholeStep
<1>3. CASE StartBuild(p)
  <2>1. PICK r \in Requests :
          Step(p, [NoSession EXCEPT !.pc = "read", !.request = r, !.cache = cacheFile,
                                    !.mixed = mixed])
    BY <1>1, <1>3 DEF StartBuild, Loadable
  <2> QED
    BY <1>1, <1>2, <2>1, StartIsWhole
<1>4. CASE ReadSource(p)
  <2> PICK text : text = source[ModuleAt(s.request, Len(s.read) + 1)]
    OBVIOUS
  <2>1. s.pc = "read" /\ Step(p, [s EXCEPT !.pc = "lookup", !.read = Append(@, text)])
    BY <1>4 DEF ReadSource
  <2>2. text \in Texts /\ text.module = ModuleAt(s.request, Len(s.read) + 1)
    <3>1. s.request \in Requests /\ Len(s.read) < Size(s.request) /\ Len(s.read) \in Nat
      BY <1>1, <2>1, LenProperties DEF SessionOK, At
    <3>2. ModuleAt(s.request, Len(s.read) + 1) \in Modules
      BY <3>1, RequestHasModules DEF ModuleAt, Size
    <3> QED
      BY <3>2 DEF TypeOK, SourceTrees
  <2> QED
    BY <1>1, <1>2, <2>1, <2>2, ReadIsWhole
<1>5. CASE UseCached(p)
  <2> PICK path : path = s.cache[Module(s)].object
    OBVIOUS
  <2>1. /\ s.pc = "lookup" /\ IsHit(s)
        /\ Step(p, [s EXCEPT !.pc = AfterModule(s), !.objects = Append(@, path)])
    BY <1>5 DEF UseCached
  <2>2. path \in DOMAIN files
    BY <2>1 DEF IsHit
  <2> QED
    BY <1>1, <1>2, <2>1, <2>2, UseIsWhole
<1>6. CASE Link(p)
  <2> PICK t : t = [s EXCEPT !.pc = "done",
                             !.linked = [i \in 1 .. Len(s.objects) |-> files[s.objects[i]]]]
    OBVIOUS
  <2>1. s.pc = "link" /\ Step(p, t)
    BY <1>6 DEF Link
  <2>2. t.pc = "done" /\ t.request = s.request /\ t.cache = s.cache /\ t.read = s.read
    BY <1>1 DEF SessionOK
  <2>3. SessionWhole(t, files, cacheFile)
    <3>1. /\ ~Compiling(s) /\ t.pc \in {"saving", "link", "done"}
          /\ SessionWhole(s, files, cacheFile) /\ EntriesWhole(cacheFile, files, {})
      BY <1>1, <2>1, <2>2 DEF Compiling
    <3> QED
      BY ONLY <2>2, <3>1, LaterIsWhole
  <2> QED
    BY <1>2, <2>1, <2>3
<1>7. CASE Abandon(p)
  <2>1. Step(p, NoSession)
    BY <1>7 DEF Abandon
  <2> QED
    BY <1>1, <1>2, <2>1, NoSessionWhole
<1> QED
  BY <1>3, <1>4, <1>5, <1>6, <1>7

LEMMA InitIsWhole == Init => WholeInv
<1> SUFFICES ASSUME Init PROVE WholeInv
  OBVIOUS
<1>1. DOMAIN Empty = {}
  BY DEF Empty
<1>2. EntriesWhole(cacheFile, files, {})
  BY <1>1 DEF Init, EntriesWhole
<1> QED
  BY <1>2, NoSessionWhole DEF Init, WholeInv

LEMMA NextIsWhole ==
    ASSUME OneProcess, PlainBuilds, EachModuleOnce, TypeOK, WholeInv, [Next]_vars
    PROVE  WholeInv'
<1>1. CASE UNCHANGED vars
  BY <1>1 DEF vars, WholeInv
<1>2. CASE Edit
  BY <1>2 DEF Edit, WholeInv
<1>3. ASSUME NEW p \in Procs, StartBuild(p) \/ Progress(p) \/ Abandon(p)
      PROVE  WholeInv'
  BY <1>3, SessionStepIsWhole, BeginEmitIsWhole, EndEmitIsWhole, SaveIsWhole DEF Progress
<1> QED
  BY <1>1, <1>2, <1>3 DEF Next

(* Builds that run one after the other, that crash at any step and at any  *)
(* edit of the sources: an entry of modules.cache names an object that was *)
(* written completely.                                                     *)
THEOREM EntriesNameWholeObjects ==
    ASSUME OneProcess, PlainBuilds, EachModuleOnce
    PROVE  Spec => []SavedObjectsAreWhole
<1>1. TypeOK /\ WholeInv /\ [Next]_vars => WholeInv'
  BY NextIsWhole
<1>2. WholeInv => SavedObjectsAreWhole
  BY DEF WholeInv, EntriesWhole, SavedObjectsAreWhole
<1> QED
  BY <1>1, <1>2, InitIsWhole, TypeCorrect, PTL DEF Spec

-----------------------------------------------------------------------------
(* Objects are what a clean build compiles *)

(* What compiling a text yields, when imports export what they do in tree. *)
ObjectOf(text, namespace, flags, tree) ==
    [source |-> text, namespace |-> namespace, flags |-> flags,
     imports |-> [dep \in Deps[text.module] |-> tree[dep].signature]]

ObjectsAreCompiled(disk, tree) ==
    \A path \in DOMAIN disk :
        disk[path] # Torn =>
            \E text \in Texts, flags \in Flags :
                disk[path] = ObjectOf(text, disk[path].namespace, flags, tree)

SignaturesRead(s, tree) ==
    \A i \in 1 .. Len(s.read) : s.read[i].signature = tree[s.read[i].module].signature

SessionClean(s, disk, tree) ==
    /\ SignaturesRead(s, tree)
    /\ \A i \in 1 .. Len(s.objects) : /\ IsBuildPath(s.objects[i])
                                      /\ disk[s.objects[i]] = Compiled(s.request, s.read, i)
    /\ s.linked = <<>>

CleanInv ==
    /\ ObjectsAreCompiled(files, source)
    /\ \A p \in Procs : session[p].pc # "done" => SessionClean(session[p], files, source)

LEMMA CompiledIsObject ==
    ASSUME EachModuleOnce, ImportsFirst, NEW s, NEW P, SessionOK(s, P), s.pc # "idle",
           ReadsItsModules(s), NEW tree, SignaturesRead(s, tree), NEW i \in 1 .. Len(s.read)
    PROVE  Compiled(s.request, s.read, i)
               = ObjectOf(s.read[i], Namespace(s.request, i), s.request.flags, tree)
<1> DEFINE prog == s.request.program
<1>1. /\ s.request \in Requests /\ prog \in Programs /\ Len(s.read) \in Nat
      /\ Len(s.read) <= Len(prog) /\ Len(prog) \in Nat
  <2>1. s.request \in Requests /\ s.read \in Seq(Texts) /\ Len(s.read) <= Size(s.request)
    BY RequestHasModules DEF SessionOK, At
  <2>2. Len(prog) \in Nat /\ prog \in Programs
    BY <2>1, RequestHasModules, InputsAssumption DEF Size
  <2> QED
    BY <2>1, <2>2, LenProperties DEF Size
<1>2. s.read[i].module = prog[i] /\ ModuleAt(s.request, i) = prog[i] /\ i \in 1 .. Len(prog)
  BY <1>1 DEF ReadsItsModules, ModuleAt
<1>3. ASSUME NEW dep \in Deps[prog[i]]
      PROVE  s.read[PositionOf(s.request, dep)].signature = tree[dep].signature
  <2>1. PICK j \in 1 .. i - 1 : prog[j] = dep
    BY <1>1, <1>2 DEF ImportsFirst
  <2>2. j \in 1 .. Len(prog) /\ j \in 1 .. Len(s.read)
    BY <1>1
  <2>3. PositionOf(s.request, dep) = j
    BY <1>1, <2>1, <2>2 DEF PositionOf, EachModuleOnce, ModuleAt, Size
  <2>4. s.read[j].module = dep
    BY <2>1, <2>2 DEF ReadsItsModules, ModuleAt
  <2> QED
    BY <2>2, <2>3, <2>4 DEF SignaturesRead
<1> HIDE DEF prog
<1> QED
  BY <1>2, <1>3 DEF Compiled, ObjectOf

LEMMA NoSessionClean == ASSUME NEW disk, NEW tree PROVE SessionClean(NoSession, disk, tree)
<1>1. NoSession.read = <<>> /\ NoSession.objects = <<>> /\ NoSession.linked = <<>> /\ Len(<<>>) = 0
  BY DEF NoSession
<1> QED
  BY <1>1 DEF SessionClean, SignaturesRead

LEMMA StartIsClean ==
    ASSUME NEW disk, NEW tree, NEW r, NEW cache, NEW mixture,
           NEW t, t = [NoSession EXCEPT !.pc = "read", !.request = r, !.cache = cache,
                                        !.mixed = mixture]
    PROVE  SessionClean(t, disk, tree)
<1>1. t.read = <<>> /\ t.objects = <<>> /\ t.linked = <<>> /\ Len(<<>>) = 0
  BY DEF NoSession
<1> QED
  BY <1>1 DEF SessionClean, SignaturesRead

(* A source that is read later changes nothing about the objects of the    *)
(* modules before it.                                                      *)
LEMMA ReadIsClean ==
    ASSUME EachModuleOnce, ImportsFirst, NEW s, NEW P, SessionOK(s, P), s.pc = "read",
           ReadsItsModules(s), NEW disk, NEW tree, SessionClean(s, disk, tree),
           NEW text \in Texts, text.signature = tree[text.module].signature,
           NEW t, t = [s EXCEPT !.pc = "lookup", !.read = Append(@, text)],
           SessionOK(t, P), ReadsItsModules(t)
    PROVE  SessionClean(t, disk, tree)
<1>1. /\ t.pc = "lookup" /\ t.request = s.request /\ t.objects = s.objects
      /\ t.read = Append(s.read, text) /\ t.linked = s.linked
  BY DEF SessionOK
<1>2. /\ s.request \in Requests /\ s.read \in Seq(Texts) /\ Len(s.read) \in Nat
      /\ Len(s.objects) = Len(s.read)
      /\ Len(t.read) = Len(s.read) + 1 /\ t.read[Len(s.read) + 1] = text
      /\ \A i \in 1 .. Len(s.read) : t.read[i] = s.read[i]
  BY <1>1, AppendProperties, LenProperties DEF SessionOK, At
<1>3. SignaturesRead(s, tree) /\ SignaturesRead(t, tree)
  BY <1>2 DEF SessionClean, SignaturesRead
<1>4. ASSUME NEW i \in 1 .. Len(s.objects)
      PROVE  Compiled(t.request, t.read, i) = Compiled(s.request, s.read, i)
  <2>1. i \in 1 .. Len(s.read) /\ i \in 1 .. Len(t.read) /\ t.read[i] = s.read[i]
    BY <1>2
  <2>2. Compiled(s.request, s.read, i)
            = ObjectOf(s.read[i], Namespace(s.request, i), s.request.flags, tree)
    BY <1>2, <1>3, <2>1, CompiledIsObject
  <2>3. Compiled(t.request, t.read, i)
            = ObjectOf(t.read[i], Namespace(t.request, i), t.request.flags, tree)
    <3>1. t.pc # "idle"
      BY <1>1
    <3>2. SignaturesRead(t, tree) /\ i \in 1 .. Len(t.read)
      BY <1>3, <2>1
    <3> QED
      BY <3>1, <3>2, CompiledIsObject
  <2> QED
    BY <1>1, <2>1, <2>2, <2>3
<1> QED
  BY <1>1, <1>3, <1>4 DEF SessionClean

LEMMA GatherIsClean ==
    ASSUME NEW s, NEW P, SessionOK(s, P), s.pc \in {"lookup", "emit"},
           NEW disk, NEW tree, SessionClean(s, disk, tree),
           NEW path, IsBuildPath(path), disk[path] = Compiled(s.request, s.read, At(s)),
           NEW t, t.request = s.request, t.read = s.read, t.linked = s.linked,
           t.objects = Append(s.objects, path)
    PROVE  SessionClean(t, disk, tree)
<1>1. /\ Len(s.objects) \in Nat /\ At(s) = Len(s.objects) + 1
      /\ Len(t.objects) = At(s) /\ t.objects[At(s)] = path
      /\ \A i \in 1 .. Len(s.objects) : t.objects[i] = s.objects[i]
  <2>1. s.objects \in Seq(P) /\ Len(s.objects) \in Nat /\ At(s) = Len(s.objects) + 1
    BY LenProperties DEF SessionOK, At
  <2>2. s.objects \in Seq(P \cup {path}) /\ path \in P \cup {path}
    BY <2>1, SeqMonotonic
  <2> QED
    BY <2>1, <2>2, AppendProperties
<1>2. \A i \in 1 .. At(s) : i \in 1 .. Len(s.objects) \/ i = At(s)
  BY <1>1
<1> QED
  BY <1>1, <1>2 DEF SessionClean, SignaturesRead

(* The object of a hit is what compiling the text just read would yield:   *)
(* its name is the hash of what it was compiled from, and the hash is of   *)
(* this text.                                                              *)
LEMMA HitIsCompiled ==
    ASSUME EachModuleOnce, ImportsFirst, FlagHashSeparates, NEW s, SessionOK(s, DOMAIN files),
           SessionWhole(s, files, cacheFile), SignaturesRead(s, source),
           s.pc = "lookup", IsHit(s), ObjectsMatchNames, ObjectsAreCompiled(files, source)
    PROVE  LET path == s.cache[Module(s)].object
           IN  IsBuildPath(path) /\ files[path] = Compiled(s.request, s.read, At(s))
<1> PICK path : path = s.cache[Module(s)].object
  OBVIOUS
<1>1. /\ path \in DOMAIN files /\ s.cache[Module(s)].hash = Hash(s) /\ Module(s) \in DOMAIN s.cache
  BY DEF IsHit
<1>2. IsBuildPath(path) /\ path.hash = Hash(s) /\ files[path] # Torn
  BY <1>1 DEF SessionWhole, EntriesWhole, EntryNames
<1>3. ContentHash(files[path]) = Hash(s)
  BY <1>1, <1>2 DEF ObjectsMatchNames
<1>4. PICK text \in Texts, flags \in Flags :
        files[path] = ObjectOf(text, files[path].namespace, flags, source)
  BY <1>1, <1>2 DEF ObjectsAreCompiled
<1>5. files[path].source = text /\ files[path].flags = flags
  BY <1>4 DEF ObjectOf
<1>6. /\ text = s.read[At(s)] /\ files[path].namespace = Namespace(s.request, At(s))
      /\ FlagHash(flags) = FlagHash(s.request.flags)
  BY <1>3, <1>5 DEF ContentHash, Hash, ModuleHash
<1>7. /\ s.request \in Requests /\ Len(s.read) \in Nat /\ Len(s.objects) \in Nat
      /\ Len(s.objects) = Len(s.read) - 1 /\ At(s) = Len(s.read)
  BY LenProperties DEF SessionOK, At
<1>8. s.request.flags \in Flags /\ At(s) \in 1 .. Len(s.read)
  BY <1>7, InputsAssumption
<1>9. flags = s.request.flags
  BY <1>6, <1>8 DEF FlagHashSeparates
<1>10. Compiled(s.request, s.read, At(s))
           = ObjectOf(s.read[At(s)], Namespace(s.request, At(s)), s.request.flags, source)
  BY <1>7, <1>8, CompiledIsObject DEF SessionWhole
<1> QED
  BY <1>2, <1>4, <1>6, <1>9, <1>10

(* The path being written is not one of the objects gathered so far: those *)
(* are named by the hash of another module's text.                         *)
LEMMA PathIsNew ==
    ASSUME PlainBuilds, EachModuleOnce, NEW s, NEW P, SessionOK(s, P), SessionNamed(s),
           ~s.mixed, s.pc \in {"lookup", "emit"}, ReadsItsModules(s),
           NEW i \in 1 .. Len(s.objects), IsBuildPath(s.objects[i])
    PROVE  s.objects[i] # ObjectPath(s)
<1>1. /\ At(s) \in 1 .. Size(s.request) /\ At(s) = Len(s.objects) + 1 /\ At(s) = Len(s.read)
      /\ Len(s.objects) \in Nat /\ s.request \in Requests /\ Size(s.request) \in Nat
      /\ Hash(s)[1] = s.read[At(s)] /\ ObjectPath(s).hash = Hash(s)
  BY AtModule
<1>2. s.objects[i].hash = ModuleHash(s.request, s.read[i], i)
  BY DEF SessionNamed, ObjectsNameSources, BuildHash
<1>3. s.objects[i].hash[1] = s.read[i]
  BY <1>2 DEF ModuleHash
<1>4. s.read[i].module = s.request.program[i] /\ s.read[At(s)].module = s.request.program[At(s)]
  BY <1>1 DEF ReadsItsModules, ModuleAt
<1>5. s.request.program[i] # s.request.program[At(s)]
  <2>1. s.request.program \in Programs
    BY <1>1, InputsAssumption
  <2>2. i \in 1 .. Len(s.request.program) /\ At(s) \in 1 .. Len(s.request.program) /\ i # At(s)
    BY <1>1 DEF Size
  <2> QED
    BY <2>1, <2>2 DEF EachModuleOnce
<1> QED
  BY <1>1, <1>3, <1>4, <1>5

(* One process never writes over another's cache file. *)
Unmixed == ~mixed /\ \A p \in Procs : ~session[p].mixed

LEMMA InitIsUnmixed == Init => Unmixed
BY DEF Init, Unmixed, NoSession

LEMMA NextIsUnmixed ==
    ASSUME OneProcess, TypeOK, Unmixed, [Next]_vars
    PROVE  Unmixed'
<1>1. CASE UNCHANGED vars
  BY <1>1 DEF vars, Unmixed
<1>2. CASE Edit
  BY <1>2 DEF Edit, Unmixed
<1>3. ASSUME NEW p \in Procs, StartBuild(p) \/ Progress(p) \/ Abandon(p)
      PROVE  Unmixed'
  <2> PICK s : s = session[p]
    OBVIOUS
  <2>1. SessionOK(s, DOMAIN files) /\ ~s.mixed /\ ~mixed
    BY DEF TypeOK, Unmixed
  <2>2. /\ \A pc : ~[s EXCEPT !.pc = pc].mixed
        /\ \A pc, read : ~[s EXCEPT !.pc = pc, !.read = read].mixed
        /\ \A pc, linked : ~[s EXCEPT !.pc = pc, !.linked = linked].mixed
        /\ \A pc, objects : ~[s EXCEPT !.pc = pc, !.objects = objects].mixed
        /\ \A pc, objects, cache :
              ~[s EXCEPT !.pc = pc, !.objects = objects, !.cache = cache].mixed
    BY <2>1 DEF SessionOK
  <2>3. ASSUME NEW t, Step(p, t), ~t.mixed, ~mixed'
        PROVE  Unmixed'
    BY <2>3, OnlySession DEF Unmixed
  <2>4. CASE StartBuild(p)
    <3>1. PICK r \in Requests, cache \in Loadable :
            Step(p, [NoSession EXCEPT !.pc = "read", !.request = r, !.cache = cache,
                                      !.mixed = mixed])
      BY <2>4 DEF StartBuild
    <3> PICK t : t = [NoSession EXCEPT !.pc = "read", !.request = r, !.cache = cache,
                                       !.mixed = mixed]
      OBVIOUS
    <3>2. t.mixed = mixed
      BY DEF NoSession
    <3> QED
      BY <2>1, <2>3, <2>4, <3>1, <3>2 DEF StartBuild
  <2>5. CASE ReadSource(p)
    BY <2>1, <2>2, <2>3, <2>5 DEF ReadSource
  <2>6. CASE UseCached(p)
    BY <2>1, <2>2, <2>3, <2>6 DEF UseCached
  <2>7. CASE BeginEmit(p)
    BY <2>1, <2>2, <2>3, <2>7 DEF BeginEmit
  <2>8. CASE EndEmit(p)
    BY <2>1, <2>2, <2>3, <2>8 DEF EndEmit
  <2>9. CASE BeginSave(p)
    <3>1. Saving = {}
      BY <2>9 DEF BeginSave, OneProcess, Saving
    <3> QED
      BY <2>1, <2>2, <2>3, <2>9, <3>1 DEF BeginSave
  <2>10. CASE EndSave(p)
    BY <2>1, <2>2, <2>3, <2>10 DEF EndSave
  <2>11. CASE Link(p)
    BY <2>1, <2>2, <2>3, <2>11 DEF Link
  <2>12. CASE Abandon(p)
    <3>1. ~NoSession.mixed
      BY DEF NoSession
    <3> QED
      BY <2>1, <2>3, <2>12, <3>1 DEF Abandon
  <2> QED
    BY <1>3, <2>4, <2>5, <2>6, <2>7, <2>8, <2>9, <2>10, <2>11, <2>12 DEF Progress
<1> QED
  BY <1>1, <1>2, <1>3 DEF Next

-----------------------------------------------------------------------------
(* Every step is a step of the clean build, or none that it sees *)

Inv == TypeOK /\ NamesInv /\ WholeInv /\ CleanInv /\ Unmixed
mapped == [p \in Procs |-> BuildOf(session[p])]

LEMMA MappedStep ==
    ASSUME OneProcess, TypeOK, NEW p \in Procs, NEW t, Step(p, t)
    PROVE  /\ mapped' = [mapped EXCEPT ![p] = BuildOf(t)]
           /\ mapped[p] = BuildOf(session[p])
<1>1. Procs = {p} /\ session'[p] = t
  BY OnlySession
<1>2. mapped' = [q \in Procs |-> BuildOf(t)]
  BY <1>1 DEF mapped
<1>3. [mapped EXCEPT ![p] = BuildOf(t)] = [q \in Procs |-> BuildOf(t)]
  BY <1>1 DEF mapped
<1> QED
  BY <1>2, <1>3 DEF mapped

(* A step within a build: the clean build has taken none. *)
LEMMA HiddenStep ==
    ASSUME OneProcess, TypeOK, NEW p \in Procs, NEW t, Step(p, t), BuildOf(t) = BuildOf(session[p]),
           UNCHANGED source
    PROVE  UNCHANGED Clean!vars
<1>1. mapped' = [mapped EXCEPT ![p] = mapped[p]]
  BY MappedStep
<1>2. mapped' = mapped
  BY <1>1 DEF mapped
<1> QED
  BY <1>2 DEF Clean!vars, mapped

LEMMA CleanStep ==
    ASSUME OneProcess, TypeOK, NEW p \in Procs, NEW t, Step(p, t),
           ObjectsAreCompiled(files', source'), t.pc # "done" => SessionClean(t, files', source')
    PROVE  CleanInv'
<1>1. Procs = {p} /\ session'[p] = t
  BY OnlySession
<1> QED
  BY <1>1 DEF CleanInv

LEMMA EditIsClean ==
    ASSUME SignaturesFixed, TypeOK, CleanInv, Edit
    PROVE  CleanInv' /\ [Clean!Next]_(Clean!vars)
<1>1. PICK m \in Modules : \E text \in TextsOf(m) :
          /\ m \notin EditableSignatures => text.signature = source[m].signature
          /\ source' = [source EXCEPT ![m] = text]
  BY DEF Edit
<1>2. PICK text \in TextsOf(m) : /\ text.signature = source[m].signature
                                /\ source' = [source EXCEPT ![m] = text]
  BY <1>1 DEF SignaturesFixed
<1>3. UNCHANGED <<files, session>>
  BY DEF Edit
<1>4. \A n \in Modules : source'[n].signature = source[n].signature
  BY <1>2 DEF TypeOK, SourceTrees
<1>5. \A x \in Texts : x.module \in Modules /\ Deps[x.module] \subseteq Modules
  BY InputsAssumption DEF Texts
<1>6. \A x \in Texts : \A namespace, flags :
         ObjectOf(x, namespace, flags, source') = ObjectOf(x, namespace, flags, source)
  BY <1>4, <1>5 DEF ObjectOf
<1>7. ObjectsAreCompiled(files', source')
  BY <1>3, <1>6 DEF CleanInv, ObjectsAreCompiled
<1>8. ASSUME NEW p \in Procs, session[p].pc # "done"
      PROVE  SessionClean(session[p], files', source')
  <2>1. session[p].read \in Seq(Texts) /\ SessionClean(session[p], files, source)
    BY <1>8 DEF TypeOK, SessionOK, CleanInv
  <2>2. \A i \in 1 .. Len(session[p].read) : session[p].read[i].module \in Modules
    BY <1>5, <2>1, ElementOfSeq
  <2> QED
    BY <1>3, <1>4, <2>1, <2>2 DEF SessionClean, SignaturesRead
<1>9. CleanInv'
  BY <1>3, <1>7, <1>8 DEF CleanInv
<1>10. Clean!Edit
  <2>1. text \in Clean!TextsOf(m)
    BY DEF TextsOf, Clean!TextsOf
  <2>2. mapped' = mapped
    BY <1>3 DEF mapped
  <2> QED
    BY <1>2, <2>1, <2>2 DEF Clean!Edit, mapped
<1> QED
  BY <1>9, <1>10 DEF Clean!Next

LEMMA StartRefines ==
    ASSUME OneProcess, TypeOK, CleanInv, NEW p \in Procs, StartBuild(p)
    PROVE  CleanInv' /\ [Clean!Next]_(Clean!vars)
<1>1. PICK r \in Requests, cache \in Loadable :
        Step(p, [NoSession EXCEPT !.pc = "read", !.request = r, !.cache = cache,
                                  !.mixed = mixed])
  BY DEF StartBuild
<1> PICK t : t = [NoSession EXCEPT !.pc = "read", !.request = r, !.cache = cache,
                                   !.mixed = mixed]
  OBVIOUS
<1>2. session[p].pc \in {"idle", "done"} /\ UNCHANGED <<source, files>> /\ Step(p, t)
  BY <1>1 DEF StartBuild
<1>3. SessionClean(t, files, source)
  BY StartIsClean
<1>4. CleanInv'
  BY <1>2, <1>3, CleanStep DEF CleanInv
<1>5. /\ t.pc = "read" /\ t.request = r /\ t.read = <<>> /\ t.linked = <<>>
  BY DEF NoSession
<1>6. BuildOf(t) = [Clean!NoBuild EXCEPT !.state = "building", !.request = r]
  <2>1. BuildOf(t) = [state |-> "building", request |-> r, read |-> <<>>, linked |-> <<>>]
    BY <1>5 DEF BuildOf
  <2> PICK u : u = [Clean!NoBuild EXCEPT !.state = "building", !.request = r]
    OBVIOUS
  <2>2. u = [state |-> "building", request |-> r, read |-> <<>>, linked |-> <<>>]
    BY DEF Clean!NoBuild
  <2> QED
    BY <2>1, <2>2
<1>7. mapped' = [mapped EXCEPT ![p] = BuildOf(t)] /\ mapped[p].state \in {"idle", "done"}
  <2>1. BuildOf(session[p]).state = session[p].pc
    BY <1>2 DEF BuildOf
  <2> QED
    BY <1>2, <2>1, MappedStep
<1>8. Clean!Start(p)
  BY <1>2, <1>6, <1>7 DEF Clean!Start, mapped
<1> QED
  BY <1>4, <1>8 DEF Clean!Next

LEMMA ReadRefines ==
    ASSUME OneProcess, EachModuleOnce, ImportsFirst, Inv, NEW p \in Procs, ReadSource(p)
    PROVE  CleanInv' /\ [Clean!Next]_(Clean!vars)
<1> PICK s : s = session[p]
  OBVIOUS
<1> PICK text : text = source[ModuleAt(s.request, Len(s.read) + 1)]
  OBVIOUS
<1> PICK t : t = [s EXCEPT !.pc = "lookup", !.read = Append(@, text)]
  OBVIOUS
<1>1. /\ s.pc = "read" /\ Step(p, t) /\ UNCHANGED <<source, files, cacheFile>>
      /\ SessionOK(s, DOMAIN files) /\ SessionNamed(s) /\ SessionWhole(s, files, cacheFile)
      /\ SessionClean(s, files, source) /\ ObjectsAreCompiled(files, source) /\ TypeOK
  BY DEF Inv, TypeOK, NamesInv, WholeInv, CleanInv, ReadSource
<1>2. s.request \in Requests /\ Len(s.read) < Size(s.request) /\ Len(s.read) \in Nat
  BY <1>1, LenProperties DEF SessionOK, At
<1>3. /\ text \in Texts /\ text.module = ModuleAt(s.request, Len(s.read) + 1)
      /\ text.signature = source[text.module].signature
  <2>1. ModuleAt(s.request, Len(s.read) + 1) \in Modules
    BY <1>2, RequestHasModules DEF ModuleAt, Size
  <2> QED
    BY <1>1, <2>1 DEF TypeOK, SourceTrees
<1>4. SessionOK(t, DOMAIN files)
  BY <1>1, <1>3, ReadKeeps
<1>5. SessionWhole(t, files, cacheFile)
  BY <1>1, <1>3, ReadIsWhole
<1>6. ReadsItsModules(s) /\ ReadsItsModules(t)
  BY <1>1, <1>5 DEF SessionWhole
<1>7. SessionClean(t, files, source)
  BY <1>1, <1>3, <1>4, <1>6, ReadIsClean
<1>8. CleanInv'
  BY <1>1, <1>7, CleanStep
<1>9. t.pc = "lookup" /\ t.request = s.request /\ t.read = Append(s.read, text) /\ t.linked = s.linked
  BY <1>1 DEF SessionOK
<1>10. /\ mapped' = [mapped EXCEPT ![p] = BuildOf(t)] /\ mapped[p] = BuildOf(s)
  BY <1>1, MappedStep
<1>11. /\ BuildOf(s).state = "building" /\ BuildOf(s).read = s.read /\ BuildOf(s).request = s.request
       /\ BuildOf(t) = [BuildOf(s) EXCEPT !.read = Append(s.read, text)]
  <2>1. BuildOf(s) = [state |-> "building", request |-> s.request,
                      read |-> s.read, linked |-> s.linked]
    BY <1>1 DEF BuildOf
  <2>2. BuildOf(t) = [state |-> "building", request |-> s.request,
                      read |-> Append(s.read, text), linked |-> s.linked]
    BY <1>9 DEF BuildOf
  <2> QED
    BY <2>1, <2>2
<1>12. mapped' = [mapped EXCEPT ![p].read = Append(s.read, text)]
  BY <1>10, <1>11
<1>13. Clean!Read(p)
  BY <1>1, <1>2, <1>10, <1>11, <1>12 DEF Clean!Read, mapped, Clean!Size, Size, Clean!ModuleAt, ModuleAt
<1> QED
  BY <1>8, <1>13 DEF Clean!Next

(* A hit gathers the object a fresh compilation would have written. *)
LEMMA UseRefines ==
    ASSUME OneProcess, EachModuleOnce, ImportsFirst, FlagHashSeparates, Inv,
           NEW p \in Procs, UseCached(p)
    PROVE  CleanInv' /\ [Clean!Next]_(Clean!vars)
<1> PICK s : s = session[p]
  OBVIOUS
<1> PICK path : path = s.cache[Module(s)].object
  OBVIOUS
<1> PICK t : t = [s EXCEPT !.pc = AfterModule(s), !.objects = Append(@, path)]
  OBVIOUS
<1>1. /\ s.pc = "lookup" /\ IsHit(s) /\ Step(p, t) /\ UNCHANGED <<source, files, cacheFile>>
      /\ SessionOK(s, DOMAIN files) /\ SessionWhole(s, files, cacheFile) /\ ObjectsMatchNames
      /\ SessionClean(s, files, source) /\ ObjectsAreCompiled(files, source) /\ TypeOK
  BY DEF Inv, TypeOK, NamesInv, WholeInv, CleanInv, UseCached
<1>2. IsBuildPath(path) /\ files[path] = Compiled(s.request, s.read, At(s))
  BY <1>1, HitIsCompiled DEF SessionClean
<1>3. /\ t.pc = AfterModule(s) /\ t.request = s.request /\ t.read = s.read
      /\ t.objects = Append(s.objects, path) /\ t.linked = s.linked
  BY <1>1 DEF SessionOK
<1>4. SessionClean(t, files, source)
  BY <1>1, <1>2, <1>3, GatherIsClean, ZenonT(30)
<1>5. CleanInv'
  BY <1>1, <1>4, CleanStep
<1>6. BuildOf(t) = BuildOf(s)
  BY <1>1, <1>3 DEF BuildOf, AfterModule
<1> QED
  BY <1>1, <1>5, <1>6, HiddenStep

LEMMA BeginEmitRefines ==
    ASSUME OneProcess, PlainBuilds, EachModuleOnce, Inv, NEW p \in Procs, BeginEmit(p)
    PROVE  CleanInv' /\ [Clean!Next]_(Clean!vars)
<1> PICK s : s = session[p]
  OBVIOUS
<1> PICK path : path = ObjectPath(s)
  OBVIOUS
<1> PICK t : t = [s EXCEPT !.pc = "emit"]
  OBVIOUS
<1>1. /\ s.pc = "lookup" /\ Step(p, t) /\ UNCHANGED source /\ files' = Put(files, path, Torn)
      /\ SessionOK(s, DOMAIN files) /\ SessionNamed(s) /\ SessionWhole(s, files, cacheFile)
      /\ SessionClean(s, files, source) /\ ObjectsAreCompiled(files, source) /\ TypeOK /\ ~s.mixed
  BY DEF Inv, TypeOK, NamesInv, WholeInv, CleanInv, Unmixed, BeginEmit
<1>2. /\ DOMAIN files' = DOMAIN files \cup {path} /\ files'[path] = Torn
      /\ \A x \in DOMAIN files : x # path => files'[x] = files[x]
  BY <1>1 DEF Put
<1>3. /\ t.pc = "emit" /\ t.request = s.request /\ t.read = s.read
      /\ t.objects = s.objects /\ t.linked = s.linked
  BY <1>1 DEF SessionOK
<1>4. \A i \in 1 .. Len(s.objects) : files'[s.objects[i]] = files[s.objects[i]]
  <2> SUFFICES ASSUME NEW i \in 1 .. Len(s.objects)
               PROVE  files'[s.objects[i]] = files[s.objects[i]]
    OBVIOUS
  <2>1. s.objects[i] \in DOMAIN files
    BY <1>1, ElementOfSeq DEF SessionOK
  <2>2. s.objects[i] # path
    BY <1>1, PathIsNew DEF SessionWhole, SessionClean
  <2> QED
    BY <1>2, <2>1, <2>2
<1>5. SessionClean(t, files', source)
  BY <1>1, <1>3, <1>4 DEF SessionClean, SignaturesRead
<1>6. ObjectsAreCompiled(files', source)
  BY <1>1, <1>2 DEF ObjectsAreCompiled
<1>7. CleanInv'
  BY <1>1, <1>5, <1>6, CleanStep
<1>8. BuildOf(t) = BuildOf(s)
  BY <1>1, <1>3 DEF BuildOf
<1> QED
  BY <1>1, <1>7, <1>8, HiddenStep

LEMMA EndEmitRefines ==
    ASSUME OneProcess, PlainBuilds, EachModuleOnce, ImportsFirst, Inv, NEW p \in Procs, EndEmit(p)
    PROVE  CleanInv' /\ [Clean!Next]_(Clean!vars)
<1> PICK s : s = session[p]
  OBVIOUS
<1> PICK path : path = ObjectPath(s)
  OBVIOUS
<1> PICK whole : whole = Compiled(s.request, s.read, At(s))
  OBVIOUS
<1> PICK t : t = [s EXCEPT !.pc = AfterModule(s), !.objects = Append(@, path),
                           !.cache = Put(@, Module(s), [hash |-> Hash(s), object |-> path])]
  OBVIOUS
<1>1. /\ s.pc = "emit" /\ Step(p, t) /\ UNCHANGED source /\ files' = Put(files, path, whole)
      /\ SessionOK(s, DOMAIN files) /\ SessionNamed(s) /\ SessionWhole(s, files, cacheFile)
      /\ SessionClean(s, files, source) /\ ObjectsAreCompiled(files, source) /\ TypeOK /\ ~s.mixed
  BY DEF Inv, TypeOK, NamesInv, WholeInv, CleanInv, Unmixed, EndEmit
<1>2. /\ DOMAIN files' = DOMAIN files \cup {path} /\ files'[path] = whole
      /\ \A x \in DOMAIN files : x # path => files'[x] = files[x]
  BY <1>1 DEF Put
<1>3. /\ t.pc = AfterModule(s) /\ t.request = s.request /\ t.read = s.read
      /\ t.objects = Append(s.objects, path) /\ t.linked = s.linked
  BY <1>1 DEF SessionOK
<1>4. ReadsItsModules(s) /\ SignaturesRead(s, source)
  BY <1>1 DEF SessionWhole, SessionClean
<1>5. /\ IsBuildPath(path) /\ At(s) = Len(s.read) /\ At(s) \in 1 .. Len(s.read)
      /\ s.request \in Requests
  BY <1>1, <1>4, AtModule
<1>6. \A i \in 1 .. Len(s.objects) : files'[s.objects[i]] = files[s.objects[i]]
  <2> SUFFICES ASSUME NEW i \in 1 .. Len(s.objects)
               PROVE  files'[s.objects[i]] = files[s.objects[i]]
    OBVIOUS
  <2>1. s.objects[i] \in DOMAIN files
    BY <1>1, ElementOfSeq DEF SessionOK
  <2>2. s.objects[i] # path
    BY <1>1, <1>4, PathIsNew DEF SessionClean
  <2> QED
    BY <1>2, <2>1, <2>2
<1>7. SessionClean(s, files', source)
  BY <1>1, <1>6 DEF SessionClean
<1>8. SessionClean(t, files', source)
  <2>1. /\ s.pc \in {"lookup", "emit"} /\ SessionOK(s, DOMAIN files)
        /\ files'[path] = Compiled(s.request, s.read, At(s))
    BY <1>1, <1>2
  <2> QED
    BY ONLY <1>3, <1>5, <1>7, <2>1, GatherIsClean
<1>9. ObjectsAreCompiled(files', source)
  <2>1. whole = ObjectOf(s.read[At(s)], Namespace(s.request, At(s)), s.request.flags, source)
    BY <1>1, <1>4, <1>5, CompiledIsObject
  <2>2. whole.namespace = Namespace(s.request, At(s))
    BY <2>1 DEF ObjectOf
  <2>3. s.read[At(s)] \in Texts /\ s.request.flags \in Flags
    BY <1>1, <1>5, InputsAssumption, ElementOfSeq DEF SessionOK
  <2>4. \E text \in Texts, flags \in Flags : whole = ObjectOf(text, whole.namespace, flags, source)
    BY <2>1, <2>2, <2>3
  <2> QED
    BY <1>1, <1>2, <2>4 DEF ObjectsAreCompiled
<1>10. CleanInv'
  BY <1>1, <1>8, <1>9, CleanStep
<1>11. BuildOf(t) = BuildOf(s)
  BY <1>1, <1>3 DEF BuildOf, AfterModule
<1> QED
  BY <1>1, <1>10, <1>11, HiddenStep

LEMMA SaveRefines ==
    ASSUME OneProcess, Inv, NEW p \in Procs, BeginSave(p) \/ EndSave(p)
    PROVE  CleanInv' /\ [Clean!Next]_(Clean!vars)
<1> PICK s : s = session[p]
  OBVIOUS
<1>1. /\ s.pc \in {"save", "saving"} /\ UNCHANGED <<source, files>> /\ SessionOK(s, DOMAIN files)
      /\ SessionClean(s, files, source) /\ ObjectsAreCompiled(files, source) /\ TypeOK
  BY DEF Inv, TypeOK, CleanInv, BeginSave, EndSave
<1>2. PICK pc \in {"saving", "link"} : Step(p, [s EXCEPT !.pc = pc])
  BY DEF BeginSave, EndSave
<1> PICK t : t = [s EXCEPT !.pc = pc]
  OBVIOUS
<1>3. /\ t.pc = pc /\ t.request = s.request /\ t.read = s.read
      /\ t.objects = s.objects /\ t.linked = s.linked
  BY <1>1 DEF SessionOK
<1>4. SessionClean(t, files, source)
  BY <1>1, <1>3 DEF SessionClean, SignaturesRead
<1>5. CleanInv'
  BY <1>1, <1>2, <1>4, CleanStep
<1>6. BuildOf(t) = BuildOf(s)
  BY <1>1, <1>3 DEF BuildOf
<1> QED
  BY <1>1, <1>2, <1>5, <1>6, HiddenStep

(* Linking: the objects are what the clean build links. *)
LEMMA LinkRefines ==
    ASSUME OneProcess, Inv, NEW p \in Procs, Link(p)
    PROVE  CleanInv' /\ [Clean!Next]_(Clean!vars)
<1> PICK s : s = session[p]
  OBVIOUS
<1> PICK linked : linked = [i \in 1 .. Len(s.objects) |-> files[s.objects[i]]]
  OBVIOUS
<1> PICK t : t = [s EXCEPT !.pc = "done", !.linked = linked]
  OBVIOUS
<1>1. /\ s.pc = "link" /\ Step(p, t) /\ UNCHANGED <<source, files>> /\ SessionOK(s, DOMAIN files)
      /\ SessionClean(s, files, source) /\ ObjectsAreCompiled(files, source) /\ TypeOK
  BY DEF Inv, TypeOK, CleanInv, Link
<1>2. /\ t.pc = "done" /\ t.request = s.request /\ t.read = s.read /\ t.linked = linked
  BY <1>1 DEF SessionOK
<1>3. CleanInv'
  BY <1>1, <1>2, CleanStep
<1>4. Len(s.objects) = Size(s.request) /\ Len(s.read) = Size(s.request)
  BY <1>1 DEF SessionOK, At
<1>5. linked = [i \in 1 .. Size(s.request) |-> Compiled(s.request, s.read, i)]
  BY <1>1, <1>4 DEF SessionClean
<1>6. mapped' = [mapped EXCEPT ![p] = BuildOf(t)] /\ mapped[p] = BuildOf(s)
  BY <1>1, MappedStep
<1>7. /\ BuildOf(s).state = "building" /\ BuildOf(s).read = s.read /\ BuildOf(s).request = s.request
      /\ BuildOf(t) = [BuildOf(s) EXCEPT !.state = "done", !.linked = linked]
  <2>1. BuildOf(s) = [state |-> "building", request |-> s.request,
                      read |-> s.read, linked |-> s.linked]
    BY <1>1 DEF BuildOf
  <2>2. BuildOf(t) = [state |-> "done", request |-> s.request, read |-> s.read, linked |-> linked]
    BY <1>2 DEF BuildOf
  <2> PICK u : u = [[state |-> "building", request |-> s.request, read |-> s.read,
                     linked |-> s.linked] EXCEPT !.state = "done", !.linked = linked]
    OBVIOUS
  <2>3. u = [state |-> "done", request |-> s.request, read |-> s.read, linked |-> linked]
    OBVIOUS
  <2>4. BuildOf(s).state = "building" /\ BuildOf(s).read = s.read /\ BuildOf(s).request = s.request
    BY <2>1
  <2> QED
    BY <2>1, <2>2, <2>3, <2>4
<1>8. /\ Clean!Size(s.request) = Size(s.request)
      /\ \A i : Clean!Compiled(s.request, s.read, i) = Compiled(s.request, s.read, i)
  BY DEF Clean!Size, Size, Clean!Compiled, Compiled, Clean!Namespace, Namespace, Clean!ModuleAt,
         ModuleAt, Clean!PositionOf, PositionOf, Clean!IsEntry, IsEntry
<1>9. linked = [i \in 1 .. Clean!Size(s.request) |-> Clean!Compiled(s.request, s.read, i)]
  BY <1>5, <1>8
<1>10. linked = [i \in 1 .. Clean!Size(mapped[p].request) |->
                    Clean!Compiled(mapped[p].request, mapped[p].read, i)]
  <2>1. mapped[p].request = s.request /\ mapped[p].read = s.read
    BY <1>6, <1>7
  <2> QED
    BY ONLY <1>9, <2>1, Zenon
<1>11. mapped' = [mapped EXCEPT ![p] =
                     [mapped[p] EXCEPT !.state = "done",
                                       !.linked = [i \in 1 .. Clean!Size(mapped[p].request) |->
                                           Clean!Compiled(mapped[p].request, mapped[p].read, i)]]]
  BY <1>6, <1>7, <1>10
<1>12. /\ mapped[p].state = "building" /\ Len(mapped[p].read) = Clean!Size(mapped[p].request)
  BY <1>4, <1>6, <1>7, <1>8
<1>13. Clean!Link(p)
  BY <1>1, <1>11, <1>12 DEF Clean!Link, mapped
<1> QED
  BY <1>3, <1>13 DEF Clean!Next

LEMMA AbandonRefines ==
    ASSUME OneProcess, Inv, NEW p \in Procs, Abandon(p)
    PROVE  CleanInv' /\ [Clean!Next]_(Clean!vars)
<1> PICK s : s = session[p]
  OBVIOUS
<1>1. /\ s.pc \notin {"idle", "done"} /\ Step(p, NoSession) /\ UNCHANGED <<source, files>>
      /\ ObjectsAreCompiled(files, source) /\ TypeOK
  BY DEF Inv, CleanInv, Abandon
<1>2. CleanInv'
  BY <1>1, NoSessionClean, CleanStep
<1>3. mapped' = [mapped EXCEPT ![p] = BuildOf(NoSession)] /\ mapped[p] = BuildOf(s)
  BY <1>1, MappedStep
<1>4. BuildOf(NoSession) = Clean!NoBuild /\ BuildOf(s).state = "building"
  BY <1>1 DEF BuildOf, NoSession, Clean!NoBuild, NoRequest, Clean!NoRequest, NoFlags, Clean!NoFlags
<1>5. Clean!Fail(p)
  BY <1>1, <1>3, <1>4 DEF Clean!Fail, mapped
<1> QED
  BY <1>2, <1>5 DEF Clean!Next

LEMMA InitIsClean == Init => CleanInv /\ Clean!Init
<1> SUFFICES ASSUME Init PROVE CleanInv /\ Clean!Init
  OBVIOUS
<1>1. DOMAIN Empty = {}
  BY DEF Empty
<1>2. ObjectsAreCompiled(files, source)
  BY <1>1 DEF Init, ObjectsAreCompiled
<1>3. \A p \in Procs : SessionClean(session[p], files, source)
  BY NoSessionClean DEF Init
<1>4. BuildOf(NoSession) = Clean!NoBuild
  BY DEF BuildOf, NoSession, Clean!NoBuild, NoRequest, Clean!NoRequest, NoFlags, Clean!NoFlags
<1>5. mapped = [p \in Procs |-> Clean!NoBuild]
  BY <1>4 DEF Init, mapped
<1>6. source \in Clean!SourceTrees
  BY DEF Init, SourceTrees, Clean!SourceTrees, Texts, Clean!Texts
<1> QED
  BY <1>2, <1>3, <1>5, <1>6 DEF CleanInv, Clean!Init, mapped

LEMMA NextRefines ==
    ASSUME OneProcess, PlainBuilds, EachModuleOnce, ImportsFirst, SignaturesFixed, FlagHashSeparates,
           Inv, [Next]_vars
    PROVE  CleanInv' /\ [Clean!Next]_(Clean!vars)
<1>1. CASE UNCHANGED vars
  <2>1. CleanInv'
    BY <1>1 DEF vars, Inv, CleanInv
  <2>2. mapped' = mapped /\ source' = source
    BY <1>1 DEF vars, mapped
  <2> QED
    BY <2>1, <2>2 DEF Clean!vars, mapped
<1>2. CASE Edit
  BY <1>2, EditIsClean DEF Inv
<1>3. ASSUME NEW p \in Procs, StartBuild(p) \/ Progress(p) \/ Abandon(p)
      PROVE  CleanInv' /\ [Clean!Next]_(Clean!vars)
  <2>1. CASE StartBuild(p)
    BY <2>1, StartRefines DEF Inv
  <2>2. CASE Progress(p)
    BY <2>2, ReadRefines, UseRefines, BeginEmitRefines, EndEmitRefines, SaveRefines, LinkRefines
       DEF Progress
  <2>3. CASE Abandon(p)
    BY <2>3, AbandonRefines
  <2> QED
    BY <1>3, <2>1, <2>2, <2>3
<1> QED
  BY <1>1, <1>2, <1>3 DEF Next

(* Builds that run one after the other, whatever was built before, however *)
(* many of them crashed and whatever bodies were edited meanwhile: a build *)
(* that finishes has linked exactly what a build without a cache links     *)
(* from the texts it read (compile_all, ModuleCache::lookup and record).   *)
THEOREM CacheIsInvisible ==
    ASSUME OneProcess, PlainBuilds, EachModuleOnce, ImportsFirst, SignaturesFixed, FlagHashSeparates
    PROVE  Spec => KeepsCleanBuild
<1>1. Init => Inv /\ Clean!Init
  BY InitHolds, InitIsWhole, InitIsClean, InitIsUnmixed DEF Inv
<1>2. Inv /\ [Next]_vars => Inv' /\ [Clean!Next]_(Clean!vars)
  BY NextHolds, NextIsWhole, NextIsUnmixed, NextRefines DEF Inv
<1> QED
  BY <1>1, <1>2, PTL DEF Spec, KeepsCleanBuild, Clean!Spec
=============================================================================
