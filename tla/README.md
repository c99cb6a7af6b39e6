# Specifications of the Thagore toolchain

Thagore is a compiled language with an indentation-based syntax. The repository holds its Rust compiler
`thagc`, a language server, an interpreter for the browser, a formatter and release tooling. This directory
models the toolchain from the text of a file to the object on disk: lexing, parsing, formatting, finding
modules and making one program of them, type checking, lowering, interpreting, building incrementally, and
serving an editor. TLC checks the models on small instances, and TLAPS proves the central results.

## The system

| component | state it keeps | operations | what is hard |
|---|---|---|---|
| Module graph (`crates/module_graph/src/lib.rs`) | nodes by path, import edges, queue of files to read | `build`: discovery, `topo_sort`, `detect_cycles` | repeated and self imports, cycles, hash-map order |
| Resolution (`resolver.rs`, `import_table.rs`) | cache of resolved imports, exported symbols | `resolve`, `register`, `resolve_global` | search order, ambiguity |
| Build session (`thagore-cli/src/session.rs`) | `modules.cache`, objects in the build directory, exports of compiled modules | `compile_all`, `check_all`, `link` | crashes, concurrent processes, edits during a build, stale objects |
| Legacy pipeline (`pipeline.rs`) | stack of modules under way, export maps, flattened program | `load`, `rewrite_program` | cycles, shadowing, names bound twice |
| Lexer, parser (`crates/lexer`, `crates/parser`) | indentation stack, token position | `lex_all`, `parse_program` | recovery from errors, odd layouts |
| Printer of trees (`crates/ast/src/display.rs`) | - | `Display` | parentheses by rules of its own |
| Formatter (`thagore-fmt`) | comments not written yet, current line | `format_source` | parentheses and comments are not in the tree |
| Type checker (`crates/typeck`) | scopes, union-find of types, generic instances | `check` | unification, instances found while checking |
| IR lowering (`crates/ir`) | blocks, current block, scopes, loop targets | `lower_module`, `validate_function` | jumps out of nested statements, edges at both ends, phis patched late |
| Code generation (`crates/codegen`) | LLVM values and blocks, files | `emit_outputs`, `link_objects` | partial files, linker fallback |
| Interpreter (`crates/interpreter`) | one stack of scopes for all calls, counters, output | `run` | early exits, limits, errors in the middle |
| Language server (`thagore-lsp`) | buffers, snapshots, one timer per document | didOpen, didChange, didSave, queries | handlers and checks on several threads, aborts that come too late |
| Installers, benchmarks, playground page, editor extension, CI, self-hosted front end | - | - | not modelled, see below |

How they interact: the session builds the module graph once, then compiles the modules in its order. For each
it lexes, parses, registers the exports of the imports (already compiled, because of the order), type checks,
lowers, emits an object through the code generator, and records the object in the cache; it saves the cache
and links at the end. Some failures start the build again in the legacy pipeline, which flattens all modules
into one program. Processes share the build directory and `modules.cache` through the file system only. The
language server runs the front end up to type checking on one text at a time and publishes what it reports.
The playground runs the front end up to type checking and then the interpreter.

## Modules

**`ModuleGraph`** is `ModuleGraph::build`. `imports` (chosen in `Init`) is what the resolver finds for each
file; `nodes`, `edges`, `pending`, `found` are the discovery's vectors, `indegree`, `ready`, `order` those of
Kahn's sort, `stack`, `visited`, `next` the depth-first search. Each action is one turn of one of the three
loops; `BeginSort` and `EnterRoot` choose any order a hash map could give. **`ModuleGraphContract`** is what a
caller relies on: an order of all reachable files with dependencies first, or a cycle that is there, or an
unresolved import. `KeepsContract` is the refinement.

**`ModuleResolution`** is the search for the file of an import: `ModuleResolver` for the session, the legacy
loader's own for itself. **`NameRewriter`** is what a module exports and the renaming of every name of a file
to the name the linker sees (`rewrite_program`, the `ImportTable`). **`ModuleLoading`** puts a whole project
together in both ways, one after the other: the session's graph, order, registration of exports and check of
each module; then the legacy loader, whose `stack` is the recursion of `load`. **`NameScopes`** says what
every name of a project means, over the files alone, and states that the renamed programs mean it still.
**`MCModuleLoading`** has the projects.

**`SyntaxTree`** is the tree: a node has a kind, a name, children and a line. **`LayoutLexer`** turns lines (a
width, words, a note) into tokens with Indents and Dedents; **`Parser`** is a recursive descent over them, one
operator per function of `parser.rs`, errors and recovery included; **`Formatter`** is `format_source`,
**`SyntaxDisplay`** the printer. **`SourceText`** runs a text through them: perhaps an edit damages a line
(`Edit`), it is lexed and parsed, then formatted twice or printed once, and read again each time.
**`MCSourceText`** has the texts.

**`TypeInference`** is the arena of types, the union-find, the scopes and the table of types per node;
**`TypeChecker`** the walk over declarations, one operator per function of `check.rs`. A checker is a record
that each operator takes and returns. **`TypeCheck`** is the walk as a machine: collection of signatures, each
declaration in turn, the worklist of generic instances, which grows while it is worked off, and the closing of
open types. **`TypeRules`** is the abstract specification: when an assignment of types to nodes is right, said
without a solver. **`MCTypeCheck`** has the programs.

**`IrLowering`** is `FunctionLowerer`. The statements of an arbitrary program arrive one by one; `frames` is
the recursion of `lower_block`, `lower_if`, `lower_while`, `lower_for`; `fn` is the function under
construction (blocks with code, terminator and predecessors, the current block, errors), `env` and `loops` are
the scopes and loop targets. A flow of n stages is a function of n + 2 blocks filled in order.
**`IrControlFlow`** says what a program of tokens means, step by step, and states that following the blocks
does the same (`KeepsControlFlow`), that `validate_function` finds nothing and values dominate their uses
(`BlocksAreValid`), and what the guaranteed-return analysis of the type checker promises.

**`Interpreter`** is the tree-walking interpreter: `frames` is the host's stack, `env` the one environment,
`signal` the `Value::Break`, `Continue` or `Return` a statement evaluated to, `step_count` and `call_depth`
the counters. What the program does next is chosen when it is done, within what type checking accepts; calls
happen in statements and in the conditions of loops, and look their callee up in the environment. Locals may
have the name of a constant, of a function or of `println`. **`CallScopes`** is dynamic scoping: each call has
blocks of its own, and sees its own names, then its callers', then the module's. `KeepsScoping` maps the
environment, cut at the open calls, onto it.

**`BuildCache`** is `build_file` with `CompilationSession` for any number of processes over one project
directory. `source`, `files` and `cacheFile` are the disk; `session[p]` is one process with its copy of the
cache and what it read so far. A module goes through `ReadSource`, then `UseCached` or `BeginEmit`/`EndEmit`;
`BeginSave`/`EndSave` write the cache file, not atomically (a reader in between sees any part of it). When two
processes write it at the same time, bytes of one are followed by bytes of the other from any offset on;
`overlaid` holds the caches they wrote, and `Mixtures` what the line-based load can make of it: entries whose
path, hash and object come from different entries of either. `mixed` is a history variable: the file, or the
cache a session loaded, comes of such a mixture.
`Abandon` is a failure or crash at any point. A text is a pair of body and exported signature, an object the
record of what it was compiled from, or `Torn`. **`BuildInputs`** holds the vocabulary (texts, requests,
hash), **`CleanBuild`** the build without a cache, which `KeepsCleanBuild` shows the sequential one to
implement. **`MCBuildCache`** has the programs of the runs: an application and a tool that share a library; or
one whose entry is the other's library.

**`LanguageServer`** is one document between an editor and the server. `inbox` holds messages in the order
sent; `handler` is the handler on the server's task, `tasks` the spawned checks, `timer` the entry of
`debounce`. Aborting has an effect only where a task awaits: in its sleep, or in publishing (`DropPublish`). A
save takes the file as it is when it is handled, or keeps the buffer when the file cannot be read. A text is
the sequence of edits in it. `ahead` is a history variable: a save took what a later one had written.

The theorems are in `ModuleGraphProofs`, `BuildCacheProofs`, `InterpreterProofs`, `LanguageServerProofs`,
`IrLoweringProofs`, `IrDominanceProofs` and `IrScopingProofs`; the one about the refinement of the interpreter
in `InterpreterRefinement`.

Three models follow one form. `SourceText`, `TypeCheck` and `ModuleLoading` are short machines over large
operators (a lexer, a walk, a resolver), and take those operators as parameters which the configuration binds
to the project's own (`Parsed <- MCParsed`, which calls `ParseProgram`): TLC expands everything an action
calls before it starts, and a parameter stops it. Their properties are written `[][P]_vars`, P being about the
state a step is taken from, which TLC evaluates once per transition without expanding P first; every state but
the last has a step, so nothing is missed.

## Runs

| run | question | bounds |
|---|---|---|
| `module_graph` | the sort, the edges, the search for a cycle, the contract and termination | 3 files, import lists of up to 2 entries with repetitions, self imports and unresolved ones: cycles of every length and diamonds occur |
| `imports` | do names keep their meaning when modules are put together; is every module loaded once and before its importers; is what the session accepts accepted by the legacy loader | about 6000 projects: a module in every place, imported in every way and used under every name; bodies with shadowing; three files that import one another in all ways, some broken |
| `syntax_round` | is a text read as it is written; do formatting and printing keep the program and the comments; is formatting idempotent; is an error contained | about 1800 texts: operators in every order with and without parentheses, every declaration, comments on every line; twenty files damaged on each line in every small way; several configurations, indentations of 0, 1 and 3 among them |
| `typecheck` | is what is accepted well typed, instances of generic functions too; does the order of declarations matter; when does a walk end | about 13000 programs: operands of every kind, statements in every place, callers and callees in both orders, structs, methods, generics, types that contain themselves |
| `ir` | do blocks do what the program says; are they valid; is the guaranteed-return analysis right; are accesses to the slot in scope, and errors exactly the deserved ones | any 4 statements; 6 tokens of control flow; 5 of scopes with two names, one also a constant; flows of 2 stages |
| `interpreter_runs` | are scopes and depth balanced after any exit; what do calls see of the one environment; does every run end | 11 steps, depth 2, arrays of 1, two runs; a constant, a function, and locals that may have the name of either or of `println`: a call in a loop in a call left by return |
| `build_sequential` | is the cache invisible; do crashes leave torn objects; does every build end | 2 modules, 2 programs, 2 bodies, 2 flag sets, 3 builds, 2 edits: build, edit, rebuild, edit back |
| `build_concurrent` | does the directory stay consistent where no two saves of the cache overlapped | 2 processes, 3 builds, 1 edit of a signature, requests for LLVM text and objects too: two builds may save over each other, the third loads the mixture |
| `lsp_session` | does the buffer converge; is there one timer; is every edit checked; is what is shown at rest current | 2 edits, 3 saves, 1 reopen, files that cannot be read, quick and slow checks, fair |
| `imports_include_dirs` | **violation**: a symbol of a module outside the project cannot be imported by name | the projects of `imports` |
| `typecheck_operands` | **violation**: the negation of a bool is accepted | two functions without result types |
| `ir_shadowed_constant` | **violation**: a local that hides a constant is not read | 7 tokens |

Why small is enough. In the graph, the properties relate a module to its imports, and cycles up to three cover
self loops, two-cycles and longer ones. A name is found in its file or in one it imports, so three files show
every way there is, and the third what is passed on. The formatter and the printer decide about parentheses
from an operator and its parent, and the texts have every triple. A rule of typing relates a node to its
children and its declaration; the programs put every kind of operand under every kind of node. In lowering and
the interpreter, a mistake shows where two constructs meet; six tokens or eleven steps nest two and leave them
by every exit. In the build, a wrong reuse needs one build to leave an object, a change, and a second build to
take it (a third undoes the change); two processes suffice for a lost update. In the language server, a save
reads ahead when a second one is behind it; a third can fail to be read before or after that.

Deadlock. `CHECK_DEADLOCK FALSE` is set for the graph, texts, lowering, interpreter, builds and language
server: they stop when they are done, or when the user is. `typecheck`, `imports` and the violations on them
end in a step that repeats (`Done`), so TLC reports a walk or a load that gets stuck; their actions only ever
move on, so they also end.

Fairness. `ModuleGraph`: one thread in a loop. `BuildCache`: each process goes on with the build it is in
(`Progress`); starting builds, editing and failing are not owed. `LanguageServer`: the runtime polls ready
handlers and tasks, and timers fire; the user owes nothing. `Interpreter`: the host runs it until it returns;
starting a run is not owed. No other model states fairness or liveness.

What conditions stand in front of properties. Some hold under a condition that names what the code is known to
do otherwise; each is a definition with a comment: `IsPlain` and `ShownAsAnother` (shapes the formatter or the
printer writes as something else), `IsSettled` (what takes a second run of the formatter),
`OperandsAreSettled` and `TypesAreFinite` (what the solver leaves open), `NameScopes!IsPlain` (projects where
what a name means is laid down), `~slow` in `SettledIsCurrent`, `~ahead` where the buffer is said to be the
editor's text, and `~mixed` where cache entries are said to be right. The section after next lists what they
leave out.

## Disagreements between code and documents

Three runs show one, with both lines in `PROJECT.json`:

* `from calc import sqrt as root`, calc in an include directory or the standard library, does not resolve
  (`resolver.rs:218`); a test of the command line expects it to. Modules themselves are found there.
* The operand of a negation may be a call whose result type is still open and becomes `bool` afterwards
  (`check.rs:776`).
* A local that has the name of a constant is written and never read in compiled code (`lower.rs:754`). The
  interpreter reads the local.

Others met while modelling, which the models have and no property asks to be otherwise:

* `--emit obj` after a plain build takes the cached object and writes none at the output (`session.rs:535`).
* The snapshot called the last successful one is replaced by failed ones (`analysis.rs:230` and the comment at
  223).
* A function that can fall through ends in an `Unreachable` that is reached (`lower.rs:1052`; `block.rs:63`).
  `GuaranteeIsSound` says when it cannot.
* The interpreter's scoping is dynamic, not lexical. There is one environment for all calls (`eval.rs:475`), and
  names are looked up in all of it (`env.rs:93`), in "lexical-scope order" (`env.rs:91`): where a caller has a
  local with the name of a constant, which type checking accepts (`scope.rs:37`), its callees read that local for
  the constant, and where it has one with the name of a function, their calls fail with "not callable"
  (`eval.rs:272-292`, `383-391`). `interpreter_runs` has both, and `KeepsScoping` says exactly what is seen.
* Two processes that save `modules.cache` at the same time can leave a file in which the hash of one entry
  stands beside the object of another (`session.rs:208-246`). The next build trusts it and links a whole object
  of another text. Without `~mixed`, `DirectoryIsConsistent` and `LinkedFromSource` fail.
* didSave reads the file as it is when it is handled, and keeps the buffer when it cannot
  (`thagore-lsp/src/session.rs:57-64`). After edit, save, edit, save, where the first save finds the second edit
  in the file and the read of the second fails, the buffer has the second edit twice until a message sets all
  of it. Without `~ahead`, `BufferConverges` fails.
* "Never panics" (`typeck/src/error.rs`) is not so for types that contain themselves: there is no occurs
  check, and a later union recurses without end (`Overflow`).
* The "cyclic import" diagnostic of the legacy loader (`pipeline.rs:641-657`) cannot be reached; it accepts
  cycles, the session refuses them.

## What the models record about the code

Syntax. After a bad first token of the last statement of a block, the declarations that follow are swallowed
until a block ends (`DamageIsContained` counts them). A tab keeps the indentation of the line before. A
comment between two imports moves, and settles after a second run. The formatter writes `(not a) == b`,
`-(not a)` and `(a = b) = c` without parentheses and drops an intent's body; the printer writes `-(a+b)` as
`-a+b`, adds a dot to a relative import and writes 2.0 as 2. Comments behind `else`, `compensate` and the like
are lost. With an odd `indent_size` the formatter's text is refused by the lexer, and with one of 0 by the
parser; neither is ever misread.

Types. Checks of operands let open types through, except those that want a `bool`. Generic types are refused
everywhere though instances are worked off. Of two methods or externs of one name the last signature counts.
Arguments beyond the last parameter are counted as an error but not themselves looked at. Parameters cannot be
assigned inside a generic instance.

Imports. An imported name beats the file's own declaration of it. `from . import a, b` binds the first name to
both modules. A call of an io function through a module loses its number in the legacy loader, and
`base.print` means the builtin. Types are never looked up among imports. `include all` twice is an ambiguity.
Flattening lets a module use names it does not declare. The two pipelines may choose different files for one
import, and name one module differently by who imports it. A module that does not parse is read again by each
importer.

## Proofs

All theorems are for any value of the constants that meets the named assumptions in the modules that declare
them (finite sets of files, naturals as bounds). Two have hypotheses besides, given below: each of these is
either what another part of the code guarantees, or a hazard of the code (listed in `PROJECT.json`) under
which the statement is false. The constants of the runs named with them meet them all.

* **`ModuleGraphProofs`**: `TypeCorrect`; `SortInvariant`; from it `DependenciesComeFirst` and
  `CyclesAreJustified`; `GraphMatchesImports`. Being ordered last is not inductive on its own: the proof
  carries `SortInv`, that the indegree of a module is the number of its imports not yet ordered and that zero
  is reached exactly by the modules ordered or ready. The step of `PopReady` is where repeated imports would
  break it. When the sort is stuck, the modules left all wait for one another, which justifies the search for
  a cycle. That edges are the imports needs `DiscoverInv`: a module is done, waiting in `pending`, or the
  current one, whose edges are those of the imports looked at.
  `AnswersAsPromised` says that `ModuleGraph` implements `ModuleGraphContract`. On top of the above it needs `ReachInv` (every node is reachable from the entry, which gives one direction of "all
  reachable files and no others"; the other is that the nodes are closed under imports once `pending` is
  empty), and `DetectInv` for the search: the stack is a path of the graph, and what was visited is closed
  under imports and has no cycle. So an edge into the stack closes a cycle, and the search cannot run out of
  roots: it would have visited every module without the cycle that `CyclesAreJustified` says is there.
* **`BuildCacheProofs`**: `TypeCorrect`, `DirectoryConsistency`, `LinksOwnSource`, for any number of
  processes, with crashes and edits, and with saves that overlap. The invariant is `NamesInv`: names and
  contents agree on disk; so do the entries of the cache file, and the entries and the object list of a session,
  where no mixture went into them. It holds without locks because an object's name contains the hash of what
  is written to it. A mixture is the file's until a session that loaded none saves alone, which is what `mixed`
  follows.
  The second half has `EntriesNameWholeObjects` and `CacheIsInvisible`, that builds implement
  `CleanBuild`. An entry is written after its object is whole, but the object may be written again by a later
  build; `WholeInv` says that every entry, saved or in memory, names a whole object and never the path that is being
  written, and that a session leaves the entries of modules to come as it loaded them. `OneProcess` is needed for that (two processes write one path), and `PlainBuilds` (a
  build that wants LLVM text emits over a cached object, `session.rs:527`). That nothing stale is linked needs
  `CleanInv`: every whole object is what compiling some text yields with the signatures of now, and the objects
  of a session are those of the texts it read. It holds when edits
  leave signatures alone (`SignaturesFixed`; the hash does not cover them, `session.rs:1123`) and different
  flags have different hashes (`FlagHashSeparates`). `EachModuleOnce` and `ImportsFirst` are what
  `AnswersAsPromised` says of the order the session is given. With one process no saves overlap (`Unmixed`).
  `build_sequential` meets all six.
* **`InterpreterProofs`**: `ScopesAreBalanced`. That the number of scopes is that of the open frames is not
  inductive without knowing where each frame begins; `OpenFrames` says that each frame ends where the next one
  begins, the last at the top of the environment, that bases never decrease, and that the open calls are as
  many as `call_depth`; `Frames` and `Environments` add that every `for` has a name and the outermost scope
  the constants. Leaving a loop or a call from inside is then cutting at a base.
* **`InterpreterRefinement`**: `ScopingIsByCall`, that the one environment, cut at the bases of the open
  calls, is a stack of calls with blocks of their own in which a name is that of the call itself, or else of
  the latest caller that has it, or else the module's. It has no hypothesis about names. Blocks of later calls
  lie above those of earlier ones (`BlocksAreScopes`), so the search down the environment meets the calls
  latest first and in each its innermost block first (`ValueIsFound`); a name that no block has is at most in
  the root (`HoldersAreFound`). An assignment is to a name the call declares, so it never reaches below the
  call's base.
* **`LanguageServerProofs`**: `OutdatedTimersAreCancelled` (its `SessionInv` is inductive as it stands),
  `BufferBecomesText` and `RestIsCurrent`. The buffer is not the editor's text while messages are on their
  way; `BufferInv` says that there is a text which the messages left turn into the editor's, which is the
  buffer unless a save read ahead, and on whose way the file is met at the last save. `ahead` ends when a
  message sets the whole buffer, or when the save that was read ahead of takes the file itself. `QuickInv` says
  that what a handler or a task is about to show is the document, where checks are quick.
* **`IrLoweringProofs`**: `TypeCorrect` and `BlocksValidate`, for programs of any size and nesting. The
  invariant has five parts. `Sound` is what `validate_function` asks, of a function whose blocks may still be
  open: edges lie between blocks and are recorded at both ends, a value is computed at an earlier place in the
  order of the blocks than its uses, the inputs of a phi come from predecessors. `KnowsOpenBlocks` says which
  blocks are open: the current one, and those that open statements and stages to come await, no two the same.
  Without it, a jump out of an `if` could be a second terminator, or a block could be left without one.
  `CountsScopes` tells which scopes of `env` belong to which statement, `KnowsSlots` that the slot of a name
  in scope is allocated by the current block, and by every block that a statement opened since still awaits:
  that is why a variable can be used in the block after a loop, which was created before the loop's body.
  `IsShaped` has the types. Each action is a chain of a few moves (emit, open blocks, end a block and enter
  another), and each move has its lemma.
* **`IrDominanceProofs`**: `BlocksAreRight`, that values dominate their uses too, for programs of any size and
  nesting: `BlocksAreValid` as the run checks it. Dominance is about all paths through the blocks. The
  invariant does without them: a block guards another when some blocks, the entry among them, can be left only
  into the first, and the second is none of these (`Guards`). That holds or fails locally, so each move keeps
  it: an edge to a block that nothing leaves yet takes guards only from that block, an edge back takes none
  from anyone if it leads to a block that guards its source (`GuardsStay`). `Good` says of a function under
  construction that a value is computed once, and before its uses or in a block that guards them, and that a
  phi has one input for each predecessor. For a block whose edges are still to come this must hold beforehand:
  `SlotsGuarded` says that the slots of a scope are computed on every way to the current block and to the
  blocks that statements opened since still await, `HeadersGuard` that the header of an open loop guards all of
  these, so that the jump back takes no guard away, and has the phi of a `for` and no other, so that a
  `continue` leaves no predecessor without an input. A guard dominates, by induction over the steps of
  `Reachable` (`GuardsDominates`).
* **`IrScopingProofs`**: `ErrorsJustified` and `AccessesResolve`, for programs of any size and nesting. What a
  name refers to is said of the list of tokens alone (`Declarations`), the lowerer has a stack of scopes and
  one of open statements; `ScopeInv` ties them. `KnowsBlocks`: the blocks around the next token are those of
  the open statements, in the order they were opened. `KnowsNames`: the scope of an open statement has exactly
  the names declared in its block so far, each with the slot that its last declaration there allocated, and
  the scope of a loop's counter has that one name. So the innermost scope that binds a name is that of the
  innermost block that declares it (`NearestIs`), and there is none exactly when no block does.
  `KnowsAccesses` keeps this for tokens lowered before: a slot belongs to one declaration, and neither a token
  nor a slot that comes later changes what an earlier name refers to, because a block once ended for a token
  has ended for good (`PastKept`). Each statement adds its own instructions and no other access (`Makes`).

Only model-checked: liveness (`Terminates`, `BuildsEnd`, `RunsEnd`, `EveryEditIsChecked`), which is out of the
prover's reach; of lowering, `KeepsControlFlow` and `GuaranteeIsSound`, whose definitions are recursive over
the program; and all about texts, types and imports, whose models are recursive over trees: induction over
data and RECURSIVE operators are out of the prover's reach.

## Abstractions to know of

* The hash of a module does not cover what it imports; after an edit to an exported signature, importers keep
  their objects. The sequential run edits bodies only, so `KeepsCleanBuild` says nothing about signatures;
  `build_concurrent` edits them.
* Builds that emit LLVM text may leave a torn object at a cached path; `SavedObjectsAreWhole` is for builds of
  binaries.
* Two processes that write one object path at once leave an arbitrary mix (`Torn`) or a whole object.
* With checks slower than typing, diagnostics at rest can be about an older text; `slow` chooses per
  behaviour, and `SettledIsCurrent` is for quick checks.
* The interpreter's program chooses each step anew, so a loop body may differ between iterations: more
  behaviours than any one program has.
* The interpreter's variables hold data: functions are called by their names, never through a variable. No
  function has the name of a constant or of a builtin (the builtin would be called in its place). An action
  counts the steps of the shortest expressions that do what it does.
* In lowering, an expression is a constant or a variable, the array of a `for` one value, and a function has
  no parameters (`add_param` gives each a slot and a store into it).
* The import graph a build is given is fixed: an edit changes bodies and signatures, never the import list. An
  editor replaces a file in one step.
* A word of a text is one token; the automaton that cuts bytes into words and the interner are data. A line's
  width counts spaces; its note is its comment.
* Path compression in the union-find changes no answer and is left out; so are the caches of both resolvers,
  files being fixed during a load.
* Of the type checker, `ModuleLoading` keeps one error: a name nothing declares.

## Not modelled

* Command line, timings, crash reports: one pass without state. Self update and installers: downloads and
  replacement of files by shell scripts and one command, sequential; their partial failures are the next thing
  to model.
* Queries of the language server (hover, goto, completion): they read the snapshot `cached` and change
  nothing. The cache of imported exports (`analysis.rs:312`) has no path that invalidates an entry.
* The interpreter's standard library: pure functions on values. Integer arithmetic everywhere (`eval.rs:492`,
  `lower.rs:402`): values are abstract.
* Code generation: of `output.rs` only that an object is written in place. Values and phis in `func.rs` and
  the choice of a linker are not modelled. The C runtime has no state.
* Of lowering: layouts of structs, evaluation of constants, instances, compensation of flows. Of the legacy
  pipeline: defines, features, discovery of the standard library on disk.
* Of the formatter: finding and reading its configuration.
* Benchmarks, the playground page, the editor extension, CI and the self-hosted front end (programs written in
  Thagore, a corpus for tests).

`PROJECT.json` lists each component with what is left out, and the hazards of the code line by line with the
properties that watch them; a hazard without one has a note saying why.

## Plan

1. Done: module graph, resolution and loading, syntax and formatter, type checker, lowering, interpreter,
   build cache, language server; proofs for graph, build, interpreter, language server and the blocks of the
   lowering, their dominance, its scopes and its errors, and of all three refinements.
2. Prove next: that the blocks do what the program says (`KeepsControlFlow`).
3. Model next: the installer's steps and their failures; the linkers tried in turn and the runtime object
   beside the binary; the order of blocks and phis in `func.rs`.
