# A verification project for the TVL depot

The depot is a monorepo. Most of it is configuration; the programs whose own logic is stateful,
concurrent or exposed to failures, or is an evaluator or compiler, are few. This project models seven of them:
Nixery (Go), journaldriver (Rust), finito (Rust), the tvix evaluator (Rust), the IRC bot
paroxysm (Rust), the two Lox interpreters of rlox (Rust) and the compiler achilles (Rust). Line numbers
below refer to the files under `src/`.

## 1. Inventory

### Nixery (`src/tools/nixery`)

A server that builds container images on demand. `GET /v2/<name>/manifests/<tag>` names the
packages of an image by its path; the server realises them with Nix, groups the store paths into
layers, uploads what is missing to a storage backend, and answers with a manifest.

| part | state | operations | what is hard about it |
|---|---|---|---|
| layer cache and upload (`builder/builder.go` 280-465, `builder/cache.go` 90-103, 167-225) | per-process map `lcache` under a lock, `UploadMutex` per layer, objects `staging/<key>`, `layers/<digest>`, `builds/<key>` | `uploadHashLayer`, `layerFromCache`, `cacheLayer` | many goroutines and several processes on one bucket; a cache filled by a goroutine that outlives its request; failure or crash after every step |
| storage backends (`storage/filesystem.go`, `storage/gcs.go`) | files, or objects of a bucket | `Persist`, `Fetch`, `Move`, `Serve` | files are truncated in place, objects appear when their writer is closed; a move is a rename, or a rewrite followed by a delete |
| image builds (`builder/builder.go` 99-278, 467-527, `manifest/manifest.go`, `config/pkgsource.go`) | none of their own | `ImageFromName`, `prepareImage`, `BuildImage`, `Manifest`, `CacheKey` | the identity of an image is split between its name, its cache key and its content |
| manifest cache (`builder/cache.go` 45-87, 107-163) | a file per key in a temporary directory, objects `manifests/<key>` | `manifestFromCache`, `cacheManifest` and the goroutines they start | readers meet files that are being written; the temporary directory survives restarts |
| HTTP handler (`cmd/server/main.go` 112-184) | none | `serveManifestTag` | the manifest is stored under its digest and then sent |
| layer grouping (`layers/layers.go`, `popcount/`) | none | `groupLayer`, `dominate` | graph algorithm with unsigned products |

Correctness: whatever a cache or a manifest names can be fetched and is whole; a layer is built once;
a client gets the image it named; a mutex is released on every path.

### journaldriver (`src/ops/journaldriver/src/main.rs`)

A daemon that forwards the systemd journal to Stackdriver. State: the position of the journal
reader, the entries buffered for half a second, the cursor file `cursor.pos` with its temporary
file. Operations: `receiver_loop`, `flush` (chunks of 750), `write_entries`, `persist_cursor`,
`initial_cursor`. Hard: requests time out although they were carried out; the process is restarted
between any two steps. Correctness: nothing that the cursor leaves behind is lost, nothing is sent
twice by one run of the process, the cursor file is readable whenever the process ends, forwarding
makes progress across restarts.

### finito (`src/users/tazjin/finito`)

Finite-state machines with persistence. `finito-core` defines `FSM` (handle, enter, act) and the
trait `FSMBackend`; `finito-postgres` implements the latter with tables `machines`, `events` and
`actions`; `finito-door` is the example machine. State: the tables, row locks, a pool of
connections, the stack of nested calls of each thread. Operations: `insert_machine`, `advance`,
`run_actions`, `run_action`. Hard: concurrent calls for one machine, events returned by actions
(nested calls with connections of their own), a pool of fixed size, errors that are dropped or
become panics, a crash between a commit and what follows it. Correctness: events are applied one
after the other to the state they find; no action is performed twice; actions of one event are performed in their order;
locks and connections are given back; every call ends.

### tvix (`src/tvix/eval`)

A Nix evaluator in one thread: an expression is compiled to byte code, which a stack machine runs.

| part | state | operations | what is hard about it |
|---|---|---|---|
| scopes (`compiler/scope.rs`) | locals with depth and flags, upvalues | `declare_*`, `stack_index`, `end_scope` | the compiler simulates the stack of a machine that runs later |
| compiler (`compiler/mod.rs`, `compiler/bindings.rs`) | a stack of lambdas under construction | one function per kind of expression, three kinds of bindings | self-reference: what to thunk, what to finalise, in which order |
| thunks and machine (`value/thunk.rs`, `vm.rs`) | heap of thunks, stack, frames, with-stack | `force`, one arm per instruction | the machine calls itself; an error unwinds it and `tryEval` goes on in the middle |
| values (`value/`) | none | equality, order, coercion, deep forcing | they force as they go, in an order programs can see |
| builtins (`builtins/mod.rs`) | none | one function each | laziness of every argument, errors half way through a list |

Correctness: a program evaluates to what it means, or fails for the reason it should; a frame leaves one
value; a thunk's value never changes; a lambda never sees an unresolved upvalue; evaluation ends.

### rlox (`src/users/tazjin/rlox`)

Two interpreters of Lox behind one prompt. State: environments that point to their enclosing ones
(tree-walk), or a stack with slots the compiler has worked out (bytecode). Operations: scan, parse,
resolve, evaluate; compile, and one arm per instruction. Hard: depths that are counted statically and walked
at run time through closures; slots of locals; an error in the middle of a session. Correctness: both do what Lox means.

### achilles (`src/users/grfn/achilles`)

A compiler for a small functional language: PEG parser, inference by unification, an interpreter, two
passes (monomorphise, drop units) and LLVM code. Correctness: each stage keeps the
meaning, and a typed tree is a derivation of its type.

### paroxysm (`src/fun/paroxysm`)

An IRC bot that remembers numbered entries for keywords in Postgres, without transactions. Hard: a
handler of several statements that ends half way, numbers that deletions and swaps change, aliases that
lead to other keywords. Correctness: an entry is found under the number that was announced; only
administrators change general entries; deleting keeps the order of the rest.

### Others

clbot (goroutines, channels, reconnects), besadii, owothia and other bots, thin library wrappers, Nix code, web sites,
third-party code: listed with reasons under `components` in `PROJECT.json`.

### How the parts interact

A Nixery request runs through `serveManifestTag` -> `BuildImage` -> manifest cache, else
`prepareImage` -> `prepareLayers` -> `uploadHashLayer` (once per layer) -> storage; only storage is
shared between processes. The two Nixery modules meet at the layer cache: `NixeryLayers`
establishes that an entry which the cache returns is stored, and `NixeryImages` takes the upload of
a layer as one step. In finito, `FinitoPostgres` calls the state machine through `advance`
(`FinitoDoor`) and promises what `FSMBackend` says. journaldriver stands alone and talks to journald, to the file
system and, with `crimp`, to Stackdriver. In tvix the compiler calls the scopes, the machine runs what
it produces, values and builtins call back into the machine, and all share stack and heap. In rlox and
achilles each stage hands its result to the next. paroxysm talks to its database and to IRC.

## 2. Modules

| module | kind | models |
|---|---|---|
| `LayerIndex` | abstract | what the layer cache promises: an index that never leads to a missing blob |
| `NixeryLayers` | detailed | `uploadHashLayer`, layer cache, `Persist` and `Move` of both backends, crashes |
| `MCNixeryLayers` | instance | one process with three goroutines, or two processes |
| `NixeryLayersProofs` | proofs | invariants of `NixeryLayers`, `NixeryLayers` implements `LayerIndex` |
| `NixeryImages` | detailed | image names, cache keys, manifest cache, layer order, handler |
| `MCNixeryImages` | instance | a small package set for two architectures, with names whose cache keys collide |
| `NixeryImagesProofs` | proofs | its types and the invariants that hold, from where manifests come from |
| `Journaldriver` | detailed | the whole daemon |
| `JournaldriverProofs` | proofs | its invariants |
| `FSMBackend` | abstract | the trait of finito-core |
| `FinitoDoor` | functions | the example state machine and `finito::advance` |
| `FinitoPostgres` | detailed | the Postgres backend for any state machine |
| `MCFinito` | instances | a door that is tried codes on; a machine whose action returns an event |
| `FinitoPostgresProofs` | proofs | invariants of `FinitoPostgres`, it implements `FSMBackend` |
| `FinitoDoorProofs` | proofs | the police is asked for once and called at most once, for doors kept in Postgres |
| `NixLanguage` | reference | what a Nix expression means, by substitution; models none of the code |
| `TvixAttrs`, `TvixScope` | functions | attribute sets with their three representations; scopes |
| `TvixCompiler` | functions | expressions to byte code |
| `TvixMachine`, `TvixValues`, `TvixBuiltins`, `TvixVM` | detailed | instructions, thunks and calls; operations on values; builtins; the whole run with its properties |
| `MCTvix` | instance | the programs that are compiled and run |
| `TvixProofs` | proofs | thunks are evaluated once and keep their value; attribute sets are maps; locals are where the compiler reckons them to be |
| `LoxLanguage` | reference | what a Lox program means, without enclosing environments or a stack |
| `LoxScanner`, `LoxParser`, `LoxResolver`, `LoxCompiler` | functions | the front ends of the two interpreters |
| `LoxTreewalk` | functions | the tree-walk interpreter |
| `LoxVM`, `Lox` | detailed | the bytecode machine; the prompt |
| `MCLox` | instance | the sources and sessions |
| `AchillesLanguage` | reference | what a program means, and when a typed tree is a derivation |
| `AchillesTypes`, `AchillesParser`, `AchillesTypechecker`, `AchillesPasses`, `AchillesInterpreter`, `AchillesCodegen` | functions | the stages |
| `Achilles` | detailed | the commands `check`, `eval` and `compile` as they go from stage to stage |
| `MCAchilles` | instance | expressions and files, and how they are written |
| `Paroxysm`, `MCParoxysm` | detailed, instance | the bot; two words, two nicks |
| `ParoxysmProofs` | proofs | who changes what, the numbers of entries, their order while others are deleted |

### NixeryLayers

`pc[w]` is where goroutine `w` is in `uploadHashLayer`: `lock` (407), `lookup` (410, the map in
memory), `fetch` (`layerFromCache`), `persist`/`write` (414-428, split where the filesystem
truncates the file), `move`, `delete` (the bucket's rewrite and delete, `gcs.go` 121-159),
`cacheLocal`, `cacheOpen`, `cacheWrite` (`cacheLayer`). `Release` is the deferred unlock, so it is
part of every action that returns. `filling` holds the goroutines started at `cache.go:203`.
An object is `absent`, `partial` or `whole`; its bytes are a function of the key, so that is all there is to
know. `Crash(s)` forgets everything of a process but the storage. `RewriteReliable` says whether the bucket
answers a rewrite truthfully; `Move` does not look at the status of the answer (`gcs.go:141`).

### NixeryImages

A request is a record with a `pc`: the two levels of the manifest cache (`local`, `bucket`),
`prepare`, `layers`, the storing of the manifest under its digest (`persist`, `write`), and the answer (`send`). The
goroutines that fill caches are records in `tasks`; those that write a file have an open state, in which the file is
torn. It stays torn if the write fails, which the code only logs (`WriteLocalFails`, `cache.go:82`; `WriteBucketFails`), or if the process ends
(`Crash`); `spoilt` is a history variable with the keys whose local file was left so. `lcache[l]` is the merge rating of the entry in memory, because `MergeRating` is not
serialised (`manifest.go:36`). `ImageFromName` and `CacheKey` are computed as in the code.
A torn file is not valid JSON: `json.Marshal` of it gives no bytes (`main.go:147`).

### Journaldriver

An entry is its position. `collect` is the half-second loop; `flush` writes chunk after chunk;
`create`, `write`, `rename` are the steps of `persist_cursor`. `floor` is the tail at the first
start, before which nothing is forwarded. `accepted`, `sends` and `failed` describe Stackdriver's
side and exist for the properties. A failed request may have stored its entries, and a
failed read (its error is dropped by the `if let` of line 474) may have moved the reader past its entry.

### FinitoPostgres

`pc[t]` is where a thread is in its innermost call; `loops[t]` is the stack of `run_actions` loops
with the ids still to run and the events still to apply. A transaction's inserts are visible when
it commits, so the locking read and the commit are the two steps of `advance`'s transaction, with a
failure possible in between, and a third outcome: the commit has taken place but is reported as an
error (`CommitUnacknowledged`). `Held(t)` is how many connections a call holds: `advance` keeps its
own while `run_actions` takes a second one. Errors and panics of nested calls end the outermost
call (`Abandon`), since `run_actions` uses `expect` (lines 208, 211, 216). An error of `run_action`
is dropped (`RunActionFails`, line 214).

### The tvix modules

`TvixCompiler` is a function on a record `c`: the lambdas being compiled with their scopes and code, and the
finished ones. `TvixMachine` has the variables of the machine: `stack`, `frames`, `withs`, `heap` (whatever the code keeps behind an
`Rc`). The Rust call stack, which exists because `force` runs a frame inside an instruction, is the variable
`ctl`; `ret` is what the last activation returned. An instruction that forces first is one
that pushes an activation and is run again when it returns; an error pops activations until a `tryEval` is met, and,
like the code, leaves frames and stack as they were. `TvixValues` and `TvixBuiltins` add activations for
equality, coercion, deep forcing, loops over elements, sorting and `genericClosure`.

`Thunk::value` lends out the content of a thunk (a `Ref` of its `RefCell`), and `Thunk::force` panics if it is lent out at the time
(`thunk.rs:97`). A loan that lasts while other code runs is an activation `borrow` (`Holding`): under a call of a closure
(`call_value`), under the call of `__toString` and what it returns, under the coercion of a thunk's value, and under the second argument
of a binary builtin (`HoldsFirst`). `Settled` is a value whose force has nothing to do: it is evaluated and not lent out.

Indices of locals and upvalues count from 1 and stack indices are relative to the frame. The
order of attributes and of strings is some fixed order. The additional
`Force` after quoted static keys is left out (a constant needs none). The assertions of the
debug build are kept. Sorting is insertion sort, from the end, which is what `sort_by` does to short lists.

`NixLanguage` evaluates by name: an environment of closed expressions, no stack, no sharing. `Fuel` bounds its
depth; running out of it is infinite recursion.

### The rlox modules

The scanner works on characters, everything after it on tokens. `LoxTreewalk` is one recursive
function on a record `m` of environments, as the interpreter is one recursive walk; its environments keep existing after
their scope, since closures may point to them. `LoxVM` has one action per instruction. `Lox` is the prompt:
the tree-walk interpreter lives through a session, the bytecode interpreter starts anew with every line.

### The achilles modules

`AchillesParser` has one operator for each parser of the code, under its name, on a text of lexemes; it
knows the three outcomes of a parser (value, error, incomplete) because alternatives are tried after an error only. The type
checker is a record `s` with the context of variables and the instantiations of the calls under way;
`todo!` and a loop that never ends are outcomes. `AchillesCodegen` builds functions of basic blocks, and contains as much of LLVM as it
takes to run them (external). `Achilles` has one action per stage and declaration.

### Paroxysm

One action is one statement that writes, with the reads before it: the bot uses no transactions, and
the process is the only user of its database. `task` is what remains of the handler under way; `delete` and
`swap` first work out the list of their moves (`task.moves`) from the entries they have read, and `Move` carries them out one
by one. `Fail` ends it at any
statement, `Restart` forgets the memory. `shifted` collects the keywords whose numbers deletions, swaps
or unfinished handlers have disturbed, and exists for `FoundAsAnnounced`. ILIKE is an operator (`Alike`), so that a keyword can be a pattern.

## 3. Runs

| run | shows | distinct states |
|---|---|---|
| `NixeryLayersFS` | one process, three goroutines, two layers, crashes: nothing cached or collected is missing or truncated, nothing is built twice, layers are permanent | 386,604 |
| `NixeryLayersGCS` | two processes race for one layer in a bucket: refinement of `LayerIndex`, mutexes are released | 47,312 |
| `NixeryImagesGCS` | two concurrent requests against a bucket, failing writes, a restart: a client gets a manifest of its cache key whose objects are there, or a torn one after a failure only | 1,265,812 |
| `JournaldriverRestarts` | failing requests, failing reads, three starts: safety of the cursor and progress | 681,770 |
| `FinitoDoorFailing` | two threads, failing statements, panics, crashes: events one after the other, the police at most once | 67,078 |
| `FinitoFetchNested` | nested calls that compete for three connections, with failing statements, panics and crashes | 54,626 |
| `TvixEval` | about 1,400 programs are compiled, run and compared with their meaning, step by step | 69,254 |
| `Lox` | sessions of both interpreters, compared with the meaning of Lox | 5,273 |
| `Achilles` | 10,348 expressions and files through the stages, nearly all of them from their text | 48,454 |
| `Paroxysm` | two nicks and two words, statements that fail, restarts | 629,816 |
| `NixeryImagesFS` | **violated**: on the filesystem, the manifest that a client was sent is rewritten in place by the next request for it | |
| `TvixBlackhole` | **violated**: a variable that throws is infinite recursion the second time | |

Some properties that were chosen for what they relate:

- `EntriesPresent` relates three levels of cache to the storage, over all interleavings of
  uploads, fills and crashes; `NothingBuiltTwice` is what the upload mutex is for.
- `ServedUnderItsKey` says what the cache key does and does not keep apart: a client gets the image it named or one whose packages are spelled
  the same when joined (both collisions, of names and of architectures, occur in the run), through both caches, their goroutines and a
  restart. `TornOnlyAfterFailure` relates an answer to what has happened to one file: readers never meet a writer, and a file that was left torn is
  not passed on to other keys.
- `OnlyErrorsLose` relates the cursor file to what is stored and what has failed, over
  several runs of the process; `OncePerRun` bounds duplicates by the number of starts.
- `EffectsInOrder` (which has no action performed twice either) and `PoliceCalledOnce` (asked for once, called at most once) relate the side effects to the tables,
  with nested calls, errors and crashes in between; `CallsEnd` says that threads which hold the connections the others wait for
  do not wait for ever.
- `ResultIsMeaning` goes through compiler, machine, values and builtins at once and compares the outcome
  with an evaluator that shares nothing with them; `FramesBalance` and `UpvaluesFinalised` say why it
  holds: the compiler has reckoned right where values are and when they are there. `EvaluatedStays` and `Terminates` are
  about thunks that stand for one another; `EvaluatedOnce` relates all the activations of `force` that are nested in each other to
  the heap, also while an error passes through them. The `TypeOK` of `TvixVM` says that a value refers to an object of its kind, whatever was
  built, finalised or taken over in the meantime: the model has one heap where Rust has a type for every `Rc`.
- `TreewalkIsLox`, `BytecodeIsLox`, `ReadAsWritten`, `EvaluationIsMeaning`, `PassesKeepMeaning` and
  `CompiledIsMeaning` do the same for the other languages. `SoundTypings` checks a typed tree rule by rule,
  without unification. `EnvironmentRestored` is about errors in nested scopes.
- `FoundAsAnnounced` relates what the bot has said to what it answers later, after commands of others; `DeletionKeepsOrder`
  relates the entries before and after a handler of several statements; `OnlyByThoseWhoMay` relates a change to
  who asked for it, through aliases and patterns.

### Bounds

- `Workers`, `Requests`, `Threads`: two or three. Races over one object are between two actors; the
  third goroutine in `NixeryLayersFS` is there to wait for the mutex while one works and one has just returned.
- `Keys`, `Layers`: two layers make a layer succeed while the other fails. The two-process run has
  one layer, because processes share nothing but the objects of a layer.
- `MaxCrashes` (`NixeryImages`): a restart with the files it may leave behind. `NixeryLayers` has no
  bound on crashes.
- `MaxTasks` = 2: cache goroutines that run at a time. A request that would start more waits; the two are both of one request, or one
  each of two.
- `Requests` (`NixeryImages`): each is handled once, so a run has two; what an earlier one has left is found in the caches by the later one.
- `MaxEntries` = 4 with `ChunkSize` = 2: a flush of two chunks of which one fails, and an entry
  that arrives after it. `MaxStarts` = 3: a restart from no cursor and one from a cursor. The
  process does not end in its last run, so that progress can be asked of it.
- `MaxTransactions`: no new call is made when that many transactions have begun; nested calls go on. Three are
  what it takes to use up the attempts of a door and to try once more.
- `PoolSize` = 3 in `FinitoFetchNested`: two threads need two each and a nested call two more, so
  waiting and timeouts occur at every level.
- tvix: `let a = <one>; b = <two>; c = { x = 3; }; in <use>` with 17 x 8 x 10 choices, which cover recursion through every kind of
  binding, laziness, `with`, errors and their capture; and one program for each operator, coercion, builtin and reason to
  fail. Five more (`LentExamples`) force a thunk that is lent out, and have to panic. `Fuel` = 40 is deeper than any of these programs that ends. Results are compared to depth 3.
- rlox: sources put together from a definition, a piece of control flow or a closure, and an observation; for the
  tree-walk interpreter each is followed by a second line that looks for what the first left.
- achilles: nested expressions of all node types, and files with generic, unit, external and nested
  functions. Integers are unbounded, where the code has 64 bits.
- paroxysm: `MaxEntries` = 3 entries and `MaxCount` = 2 allow an entry before, at and behind the deleted one;
  a general and a channel keyword of the same name; an alias; a pattern that matches the other word. The second and the third entry can be deleted.
- Symmetry is used for the requests of `NixeryImagesGCS` only, which has no temporal property.

### What the runs on languages leave out

A comparison with a meaning shows nothing about programs whose treatment is known to be wrong, so these are named, one by one,
and excluded, each with a definition in the MC module and a line in section 5: `Departures` and `Accepted` (`MCTvix`), `Departures`,
`NoInitialiser` and `YieldsValue` (`MCLox`), `MistakenTypes`, `Unfinished`, `MistakenEquality`, `MistakenUnits`, `MistakenCode`,
`MistakenInstances`, `MistakenNested`, `Writable` and `WritableFile` (`MCAchilles`). In rlox and achilles the programs left out of a comparison are still run; in
tvix the 62 combinations in `Departures` are not, nor are programs with compile errors (`Accepted`).

Deadlock checking is off in the finito runs, where the system stops with `MaxTransactions` reached and all calls over, and in those of
`NixeryImages`, where it stops when all requests are answered and nothing is left to be cached.

### Fairness

- `NixeryLayers`: weak fairness of every goroutine inside `uploadHashLayer`, which the Go scheduler
  gives. None for acquiring the mutex: `kmutex` wakes all waiters and any of them may win.
- `Journaldriver`: systemd restarts the unit, the loop goes round, and the half second ends an iteration even while
  entries arrive (line 470 compares with the clock for every entry). A read or a request is fair as "succeeds or fails", so success is never assumed.
- `TvixVM`: weak fairness of the machine, which is sequential and never waits.
- `FinitoPostgres`: weak fairness of every thread. Waiting for a row lock needs no strong fairness in the
  runs because a lock holder has only the commit ahead of it and calls are bounded. The timeout of the
  connection pool is one of a thread's steps.

## 4. What is proved

All theorems hold for every value of the constants; a module's named assumptions are the ones stated
with its constants. Where a theorem needs more, its hypothesis is named here. The inductive invariants were
model-checked on the instances of section 3 before they were proved.

**NixeryLayersProofs** (any number of processes, goroutines and layers, both backends).
`TypeCorrect` needs nothing else. All but it and `CachedLayersAreNotRebuilt` assume `RewriteReliable`, and
have to: `Move` ignores the answer to a rewrite. The chain of the inductive invariant follows an upload: who is in
`uploadHashLayer` holds the mutex (`LockInv`), so nobody else in the process works on the layer
(`Exclusive`); therefore on the filesystem the staging file is whole when it is moved, and in the bucket
objects are never partial (`BucketAtomic`), so it is whole or another process has moved it
already (`StagedInv`); past the move the layer is stored (`UploadedInv`), so what is recorded from
then on is present, and so is what a request collects for its manifest (`EntriesAreStored`). `LayersAreWhole`, `LayersStay` and the `Refinement` of
`LayerIndex` follow. That the filesystem is used by one process per path is an assumption
(`OneProcessPerPath`), from `ops/modules/nixery.nix`. `CachedLayersAreNotRebuilt` is for the filesystem (a lookup in a bucket may fail): a
layer that is being built was looked up and is still neither cached nor recorded (`OnceInv`), because who could cache or record it needs
the mutex, or fills the cache from a record.

**NixeryImagesProofs** (any names, packages, layers, requests and restarts; both backends where nothing is said). Two lemmas carry the rest:
whatever is served was found in a cache under the key of its name or has just been assembled (`ServedFrom`), and whatever a cache
holds was assembled for an image with that key, or is torn (`HeldFrom`). `TypesAreKept` is `TypeOK`.
`NamedObjectsAreStored` is `ReferencedObjectsStored`: nothing leaves the storage, and what is remembered, recorded or collected of a layer means that it is in there
(`StoredInv`). `ClientsGetTheirKey` is `ServedUnderItsKey`, for all names, those that collide included: what was assembled for one image is only ever found under
the key of that image (`RightInv`). `TornIsLeftByFailures` (bucket) is `TornOnlyAfterFailure`: the mutex admits one writer, a file is torn while its
writer has it open or when its key is `spoilt`, and a reader waits for the mutex (`TornInv`).

**JournaldriverProofs** (journals, chunk sizes and numbers of restarts of any size). The
strengthening says where the entries behind the reader are: stored, met by an error, or still in
flight (`BehindInv`); that the cursor on its way to disk is the read position of a moment when nothing
was in flight (`ShapeInv`); and that what is ahead or in flight was not sent by this run (`FreshInv`).
It gives `TypeCorrect` with `CursorNeverTorn`, `NothingSkipped`, `DuplicatesFromRestartsOnly`,
`CursorOnlyAdvances` and, if neither reads nor writes fail, `NothingLost`.

**FinitoPostgresProofs** (any state machine, number of threads, depth of nesting and pool size, with
any failures). `TypeCorrect` includes that every id a call holds or has performed is that of a row.
`LocksAreShort` is `NoLockWhileWaiting`. `Refinement` shows that the tables implement `FSMBackend`: the
state that is read under the row lock is the state at the commit (`LockedRead`), and the rows that
are appended request exactly the actions of the state machine. `ActionsInOrder` is `EffectsInOrder`, from `OrderInv`: a loop has the ids of one
event in ascending order (`Sorted`), two loops have those of different events (`Apart`), and what was performed comes before what is still to
do (`Ahead`). `ActionsAtMostOnce` (`EffectsAtMostOnce`, no run checks it) follows, because an action performed twice would come before itself. `CompletedActionsHaveRun` is
`CompletedHasRun` (no run checks it). `NoConnectionLeaks` is `ConnectionsAccounted`: instead of a sum over threads, the connections taken are a set of pairs
(`Taken`), and a step changes the pairs of one thread by as many as it takes from the pool or gives back.

**FinitoDoorProofs** (any number of doors and threads). `PoliceIsCalledOnce` is `PoliceCalledOnce` if `MachinesAreDoors`: the machine is `finito-door`, and no door
is disabled when it is inserted. That it is asked for once is `PoliceAskedOnce`; that it is called at most once follows with `ActionsAtMostOnce` of
`FinitoPostgresProofs`. The step to `Disabled` asks for the police once and no other step does (`PoliceWhenDisabled`), a disabled door
asks for nothing (`DisabledIsFinal`), and a commit is an event applied as in `FSMBackend` (`CommitAdvances`).

**ParoxysmProofs** (any nicks, channels, words, patterns and numbers of entries, with failures at every statement).
`EntriesAreProtected` is `OnlyByThoseWhoMay`: from the check on, the handler may change its keyword, and it writes to entries of that keyword only
(`TaskInv`). `NumbersAreKept` is `FoundAsAnnounced`: on a keyword that is not `shifted` the numbers of the entries, after the moves that are
pending, are a bijection with 1 to their number (`NumbersInv`), so sorting puts each at its number (`SortedNumbers`), the one that was announced (`SaidInv`).
`OrderSurvivesDeletion` is `DeletionKeepsOrder`: in the middle of a deletion the entries up to some place of the list have been moved back by one and
the others have not (`DeletionInv`).

**TvixProofs** (any programs and any compiled code, the stack of activations of any depth). `ThunksAreEvaluatedOnce` is `EvaluatedOnce`
and `ValuesStay` is `EvaluatedStays`. Both are for behaviours in which `TypeOK` holds. In the code that is so because of Rust's types; in the model it
depends on what the compiler emits (an instruction that reads a slot which is not there may read anything), so it is checked by TLC for the programs of
`TvixEval` and not proved. The argument: an instruction, builtin or operation on values is *quiet* (`Quiet` and its lemmas), that is, it appends objects to the
heap, leaves those that are there alone, and adds or ends activations only at the top of `ctl`; so it neither ends nor repeats an evaluation. The others are
`ForceThunk`, whose evaluation begins on a suspended thunk and hence on none that is a blackhole already; the return of what it
runs, which replaces the blackhole of the innermost `force` and no other; and `OpFinalise`, which reaches suspended thunks and unfinalised
closures only. `CodeAssumption` says that the heap a program starts with is a sequence.
`LookupIsThatOfTheMap`, `UpdateIsThatOfTheMaps` and `ConstructedAttributes` are about attribute sets: none of the three representations and none
of the shortcuts shows in what `select`, `contains`, `update` and `construct` do, `ToMap` being what a set means.
`SlotsCountValues` and `SlotsAreDistinct` say that `stack_index` is the number of earlier locals that are on the stack, or will be by then,
and gives no slot twice, in a scope that is `WellNested`: inner locals come after outer ones, and those of one depth are initialised
in their order. `ScopesStayNested` shows that every operation on a scope keeps it so under that order, which is the compiler's to keep. No run
checks that it does; with an assertion at every use of `StackIndex` TLC found the scopes of all programs of `TvixEval` nested.

Only model-checked: liveness (`LocksAreReleased`, `EventuallySettled`, `CallsEnd`, `Terminates`), which is out of the prover's
reach; of tvix `TypeOK`, `UpvaluesFinalised` and `FramesBalance`, which hold because of what the compiler emits; and the properties that compare a
language (tvix, rlox, achilles) with its meaning, and `EnvironmentRestored` and `SoundTypings`. Their compilers, interpreters and reference meanings are RECURSIVE operators over trees, for which
the prover has no backend, and a proof would be by induction over the data. No run checks the type invariants of `NixeryLayers`,
`FinitoPostgres` and `NixeryImages`, `CompletedHasRun` and `EffectsAtMostOnce`; they are proved.

## 5. Where the code and its words disagree

With a run (see `findings` in `PROJECT.json`):

- Nixery `filesystem.go:51`: on the filesystem a second request for the same image truncates the manifest blob whose digest a client has been
  sent, and which it may be fetching, against the comment at `main.go:159`. If the write then fails, the blob stays torn. With a bucket an object
  appears when its writer is closed and this cannot happen.
- tvix `value/thunk.rs:113`: a thunk whose evaluation failed stays a blackhole; the next force, after `tryEval`, is told that
  it is infinite recursion, which the comment at line 55 excludes.

Seen while modelling, without a run of their own.

Nixery, journaldriver, finito:

- `gcs.go:141`: the answer to the rewrite is dropped, so one that is refused counts as a success and the layer is cached
  without being there, against `builder.go:283` ("entries retrieved from the cache are present in the bucket").
- `cache.go:82` and `main.go:147`: a local manifest file whose write failed, or was cut short by the end of the process, is served to all later requests for
  that key; it is not valid JSON, and what the client gets is an empty body. `TornOnlyAfterFailure` excuses these keys (`spoilt`), and nothing else.
- `cache.go:123`: on the filesystem a manifest that is being written is read from `manifests/<key>`, served, and copied to the local cache.
  `TornOnlyAfterFailure` is therefore checked for the bucket only.
- `pkgsource.go:77`: the cache key does not cover the architecture, so an x86 manifest answers a request for arm64
  (`builder.go:141`), and it joins package names without a separator, so lists that are spelled the same share a manifest. `ServedUnderItsKey` allows both,
  and the names of `NixeryImagesGCS` have both.
- journaldriver `main.rs:533`: a failed chunk does not keep the cursor from moving, against line 522.
- finito-postgres `lib.rs:208`: a call that cannot get its second connection panics and leaves its actions pending for ever.
- An entry that is read back from storage has lost its merge rating (`manifest.go:36`), so after a restart the
  order of layers is not the one `manifest.go:101` announces. No property is stated about that order.
- An action whose status could not be written stays `Pending` although it has run (`lib.rs:433`, against 66).
- `created` is the beginning of the transaction (`up.sql:12`), not the time at which the event was stored (`lib.rs:49`).
- `run_actions` says that each action runs in a thread of its own (`lib.rs:196`); the loop is sequential, and is modelled so.

tvix:

- `force` copies the representation of an inner thunk instead of sharing it (`thunk.rs:102`): if that one is suspended, what both
  stand for is evaluated twice, although the comment before `force` says that all references get the value.
- An error that `tryEval` catches in the middle of a frame leaves that frame's values and the frame itself behind (`tryEval (1 + throw "x")`).
- A thunk that is forced while it is lent out panics (a `RefCell` is borrowed twice), although its value is there: `builtins.add x x` and
  `builtins.lessThan x (x + 1)` with a thunk `x`; a function, or a set with `__functor`, in a thunk that a builtin
  calls and that forces this thunk (`let f = n: -(if n == 0 then 0 else f (n - 1)); in map f [ 1 ]`); a set whose `__toString` refers to it by its name.
  Without the minus, `f` is fine: the branches of a conditional are thunks, and forced when the call is over (`compiler/mod.rs:233`).
- A thunk that evaluates to itself panics for the same reason. `{ y ? b, ... }` called with what is no set is accepted.
- Sets are equal as soon as they are the same pointer, which also cuts short comparisons that would not end; sets whose `type` is no string raise an
  error in `==`; lists are compared from the end (`nix_op_eq`).
- Operands of unary operators, `?` and `let { }` are compiled without a thunk, hence evaluated early.
- `resolve_with` looks through the with-stack of the whole machine, callers included, before the captured one (`vm.rs:964`).
- An identifier that nothing binds, inside of `inherit` in a `with`, is a run time error; `with { x = 1; }; { a = { inherit x; }; a.b = 1; }` panics in the compiler.
- Calling a functor that is an unevaluated thunk panics. `[ 1 ] <= [ 1 ]` is false, because equal lists compare as greater.
- Builtins: `mapAttrs` drops errors and leaves values on the stack; `removeAttrs` and `genericClosure` panic on
  unevaluated keys and operators, `div` on zero, `splitVersion` and `compareVersions` on large numbers (`versions.rs`); `map`, `genList` and `mapAttrs` call their function at once; `replaceStrings` misses
  a match at the end; interpolation evaluates its parts from the last to the first.

rlox, tree-walk:

- `(` at the end of a source recurses without end. `and` and `or` evaluate both sides and yield a boolean; callables are falsey; `==` of different types is an error.
- Assignment ignores the depth the resolver has counted (`{ fun g() { a = 2; } var a = 7; g(); }`), against the comment at the top of `resolver.rs`.
- Functions do not see globals declared after them; `var x;` is an internal error; a function as operand panics.
- Each line at the prompt runs in a child environment, so only `clock` is there in the next one.

rlox, bytecode:

- Expression statements leave their value on the stack, so the slots of later locals are off (`1; { var b = 2; print b; }` prints 1); assignment to a global
  leaves none, so `print a = 2;` meets an empty stack, which `vm.rs:34` calls fatal.
- `a + b = c` is read as `a + (b = c)`. A string made at run time never equals an interned one. Undefined globals, a missing operand and a local read in its own
  initialiser panic. The end of input at the prompt is read for ever.

achilles:

- Parser: what follows an expression is ignored (`1 + f x` is `1 + f`); a call cannot be an operand, not even in parentheses; a
  declaration whose body is a call must be the last; `-x + y` is `-(x + y)`; `fn (fn int -> int) -> int` cannot be read; names that begin with `true` or `false`
  are misread and names that begin a keyword are incomplete at the end of a text; nested parentheses take exponential time.
- Type checker: the variables of an annotation are not rigid (`fn (x: a) = x + 1`); instantiations at the top level leak into the rest of a file; settling a
  call also settles variables of the calls around it (`id (id 1)`); the numbers of arguments and members are not compared; a variable
  unified with itself makes `resolve_tv` loop; resolving to a function type, `Div`, `Pow` and unary operators are `todo!`; `let` does not generalise.
- Interpreter: calls but of functions on integers fail; functions are no closures; `()` and `!=` are not there; strings and tuples are never equal.
- Names: an instance is called after its function and the types, run together (`monomorphize.rs:43`: `id` at `int` is `idintintintint`, for the types in the call), and nested functions `f1`,
  `f2` (`llvm.rs:259`), so a function of the file with such a name is mistaken for them.
- Passes: calls of local, own, later or external-with-unit functions panic in `monomorphize`; instances come before what they call and may be
  duplicated; parameters of type unit are dropped although they are used; unit arguments are evaluated before those in front of them.
- Code: `*` is compiled to a subtraction; booleans are 64-bit constants; a conditional inside a branch gives its phi the wrong block; tuples of what is not constant are
  built as constants; a function of the module hides a local name. `eval --jit` always panics: it generates `test` and looks up `eval`.

paroxysm:

- Deleting renumbers the entries in front of the deleted one (`keyword.rs:92`), whose numbers go to 0 and below; learning uses the number of entries plus one, which
  may be taken, so that the announced number is not where the entry is found (`FoundAsAnnounced` holds while nothing was shifted).
- `??!word: text` by someone who is no administrator is refused and leaves an empty general keyword behind (`main.rs:76`).
- A keyword whose first entry is an alias to an unknown word cannot be taught any more. A random query never picks the last entry. Swapping fails
  when two entries have the same number. The notice about pastebin links speaks of 24 hours, the code of 7200 seconds.

## 6. Not modelled

- The content of layers, config files, log entries and events: data that no property looks at.
- Fair acquisition of the upload mutex: with `kmutex` a waiter can lose for ever.
- Power failures: `persist_cursor` does not sync, so what survives one is up to the file system. The
  model's exits are those of the process.
- Token expiry in the middle of a flush: it makes the remaining chunks fail, which `WriteChunkFails` covers.
- `FSM::act` of the door writes a log file; its result is an outcome that `FinitoPostgres` chooses.
- tvix: floats, paths, the `type` of derivations in equality, regular expressions, JSON, versions, bit operations, impure builtins, warnings and spans. `OpFindFile` and
  `OpResolveHomePath` only look into the file system.
- rlox: line numbers, the wording of errors, and the limit of 255 parameters. achilles: characters below lexemes, the width of integers, floats, the order of
  hash maps (fixed).
- paroxysm: authors and times of entries but for "today", colours and layout, the upload to a pastebin.
- Nixery's layer grouping: a graph algorithm over the closure of a build, planned.
- Everything listed as `not_modelled` under `components`.

## 7. Plan

Done: the inventory; all modelled components with their runs; proofs of every safety property that is
checked of Nixery, journaldriver, finito and paroxysm, and of the two refinements; of tvix, proofs about the evaluation of
thunks, about attribute sets and about the slots of locals.

Next, in this order:

1. `TypeOK` of tvix from an assumption on the code (`WellFormed`: every instruction finds its operands), and that the
   compiler emits such code, by TLC.
2. `Clbot`: the Gerrit watcher with its reconnects and the IRC sender, with lost and repeated events.
3. `NixeryGrouping`: dominators, merge ratings and the layer budget as functions over small graphs.
