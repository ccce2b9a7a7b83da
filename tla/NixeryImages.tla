------------------------------ MODULE NixeryImages ------------------------------
(***************************************************************************)
(* A Nixery server answering requests for image manifests: ImageFromName   *)
(* and BuildImage of builder/builder.go, Manifest of manifest/manifest.go, *)
(* the manifest cache of builder/cache.go, CacheKey of config/pkgsource.go *)
(* and serveManifestTag of cmd/server/main.go.                             *)
(*                                                                         *)
(* Uploading one layer is a single step here; NixeryLayers has its steps   *)
(* and shows that what the layer cache returns is stored.  What this       *)
(* module keeps of an entry is its merge rating, which is not part of the  *)
(* record in storage.                                                      *)
(***************************************************************************)
EXTENDS Naturals, Sequences, FiniteSets, SequencesExt

CONSTANTS Requests,     \* the HTTP requests that clients make
          Names,        \* image names that are asked for: paths split at "/"
          PackageOrder, \* all package names, as sort.Strings orders them
          Spelling,     \* the name of a package as a sequence of tokens
          Cacheable,    \* the package source or the tag is a full commit hash
          Layers,       \* layers of all images
          Contents,     \* [<<architecture, package>> -> set of layers]
          Rating,       \* the merge rating GroupLayers computes for a layer
          Backend,      \* "fs" or "gcs"
          MaxCrashes,   \* bound on the number of restarts
          MaxTasks,     \* bound on the cache goroutines running at a time
          Absent,       \* no file, no entry
          Torn          \* a file that was not written completely, as is its JSON

ASSUME BackendAssumption == Backend \in {"fs", "gcs"} /\ Cacheable \in BOOLEAN
ASSUME RatingAssumption == Rating \in [Layers -> Nat]
ASSUME NamesAssumption == \A n \in Names : n # <<>>
ASSUME BoundsAssumption == MaxCrashes \in Nat /\ MaxTasks \in Nat

MetaPackages  == {"shell", "arm64"}
ShellPackages == <<"bashInteractive", "coreutils", "moreutils", "nano">>

(***************************************************************************)
(* ImageFromName: the leading meta-packages are taken off the name, what   *)
(* they stand for and the two standard packages are added, and the list is *)
(* sorted.                                                                 *)
(***************************************************************************)
LeadingMeta(name) ==
  LET Prefix(n) == \A i \in 1..n : name[i] \in MetaPackages
  IN  CHOOSE n \in 0..Len(name) : Prefix(n) /\ (n < Len(name) => ~Prefix(n + 1))

metaPackages(name) ==
  LET lastMeta == LeadingMeta(name)
      metapkgs == SubSeq(name, 1, lastMeta)
      shells   == [i \in 1..Cardinality({j \in 1..lastMeta : name[j] = "shell"}) |-> ShellPackages]
  IN  [arch |-> IF "arm64" \in ToSet(metapkgs) THEN "arm64" ELSE "amd64",
       expanded |-> SubSeq(name, lastMeta + 1, Len(name)) \o FlattenSeq(shells)]

(* sort.Strings: as many copies of each package as there were, in order. *)
Sorted(pkgs) ==
  LET Copies(p) == SelectSeq(pkgs, LAMBDA q : q = p)
  IN  FlattenSeq([i \in DOMAIN PackageOrder |-> Copies(PackageOrder[i])])

ImageFromName(name) ==
  LET meta == metaPackages(name)
  IN  [packages |-> Sorted(meta.expanded \o <<"cacert", "iana-etc">>), arch |-> meta.arch]

(* strings.Join(pkgs, ""): the package names without a separator. *)
Joined(image) == FlattenSeq([i \in DOMAIN image.packages |-> Spelling[image.packages[i]]])

(* Mutant: the key covers the commit only. *)
CacheKey_CommitOnly(image) == <<>>

(***************************************************************************)
(* CacheKey: the hash over the joined names and the commit (one commit     *)
(* here).  The architecture is no part of it: arm64 is a meta-package,     *)
(* which ImageFromName has taken off the list.                             *)
(***************************************************************************)
CacheKey(image) == Joined(image)

LayersOf(image) == UNION {Contents[<<image.arch, p>>] : p \in ToSet(image.packages)}

--------------------------------------------------------------------------------
VARIABLES req,       \* the state of each request's handler
          tasks,     \* goroutines that fill caches: see the task records below
          lcache,    \* LocalCache.lcache: the ratings of the entries, or Absent
          stored,    \* layers, and manifests for their config layers, in storage
          builds,    \* layers with a record builds/<key>
          local,     \* manifest files of the local cache, by key
          manifests, \* objects manifests/<key>
          blobs,     \* manifests and torn bodies readable at layers/<sha256>
          replies,   \* manifests sent, with the name that was asked for
          crashes,
          spoilt     \* history: keys whose local file a failed write or a crash left torn

vars == <<req, tasks, lcache, stored, builds, local, manifests, blobs, replies, crashes, spoilt>>

Images == {ImageFromName(n) : n \in Names}
Keys   == {CacheKey(i) : i \in Images}

(* A layer list that sort.Slice can produce from entries with these ratings. *)
SortedByRating(S, rating) ==
  {s \in SetToSeqs(S) : \A i, j \in DOMAIN s : i < j => rating[s[i]] >= rating[s[j]]}

Manifests ==
  [arch : {"amd64", "arm64"}, cmd : {"", "bash"}, layers : UNION {SetToSeqs(LayersOf(i)) : i \in Images}]

ASSUME MarksAssumption == Absent \notin Nat /\ Absent # Torn /\ Torn \notin Manifests

(* What a file or object of the manifest cache may hold. *)
Cached == Manifests \union {Absent, Torn}

Idle == [pc |-> "idle"]
Done == [pc |-> "done"]

LayerTask(l)      == [kind |-> "layer", layer |-> l]
LocalTask(key, m) == [kind |-> "local", key |-> key, manifest |-> m, open |-> FALSE]
BucketTask(key, m, r) ==
  [kind |-> "bucket", key |-> key, manifest |-> m, open |-> FALSE, req |-> r]

TypeOK ==
  /\ \A r \in Requests :
       /\ req[r].pc \in {"idle", "local", "bucket", "prepare", "layers", "persist", "write", "send", "done"}
       /\ req[r].pc \notin {"idle", "done"} => req[r].name \in Names
       /\ req[r].pc = "layers" =>
            /\ DOMAIN req[r].entries \subseteq LayersOf(ImageFromName(req[r].name))
            /\ \A l \in DOMAIN req[r].entries : req[r].entries[l] \in Nat
       /\ req[r].pc \in {"persist", "write", "send"} => req[r].manifest \in Manifests \union {Torn}
  /\ \A t \in tasks : t.kind \in {"layer", "local", "bucket"}
  /\ lcache \in [Layers -> Nat \union {Absent}]
  /\ stored \subseteq Layers \union Manifests
  /\ builds \subseteq Layers
  /\ local \in [Keys -> Cached]
  /\ manifests \in [Keys -> Cached]
  /\ blobs \subseteq Manifests \union {Torn}
  /\ replies \subseteq [name : Names, body : Manifests \union {Torn}]
  /\ crashes \in 0..MaxCrashes
  /\ spoilt \subseteq Keys

Init ==
  /\ req = [r \in Requests |-> Idle]
  /\ tasks = {}
  /\ lcache = [l \in Layers |-> Absent]
  /\ stored = {}
  /\ builds = {}
  /\ local = [k \in Keys |-> Absent]
  /\ manifests = [k \in Keys |-> Absent]
  /\ blobs = {}
  /\ replies = {}
  /\ crashes = 0
  /\ spoilt = {}

--------------------------------------------------------------------------------
At(r, pc) == req[r].pc = pc

ImageOf(r) == ImageFromName(req[r].name)
KeyOf(r)   == CacheKey(ImageOf(r))

Goto(r, pc) == req' = [req EXCEPT ![r] = [pc |-> pc, name |-> req[r].name]]

GotoServe(r, m) ==
  req' = [req EXCEPT ![r] = [pc |-> "persist", name |-> req[r].name, manifest |-> m]]

ReplyError(r) == req' = [req EXCEPT ![r] = Done]

(* The handler starts: builds of moving targets are not looked up. *)
Receive(r, name) ==
  /\ At(r, "idle")
  /\ req' = [req EXCEPT ![r] = [pc |-> IF Cacheable THEN "local" ELSE "prepare", name |-> name]]
  /\ UNCHANGED <<tasks, lcache, stored, builds, local, manifests, blobs, replies, crashes, spoilt>>

(* Mutant: manifest files are read and written without mmtx. *)
LocalCacheLocked_Never == FALSE

(* LocalCache.mmtx: a manifest file is being written. *)
LocalCacheLocked == \E t \in tasks : t.kind = "local" /\ t.open

(* manifestFromLocalCache: whatever the file holds is the manifest, unless *)
(* there is no file or it cannot be read.                                  *)
ReadLocal(r) ==
  /\ At(r, "local")
  /\ ~LocalCacheLocked
  /\ \/ local[KeyOf(r)] # Absent /\ GotoServe(r, local[KeyOf(r)])
     \/ Goto(r, "bucket")
  /\ UNCHANGED <<tasks, lcache, stored, builds, local, manifests, blobs, replies, crashes, spoilt>>

(* manifestFromCache, the second half: whatever the object holds is the    *)
(* manifest, and goes to the local cache as well.                          *)
ReadBucket(r) ==
  /\ At(r, "bucket")
  /\ manifests[KeyOf(r)] # Absent
  /\ Cardinality(tasks) < MaxTasks
  /\ tasks' = tasks \union {LocalTask(KeyOf(r), manifests[KeyOf(r)])}
  /\ GotoServe(r, manifests[KeyOf(r)])
  /\ UNCHANGED <<lcache, stored, builds, local, manifests, blobs, replies, crashes, spoilt>>

(* There is no object, or it cannot be read. *)
MissBucket(r) ==
  /\ At(r, "bucket")
  /\ Goto(r, "prepare")
  /\ UNCHANGED <<tasks, lcache, stored, builds, local, manifests, blobs, replies, crashes, spoilt>>

(* prepareImage: Nix realises the image's paths, or fails. *)
Prepare(r) ==
  /\ At(r, "prepare")
  /\ \/ req' = [req EXCEPT ![r] = [pc |-> "layers", name |-> req[r].name, entries |-> <<>>]]
     \/ ReplyError(r)
  /\ UNCHANGED <<tasks, lcache, stored, builds, local, manifests, blobs, replies, crashes, spoilt>>

--------------------------------------------------------------------------------
Missing(r) == LayersOf(ImageOf(r)) \ DOMAIN req[r].entries

Collect(r, l, rating) ==
  req' = [req EXCEPT ![r].entries =
            [x \in DOMAIN @ \union {l} |-> IF x = l THEN rating ELSE @[x]]]

(* uploadHashLayer finds the entry in memory. *)
LayerFromMemory(r, l) ==
  /\ At(r, "layers") /\ l \in Missing(r)
  /\ lcache[l] # Absent
  /\ Collect(r, l, lcache[l])
  /\ UNCHANGED <<tasks, lcache, stored, builds, local, manifests, blobs, replies, crashes, spoilt>>

(* It finds the record in storage: Entry.MergeRating is not serialised     *)
(* (manifest.go:36), so it is zero in what is read back.                   *)
LayerFromStorage(r, l) ==
  /\ At(r, "layers") /\ l \in Missing(r)
  /\ lcache[l] = Absent
  /\ l \in builds
  /\ Cardinality(tasks) < MaxTasks
  /\ Collect(r, l, 0)
  /\ tasks' = tasks \union {LayerTask(l)}
  /\ UNCHANGED <<lcache, stored, builds, local, manifests, blobs, replies, crashes, spoilt>>

(* It finds no record, or cannot read it: it builds and uploads the layer  *)
(* and caches the entry; the record in storage may fail to be written.     *)
BuildLayer(r, l) ==
  /\ At(r, "layers") /\ l \in Missing(r)
  /\ lcache[l] = Absent
  /\ Collect(r, l, Rating[l])
  /\ lcache' = [lcache EXCEPT ![l] = Rating[l]]
  /\ stored' = stored \union {l}
  /\ builds' \in {builds, builds \union {l}}
  /\ UNCHANGED <<tasks, local, manifests, blobs, replies, crashes, spoilt>>

(* Mutant: the entry of a layer whose upload failed is used all the same. *)
LayerFails_Ignored(r) ==
  /\ At(r, "layers")
  /\ \E l \in Missing(r) : Collect(r, l, Rating[l])
  /\ UNCHANGED <<tasks, lcache, stored, builds, local, manifests, blobs, replies, crashes, spoilt>>

(* A layer cannot be built or uploaded. *)
LayerFails(r) ==
  /\ At(r, "layers") /\ Missing(r) # {}
  /\ ReplyError(r)
  /\ UNCHANGED <<tasks, lcache, stored, builds, local, manifests, blobs, replies, crashes, spoilt>>

(* The goroutine that remembers an entry read from storage. *)
RunLayerTask(t) ==
  /\ t \in tasks /\ t.kind = "layer"
  /\ lcache' = [lcache EXCEPT ![t.layer] = 0]
  /\ tasks' = tasks \ {t}
  /\ UNCHANGED <<req, stored, builds, local, manifests, blobs, replies, crashes, spoilt>>

(* manifest.Manifest sorts the entries; the config layer is uploaded and   *)
(* the manifest goes to the caches, without waiting for either.            *)
Assemble(r) ==
  /\ At(r, "layers") /\ Missing(r) = {}
  /\ Cardinality(tasks) < MaxTasks
  /\ \E s \in SortedByRating(DOMAIN req[r].entries, req[r].entries) :
       LET m == [arch   |-> ImageOf(r).arch,
                 cmd    |-> IF "bashInteractive" \in ToSet(ImageOf(r).packages) THEN "bash" ELSE "",
                 layers |-> s]
       IN  /\ GotoServe(r, m)
           /\ stored' = stored \union {m}
           /\ tasks' = IF Cacheable
                       THEN tasks \union {LocalTask(KeyOf(r), m), BucketTask(KeyOf(r), m, r)}
                       ELSE tasks
  /\ UNCHANGED <<lcache, builds, local, manifests, blobs, replies, crashes, spoilt>>

(* The config layer cannot be uploaded. *)
ConfigFails(r) ==
  /\ At(r, "layers") /\ Missing(r) = {}
  /\ ReplyError(r)
  /\ UNCHANGED <<tasks, lcache, stored, builds, local, manifests, blobs, replies, crashes, spoilt>>

--------------------------------------------------------------------------------
(* localCacheManifest: truncate and write under the mutex. *)
OpenLocal(t) ==
  /\ t \in tasks /\ t.kind = "local" /\ ~t.open
  /\ ~LocalCacheLocked
  /\ local' = [local EXCEPT ![t.key] = Torn]
  /\ tasks' = (tasks \ {t}) \union {[t EXCEPT !.open = TRUE]}
  /\ UNCHANGED <<req, lcache, stored, builds, manifests, blobs, replies, crashes, spoilt>>

WriteLocal(t) ==
  /\ t \in tasks /\ t.kind = "local" /\ t.open
  /\ local' = [local EXCEPT ![t.key] = t.manifest]
  /\ tasks' = tasks \ {t}
  /\ UNCHANGED <<req, lcache, stored, builds, manifests, blobs, replies, crashes, spoilt>>

(* WriteFile fails half-way: the file stays as it is and the error is only *)
(* logged, so that later requests find a torn manifest.                    *)
WriteLocalFails(t) ==
  /\ t \in tasks /\ t.kind = "local" /\ t.open
  /\ spoilt' = spoilt \union {t.key}
  /\ tasks' = tasks \ {t}
  /\ UNCHANGED <<req, lcache, stored, builds, local, manifests, blobs, replies, crashes>>

(* Either file cannot be opened: it keeps its content. *)
OpenFails(t) ==
  /\ t \in tasks /\ t.kind \in {"local", "bucket"} /\ ~t.open
  /\ t.kind = "local" => ~LocalCacheLocked
  /\ tasks' = tasks \ {t}
  /\ UNCHANGED <<req, lcache, stored, builds, local, manifests, blobs, replies, crashes, spoilt>>

(* cacheManifest: Persist on the filesystem truncates the file in place. *)
OpenBucket(t) ==
  /\ t \in tasks /\ t.kind = "bucket" /\ ~t.open
  /\ manifests' = IF Backend = "fs" THEN [manifests EXCEPT ![t.key] = Torn] ELSE manifests
  /\ tasks' = (tasks \ {t}) \union {[t EXCEPT !.open = TRUE]}
  /\ UNCHANGED <<req, lcache, stored, builds, local, blobs, replies, crashes, spoilt>>

WriteBucket(t) ==
  /\ t \in tasks /\ t.kind = "bucket" /\ t.open
  /\ manifests' = [manifests EXCEPT ![t.key] = t.manifest]
  /\ tasks' = tasks \ {t}
  /\ UNCHANGED <<req, lcache, stored, builds, local, blobs, replies, crashes, spoilt>>

(* The write fails; for the bucket this includes that the request's        *)
(* context is cancelled because its handler has returned.                  *)
WriteBucketFails(t) ==
  /\ t \in tasks /\ t.kind = "bucket" /\ t.open
  /\ tasks' = tasks \ {t}
  /\ UNCHANGED <<req, lcache, stored, builds, local, manifests, blobs, replies, crashes, spoilt>>

--------------------------------------------------------------------------------
(* serveManifestTag: the body is persisted under its digest.  A torn       *)
(* manifest is not valid JSON, marshalling it yields no bytes, and that    *)
(* the error is ignored makes the empty body the one that is stored.       *)
OpenBlob(r) ==
  /\ At(r, "persist")
  /\ blobs' = IF Backend = "fs" THEN blobs \ {req[r].manifest} ELSE blobs
  /\ req' = [req EXCEPT ![r].pc = "write"]
  /\ UNCHANGED <<tasks, lcache, stored, builds, local, manifests, replies, crashes, spoilt>>

WriteBlob(r) ==
  /\ At(r, "write")
  /\ blobs' = blobs \union {req[r].manifest}
  /\ req' = [req EXCEPT ![r].pc = "send"]
  /\ UNCHANGED <<tasks, lcache, stored, builds, local, manifests, replies, crashes, spoilt>>

(* The body cannot be stored: its file could not be opened, or stays torn. *)
BlobFails(r) ==
  /\ At(r, "persist") \/ At(r, "write")
  /\ ReplyError(r)
  /\ UNCHANGED <<tasks, lcache, stored, builds, local, manifests, blobs, replies, crashes, spoilt>>

(* The body is sent once it is stored. *)
Reply(r) ==
  /\ At(r, "send")
  /\ replies' = replies \union {[name |-> req[r].name, body |-> req[r].manifest]}
  /\ req' = [req EXCEPT ![r] = Done]
  /\ UNCHANGED <<tasks, lcache, stored, builds, local, manifests, blobs, crashes, spoilt>>

(* The process is restarted.  Files survive, in the state they are in; the *)
(* requests that were being handled get no answer.                         *)
Crash ==
  /\ crashes < MaxCrashes
  /\ crashes' = crashes + 1
  /\ req' = [r \in Requests |-> IF At(r, "idle") THEN Idle ELSE Done]
  /\ tasks' = {}
  /\ lcache' = [l \in Layers |-> Absent]
  /\ spoilt' = spoilt \union {t.key : t \in {u \in tasks : u.kind = "local" /\ u.open}}
  /\ UNCHANGED <<stored, builds, local, manifests, blobs, replies>>

Handle(r) ==
  \/ \E n \in Names : Receive(r, n)
  \/ ReadLocal(r) \/ ReadBucket(r) \/ MissBucket(r) \/ Prepare(r)
  \/ \E l \in Layers : LayerFromMemory(r, l) \/ LayerFromStorage(r, l) \/ BuildLayer(r, l)
  \/ LayerFails(r) \/ Assemble(r) \/ ConfigFails(r)
  \/ OpenBlob(r) \/ WriteBlob(r) \/ BlobFails(r) \/ Reply(r)

Run(t) ==
  \/ RunLayerTask(t)
  \/ OpenLocal(t) \/ WriteLocal(t) \/ WriteLocalFails(t) \/ OpenFails(t)
  \/ OpenBucket(t) \/ WriteBucket(t) \/ WriteBucketFails(t)

Next ==
  \/ \E r \in Requests : Handle(r)
  \/ \E t \in tasks : Run(t)
  \/ Crash

Spec == Init /\ [][Next]_vars

--------------------------------------------------------------------------------
(***************************************************************************)
(* With a bucket, a client is answered with a torn manifest only if the    *)
(* local file of that key was left torn, by a failed write or by a crash:  *)
(* no lookup finds a file that is still being written, whatever goroutines *)
(* and handlers do, and a torn file is not copied to another key.  The     *)
(* comment in main.go:147, "we know that this field represents valid JSON  *)
(* data", is wrong after such a failure only.                              *)
(***************************************************************************)
TornOnlyAfterFailure ==
  \A rep \in replies : rep.body = Torn => CacheKey(ImageFromName(rep.name)) \in spoilt

(***************************************************************************)
(* A client gets the image it named, or that of a name whose packages are  *)
(* spelled the same when joined, if builds are cached at all: CacheKey     *)
(* tells everything else apart, and no cache, goroutine or restart moves a *)
(* manifest from one key to another.                                       *)
(***************************************************************************)
ServedUnderItsKey ==
  \A rep \in replies : rep.body # Torn =>
    \E n \in Names :
      LET image == ImageFromName(n) IN
      /\ n = rep.name \/ (Cacheable /\ Joined(image) = Joined(ImageFromName(rep.name)))
      /\ rep.body.arch = image.arch
      /\ ToSet(rep.body.layers) = LayersOf(image)

(* The objects a manifest names: its layers and its config layer. *)
ObjectsOf(m) == ToSet(m.layers) \union {m}

(***************************************************************************)
(* Whatever manifest is in a cache or has been sent, the client can fetch  *)
(* every object it names: failed uploads leave no manifest behind.         *)
(***************************************************************************)
ReferencedObjectsStored ==
  /\ \A k \in Keys : \A m \in {local[k], manifests[k]} \ {Absent, Torn} : ObjectsOf(m) \subseteq stored
  /\ \A rep \in replies : rep.body # Torn => ObjectsOf(rep.body) \subseteq stored

(***************************************************************************)
(* A manifest that was sent can be fetched by its digest: "clients may     *)
(* start to fetch it by digest as soon as they see a response"             *)
(* (main.go:159-160).                                                      *)
(***************************************************************************)
SentManifestsReadable == \A rep \in replies : rep.body \in blobs
================================================================================
