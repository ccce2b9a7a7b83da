------------------------------ MODULE NixeryLayers ------------------------------
(***************************************************************************)
(* The layer cache of Nixery: uploadHashLayer of builder/builder.go, the   *)
(* two-level layer cache of builder/cache.go, and the two storage          *)
(* backends of storage/.  Request goroutines of one or several server      *)
(* processes look layers up, build and upload the missing ones through the *)
(* staging area, and record them in the process-local and in the           *)
(* persistent cache.  Processes crash and restart at any point.            *)
(*                                                                         *)
(* The bytes of a layer are a function of its key (packStorePaths packs    *)
(* immutable store paths in a fixed order), so an object is described by   *)
(* how much of it has been written.                                        *)
(***************************************************************************)
EXTENDS Naturals, FiniteSets

CONSTANTS Servers,        \* server processes that share the storage backend
          Workers,        \* request goroutines
          ServerOf,       \* the process a goroutine runs in
          NoKey,          \* the key of a goroutine outside uploadHashLayer
          Keys,           \* Layer.Hash() values, symlink tar hashes, config hashes
          Digests,        \* sha256 digests of uploaded objects
          Digest,         \* the digest of the object built for a key
          Backend,        \* "fs" or "gcs" (cmd/server/main.go, storage selection)
          RewriteReliable \* GCS answers rewriteTo with success if the source exists

ASSUME ServerAssumption == ServerOf \in [Workers -> Servers]
ASSUME DigestAssumption == Digest \in [Keys -> Digests]
ASSUME BackendAssumption == Backend \in {"fs", "gcs"} /\ RewriteReliable \in BOOLEAN

(***************************************************************************)
(* The filesystem backend is deployed with one process per storage path    *)
(* (ops/modules/nixery.nix); only the bucket is shared between processes.  *)
(***************************************************************************)
ASSUME OneProcessPerPath == Backend = "fs" => \A s, t \in Servers : s = t

ASSUME NoKeyAssumption == NoKey \notin Keys

(***************************************************************************)
(* How much of an object is stored.  "partial" exists on the filesystem    *)
(* only, between O_TRUNC and the last write, or forever after a failure.   *)
(***************************************************************************)
Content == {"absent", "partial", "whole"}

VARIABLES pc,       \* where a goroutine is in uploadHashLayer
          key,      \* its key argument
          entries,  \* keys whose manifest entries its request has collected
          mutex,    \* State.UploadMutex of each process: the locked keys
          lcache,   \* LocalCache.lcache of each process: the keys present
          filling,  \* spawned localCacheLayer goroutines that have not run yet
          staging,  \* objects staging/<key>
          layers,   \* objects layers/<digest>
          builds    \* objects builds/<key>: persisted manifest entries

procVars  == <<pc, key, entries>>
cacheVars == <<mutex, lcache, filling>>
storeVars == <<staging, layers, builds>>
vars == <<procVars, cacheVars, storeVars>>

Building == {"persist", "write", "move", "delete", "cacheLocal"}
Caching  == {"cacheOpen", "cacheWrite"}
Holding  == {"lookup", "fetch"} \union Building \union Caching

TypeOK ==
  /\ pc \in [Workers -> {"idle", "lock"} \union Holding]
  /\ key \in [Workers -> Keys \union {NoKey}]
  /\ entries \in [Workers -> SUBSET Keys]
  /\ mutex \in [Servers -> SUBSET Keys]
  /\ lcache \in [Servers -> SUBSET Keys]
  /\ filling \subseteq Servers \X Keys
  /\ staging \in [Keys -> Content]
  /\ layers \in [Digests -> Content]
  /\ builds \in [Keys -> Content]

Init ==
  /\ pc = [w \in Workers |-> "idle"]
  /\ key = [w \in Workers |-> NoKey]
  /\ entries = [w \in Workers |-> {}]
  /\ mutex = [s \in Servers |-> {}]
  /\ lcache = [s \in Servers |-> {}]
  /\ filling = {}
  /\ staging = [k \in Keys |-> "absent"]
  /\ layers = [d \in Digests |-> "absent"]
  /\ builds = [k \in Keys |-> "absent"]

--------------------------------------------------------------------------------
At(w, step) == pc[w] = step

Goto(w, step) ==
  /\ pc' = [pc EXCEPT ![w] = step]
  /\ UNCHANGED <<key, entries>>

(* Mutant: the deferred Unlock is forgotten. *)
Release_KeepsLock(w) ==
  /\ pc' = [pc EXCEPT ![w] = "idle"]
  /\ key' = [key EXCEPT ![w] = NoKey]
  /\ UNCHANGED mutex

(***************************************************************************)
(* Every return of uploadHashLayer runs the deferred Unlock.               *)
(***************************************************************************)
Release(w) ==
  /\ pc' = [pc EXCEPT ![w] = "idle"]
  /\ key' = [key EXCEPT ![w] = NoKey]
  /\ mutex' = [mutex EXCEPT ![ServerOf[w]] = @ \ {key[w]}]

(* The caller appends the entry to those of its image ... *)
ReturnEntry(w) ==
  /\ Release(w)
  /\ entries' = [entries EXCEPT ![w] = @ \union {key[w]}]

(* ... or gives the whole request up. *)
ReturnError(w) ==
  /\ Release(w)
  /\ entries' = [entries EXCEPT ![w] = {}]

--------------------------------------------------------------------------------
(* BuildImage asks for the next layer of the image, ... *)
RequestLayer(w, k) ==
  /\ At(w, "idle")
  /\ pc' = [pc EXCEPT ![w] = "lock"]
  /\ key' = [key EXCEPT ![w] = k]
  /\ UNCHANGED <<entries, cacheVars, storeVars>>

(* ... or is done with the image and its goroutine serves another request. *)
FinishRequest(w) ==
  /\ At(w, "idle")
  /\ entries[w] # {}
  /\ entries' = [entries EXCEPT ![w] = {}]
  /\ UNCHANGED <<pc, key, cacheVars, storeVars>>

(* Mutant: no mutex per layer. *)
Lock_Unguarded(w) ==
  /\ At(w, "lock")
  /\ mutex' = [mutex EXCEPT ![ServerOf[w]] = @ \union {key[w]}]
  /\ Goto(w, "lookup")
  /\ UNCHANGED <<lcache, filling, storeVars>>

Lock(w) ==
  /\ At(w, "lock")
  /\ key[w] \notin mutex[ServerOf[w]]
  /\ mutex' = [mutex EXCEPT ![ServerOf[w]] = @ \union {key[w]}]
  /\ Goto(w, "lookup")
  /\ UNCHANGED <<lcache, filling, storeVars>>

(* layerFromLocalCache *)
LookupLocal(w) ==
  /\ At(w, "lookup")
  /\ \/ /\ key[w] \in lcache[ServerOf[w]]
        /\ ReturnEntry(w)
     \/ /\ key[w] \notin lcache[ServerOf[w]]
        /\ Goto(w, "fetch")
        /\ UNCHANGED mutex
  /\ UNCHANGED <<lcache, filling, storeVars>>

(* layerFromCache: the record in the bucket parses; the local cache is     *)
(* filled by a goroutine that may run at any later time.                   *)
FetchHit(w) ==
  /\ At(w, "fetch")
  /\ builds[key[w]] = "whole"
  /\ filling' = filling \union {<<ServerOf[w], key[w]>>}
  /\ ReturnEntry(w)
  /\ UNCHANGED <<lcache, storeVars>>

(* layerFromCache: no record, a truncated one that json.Unmarshal rejects, *)
(* or a request to the bucket that fails.                                  *)
FetchMiss(w) ==
  /\ At(w, "fetch")
  /\ builds[key[w]] # "whole" \/ Backend = "gcs"
  /\ Goto(w, "persist")
  /\ UNCHANGED <<cacheVars, storeVars>>

(* The goroutine of FetchHit gets to run. *)
FillLocal(s, k) ==
  /\ <<s, k>> \in filling
  /\ filling' = filling \ {<<s, k>>}
  /\ lcache' = [lcache EXCEPT ![s] = @ \union {k}]
  /\ UNCHANGED <<procVars, mutex, storeVars>>

--------------------------------------------------------------------------------
(* Persist: the filesystem truncates the file at once, the bucket shows    *)
(* nothing of an object before its writer is closed.                       *)
OpenStaging(w) ==
  /\ At(w, "persist")
  /\ staging' = IF Backend = "fs" THEN [staging EXCEPT ![key[w]] = "partial"] ELSE staging
  /\ Goto(w, "write")
  /\ UNCHANGED <<cacheVars, layers, builds>>

(* Mutant: a layer is cached before it is moved out of the staging area. *)
WriteStaging_SkipsMove(w) ==
  /\ At(w, "write")
  /\ staging' = [staging EXCEPT ![key[w]] = "whole"]
  /\ Goto(w, "cacheLocal")
  /\ UNCHANGED <<cacheVars, layers, builds>>

WriteStaging(w) ==
  /\ At(w, "write")
  /\ staging' = [staging EXCEPT ![key[w]] = "whole"]
  /\ Goto(w, "move")
  /\ UNCHANGED <<cacheVars, layers, builds>>

(* Mutant: the error of Persist is not looked at. *)
WriteStagingFails_Ignored(w) ==
  /\ At(w, "write")
  /\ Goto(w, "move")
  /\ UNCHANGED <<cacheVars, storeVars>>

(* Packing or writing fails, or (bucket only) the object is complete but   *)
(* its content type cannot be set.                                         *)
WriteStagingFails(w) ==
  /\ At(w, "write")
  /\ \/ UNCHANGED staging
     \/ Backend = "gcs" /\ staging' = [staging EXCEPT ![key[w]] = "whole"]
  /\ ReturnError(w)
  /\ UNCHANGED <<lcache, filling, layers, builds>>

(* FSBackend.Move: one rename. *)
Rename(w) ==
  /\ At(w, "move") /\ Backend = "fs"
  /\ staging[key[w]] # "absent"
  /\ layers' = [layers EXCEPT ![Digest[key[w]]] = staging[key[w]]]
  /\ staging' = [staging EXCEPT ![key[w]] = "absent"]
  /\ Goto(w, "cacheLocal")
  /\ UNCHANGED <<cacheVars, builds>>

(* GCSBackend.Move: the service copies the object. *)
Rewrite(w) ==
  /\ At(w, "move") /\ Backend = "gcs"
  /\ staging[key[w]] # "absent"
  /\ layers' = [layers EXCEPT ![Digest[key[w]]] = staging[key[w]]]
  /\ Goto(w, "delete")
  /\ UNCHANGED <<cacheVars, staging, builds>>

(* The service answers with an error status, which Move does not look at.  *)
(* A source that another process has already moved away is one such case.  *)
RewriteRejected(w) ==
  /\ At(w, "move") /\ Backend = "gcs"
  /\ ~RewriteReliable \/ staging[key[w]] = "absent"
  /\ Goto(w, "delete")
  /\ UNCHANGED <<cacheVars, storeVars>>

(* Mutant: the error of Move is not looked at, the entry is returned. *)
MoveFails_Ignored(w) ==
  /\ At(w, "move")
  /\ ReturnEntry(w)
  /\ UNCHANGED <<lcache, filling, storeVars>>

(* Move returns an error: no credentials, no connection or no answer (the  *)
(* copy may have happened by then), or a rename that is refused.           *)
MoveFails(w) ==
  /\ At(w, "move")
  /\ \/ UNCHANGED layers
     \/ /\ Backend = "gcs" /\ staging[key[w]] # "absent"
        /\ layers' = [layers EXCEPT ![Digest[key[w]]] = staging[key[w]]]
  /\ ReturnError(w)
  /\ UNCHANGED <<lcache, filling, staging, builds>>

(* The copied object is deleted; a failure to delete is only logged. *)
DeleteStaging(w) ==
  /\ At(w, "delete")
  /\ \/ staging' = [staging EXCEPT ![key[w]] = "absent"]
     \/ UNCHANGED staging
  /\ Goto(w, "cacheLocal")
  /\ UNCHANGED <<cacheVars, layers, builds>>

--------------------------------------------------------------------------------
(* cacheLayer: first the map in memory, ... *)
CacheLocally(w) ==
  /\ At(w, "cacheLocal")
  /\ lcache' = [lcache EXCEPT ![ServerOf[w]] = @ \union {key[w]}]
  /\ Goto(w, "cacheOpen")
  /\ UNCHANGED <<mutex, filling, storeVars>>

(* ... then the record in storage. *)
OpenBuild(w) ==
  /\ At(w, "cacheOpen")
  /\ builds' = IF Backend = "fs" THEN [builds EXCEPT ![key[w]] = "partial"] ELSE builds
  /\ Goto(w, "cacheWrite")
  /\ UNCHANGED <<cacheVars, staging, layers>>

(* A record that cannot be written is only logged. *)
WriteBuild(w) ==
  /\ At(w, "cacheWrite")
  /\ \/ builds' = [builds EXCEPT ![key[w]] = "whole"]
     \/ UNCHANGED builds
  /\ ReturnEntry(w)
  /\ UNCHANGED <<lcache, filling, staging, layers>>

--------------------------------------------------------------------------------
(* A process dies and is started again: only the storage survives. *)
Crash(s) ==
  LET mine == {w \in Workers : ServerOf[w] = s} IN
  /\ pc' = [w \in Workers |-> IF w \in mine THEN "idle" ELSE pc[w]]
  /\ key' = [w \in Workers |-> IF w \in mine THEN NoKey ELSE key[w]]
  /\ entries' = [w \in Workers |-> IF w \in mine THEN {} ELSE entries[w]]
  /\ mutex' = [mutex EXCEPT ![s] = {}]
  /\ lcache' = [lcache EXCEPT ![s] = {}]
  /\ filling' = {f \in filling : f[1] # s}
  /\ UNCHANGED storeVars

Upload(w) ==
  \/ OpenStaging(w) \/ WriteStaging(w) \/ WriteStagingFails(w)
  \/ Rename(w) \/ Rewrite(w) \/ RewriteRejected(w) \/ MoveFails(w)
  \/ DeleteStaging(w)

Record(w) == CacheLocally(w) \/ OpenBuild(w) \/ WriteBuild(w)

(* The steps of a goroutine that holds the mutex of its key. *)
Work(w) == LookupLocal(w) \/ FetchHit(w) \/ FetchMiss(w) \/ Upload(w) \/ Record(w)

Next ==
  \/ \E w \in Workers, k \in Keys : RequestLayer(w, k)
  \/ \E w \in Workers : FinishRequest(w) \/ Lock(w) \/ Work(w)
  \/ \E s \in Servers, k \in Keys : FillLocal(s, k)
  \/ \E s \in Servers : Crash(s)

Spec == Init /\ [][Next]_vars

(***************************************************************************)
(* The runtime schedules every goroutine that can run.  Nothing is assumed *)
(* of lock acquisition: kmutex wakes all waiters and any of them may win.  *)
(***************************************************************************)
FairSpec ==
  /\ Spec
  /\ \A w \in Workers : WF_vars(Work(w))

--------------------------------------------------------------------------------
Stored(k) == layers[Digest[k]] = "whole"

(***************************************************************************)
(* "Cache entries are added only after successful uploads, which           *)
(* guarantees that entries retrieved from the cache are present in the     *)
(* bucket" (builder.go:283-285): no in-memory entry, no entry on its way   *)
(* there and no parsable record in storage without its layer.              *)
(***************************************************************************)
CacheEntriesPresent ==
  /\ \A s \in Servers : \A k \in lcache[s] : Stored(k)
  /\ \A f \in filling : Stored(f[2])
  /\ \A k \in Keys : builds[k] = "whole" => Stored(k)

(***************************************************************************)
(* Every entry a request has put into its manifest can be downloaded from  *)
(* storage by the client that receives the manifest.                       *)
(***************************************************************************)
CollectedEntriesPresent ==
  \A w \in Workers : \A k \in entries[w] : Stored(k)

(***************************************************************************)
(* An entry is never ahead of its layer: wherever the code keeps one, from *)
(* the goroutine that has just uploaded to the record that survives every  *)
(* process, its object is in the final place.                              *)
(***************************************************************************)
EntriesPresent == CacheEntriesPresent /\ CollectedEntriesPresent

(***************************************************************************)
(* Objects are addressed by digest: nothing truncated ever appears under   *)
(* layers/, whatever fails or crashes while a tarball is being written.    *)
(***************************************************************************)
NoTruncatedLayer == \A d \in Digests : layers[d] # "partial"

(***************************************************************************)
(* A layer that can be downloaded stays so: manifests already handed out   *)
(* refer to it.                                                            *)
(***************************************************************************)
LayersArePermanent ==
  [][\A d \in Digests : layers[d] = "whole" => layers'[d] = "whole"]_vars

(***************************************************************************)
(* The upload mutex does its work: on the filesystem a process never       *)
(* builds a layer which it, or an earlier incarnation, has recorded.  (A   *)
(* failing read of the bucket makes this untrue for GCS.)                  *)
(***************************************************************************)
NothingBuiltTwice ==
  \A w \in Workers :
    At(w, "write") => /\ key[w] \notin lcache[ServerOf[w]]
                      /\ builds[key[w]] # "whole"

(***************************************************************************)
(* Every acquired upload mutex is released again, on the error paths too;  *)
(* otherwise all later requests for the layer would hang.                  *)
(***************************************************************************)
LocksAreReleased ==
  \A s \in Servers, k \in Keys : k \in mutex[s] ~> k \notin mutex[s]

(***************************************************************************)
(* The layer cache implements the abstract index.                          *)
(***************************************************************************)
presentBar == {d \in Digests : layers[d] = "whole"}
indexedBar ==
  {k \in Keys : \/ \E s \in Servers : k \in lcache[s] \/ <<s, k>> \in filling
                \/ builds[k] = "whole"
                \/ \E w \in Workers : k \in entries[w]}

Abstract == INSTANCE LayerIndex WITH present <- presentBar, indexed <- indexedBar

ImplementsLayerIndex == Abstract!Spec
================================================================================
