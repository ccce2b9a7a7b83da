--------------------------- MODULE NixeryImagesProofs ---------------------------
(***************************************************************************)
(* Proofs about NixeryImages, for every set of requests, names, packages   *)
(* and layers.  They follow the manifests: each is assembled by a request, *)
(* and whatever a cache holds or a client is sent was assembled before, or *)
(* is the rest of a file that was not written completely.                  *)
(***************************************************************************)
EXTENDS NixeryImages, FiniteSetTheorems, FunctionTheorems, TLAPS

(***************************************************************************)
(* The names that are asked for stand for images of one of two             *)
(* architectures, and each image has its key.                              *)
(***************************************************************************)
LEMMA ImageTypes ==
  ASSUME NEW n \in Names
  PROVE  /\ ImageFromName(n) \in Images
         /\ CacheKey(ImageFromName(n)) \in Keys
         /\ ImageFromName(n).arch \in {"amd64", "arm64"}
<1>1. ImageFromName(n) \in Images /\ CacheKey(ImageFromName(n)) \in Keys
  BY DEF Images, Keys
<1>2. ImageFromName(n).arch = metaPackages(n).arch
  BY DEF ImageFromName
<1>3. metaPackages(n).arch \in {"amd64", "arm64"}
  BY DEF metaPackages
<1> QED BY <1>1, <1>2, <1>3

(***************************************************************************)
(* Sorting keeps the layers.                                               *)
(***************************************************************************)
LEMMA SortingKeeps ==
  ASSUME NEW S, IsFiniteSet(S), NEW s \in SetToSeqs(S)
  PROVE  /\ ToSet(s) = S
         /\ Cardinality(S) \in Nat /\ DOMAIN s = 1 .. Cardinality(S)
         /\ \A i \in DOMAIN s : s[i] \in S
<1> DEFINE n == Cardinality(S)
<1>1. n \in Nat
  BY FS_CardinalityType
<1>2. s \in [1 .. n -> S] /\ \A i, j \in 1 .. n : i # j => s[i] # s[j]
  BY DEF SetToSeqs
<1>3. s \in Injection(1 .. n, S)
  BY <1>2 DEF Injection, IsInjective
<1>4. Cardinality(1 .. n) = n
  <2> HIDE DEF n
  <2> QED BY <1>1, FS_Interval
<1>5. s \in Surjection(1 .. n, S)
  BY <1>3, <1>4, FS_Injection
<1> HIDE DEF n
<1>6. DOMAIN s = 1 .. n /\ \A e \in S : \E i \in 1 .. n : s[i] = e
  BY <1>2, <1>5 DEF Surjection
<1>7. ToSet(s) = {s[i] : i \in DOMAIN s}
  BY DEF ToSet
<1> QED BY <1>1, <1>2, <1>6, <1>7 DEF n

--------------------------------------------------------------------------------
(* The handler of a request, by the step it has come to.                   *)
Collections == UNION {[S -> Nat] : S \in SUBSET Layers}
Bodies      == Manifests \union {Torn}
Looking     == [pc : {"local", "bucket", "prepare"}, name : Names]
Collecting  == [pc : {"layers"}, name : Names, entries : Collections]
Serving     == [pc : {"persist", "write", "send"}, name : Names, manifest : Bodies]

(* The goroutines that fill the caches.                                    *)
LayerTasks  == [kind : {"layer"}, layer : Layers]
LocalTasks  == [kind : {"local"}, key : Keys, manifest : Bodies, open : BOOLEAN]
BucketTasks == [kind : {"bucket"}, key : Keys, manifest : Bodies, open : BOOLEAN, req : Requests]

(***************************************************************************)
(* TypeOK, with the fields that each record has; a request has collected   *)
(* finitely many layers, all of its image.                                 *)
(***************************************************************************)
HandlersTyped ==
  /\ req \in [Requests -> {Idle, Done} \union Looking \union Collecting \union Serving]
  /\ \A r \in Requests :
       At(r, "layers") => /\ IsFiniteSet(DOMAIN req[r].entries)
                          /\ DOMAIN req[r].entries \subseteq LayersOf(ImageOf(r))

CachesTyped ==
  /\ tasks \subseteq LayerTasks \union LocalTasks \union BucketTasks
  /\ lcache \in [Layers -> Nat \union {Absent}]
  /\ stored \subseteq Layers \union Manifests
  /\ builds \subseteq Layers
  /\ local \in [Keys -> Cached]
  /\ manifests \in [Keys -> Cached]
  /\ blobs \subseteq Bodies
  /\ replies \subseteq [name : Names, body : Bodies]
  /\ crashes \in 0 .. MaxCrashes
  /\ spoilt \subseteq Keys

Typed == HandlersTyped /\ CachesTyped

(* The record of a request has the fields its step needs.                  *)
LEMMA HandlerTypes ==
  ASSUME Typed, NEW r \in Requests
  PROVE  /\ req[r].pc \in {"local", "bucket", "prepare"} => req[r] \in Looking
         /\ req[r].pc = "layers" => req[r] \in Collecting
         /\ req[r].pc \in {"persist", "write", "send"} => req[r] \in Serving
         /\ req[r].pc \notin {"idle", "done"} => /\ req[r].name \in Names
                                  /\ ImageOf(r) \in Images /\ KeyOf(r) \in Keys
<1>1. req[r] \in {Idle, Done} \union Looking \union Collecting \union Serving
  BY DEF Typed, HandlersTyped
<1>2. Idle.pc = "idle" /\ Done.pc = "done"
  BY DEF Idle, Done
<1>3. req[r].pc \notin {"idle", "done"} => req[r].name \in Names
  BY <1>1, <1>2 DEF Looking, Collecting, Serving
<1>4. req[r].pc \notin {"idle", "done"} => ImageOf(r) \in Images /\ KeyOf(r) \in Keys
  BY <1>3, ImageTypes DEF ImageOf, KeyOf
<1> QED BY <1>1, <1>2, <1>3, <1>4 DEF Looking, Collecting, Serving

(***************************************************************************)
(* A manifest that a request assembles: it has the layers of its image, by *)
(* the ratings that were collected.                                        *)
(***************************************************************************)
Fresh(m, r) ==
  /\ At(r, "layers")
  /\ m \in Manifests
  /\ m.arch = ImageOf(r).arch
  /\ ToSet(m.layers) = LayersOf(ImageOf(r))
  /\ DOMAIN req[r].entries = LayersOf(ImageOf(r))
  /\ \A i \in DOMAIN m.layers : m.layers[i] \in LayersOf(ImageOf(r))
  /\ \A i, j \in DOMAIN m.layers :
       i < j => req[r].entries[m.layers[i]] >= req[r].entries[m.layers[j]]

(* Assemble makes such a manifest and hands it to the caches.              *)
LEMMA AssembleMakes ==
  ASSUME Typed, NEW r \in Requests, Assemble(r)
  PROVE  \E m : /\ Fresh(m, r) /\ GotoServe(r, m) /\ stored' = stored \union {m}
                /\ tasks' = IF Cacheable
                            THEN tasks \union {LocalTask(KeyOf(r), m), BucketTask(KeyOf(r), m, r)}
                            ELSE tasks
<1> DEFINE S == DOMAIN req[r].entries
           image == ImageOf(r)
<1>1. At(r, "layers") /\ Missing(r) = {}
  BY DEF Assemble
<1>2. IsFiniteSet(S) /\ S = LayersOf(image)
  BY <1>1 DEF Typed, HandlersTyped, Missing
<1>3. PICK s \in SortedByRating(S, req[r].entries) :
        LET m == [arch   |-> image.arch,
                  cmd    |-> IF "bashInteractive" \in ToSet(image.packages) THEN "bash" ELSE "",
                  layers |-> s]
        IN  /\ GotoServe(r, m) /\ stored' = stored \union {m}
            /\ tasks' = IF Cacheable
                        THEN tasks \union {LocalTask(KeyOf(r), m), BucketTask(KeyOf(r), m, r)}
                        ELSE tasks
  BY DEF Assemble
<1> DEFINE m == [arch   |-> image.arch,
                 cmd    |-> IF "bashInteractive" \in ToSet(image.packages) THEN "bash" ELSE "",
                 layers |-> s]
<1>4. /\ s \in SetToSeqs(S)
      /\ \A i, j \in DOMAIN s : i < j => req[r].entries[s[i]] >= req[r].entries[s[j]]
  BY DEF SortedByRating
<1>5. ToSet(s) = S /\ \A i \in DOMAIN s : s[i] \in S
  BY <1>2, <1>4, SortingKeeps
<1>6. req[r].name \in Names /\ image \in Images /\ image.arch \in {"amd64", "arm64"}
  BY <1>1, HandlerTypes, ImageTypes DEF At, ImageOf
<1> HIDE DEF image, S
<1>7. m \in Manifests
  <2>1. s \in UNION {SetToSeqs(LayersOf(i)) : i \in Images}
    BY <1>2, <1>4, <1>6
  <2> QED BY <1>6, <2>1 DEF Manifests
<1>8. m.layers = s /\ m.arch = image.arch
  OBVIOUS
<1>9. GotoServe(r, m) /\ stored' = stored \union {m}
  BY <1>3
<1>10. tasks' = IF Cacheable
                THEN tasks \union {LocalTask(KeyOf(r), m), BucketTask(KeyOf(r), m, r)}
                ELSE tasks
  BY <1>3
<1> HIDE DEF m
<1>11. Fresh(m, r)
  BY <1>1, <1>2, <1>4, <1>5, <1>7, <1>8 DEF Fresh, image, S
<1> QED BY <1>9, <1>10, <1>11

(***************************************************************************)
(* A handler that goes on to a legal state.                                *)
(***************************************************************************)
LEMMA HandlerGoes ==
  ASSUME HandlersTyped, NEW r \in Requests,
         NEW h \in {Idle, Done} \union Looking \union Collecting \union Serving,
         req' = [req EXCEPT ![r] = h],
         h.pc = "layers" => /\ IsFiniteSet(DOMAIN h.entries)
                            /\ DOMAIN h.entries \subseteq LayersOf(ImageFromName(h.name))
  PROVE  HandlersTyped'
<1>1. req' \in [Requests -> {Idle, Done} \union Looking \union Collecting \union Serving]
  BY DEF HandlersTyped
<1>2. \A q \in Requests : req'[q] = IF q = r THEN h ELSE req[q]
  BY DEF HandlersTyped
<1>3. \A q \in Requests : q # r => (At(q, "layers") <=> At(q, "layers")') /\ ImageOf(q)' = ImageOf(q)
  BY <1>2 DEF At, ImageOf
<1>4. ImageOf(r)' = ImageFromName(h.name) /\ (At(r, "layers")' <=> h.pc = "layers")
  BY <1>2 DEF ImageOf, At
<1> QED BY <1>1, <1>2, <1>3, <1>4 DEF HandlersTyped

(* The states that a handler goes on to from where it is.                  *)
LEMMA HandlerSteps ==
  ASSUME Typed, NEW r \in Requests
  PROVE  /\ ReplyError(r) => HandlersTyped'
         /\ \A n \in Names, pc \in {"local", "bucket", "prepare"} :
              req' = [req EXCEPT ![r] = [pc |-> pc, name |-> n]] => HandlersTyped'
         /\ req[r].pc \notin {"idle", "done"} => \A m \in Bodies : GotoServe(r, m) => HandlersTyped'
         /\ req[r].pc = "layers" => \A l \in Missing(r) \cap Layers, n \in Nat :
              Collect(r, l, n) => HandlersTyped'
<1>1. HandlersTyped
  BY DEF Typed
<1>2. ASSUME ReplyError(r) PROVE HandlersTyped'
  BY <1>1, <1>2, HandlerGoes DEF ReplyError, Done
<1>3. ASSUME NEW n \in Names, NEW pc \in {"local", "bucket", "prepare"},
             req' = [req EXCEPT ![r] = [pc |-> pc, name |-> n]]
      PROVE  HandlersTyped'
  <2>1. [pc |-> pc, name |-> n] \in Looking /\ [pc |-> pc, name |-> n].pc # "layers"
    BY DEF Looking
  <2> QED BY <1>1, <1>3, <2>1, HandlerGoes
<1>4. ASSUME req[r].pc \notin {"idle", "done"}, NEW m \in Bodies, GotoServe(r, m) PROVE HandlersTyped'
  <2> DEFINE h == [pc |-> "persist", name |-> req[r].name, manifest |-> m]
  <2>1. h \in Serving /\ h.pc # "layers"
    BY <1>4, HandlerTypes DEF Serving
  <2>2. req' = [req EXCEPT ![r] = h]
    BY <1>4 DEF GotoServe
  <2> HIDE DEF h
  <2> QED BY <1>1, <2>1, <2>2, HandlerGoes
<1>5. ASSUME req[r].pc = "layers", NEW l \in Missing(r) \cap Layers, NEW n \in Nat, Collect(r, l, n)
      PROVE  HandlersTyped'
  <2> DEFINE S == DOMAIN req[r].entries
             T == S \union {l}
             f == [x \in T |-> IF x = l THEN n ELSE req[r].entries[x]]
             h == [req[r] EXCEPT !.entries = f]
  <2>1. req[r] \in Collecting
    BY <1>5, HandlerTypes
  <2>2. req[r].entries \in [S -> Nat] /\ S \in SUBSET Layers
    BY <2>1 DEF Collecting, Collections
  <2>3. f \in [T -> Nat] /\ T \in SUBSET Layers
    BY <2>2
  <2>4. f \in Collections
    BY <2>3 DEF Collections
  <2>5. IsFiniteSet(S) /\ S \subseteq LayersOf(ImageOf(r))
    BY <1>1, <1>5 DEF HandlersTyped, At
  <2>6. IsFiniteSet(T) /\ T \subseteq LayersOf(ImageOf(r))
    <3>1. IsFiniteSet(T)
      BY <2>5, FS_AddElement
    <3> QED BY <2>5, <3>1 DEF Missing
  <2>7. DOMAIN f = T
    OBVIOUS
  <2>8. req' = [req EXCEPT ![r] = h]
    BY <1>5 DEF Collect
  <2> HIDE DEF f, T
  <2>9. h \in Collecting /\ h.entries = f /\ h.name = req[r].name
    BY <2>1, <2>4 DEF Collecting
  <2> HIDE DEF h
  <2> QED BY <1>1, <2>6, <2>7, <2>8, <2>9, HandlerGoes DEF ImageOf
<1> QED BY <1>2, <1>3, <1>4, <1>5

(* The steps, for the case splits below.                                   *)
LEMMA NextCases ==
  ASSUME [Next]_vars
  PROVE  \/ \E r \in Requests : \E n \in Names : Receive(r, n)
         \/ \E r \in Requests : ReadLocal(r) \/ ReadBucket(r) \/ MissBucket(r) \/ Prepare(r)
         \/ \E r \in Requests : \E l \in Layers :
              LayerFromMemory(r, l) \/ LayerFromStorage(r, l) \/ BuildLayer(r, l)
         \/ \E r \in Requests : LayerFails(r) \/ Assemble(r) \/ ConfigFails(r)
         \/ \E r \in Requests : OpenBlob(r) \/ WriteBlob(r) \/ BlobFails(r) \/ Reply(r)
         \/ \E t \in tasks : RunLayerTask(t) \/ OpenLocal(t) \/ WriteLocal(t)
         \/ \E t \in tasks : WriteLocalFails(t) \/ OpenFails(t)
         \/ \E t \in tasks : OpenBucket(t) \/ WriteBucket(t) \/ WriteBucketFails(t)
         \/ Crash
         \/ UNCHANGED vars
<1>1. CASE \E r \in Requests : Handle(r)
  BY <1>1 DEF Handle
<1>2. CASE \E t \in tasks : Run(t)
  BY <1>2 DEF Run
<1> QED BY <1>1, <1>2 DEF Next

(* A goroutine that opens its file.                                        *)
LEMMA TaskOpens ==
  ASSUME Typed, NEW t \in tasks, t.kind \in {"local", "bucket"}
  PROVE  /\ t \in LocalTasks \union BucketTasks
         /\ t.key \in Keys /\ t.manifest \in Bodies
         /\ t.kind = "local" => /\ [t EXCEPT !.open = TRUE] \in LocalTasks
         /\ t.kind = "bucket" => /\ [t EXCEPT !.open = TRUE] \in BucketTasks
         /\ LET u == [t EXCEPT !.open = TRUE]
            IN  /\ u.key = t.key /\ u.manifest = t.manifest /\ u.kind = t.kind /\ u.open
<1>1. t \in LocalTasks \union BucketTasks
  BY DEF Typed, CachesTyped, LayerTasks
<1> QED BY <1>1 DEF LocalTasks, BucketTasks

(***************************************************************************)
(* Every step keeps the types.                                             *)
(***************************************************************************)
LEMMA TypeStep == ASSUME Typed, [Next]_vars PROVE Typed'
<1> USE DEF At
<1>1. CachesTyped /\ HandlersTyped
  BY DEF Typed
<1>2. ASSUME NEW r \in Requests, NEW n \in Names, Receive(r, n) PROVE Typed'
  <2>1. HandlersTyped'
    BY <1>2, HandlerSteps DEF Receive
  <2> QED BY <1>1, <1>2, <2>1 DEF Receive, CachesTyped, Typed
<1>3. ASSUME NEW r \in Requests, ReadLocal(r) PROVE Typed'
  <2>1. req[r].pc = "local" /\ req[r].name \in Names /\ KeyOf(r) \in Keys
    BY <1>3, HandlerTypes DEF ReadLocal
  <2>2. local[KeyOf(r)] # Absent => local[KeyOf(r)] \in Bodies
    BY <1>1, <2>1 DEF CachesTyped, Cached, Bodies
  <2>3. HandlersTyped'
    BY <1>3, <2>1, <2>2, HandlerSteps DEF ReadLocal, Goto
  <2> QED BY <1>1, <1>3, <2>3 DEF ReadLocal, CachesTyped, Typed
<1>4. ASSUME NEW r \in Requests, ReadBucket(r) PROVE Typed'
  <2>1. req[r].pc = "bucket" /\ req[r].name \in Names /\ KeyOf(r) \in Keys
    BY <1>4, HandlerTypes DEF ReadBucket
  <2>2. manifests[KeyOf(r)] \in Bodies
    BY <1>1, <1>4, <2>1 DEF CachesTyped, Cached, Bodies, ReadBucket
  <2>3. HandlersTyped'
    BY <1>4, <2>1, <2>2, HandlerSteps DEF ReadBucket
  <2>4. LocalTask(KeyOf(r), manifests[KeyOf(r)]) \in LocalTasks
    BY <2>1, <2>2 DEF LocalTask, LocalTasks
  <2> QED BY <1>1, <1>4, <2>3, <2>4 DEF ReadBucket, CachesTyped, Typed
<1>5. ASSUME NEW r \in Requests, MissBucket(r) PROVE Typed'
  <2>1. req[r].pc = "bucket" /\ req[r].name \in Names
    BY <1>5, HandlerTypes DEF MissBucket
  <2>2. HandlersTyped'
    BY <1>5, <2>1, HandlerSteps DEF MissBucket, Goto
  <2> QED BY <1>1, <1>5, <2>2 DEF MissBucket, CachesTyped, Typed
<1>6. ASSUME NEW r \in Requests, Prepare(r) PROVE Typed'
  <2>1. req[r].pc = "prepare" /\ req[r].name \in Names
    BY <1>6, HandlerTypes DEF Prepare
  <2> DEFINE h == [pc |-> "layers", name |-> req[r].name, entries |-> <<>>]
  <2>2. ASSUME req' = [req EXCEPT ![r] = h] PROVE HandlersTyped'
    <3>1. <<>> \in [{} -> Nat] /\ DOMAIN <<>> = {} /\ IsFiniteSet({})
      BY FS_EmptySet
    <3>2. <<>> \in Collections
      BY <3>1 DEF Collections
    <3>3. h \in Collecting /\ DOMAIN h.entries = {}
      BY <2>1, <3>1, <3>2 DEF Collecting
    <3> HIDE DEF h
    <3> QED BY <1>1, <2>2, <3>1, <3>3, HandlerGoes
  <2>3. HandlersTyped'
    BY <1>6, <2>2, HandlerSteps DEF Prepare
  <2> QED BY <1>1, <1>6, <2>3 DEF Prepare, CachesTyped, Typed
<1>7. ASSUME NEW r \in Requests, NEW l \in Layers, LayerFromMemory(r, l) PROVE Typed'
  <2>1. req[r].pc = "layers" /\ l \in Missing(r) /\ lcache[l] \in Nat
    BY <1>1, <1>7 DEF LayerFromMemory, CachesTyped
  <2>2. HandlersTyped'
    BY <1>7, <2>1, HandlerSteps DEF LayerFromMemory
  <2> QED BY <1>1, <1>7, <2>2 DEF LayerFromMemory, CachesTyped, Typed
<1>8. ASSUME NEW r \in Requests, NEW l \in Layers, LayerFromStorage(r, l) PROVE Typed'
  <2>1. HandlersTyped'
    BY <1>8, HandlerSteps DEF LayerFromStorage
  <2>2. LayerTask(l) \in LayerTasks
    BY DEF LayerTask, LayerTasks
  <2> QED BY <1>1, <1>8, <2>1, <2>2 DEF LayerFromStorage, CachesTyped, Typed
<1>9. ASSUME NEW r \in Requests, NEW l \in Layers, BuildLayer(r, l) PROVE Typed'
  <2>1. Rating[l] \in Nat
    BY RatingAssumption
  <2>2. HandlersTyped'
    BY <1>9, <2>1, HandlerSteps DEF BuildLayer
  <2> QED BY <1>1, <1>9, <2>1, <2>2 DEF BuildLayer, CachesTyped, Typed
<1>10. ASSUME NEW r \in Requests, LayerFails(r) \/ ConfigFails(r) PROVE Typed'
  <2>1. HandlersTyped'
    BY <1>10, HandlerSteps DEF LayerFails, ConfigFails
  <2> QED BY <1>1, <1>10, <2>1 DEF LayerFails, ConfigFails, CachesTyped, Typed
<1>11. ASSUME NEW r \in Requests, Assemble(r) PROVE Typed'
  <2>1. PICK m : /\ Fresh(m, r) /\ GotoServe(r, m) /\ stored' = stored \union {m}
                 /\ tasks' = IF Cacheable
                             THEN tasks \union {LocalTask(KeyOf(r), m), BucketTask(KeyOf(r), m, r)}
                             ELSE tasks
    BY <1>11, AssembleMakes
  <2>2. m \in Manifests /\ m \in Bodies /\ req[r].pc = "layers" /\ KeyOf(r) \in Keys
    BY <2>1, HandlerTypes DEF Fresh, Bodies
  <2>3. HandlersTyped'
    BY <2>1, <2>2, HandlerSteps
  <2>4. LocalTask(KeyOf(r), m) \in LocalTasks /\ BucketTask(KeyOf(r), m, r) \in BucketTasks
    BY <2>2 DEF LocalTask, LocalTasks, BucketTask, BucketTasks
  <2> QED BY <1>1, <1>11, <2>1, <2>2, <2>3, <2>4 DEF Assemble, CachesTyped, Typed
<1>12. ASSUME NEW r \in Requests, OpenBlob(r) \/ WriteBlob(r) PROVE Typed'
  <2>1. PICK pc \in {"write", "send"} : req' = [req EXCEPT ![r] = [req[r] EXCEPT !.pc = pc]]
    BY <1>12 DEF OpenBlob, WriteBlob
  <2>2. req[r] \in Serving
    BY <1>12, HandlerTypes DEF OpenBlob, WriteBlob
  <2> DEFINE h == [req[r] EXCEPT !.pc = pc]
  <2>3. h \in Serving /\ h.pc # "layers" /\ req[r].manifest \in Bodies
    BY <2>2 DEF Serving
  <2>4. req' = [req EXCEPT ![r] = h]
    BY <2>1
  <2> HIDE DEF h
  <2>5. HandlersTyped'
    BY <1>1, <2>3, <2>4, HandlerGoes
  <2> QED BY <1>1, <1>12, <2>3, <2>5 DEF OpenBlob, WriteBlob, CachesTyped, Typed
<1>13. ASSUME NEW r \in Requests, Reply(r) PROVE Typed'
  <2>1. req[r] \in Serving
    BY <1>13, HandlerTypes DEF Reply
  <2>2. HandlersTyped'
    BY <1>13, HandlerSteps DEF Reply, ReplyError
  <2>3. req[r].name \in Names /\ req[r].manifest \in Bodies
    BY <2>1 DEF Serving
  <2> QED BY <1>1, <1>13, <2>2, <2>3 DEF Reply, CachesTyped, Typed
<1>14. ASSUME NEW r \in Requests, BlobFails(r) PROVE Typed'
  <2>1. HandlersTyped'
    BY <1>14, HandlerSteps DEF BlobFails
  <2> QED BY <1>1, <1>14, <2>1 DEF BlobFails, CachesTyped, Typed
<1>15. ASSUME UNCHANGED req PROVE HandlersTyped'
  BY <1>1, <1>15 DEF HandlersTyped, ImageOf
<1>16. ASSUME NEW t \in tasks, RunLayerTask(t) PROVE Typed'
  <2>1. t \in LayerTasks
    BY <1>1, <1>16 DEF RunLayerTask, CachesTyped, LocalTasks, BucketTasks
  <2>2. t.layer \in Layers
    BY <2>1 DEF LayerTasks
  <2>3. lcache' \in [Layers -> Nat \union {Absent}]
    BY <1>1, <1>16, <2>2 DEF RunLayerTask, CachesTyped
  <2> QED BY <1>1, <1>15, <1>16, <2>3 DEF RunLayerTask, CachesTyped, Typed
<1>17. ASSUME NEW t \in tasks, OpenLocal(t) PROVE Typed'
  <2>1. t.key \in Keys /\ [t EXCEPT !.open = TRUE] \in LocalTasks
    BY <1>17, TaskOpens DEF OpenLocal
  <2> QED BY <1>1, <1>15, <1>17, <2>1 DEF OpenLocal, CachesTyped, Typed, Cached
<1>18. ASSUME NEW t \in tasks, WriteLocal(t) PROVE Typed'
  <2>1. t.key \in Keys /\ t.manifest \in Bodies
    BY <1>18, TaskOpens DEF WriteLocal
  <2> QED BY <1>1, <1>15, <1>18, <2>1 DEF WriteLocal, CachesTyped, Typed, Cached, Bodies
<1>19. ASSUME NEW t \in tasks, OpenBucket(t) PROVE Typed'
  <2>1. t.key \in Keys /\ [t EXCEPT !.open = TRUE] \in BucketTasks
    BY <1>19, TaskOpens DEF OpenBucket
  <2> QED BY <1>1, <1>15, <1>19, <2>1 DEF OpenBucket, CachesTyped, Typed, Cached
<1>20. ASSUME NEW t \in tasks, WriteBucket(t) PROVE Typed'
  <2>1. t.key \in Keys /\ t.manifest \in Bodies
    BY <1>20, TaskOpens DEF WriteBucket
  <2> QED BY <1>1, <1>15, <1>20, <2>1 DEF WriteBucket, CachesTyped, Typed, Cached, Bodies
<1>21. ASSUME NEW t \in tasks, WriteLocalFails(t) \/ OpenFails(t) \/ WriteBucketFails(t)
       PROVE  Typed'
  <2>1. WriteLocalFails(t) => t.key \in Keys
    BY TaskOpens DEF WriteLocalFails
  <2> QED BY <1>1, <1>15, <1>21, <2>1 DEF WriteLocalFails, OpenFails, WriteBucketFails, CachesTyped, Typed
<1>22. CASE Crash
  <2>1. HandlersTyped'
    BY <1>1, <1>22 DEF Crash, HandlersTyped, Idle, Done
  <2>2. crashes' \in 0 .. MaxCrashes
    BY <1>1, <1>22, BoundsAssumption DEF Crash, CachesTyped
  <2>3. spoilt' \subseteq Keys
    BY <1>1, <1>22, TaskOpens DEF Crash, CachesTyped
  <2> QED BY <1>1, <1>22, <2>1, <2>2, <2>3 DEF Crash, CachesTyped, Typed
<1>23. CASE UNCHANGED vars
  BY <1>1, <1>15, <1>23 DEF vars, CachesTyped, Typed
<1> QED
  BY <1>2, <1>3, <1>4, <1>5, <1>6, <1>7, <1>8, <1>9, <1>10, <1>11, <1>12, <1>13, <1>14,
     <1>16, <1>17, <1>18, <1>19, <1>20, <1>21, <1>22, <1>23, NextCases

--------------------------------------------------------------------------------
(***************************************************************************)
(* Where manifests are: m is sent to a client that asked for n, or about   *)
(* to be; m is in a cache under the key k, or about to be.                 *)
(***************************************************************************)
Serves(m, n) ==
  \/ \E r \in Requests :
       req[r].pc \in {"persist", "write", "send"} /\ req[r].manifest = m /\ req[r].name = n
  \/ \E rep \in replies : rep.body = m /\ rep.name = n

Holds(m, k) ==
  \/ \E t \in tasks : t.kind \in {"local", "bucket"} /\ t.manifest = m /\ t.key = k
  \/ k \in Keys /\ m # Absent /\ (local[k] = m \/ manifests[k] = m)

(* What a lookup under the key k finds now: m.                             *)
Finds(m, k) ==
  /\ k \in Keys /\ m # Absent
  /\ (local[k] = m /\ ~ LocalCacheLocked) \/ manifests[k] = m

(* What a lookup finds is held.                                            *)
LEMMA FoundIsHeld == \A m, k : Finds(m, k) => Holds(m, k)
BY DEF Finds, Holds

(* What a step of one handler adds to what is served.                      *)
LEMMA ServesMore ==
  ASSUME Typed, NEW r \in Requests, NEW h, req' = [req EXCEPT ![r] = h], UNCHANGED replies,
         NEW m, NEW n, Serves(m, n)'
  PROVE  \/ Serves(m, n)
         \/ h.pc \in {"persist", "write", "send"} /\ h.manifest = m /\ h.name = n
<1>1. \A q \in Requests : req'[q] = IF q = r THEN h ELSE req[q]
  BY DEF Typed, HandlersTyped
<1> QED BY <1>1 DEF Serves

(* What a handler adds that is to serve a manifest.                        *)
LEMMA ServesNext ==
  ASSUME Typed, NEW r \in Requests, NEW x, GotoServe(r, x), UNCHANGED replies,
         NEW m, NEW n, Serves(m, n)'
  PROVE  Serves(m, n) \/ (x = m /\ req[r].name = n)
<1> DEFINE h == [pc |-> "persist", name |-> req[r].name, manifest |-> x]
<1>1. req' = [req EXCEPT ![r] = h] /\ h.manifest = x /\ h.name = req[r].name
  BY DEF GotoServe
<1> HIDE DEF h
<1> QED BY <1>1, ServesMore

(***************************************************************************)
(* A client is sent what was assembled for it, or what a lookup finds    *)
(* under the key of its image.                                             *)
(***************************************************************************)
LEMMA ServedFrom ==
  ASSUME Typed, [Next]_vars, NEW m, NEW n, Serves(m, n)'
  PROVE  \/ Serves(m, n)
         \/ n \in Names /\ Finds(m, CacheKey(ImageFromName(n)))
         \/ \E r \in Requests : Fresh(m, r) /\ Assemble(r) /\ req[r].name = n /\ m \in stored'
<1> USE DEF At
<1>1. ASSUME NEW r \in Requests, NEW h, req' = [req EXCEPT ![r] = h], UNCHANGED replies,
             h.pc \notin {"persist", "write", "send"}
      PROVE  Serves(m, n)
  BY <1>1, ServesMore
<1>2. ASSUME NEW r \in Requests, ReplyError(r), UNCHANGED replies
      PROVE  Serves(m, n)
  BY <1>1, <1>2 DEF ReplyError, Done
<1>3. ASSUME UNCHANGED <<req, replies>> PROVE Serves(m, n)
  BY <1>3 DEF Serves
<1>4. ASSUME NEW r \in Requests, NEW x \in Names, Receive(r, x) PROVE Serves(m, n)
  BY <1>1, <1>4 DEF Receive
<1>5. ASSUME NEW r \in Requests, ReadLocal(r)
      PROVE  Serves(m, n) \/ (n \in Names /\ Finds(m, CacheKey(ImageFromName(n))))
  <2>1. req[r].pc = "local" /\ req[r].name \in Names /\ KeyOf(r) \in Keys
    BY <1>5, HandlerTypes DEF ReadLocal
  <2>2. CASE Goto(r, "bucket")
    BY <1>1, <1>5, <2>2 DEF Goto, ReadLocal
  <2>3. CASE local[KeyOf(r)] # Absent /\ GotoServe(r, local[KeyOf(r)])
    <3>1. Serves(m, n) \/ (local[KeyOf(r)] = m /\ req[r].name = n)
      BY <1>5, <2>3, ServesNext DEF ReadLocal
    <3> QED BY <1>5, <2>1, <2>3, <3>1 DEF Finds, KeyOf, ImageOf, ReadLocal
  <2> QED BY <1>5, <2>2, <2>3 DEF ReadLocal
<1>6. ASSUME NEW r \in Requests, ReadBucket(r)
      PROVE  Serves(m, n) \/ (n \in Names /\ Finds(m, CacheKey(ImageFromName(n))))
  <2>1. req[r].pc = "bucket" /\ req[r].name \in Names /\ KeyOf(r) \in Keys
    BY <1>6, HandlerTypes DEF ReadBucket
  <2>2. Serves(m, n) \/ (manifests[KeyOf(r)] = m /\ req[r].name = n)
    BY <1>6, ServesNext DEF ReadBucket
  <2> QED BY <1>6, <2>1, <2>2 DEF Finds, KeyOf, ImageOf, ReadBucket
<1>7. ASSUME NEW r \in Requests, MissBucket(r) PROVE Serves(m, n)
  BY <1>1, <1>7 DEF MissBucket, Goto
<1>8. ASSUME NEW r \in Requests, Prepare(r) PROVE Serves(m, n)
  <2>1. CASE ReplyError(r)
    BY <1>2, <1>8, <2>1 DEF Prepare
  <2>2. CASE req' = [req EXCEPT ![r] = [pc |-> "layers", name |-> req[r].name, entries |-> <<>>]]
    BY <1>1, <1>8, <2>2 DEF Prepare
  <2> QED BY <1>8, <2>1, <2>2 DEF Prepare
<1>9. ASSUME NEW r \in Requests, NEW l, NEW x, Collect(r, l, x), At(r, "layers"), UNCHANGED replies
      PROVE  Serves(m, n)
  <2> DEFINE f == [y \in DOMAIN req[r].entries \union {l} |-> IF y = l THEN x ELSE req[r].entries[y]]
  <2>1. req' = [req EXCEPT ![r] = [req[r] EXCEPT !.entries = f]]
    BY <1>9 DEF Collect
  <2>2. req[r] \in Collecting
    BY <1>9, HandlerTypes
  <2>3. [req[r] EXCEPT !.entries = f].pc = "layers"
    BY <2>2 DEF Collecting
  <2> HIDE DEF f
  <2> QED BY <1>1, <1>9, <2>1, <2>3
<1>10. ASSUME NEW r \in Requests, NEW l \in Layers,
              LayerFromMemory(r, l) \/ LayerFromStorage(r, l) \/ BuildLayer(r, l)
       PROVE  Serves(m, n)
  BY <1>9, <1>10 DEF LayerFromMemory, LayerFromStorage, BuildLayer
<1>11. ASSUME NEW r \in Requests, LayerFails(r) \/ ConfigFails(r) \/ BlobFails(r)
       PROVE  Serves(m, n)
  BY <1>2, <1>11 DEF LayerFails, ConfigFails, BlobFails
<1>12. ASSUME NEW r \in Requests, Assemble(r)
       PROVE  Serves(m, n) \/ (Fresh(m, r) /\ req[r].name = n /\ m \in stored')
  <2>1. PICK x : Fresh(x, r) /\ GotoServe(r, x) /\ stored' = stored \union {x}
    BY <1>12, AssembleMakes
  <2>2. Serves(m, n) \/ (x = m /\ req[r].name = n)
    BY <1>12, <2>1, ServesNext DEF Assemble
  <2> QED BY <2>1, <2>2
<1>13. ASSUME NEW r \in Requests, OpenBlob(r) \/ WriteBlob(r) PROVE Serves(m, n)
  <2>1. PICK pc : req' = [req EXCEPT ![r] = [req[r] EXCEPT !.pc = pc]]
    BY <1>13 DEF OpenBlob, WriteBlob
  <2>2. req[r] \in Serving
    BY <1>13, HandlerTypes DEF OpenBlob, WriteBlob
  <2> DEFINE h == [req[r] EXCEPT !.pc = pc]
  <2>3. h.manifest = req[r].manifest /\ h.name = req[r].name /\ req' = [req EXCEPT ![r] = h]
    BY <2>1, <2>2 DEF Serving
  <2> HIDE DEF h
  <2>4. UNCHANGED replies
    BY <1>13 DEF OpenBlob, WriteBlob
  <2>5. Serves(m, n) \/ (h.manifest = m /\ h.name = n)
    <3>1. req' = [req EXCEPT ![r] = h]
      BY <2>3
    <3> QED BY <2>4, <3>1, ServesMore
  <2>6. Serves(m, n) \/ (req[r].manifest = m /\ req[r].name = n)
    BY <2>3, <2>5
  <2> QED BY <1>13, <2>6 DEF Serves, OpenBlob, WriteBlob
<1>14. ASSUME NEW r \in Requests, Reply(r) PROVE Serves(m, n)
  <2>1. req' = [req EXCEPT ![r] = Done] /\ req[r].pc = "send"
    BY <1>14 DEF Reply
  <2>2. \A q \in Requests : req'[q] = IF q = r THEN Done ELSE req[q]
    BY <2>1 DEF Typed, HandlersTyped
  <2>3. \A rep \in replies' :
          rep \in replies \/ (rep.body = req[r].manifest /\ rep.name = req[r].name)
    BY <1>14 DEF Reply
  <2> QED BY <2>1, <2>2, <2>3 DEF Serves, Done
<1>15. ASSUME NEW t \in tasks, \/ RunLayerTask(t) \/ OpenLocal(t) \/ WriteLocal(t)
                               \/ WriteLocalFails(t) \/ OpenFails(t)
                               \/ OpenBucket(t) \/ WriteBucket(t) \/ WriteBucketFails(t)
       PROVE  Serves(m, n)
  BY <1>3, <1>15 DEF RunLayerTask, OpenLocal, WriteLocal, WriteLocalFails, OpenFails,
                     OpenBucket, WriteBucket, WriteBucketFails
<1>16. CASE Crash
  <2>1. \A q \in Requests : req'[q].pc \in {"idle", "done"}
    BY <1>16 DEF Crash, Idle, Done
  <2>2. UNCHANGED replies
    BY <1>16 DEF Crash
  <2> QED BY <2>1, <2>2 DEF Serves
<1>17. CASE UNCHANGED vars
  BY <1>3, <1>17 DEF vars
<1> QED
  BY <1>4, <1>5, <1>6, <1>7, <1>8, <1>10, <1>11, <1>12, <1>13, <1>14, <1>15, <1>16, <1>17, NextCases

(***************************************************************************)
(* A cache holds what was assembled for an image with that key, or a file  *)
(* that was not written completely.                                        *)
(***************************************************************************)
LEMMA HeldFrom ==
  ASSUME Typed, [Next]_vars, NEW m, NEW k, Holds(m, k)'
  PROVE  \/ Holds(m, k)
         \/ m = Torn
         \/ \E r \in Requests : Fresh(m, r) /\ Cacheable /\ k = KeyOf(r) /\ m \in stored'
<1> USE DEF At
<1>1. ASSUME UNCHANGED <<local, manifests>>, tasks' \subseteq tasks
      PROVE  Holds(m, k)
  BY <1>1 DEF Holds
<1>2. CASE \E r \in Requests : \E x \in Names : Receive(r, x)
  BY <1>1, <1>2 DEF Receive
<1>3. CASE \E r \in Requests : ReadLocal(r) \/ MissBucket(r) \/ Prepare(r)
  BY <1>1, <1>3 DEF ReadLocal, MissBucket, Prepare
<1>4. ASSUME NEW r \in Requests, ReadBucket(r) PROVE Holds(m, k)
  <2>1. KeyOf(r) \in Keys
    BY <1>4, HandlerTypes DEF ReadBucket
  <2>2. LocalTask(KeyOf(r), manifests[KeyOf(r)]).manifest = manifests[KeyOf(r)]
    BY DEF LocalTask
  <2>3. LocalTask(KeyOf(r), manifests[KeyOf(r)]).key = KeyOf(r)
    BY DEF LocalTask
  <2>4. tasks' = tasks \union {LocalTask(KeyOf(r), manifests[KeyOf(r)])}
    BY <1>4 DEF ReadBucket
  <2>5. UNCHANGED <<local, manifests>> /\ manifests[KeyOf(r)] # Absent
    BY <1>4 DEF ReadBucket
  <2> QED BY <2>1, <2>2, <2>3, <2>4, <2>5 DEF Holds
<1>5. ASSUME NEW r \in Requests, NEW l \in Layers, LayerFromStorage(r, l) PROVE Holds(m, k)
  <2>1. LayerTask(l).kind = "layer"
    BY DEF LayerTask
  <2>2. tasks' = tasks \union {LayerTask(l)} /\ UNCHANGED <<local, manifests>>
    BY <1>5 DEF LayerFromStorage
  <2> QED BY <2>1, <2>2 DEF Holds
<1>6. CASE \E r \in Requests : \E l \in Layers : LayerFromMemory(r, l) \/ BuildLayer(r, l)
  BY <1>1, <1>6 DEF LayerFromMemory, BuildLayer
<1>7. CASE \E r \in Requests : \/ LayerFails(r) \/ ConfigFails(r)
                               \/ OpenBlob(r) \/ WriteBlob(r) \/ BlobFails(r) \/ Reply(r)
  BY <1>1, <1>7 DEF LayerFails, ConfigFails, OpenBlob, WriteBlob, BlobFails, Reply
<1>8. ASSUME NEW r \in Requests, Assemble(r)
      PROVE  Holds(m, k) \/ (Fresh(m, r) /\ Cacheable /\ k = KeyOf(r) /\ m \in stored')
  <2>1. PICK x : /\ Fresh(x, r) /\ stored' = stored \union {x}
                 /\ tasks' = IF Cacheable
                             THEN tasks \union {LocalTask(KeyOf(r), x), BucketTask(KeyOf(r), x, r)}
                             ELSE tasks
    BY <1>8, AssembleMakes
  <2>2. UNCHANGED <<local, manifests>>
    BY <1>8 DEF Assemble
  <2>3. /\ LocalTask(KeyOf(r), x).manifest = x /\ LocalTask(KeyOf(r), x).key = KeyOf(r)
        /\ BucketTask(KeyOf(r), x, r).manifest = x /\ BucketTask(KeyOf(r), x, r).key = KeyOf(r)
    BY DEF LocalTask, BucketTask
  <2> QED BY <2>1, <2>2, <2>3 DEF Holds
<1>9. ASSUME NEW t \in tasks, RunLayerTask(t) \/ WriteLocalFails(t) \/ OpenFails(t) \/ WriteBucketFails(t)
      PROVE  Holds(m, k)
  BY <1>1, <1>9 DEF RunLayerTask, WriteLocalFails, OpenFails, WriteBucketFails
<1>10. ASSUME NEW t \in tasks, OpenLocal(t) \/ OpenBucket(t) PROVE Holds(m, k) \/ m = Torn
  <2> DEFINE u == [t EXCEPT !.open = TRUE]
  <2>1. t.kind \in {"local", "bucket"}
    BY <1>10 DEF OpenLocal, OpenBucket
  <2>2. u.manifest = t.manifest /\ u.key = t.key
    BY <2>1, TaskOpens
  <2>3. tasks' = (tasks \ {t}) \union {u}
    BY <1>10 DEF OpenLocal, OpenBucket
  <2>4. \A c \in Keys : /\ local'[c] = local[c] \/ local'[c] = Torn
                        /\ manifests'[c] = manifests[c] \/ manifests'[c] = Torn
    BY <1>10 DEF OpenLocal, OpenBucket, Typed, CachesTyped
  <2> HIDE DEF u
  <2> QED BY <2>1, <2>2, <2>3, <2>4 DEF Holds
<1>11. ASSUME NEW t \in tasks, WriteLocal(t) \/ WriteBucket(t) PROVE Holds(m, k)
  <2>1. t.kind \in {"local", "bucket"} /\ tasks' \subseteq tasks
    BY <1>11 DEF WriteLocal, WriteBucket
  <2>2. \A c \in Keys :
          /\ local'[c] = local[c] \/ (c = t.key /\ local'[c] = t.manifest)
          /\ manifests'[c] = manifests[c] \/ (c = t.key /\ manifests'[c] = t.manifest)
    BY <1>11 DEF WriteLocal, WriteBucket, Typed, CachesTyped
  <2> QED BY <2>1, <2>2 DEF Holds
<1>12. CASE Crash \/ UNCHANGED vars
  BY <1>1, <1>12 DEF Crash, vars
<1> QED
  BY <1>2, <1>3, <1>4, <1>5, <1>6, <1>7, <1>8, <1>9, <1>10, <1>11, <1>12, NextCases

--------------------------------------------------------------------------------
(***************************************************************************)
(* Where the ratings come from: x is what a step has a request collect for *)
(* the layer l.                                                            *)
(***************************************************************************)
LEMMA CollectedFrom ==
  ASSUME Typed, [Next]_vars, NEW r \in Requests, At(r, "layers")',
         NEW l \in DOMAIN req'[r].entries
  PROVE  LET x == req'[r].entries[l] IN
         \/ At(r, "layers") /\ l \in DOMAIN req[r].entries /\ x = req[r].entries[l]
         \/ l \in Layers /\ lcache[l] # Absent /\ x = lcache[l]
         \/ l \in Layers /\ lcache[l] = Absent /\ l \in builds
         \/ l \in Layers /\ BuildLayer(r, l) /\ x = Rating[l]
<1> DEFINE Same == At(r, "layers") /\ l \in DOMAIN req[r].entries /\ req'[r].entries[l] = req[r].entries[l]
           Read == l \in Layers /\ lcache[l] # Absent /\ req'[r].entries[l] = lcache[l]
           Found == l \in Layers /\ lcache[l] = Absent /\ l \in builds
           Built == l \in Layers /\ BuildLayer(r, l) /\ req'[r].entries[l] = Rating[l]
<1> SUFFICES Same \/ Read \/ Found \/ Built
  OBVIOUS
<1> HIDE DEF Read, Found, Built
<1>1. ASSUME req'[r] = req[r] PROVE Same
  BY <1>1 DEF At
<1>2. ASSUME NEW q \in Requests, NEW h, req' = [req EXCEPT ![q] = h], h.pc # "layers"
      PROVE  Same
  <2>1. req'[r] = IF q = r THEN h ELSE req[r]
    BY <1>2 DEF Typed, HandlersTyped
  <2> QED BY <1>1, <1>2, <2>1 DEF At
<1>3. ASSUME NEW q \in Requests, ReplyError(q) PROVE Same
  <2>1. Done.pc # "layers" /\ req' = [req EXCEPT ![q] = Done]
    BY <1>3 DEF ReplyError, Done
  <2> HIDE DEF Same
  <2> QED BY <1>2, <2>1
<1>4. ASSUME NEW q \in Requests, NEW m, GotoServe(q, m) PROVE Same
  <2> DEFINE h == [pc |-> "persist", name |-> req[q].name, manifest |-> m]
  <2>1. req' = [req EXCEPT ![q] = h] /\ h.pc # "layers"
    BY <1>4 DEF GotoServe
  <2> HIDE DEF Same, h
  <2> QED BY <1>2, <2>1
<1>5. ASSUME NEW q \in Requests, NEW pc \in {"local", "bucket", "prepare"}, NEW n,
             req' = [req EXCEPT ![q] = [pc |-> pc, name |-> n]]
      PROVE  Same
  <2> DEFINE h == [pc |-> pc, name |-> n]
  <2>1. req' = [req EXCEPT ![q] = h] /\ h.pc # "layers"
    BY <1>5
  <2> HIDE DEF Same, h
  <2> QED BY <1>2, <2>1
<1>6. ASSUME NEW q \in Requests, Prepare(q) PROVE Same
  <2>1. CASE req' = [req EXCEPT ![q] = [pc |-> "layers", name |-> req[q].name, entries |-> <<>>]]
    <3>1. req'[r] = IF q = r THEN [pc |-> "layers", name |-> req[q].name, entries |-> <<>>]
                    ELSE req[r]
      BY <2>1 DEF Typed, HandlersTyped
    <3>2. q # r
      BY <3>1
    <3> QED BY <1>1, <3>1, <3>2
  <2> HIDE DEF Same
  <2> QED BY <1>3, <1>6, <2>1 DEF Prepare
<1>7. ASSUME NEW q \in Requests, NEW y, NEW x, At(q, "layers"), Collect(q, y, x)
      PROVE  Same \/ (q = r /\ y = l /\ req'[r].entries[l] = x)
  <2> DEFINE f == [z \in DOMAIN req[q].entries \union {y} |-> IF z = y THEN x ELSE req[q].entries[z]]
             h == [req[q] EXCEPT !.entries = f]
  <2>1. req' = [req EXCEPT ![q] = h]
    BY <1>7 DEF Collect
  <2>2. req'[r] = IF q = r THEN h ELSE req[r]
    BY <2>1 DEF Typed, HandlersTyped
  <2>3. q = r => req'[r].entries = f
    BY <1>7, <2>2, HandlerTypes DEF Collecting, At
  <2> QED BY <1>1, <1>7, <2>2, <2>3
<1> HIDE DEF Same
<1>8. ASSUME NEW q \in Requests, NEW y \in Layers,
             LayerFromMemory(q, y) \/ LayerFromStorage(q, y) \/ BuildLayer(q, y)
      PROVE  Same \/ Read \/ Found \/ Built
  <2>1. CASE LayerFromMemory(q, y)
    BY <1>7, <2>1 DEF LayerFromMemory, Read
  <2>2. CASE LayerFromStorage(q, y)
    BY <1>7, <2>2 DEF LayerFromStorage, Found
  <2>3. CASE BuildLayer(q, y)
    <3>1. Same \/ (q = r /\ y = l /\ req'[r].entries[l] = Rating[y])
      BY <1>7, <2>3 DEF BuildLayer
    <3> QED BY <2>3, <3>1 DEF Built
  <2> QED BY <1>8, <2>1, <2>2, <2>3
<1>9. ASSUME NEW q \in Requests, OpenBlob(q) \/ WriteBlob(q) PROVE Same
  <2>1. PICK pc \in {"write", "send"} : req' = [req EXCEPT ![q] = [req[q] EXCEPT !.pc = pc]]
    BY <1>9 DEF OpenBlob, WriteBlob
  <2>2. req[q] \in Serving
    BY <1>9, HandlerTypes DEF OpenBlob, WriteBlob, At
  <2> DEFINE h == [req[q] EXCEPT !.pc = pc]
  <2>3. h.pc # "layers" /\ req' = [req EXCEPT ![q] = h]
    BY <2>1, <2>2 DEF Serving
  <2> HIDE DEF h
  <2> QED BY <1>2, <2>3
<1>10. ASSUME NEW q \in Requests, \/ \E n \in Names : Receive(q, n)
                                  \/ ReadLocal(q) \/ ReadBucket(q) \/ MissBucket(q)
       PROVE  Same
  <2>1. CASE \E n \in Names : Receive(q, n)
    BY <1>5, <2>1 DEF Receive
  <2>2. CASE ReadLocal(q)
    BY <1>4, <1>5, <2>2 DEF ReadLocal, Goto
  <2>3. CASE ReadBucket(q) \/ MissBucket(q)
    BY <1>4, <1>5, <2>3 DEF ReadBucket, MissBucket, Goto
  <2> QED BY <1>10, <2>1, <2>2, <2>3
<1>11. ASSUME NEW q \in Requests, \/ LayerFails(q) \/ ConfigFails(q) \/ BlobFails(q)
                                  \/ Assemble(q) \/ Reply(q)
       PROVE  Same
  <2>1. CASE LayerFails(q) \/ ConfigFails(q) \/ BlobFails(q) \/ Reply(q)
    BY <1>3, <2>1 DEF LayerFails, ConfigFails, BlobFails, Reply, ReplyError
  <2>2. CASE Assemble(q)
    BY <1>4, <2>2, AssembleMakes
  <2> QED BY <1>11, <2>1, <2>2
<1>12. CASE \/ \E t \in tasks : \/ RunLayerTask(t) \/ OpenLocal(t) \/ WriteLocal(t)
                                \/ WriteLocalFails(t) \/ OpenFails(t)
                                \/ OpenBucket(t) \/ WriteBucket(t) \/ WriteBucketFails(t)
            \/ UNCHANGED vars
  <2>1. UNCHANGED req
    BY <1>12 DEF RunLayerTask, OpenLocal, WriteLocal, WriteLocalFails, OpenFails,
                 OpenBucket, WriteBucket, WriteBucketFails, vars
  <2> QED BY <1>1, <2>1
<1>13. CASE Crash
  <2>1. req'[r].pc # "layers"
    BY <1>13 DEF Crash, Idle, Done
  <2> QED BY <2>1 DEF At
<1> QED BY <1>6, <1>8, <1>9, <1>10, <1>11, <1>12, <1>13, NextCases

(***************************************************************************)
(* Where the entries of the layer cache come from.                         *)
(***************************************************************************)
LEMMA RememberedFrom ==
  ASSUME Typed, [Next]_vars
  PROVE  /\ stored \subseteq stored'
         /\ \A l \in Layers :
              \/ lcache'[l] = lcache[l]
              \/ lcache'[l] = Absent /\ Crash
              \/ lcache'[l] = Rating[l] /\ \E r \in Requests : BuildLayer(r, l)
              \/ lcache'[l] = 0 /\ \E t \in tasks : t.kind = "layer" /\ t.layer = l
         /\ \A l \in builds' \ builds : l \in Layers /\ \E r \in Requests : BuildLayer(r, l)
         /\ \A t \in tasks' \ tasks :
              t.kind = "layer" => \E r \in Requests : LayerFromStorage(r, t.layer)
<1> DEFINE Stores == stored \subseteq stored'
           Remembers == \A l \in Layers :
              \/ lcache'[l] = lcache[l]
              \/ lcache'[l] = Absent /\ Crash
              \/ lcache'[l] = Rating[l] /\ \E r \in Requests : BuildLayer(r, l)
              \/ lcache'[l] = 0 /\ \E t \in tasks : t.kind = "layer" /\ t.layer = l
           Records == \A l \in builds' \ builds :
              l \in Layers /\ \E r \in Requests : BuildLayer(r, l)
           Starts == \A t \in tasks' \ tasks :
              t.kind = "layer" => \E r \in Requests : LayerFromStorage(r, t.layer)
<1> SUFFICES Stores /\ Remembers /\ Records /\ Starts
  OBVIOUS
<1>1. ASSUME UNCHANGED <<lcache, stored, builds>>, \A t \in tasks' \ tasks : t.kind # "layer"
      PROVE  Stores /\ Remembers /\ Records /\ Starts
  BY <1>1
<1>2. ASSUME NEW r \in Requests, NEW l \in Layers, BuildLayer(r, l)
      PROVE  Stores /\ Remembers /\ Records /\ Starts
  <2>1. Stores /\ Records /\ Starts
    BY <1>2 DEF BuildLayer
  <2>2. \A x \in Layers : lcache'[x] = IF x = l THEN Rating[l] ELSE lcache[x]
    BY <1>2 DEF BuildLayer, Typed, CachesTyped
  <2> QED BY <1>2, <2>1, <2>2
<1>3. ASSUME NEW r \in Requests, NEW l \in Layers, LayerFromStorage(r, l)
      PROVE  Stores /\ Remembers /\ Records /\ Starts
  <2>1. \A t \in tasks' \ tasks : t.layer = l
    BY <1>3 DEF LayerFromStorage, LayerTask
  <2>2. Starts
    BY <1>3, <2>1
  <2> QED BY <1>3, <2>2 DEF LayerFromStorage
<1>4. ASSUME NEW r \in Requests, Assemble(r)
      PROVE  Stores /\ Remembers /\ Records /\ Starts
  <2>1. PICK m : /\ stored' = stored \union {m}
                 /\ tasks' = IF Cacheable
                             THEN tasks \union {LocalTask(KeyOf(r), m), BucketTask(KeyOf(r), m, r)}
                             ELSE tasks
    BY <1>4, AssembleMakes
  <2>2. \A t \in tasks' \ tasks : t.kind # "layer"
    BY <2>1 DEF LocalTask, BucketTask
  <2>3. UNCHANGED <<lcache, builds>>
    BY <1>4 DEF Assemble
  <2> QED BY <2>1, <2>2, <2>3
<1>5. ASSUME NEW t \in tasks, RunLayerTask(t)
      PROVE  Stores /\ Remembers /\ Records /\ Starts
  <2>1. \A x \in Layers : lcache'[x] = IF x = t.layer THEN 0 ELSE lcache[x]
    BY <1>5 DEF RunLayerTask, Typed, CachesTyped
  <2> QED BY <1>5, <2>1 DEF RunLayerTask
<1>6. ASSUME NEW t \in tasks, OpenLocal(t) \/ OpenBucket(t)
      PROVE  Stores /\ Remembers /\ Records /\ Starts
  <2>1. t.kind \in {"local", "bucket"}
    BY <1>6 DEF OpenLocal, OpenBucket
  <2>2. [t EXCEPT !.open = TRUE].kind = t.kind
    BY <2>1, TaskOpens
  <2>3. tasks' = (tasks \ {t}) \union {[t EXCEPT !.open = TRUE]}
    BY <1>6 DEF OpenLocal, OpenBucket
  <2>4. UNCHANGED <<lcache, stored, builds>>
    BY <1>6 DEF OpenLocal, OpenBucket
  <2>5. \A u \in tasks' \ tasks : u.kind # "layer"
    BY <2>1, <2>2, <2>3
  <2> QED BY <1>1, <2>4, <2>5
<1>7. ASSUME NEW r \in Requests, ReadBucket(r)
      PROVE  Stores /\ Remembers /\ Records /\ Starts
  <2>1. \A t \in tasks' \ tasks : t.kind # "layer"
    BY <1>7 DEF ReadBucket, LocalTask
  <2>2. UNCHANGED <<lcache, stored, builds>>
    BY <1>7 DEF ReadBucket
  <2> QED BY <1>1, <2>1, <2>2
<1>8. CASE Crash
  BY <1>8 DEF Crash
<1>9. CASE \/ \E t \in tasks : \/ WriteLocal(t) \/ WriteLocalFails(t) \/ OpenFails(t)
                               \/ WriteBucket(t) \/ WriteBucketFails(t)
           \/ UNCHANGED vars
  <2>1. UNCHANGED <<lcache, stored, builds>> /\ tasks' \subseteq tasks
    BY <1>9 DEF WriteLocal, WriteLocalFails, OpenFails, WriteBucket, WriteBucketFails, vars
  <2> QED BY <1>1, <2>1
<1>10. ASSUME NEW r \in Requests,
              \/ \E n \in Names : Receive(r, n)
              \/ \E l \in Layers : LayerFromMemory(r, l)
              \/ ReadLocal(r) \/ MissBucket(r) \/ Prepare(r) \/ LayerFails(r) \/ ConfigFails(r)
              \/ OpenBlob(r) \/ WriteBlob(r) \/ BlobFails(r) \/ Reply(r)
       PROVE  Stores /\ Remembers /\ Records /\ Starts
  <2>1. UNCHANGED <<lcache, stored, builds, tasks>>
    BY <1>10 DEF Receive, LayerFromMemory, ReadLocal, MissBucket, Prepare, LayerFails,
                 ConfigFails, OpenBlob, WriteBlob, BlobFails, Reply
  <2> QED BY <1>1, <2>1
<1> HIDE DEF Stores, Remembers, Records, Starts
<1> QED BY <1>2, <1>3, <1>4, <1>5, <1>6, <1>7, <1>8, <1>9, <1>10, NextCases

--------------------------------------------------------------------------------
(* Every object that m names is in storage.                                *)
Kept(m) == m = Torn \/ ObjectsOf(m) \subseteq stored

(***************************************************************************)
(* What is remembered, recorded or collected of a layer means that it is   *)
(* in storage, and so are the objects of a manifest, wherever it is.       *)
(***************************************************************************)
StoredInv ==
  /\ \A r \in Requests : At(r, "layers") => DOMAIN req[r].entries \subseteq stored
  /\ \A l \in Layers : lcache[l] # Absent => l \in stored
  /\ builds \subseteq stored
  /\ \A t \in tasks : t.kind = "layer" => t.layer \in stored
  /\ \A m \in Bodies :
       (\E n \in Names : Serves(m, n)) \/ (\E k \in Keys : Holds(m, k)) => Kept(m)

(* Every step keeps StoredInv: nothing is ever taken out of storage.       *)
LEMMA StoredStep == ASSUME Typed, StoredInv, [Next]_vars PROVE StoredInv'
<1>1. stored \subseteq stored'
  BY RememberedFrom
<1>2. ASSUME NEW r \in Requests, NEW l \in Layers, BuildLayer(r, l) PROVE l \in stored'
  BY <1>2 DEF BuildLayer
<1>3. ASSUME NEW r \in Requests, At(r, "layers")', NEW l \in DOMAIN req'[r].entries
      PROVE  l \in stored'
  BY <1>1, <1>2, <1>3, CollectedFrom DEF StoredInv
<1>4. ASSUME NEW l \in Layers, lcache'[l] # Absent PROVE l \in stored'
  BY <1>1, <1>2, <1>4, RememberedFrom DEF StoredInv
<1>5. builds' \subseteq stored'
  BY <1>1, <1>2, RememberedFrom DEF StoredInv
<1>6. ASSUME NEW t \in tasks', t.kind = "layer" PROVE t.layer \in stored'
  <2>1. ASSUME NEW r \in Requests, LayerFromStorage(r, t.layer) PROVE t.layer \in builds
    BY <2>1 DEF LayerFromStorage
  <2> QED BY <1>1, <1>6, <2>1, RememberedFrom DEF StoredInv
<1>7. ASSUME NEW m \in Bodies, Kept(m) PROVE Kept(m)'
  BY <1>1, <1>7 DEF Kept, ObjectsOf
<1>8. ASSUME NEW m, NEW r \in Requests, Fresh(m, r), m \in stored' PROVE Kept(m)'
  <2>1. ToSet(m.layers) \subseteq stored
    BY <1>8 DEF Fresh, StoredInv
  <2> QED BY <1>1, <1>8, <2>1 DEF Kept, ObjectsOf
<1>9. ASSUME NEW m \in Bodies, NEW n \in Names, Serves(m, n)' PROVE Kept(m)'
  <2>1. CacheKey(ImageFromName(n)) \in Keys
    BY ImageTypes
  <2> QED BY <1>7, <1>8, <1>9, <2>1, ServedFrom, FoundIsHeld DEF StoredInv
<1>10. ASSUME NEW m \in Bodies, NEW k \in Keys, Holds(m, k)' PROVE Kept(m)'
  <2>1. m = Torn => Kept(m)'
    BY DEF Kept
  <2> QED BY <1>7, <1>8, <1>10, <2>1, HeldFrom DEF StoredInv
<1> QED BY <1>3, <1>4, <1>5, <1>6, <1>9, <1>10 DEF StoredInv

(* At the start nothing is remembered, and no manifest is anywhere.        *)
LEMMA InitEmpty ==
  ASSUME Init
  PROVE  /\ Typed
         /\ \A r \in Requests : req[r].pc = "idle"
         /\ \A l \in Layers : lcache[l] = Absent
         /\ tasks = {} /\ builds = {}
         /\ \A m, n : ~ Serves(m, n) /\ ~ Holds(m, n)
<1>1. \A r \in Requests : req[r] = Idle /\ req[r].pc = "idle"
  BY DEF Init, Idle
<1>2. /\ lcache = [l \in Layers |-> Absent] /\ local = [k \in Keys |-> Absent]
      /\ manifests = [k \in Keys |-> Absent] /\ replies = {} /\ tasks = {}
      /\ builds = {} /\ crashes = 0 /\ stored = {} /\ blobs = {} /\ spoilt = {}
      /\ req = [r \in Requests |-> Idle]
  BY DEF Init
<1>3. HandlersTyped
  BY <1>1, <1>2 DEF HandlersTyped, At
<1>4. CachesTyped
  BY <1>2, BoundsAssumption DEF CachesTyped, Cached
<1>5. \A m, n : ~ Serves(m, n) /\ ~ Holds(m, n)
  BY <1>1, <1>2 DEF Serves, Holds
<1> QED BY <1>1, <1>2, <1>3, <1>4, <1>5 DEF Typed

(* TypeOK follows from the types of the records.                           *)
LEMMA TypesAreOK == Typed => TypeOK
<1> SUFFICES ASSUME Typed PROVE TypeOK
  OBVIOUS
<1>1. ASSUME NEW r \in Requests
      PROVE  /\ req[r].pc \in {"idle", "local", "bucket", "prepare", "layers", "persist", "write", "send", "done"}
             /\ req[r].pc \notin {"idle", "done"} => req[r].name \in Names
             /\ req[r].pc = "layers" =>
                  /\ DOMAIN req[r].entries \subseteq LayersOf(ImageFromName(req[r].name))
                  /\ \A l \in DOMAIN req[r].entries : req[r].entries[l] \in Nat
             /\ req[r].pc \in {"persist", "write", "send"} => req[r].manifest \in Bodies
  <2>1. req[r] \in {Idle, Done} \union Looking \union Collecting \union Serving
    BY DEF Typed, HandlersTyped
  <2>2. req[r].pc \in {"idle", "local", "bucket", "prepare", "layers", "persist", "write", "send", "done"}
    BY <2>1 DEF Idle, Done, Looking, Collecting, Serving
  <2>3. req[r].pc \in {"persist", "write", "send"} => req[r].manifest \in Bodies
    BY HandlerTypes DEF Serving
  <2>4. ASSUME req[r].pc = "layers"
        PROVE  /\ DOMAIN req[r].entries \subseteq LayersOf(ImageFromName(req[r].name))
               /\ \A l \in DOMAIN req[r].entries : req[r].entries[l] \in Nat
    <3>1. req[r] \in Collecting
      BY <2>4, HandlerTypes
    <3>2. req[r].entries \in Collections
      BY <3>1 DEF Collecting
    <3>3. \A l \in DOMAIN req[r].entries : req[r].entries[l] \in Nat
      BY <3>2 DEF Collections
    <3> QED BY <2>4, <3>3 DEF Typed, HandlersTyped, At, ImageOf
  <2> QED BY <2>2, <2>3, <2>4, HandlerTypes
<1>2. \A t \in tasks : t.kind \in {"layer", "local", "bucket"}
  BY DEF Typed, CachesTyped, LayerTasks, LocalTasks, BucketTasks
<1> QED BY <1>1, <1>2 DEF TypeOK, Typed, CachesTyped, Bodies

(***************************************************************************)
(* The variables keep their types: every step of a request finds in it the *)
(* name, the ratings or the manifest that the steps before it left there.  *)
(***************************************************************************)
THEOREM TypesAreKept == Spec => []TypeOK
<1>1. Init => Typed
  BY InitEmpty
<1>2. Typed /\ [Next]_vars => Typed'
  BY TypeStep
<1> QED BY <1>1, <1>2, TypesAreOK, PTL DEF Spec

(***************************************************************************)
(* Every object that a cached or sent manifest names can be fetched, with  *)
(* either backend, however often the server is restarted:                  *)
(* ReferencedObjectsStored.                                                *)
(***************************************************************************)
THEOREM NamedObjectsAreStored == Spec => []ReferencedObjectsStored
<1> DEFINE Inv == Typed /\ StoredInv
<1>1. Init => Inv
  BY InitEmpty DEF StoredInv, At
<1>2. Inv /\ [Next]_vars => Inv'
  BY TypeStep, StoredStep
<1>3. Inv => ReferencedObjectsStored
  <2> SUFFICES ASSUME Inv PROVE ReferencedObjectsStored
    OBVIOUS
  <2>1. ASSUME NEW k \in Keys, NEW m \in {local[k], manifests[k]} \ {Absent, Torn}
        PROVE  ObjectsOf(m) \subseteq stored
    <3>1. m \in Bodies /\ Holds(m, k)
      BY <2>1 DEF Typed, CachesTyped, Cached, Bodies, Holds
    <3> QED BY <2>1, <3>1 DEF StoredInv, Kept
  <2>2. ASSUME NEW rep \in replies, rep.body # Torn PROVE ObjectsOf(rep.body) \subseteq stored
    <3>1. rep.body \in Bodies /\ rep.name \in Names /\ Serves(rep.body, rep.name)
      BY <2>2 DEF Typed, CachesTyped, Serves
    <3> QED BY <2>2, <3>1 DEF StoredInv, Kept
  <2> QED BY <2>1, <2>2 DEF ReferencedObjectsStored
<1> HIDE DEF Inv
<1> QED BY <1>1, <1>2, <1>3, PTL DEF Spec

--------------------------------------------------------------------------------
(* n is o, or their packages are spelled the same and builds are cached.    *)
Alike(n, o) == n = o \/ (Cacheable /\ Joined(ImageFromName(n)) = Joined(ImageFromName(o)))

(* m is a manifest for the image n, if it is one at all.                   *)
Right(m, n) ==
  m = Torn \/ (/\ m.arch = ImageFromName(n).arch
               /\ ToSet(m.layers) = LayersOf(ImageFromName(n)))

(***************************************************************************)
(* What is sent to a client is right for a name like the one it asked for, *)
(* and what a cache holds is right for a name with that key.               *)
(***************************************************************************)
RightInv ==
  \A m \in Bodies :
    /\ \A o \in Names : Serves(m, o) => \E n \in Names : Alike(n, o) /\ Right(m, n)
    /\ \A k \in Keys : Holds(m, k) =>
         m = Torn \/ (Cacheable /\ \E n \in Names : CacheKey(ImageFromName(n)) = k /\ Right(m, n))

(* Every step keeps RightInv.                                              *)
LEMMA RightStep == ASSUME Typed, RightInv, [Next]_vars PROVE RightInv'
<1>1. ASSUME NEW m, NEW r \in Requests, Fresh(m, r)
      PROVE  req[r].name \in Names /\ Right(m, req[r].name)
  BY <1>1, HandlerTypes DEF Fresh, Right, ImageOf, At
<1>2. ASSUME NEW m \in Bodies, NEW o \in Names, Serves(m, o)'
      PROVE  \E n \in Names : Alike(n, o) /\ Right(m, n)
  <2>1. CASE Serves(m, o)
    BY <2>1 DEF RightInv
  <2>2. CASE Finds(m, CacheKey(ImageFromName(o)))
    <3>1. m = Torn \/ (Cacheable /\ \E n \in Names :
            CacheKey(ImageFromName(n)) = CacheKey(ImageFromName(o)) /\ Right(m, n))
      BY <2>2, FoundIsHeld, ImageTypes DEF RightInv
    <3>2. CASE m = Torn
      BY <3>2 DEF Alike, Right
    <3> QED BY <3>1, <3>2 DEF Alike, CacheKey
  <2>3. CASE \E r \in Requests : Fresh(m, r) /\ req[r].name = o
    BY <1>1, <2>3 DEF Alike
  <2> QED BY <1>2, <2>1, <2>2, <2>3, ServedFrom
<1>3. ASSUME NEW m \in Bodies, NEW k \in Keys, Holds(m, k)', m # Torn
      PROVE  Cacheable /\ \E n \in Names : CacheKey(ImageFromName(n)) = k /\ Right(m, n)
  <2>1. CASE \E r \in Requests : Fresh(m, r) /\ Cacheable /\ k = KeyOf(r)
    BY <1>1, <2>1 DEF KeyOf, ImageOf
  <2>2. CASE Holds(m, k)
    BY <1>3, <2>2 DEF RightInv
  <2> QED BY <1>3, <2>1, <2>2, HeldFrom
<1>4. \A m, n : (Right(m, n)' <=> Right(m, n)) /\ (Alike(m, n)' <=> Alike(m, n))
  BY DEF Right, Alike
<1> QED BY <1>2, <1>3, <1>4 DEF RightInv

(***************************************************************************)
(* Every client is sent the packages and the architecture it named, or     *)
(* those of a name that is spelled the same when joined, if builds are     *)
(* cached at all, whichever request's manifest answers it, whatever fails  *)
(* and however often the server is restarted: ServedUnderItsKey.           *)
(***************************************************************************)
THEOREM ClientsGetTheirKey == Spec => []ServedUnderItsKey
<1> DEFINE Inv == Typed /\ RightInv
<1>1. Init => Inv
  BY InitEmpty DEF RightInv
<1>2. Inv /\ [Next]_vars => Inv'
  BY TypeStep, RightStep
<1>3. Inv => ServedUnderItsKey
  <2> SUFFICES ASSUME Inv, NEW rep \in replies, rep.body # Torn
               PROVE  \E n \in Names : Alike(n, rep.name) /\ Right(rep.body, n)
    BY DEF ServedUnderItsKey, Alike, Right
  <2>1. rep.body \in Bodies /\ rep.name \in Names /\ Serves(rep.body, rep.name)
    BY DEF Typed, CachesTyped, Serves
  <2> QED BY <2>1 DEF RightInv
<1> HIDE DEF Inv
<1> QED BY <1>1, <1>2, <1>3, PTL DEF Spec

--------------------------------------------------------------------------------
(* A goroutine that is writing a manifest file.                            *)
Writing(t) == t.kind = "local" /\ t.open

(***************************************************************************)
(* With a bucket: a file is torn only while its writer has it open and     *)
(* holds the mutex, one writer at a time, or when its writer has failed;   *)
(* so what a lookup finds under another key is no torn manifest, and none  *)
(* is copied anywhere.                                                     *)
(***************************************************************************)
TornInv ==
  /\ \A n \in Names : Serves(Torn, n) => CacheKey(ImageFromName(n)) \in spoilt
  /\ \A t \in tasks : t.kind \in {"local", "bucket"} => t.manifest # Torn
  /\ \A k \in Keys : manifests[k] # Torn
  /\ \A t, u \in tasks : Writing(t) /\ Writing(u) => t = u
  /\ \A k \in Keys : local[k] = Torn => k \in spoilt \/ \E t \in tasks : Writing(t) /\ t.key = k

(* Steps that leave the writers and their files alone.                     *)
LEMMA WritersStay ==
  ASSUME TornInv, UNCHANGED <<local, spoilt>>,
         \A t \in tasks : Writing(t) => t \in tasks',
         \A t \in tasks' \ tasks : ~ Writing(t)
  PROVE  /\ \A t, u \in tasks' : Writing(t) /\ Writing(u) => t = u
         /\ \A k \in Keys : local'[k] = Torn => k \in spoilt' \/ \E t \in tasks' : Writing(t) /\ t.key = k
BY DEF TornInv

(* What is left torn stays on record.                                      *)
LEMMA SpoiltStay == ASSUME [Next]_vars PROVE spoilt \subseteq spoilt'
BY NextCases DEF Receive, ReadLocal, ReadBucket, MissBucket, Prepare, LayerFromMemory,
   LayerFromStorage, BuildLayer, LayerFails, Assemble, ConfigFails, OpenBlob, WriteBlob, BlobFails,
   Reply, RunLayerTask, OpenLocal, WriteLocal, WriteLocalFails, OpenFails, OpenBucket, WriteBucket,
   WriteBucketFails, Crash, vars

(* Every step keeps TornInv, when the bucket replaces an object at once.   *)
LEMMA TornStep == ASSUME Backend = "gcs", Typed, TornInv, [Next]_vars PROVE TornInv'
<1> USE DEF At
<1> DEFINE Whole == /\ \A t \in tasks' : t.kind \in {"local", "bucket"} => t.manifest # Torn
                    /\ \A k \in Keys : manifests'[k] # Torn
           Writers == /\ \A t, u \in tasks' : Writing(t) /\ Writing(u) => t = u
                      /\ \A k \in Keys : local'[k] = Torn =>
                           k \in spoilt' \/ \E t \in tasks' : Writing(t) /\ t.key = k
<1>1. ASSUME NEW k \in Keys, Finds(Torn, k) PROVE k \in spoilt'
  BY <1>1, SpoiltStay DEF TornInv, Finds, LocalCacheLocked, Writing
<1>2. ASSUME NEW n \in Names, Serves(Torn, n) PROVE CacheKey(ImageFromName(n)) \in spoilt'
  BY <1>2, SpoiltStay DEF TornInv
<1>3. ASSUME NEW m, NEW r \in Requests, Fresh(m, r) PROVE m # Torn
  BY <1>3, MarksAssumption DEF Fresh
<1>4. ASSUME NEW n \in Names, Serves(Torn, n)' PROVE CacheKey(ImageFromName(n)) \in spoilt'
  <2>1. CacheKey(ImageFromName(n)) \in Keys
    BY ImageTypes
  <2> QED BY <1>1, <1>2, <1>3, <1>4, <2>1, ServedFrom
<1>5. ASSUME UNCHANGED <<local, manifests, spoilt>>,
             \A t \in tasks : Writing(t) => t \in tasks',
             \A t \in tasks' \ tasks : ~ Writing(t),
             \A t \in tasks' \ tasks : t.kind \in {"local", "bucket"} => t.manifest # Torn
      PROVE  Whole /\ Writers
  <2>1. Writers
    BY <1>5, WritersStay
  <2>2. Whole
    BY <1>5 DEF TornInv
  <2> QED BY <2>1, <2>2
<1>6. ASSUME UNCHANGED <<local, manifests, spoilt, tasks>> PROVE Whole /\ Writers
  BY <1>5, <1>6
<1>7. ASSUME NEW r \in Requests, ReadBucket(r) PROVE Whole /\ Writers
  <2> DEFINE u == LocalTask(KeyOf(r), manifests[KeyOf(r)])
  <2>1. KeyOf(r) \in Keys
    BY <1>7, HandlerTypes DEF ReadBucket
  <2>2. manifests[KeyOf(r)] # Torn
    BY <2>1 DEF TornInv
  <2>3. u.manifest # Torn /\ ~ Writing(u)
    BY <2>2 DEF LocalTask, Writing
  <2>4. tasks' = tasks \union {u} /\ UNCHANGED <<local, manifests, spoilt>>
    BY <1>7 DEF ReadBucket
  <2> HIDE DEF u
  <2> QED BY <1>5, <2>3, <2>4
<1>8. ASSUME NEW r \in Requests, NEW l \in Layers, LayerFromStorage(r, l) PROVE Whole /\ Writers
  <2>1. LayerTask(l).kind = "layer"
    BY DEF LayerTask
  <2>2. tasks' = tasks \union {LayerTask(l)} /\ UNCHANGED <<local, manifests, spoilt>>
    BY <1>8 DEF LayerFromStorage
  <2> QED BY <1>5, <2>1, <2>2 DEF Writing
<1>9. ASSUME NEW r \in Requests, Assemble(r) PROVE Whole /\ Writers
  <2>1. PICK m : /\ Fresh(m, r)
                 /\ tasks' = IF Cacheable
                             THEN tasks \union {LocalTask(KeyOf(r), m), BucketTask(KeyOf(r), m, r)}
                             ELSE tasks
    BY <1>9, AssembleMakes
  <2>2. \A t \in {LocalTask(KeyOf(r), m), BucketTask(KeyOf(r), m, r)} : t.manifest = m /\ ~ Writing(t)
    BY DEF LocalTask, BucketTask, Writing
  <2>3. \A t \in tasks' \ tasks : t.manifest # Torn /\ ~ Writing(t)
    BY <1>3, <2>1, <2>2
  <2>4. tasks \subseteq tasks' /\ UNCHANGED <<local, manifests, spoilt>>
    BY <1>9, <2>1 DEF Assemble
  <2> QED BY <1>5, <2>3, <2>4
<1>10. ASSUME NEW t \in tasks, OpenLocal(t) PROVE Whole /\ Writers
  <2> DEFINE u == [t EXCEPT !.open = TRUE]
  <2>1. t.kind = "local" /\ ~ t.open /\ \A x \in tasks : ~ Writing(x)
    BY <1>10 DEF OpenLocal, LocalCacheLocked, Writing
  <2>2. /\ u.kind = "local" /\ u.open /\ u.key = t.key /\ u.manifest = t.manifest /\ t.key \in Keys
    BY <2>1, TaskOpens
  <2>3. tasks' = (tasks \ {t}) \union {u} /\ UNCHANGED <<manifests, spoilt>>
    BY <1>10 DEF OpenLocal
  <2>4. \A k \in Keys : local'[k] = IF k = t.key THEN Torn ELSE local[k]
    BY <1>10 DEF OpenLocal, Typed, CachesTyped
  <2> HIDE DEF u
  <2>5. Whole
    BY <2>1, <2>2, <2>3 DEF TornInv
  <2>6. \A x \in tasks' : Writing(x) => x = u
    BY <2>1, <2>3
  <2>7. \A k \in Keys : local'[k] = Torn => k = u.key \/ k \in spoilt
    BY <2>1, <2>2, <2>4 DEF TornInv
  <2> QED BY <2>2, <2>3, <2>5, <2>6, <2>7 DEF Writing
<1>11. ASSUME NEW t \in tasks, WriteLocal(t) PROVE Whole /\ Writers
  <2>1. /\ Writing(t) /\ t.kind = "local" /\ tasks' = tasks \ {t}
        /\ UNCHANGED <<manifests, spoilt>>
    BY <1>11 DEF WriteLocal, Writing
  <2>2. t.manifest # Torn /\ \A x \in tasks : Writing(x) => x = t
    BY <2>1 DEF TornInv
  <2>3. \A k \in Keys : local'[k] = IF k = t.key THEN t.manifest ELSE local[k]
    BY <1>11 DEF WriteLocal, Typed, CachesTyped
  <2>4. Whole
    BY <2>1 DEF TornInv
  <2>5. \A k \in Keys : local'[k] = Torn => k \in spoilt
    BY <2>2, <2>3 DEF TornInv
  <2> QED BY <2>1, <2>2, <2>4, <2>5
<1>12. ASSUME NEW t \in tasks, WriteLocalFails(t) PROVE Whole /\ Writers
  <2>1. /\ Writing(t) /\ tasks' = tasks \ {t} /\ spoilt' = spoilt \union {t.key}
        /\ UNCHANGED <<local, manifests>>
    BY <1>12 DEF WriteLocalFails, Writing
  <2>2. \A x \in tasks : Writing(x) => x = t
    BY <2>1 DEF TornInv
  <2>3. \A k \in Keys : local'[k] = Torn => k \in spoilt'
    BY <2>1, <2>2 DEF TornInv
  <2> QED BY <2>1, <2>2, <2>3 DEF TornInv
<1>13. ASSUME NEW t \in tasks, OpenBucket(t) PROVE Whole /\ Writers
  <2> DEFINE u == [t EXCEPT !.open = TRUE]
  <2>1. t.kind = "bucket" /\ ~ Writing(t)
    BY <1>13 DEF OpenBucket, Writing
  <2>2. u.kind = "bucket" /\ u.manifest = t.manifest
    BY <2>1, TaskOpens
  <2>3. tasks' = (tasks \ {t}) \union {u} /\ UNCHANGED <<local, manifests, spoilt>>
    BY <1>13 DEF OpenBucket
  <2> HIDE DEF u
  <2>4. u.manifest # Torn /\ ~ Writing(u)
    BY <2>1, <2>2 DEF TornInv, Writing
  <2> QED BY <1>5, <2>1, <2>3, <2>4
<1>14. ASSUME NEW t \in tasks, WriteBucket(t) PROVE Whole /\ Writers
  <2>1. t.kind = "bucket" /\ ~ Writing(t) /\ tasks' = tasks \ {t} /\ UNCHANGED <<local, spoilt>>
    BY <1>14 DEF WriteBucket, Writing
  <2>2. \A k \in Keys : manifests'[k] \in {manifests[k], t.manifest}
    BY <1>14 DEF WriteBucket, Typed, CachesTyped
  <2>3. Writers
    BY <2>1, WritersStay
  <2>4. Whole
    BY <2>1, <2>2 DEF TornInv
  <2> QED BY <2>3, <2>4
<1>15. ASSUME NEW t \in tasks, RunLayerTask(t) \/ OpenFails(t) \/ WriteBucketFails(t)
       PROVE  Whole /\ Writers
  <2>1. ~ Writing(t) /\ tasks' = tasks \ {t} /\ UNCHANGED <<local, manifests, spoilt>>
    BY <1>15 DEF RunLayerTask, OpenFails, WriteBucketFails, Writing
  <2> QED BY <1>5, <2>1
<1>16. ASSUME NEW r \in Requests,
              \/ \E n \in Names : Receive(r, n)
              \/ \E l \in Layers : LayerFromMemory(r, l) \/ BuildLayer(r, l)
              \/ ReadLocal(r) \/ MissBucket(r) \/ Prepare(r) \/ LayerFails(r) \/ ConfigFails(r)
              \/ OpenBlob(r) \/ WriteBlob(r) \/ BlobFails(r) \/ Reply(r)
       PROVE  Whole /\ Writers
  <2>1. UNCHANGED <<local, manifests, spoilt, tasks>>
    BY <1>16 DEF Receive, LayerFromMemory, BuildLayer, ReadLocal, MissBucket, Prepare, LayerFails,
                 ConfigFails, OpenBlob, WriteBlob, BlobFails, Reply
  <2> QED BY <1>6, <2>1
<1>17. ASSUME Crash PROVE Whole /\ Writers
  <2>1. tasks' = {} /\ UNCHANGED <<local, manifests>>
    BY <1>17 DEF Crash
  <2>2. \A k \in Keys : local'[k] = Torn => k \in spoilt'
    BY <1>17 DEF Crash, TornInv, Writing
  <2> QED BY <2>1, <2>2 DEF TornInv
<1>18. ASSUME UNCHANGED vars PROVE Whole /\ Writers
  BY <1>6, <1>18 DEF vars
<1>19. Whole /\ Writers
  <2> HIDE DEF Whole, Writers
  <2> QED BY <1>7, <1>8, <1>9, <1>10, <1>11, <1>12, <1>13, <1>14, <1>15, <1>16, <1>17, <1>18, NextCases
<1>20. \A t : Writing(t)' <=> Writing(t)
  BY DEF Writing
<1> QED BY <1>4, <1>19, <1>20 DEF TornInv

(***************************************************************************)
(* With a bucket, a client is answered with a torn manifest only if the    *)
(* local file of its key was left torn by a write that failed or by a      *)
(* crash: TornOnlyAfterFailure, however many requests, failures and        *)
(* restarts there are.  The filesystem backend also shows a manifest to    *)
(* other requests while it is written.                                     *)
(***************************************************************************)
THEOREM TornIsLeftByFailures ==
  ASSUME Backend = "gcs"
  PROVE  Spec => []TornOnlyAfterFailure
<1> DEFINE Inv == Typed /\ TornInv
<1>1. Init => Inv
  <2> SUFFICES ASSUME Init PROVE Inv
    OBVIOUS
  <2>1. \A k \in Keys : local[k] = Absent /\ manifests[k] = Absent
    BY DEF Init
  <2> QED BY <2>1, InitEmpty, MarksAssumption DEF TornInv
<1>2. Inv /\ [Next]_vars => Inv'
  BY TypeStep, TornStep
<1>3. Inv => TornOnlyAfterFailure
  <2> SUFFICES ASSUME Inv, NEW rep \in replies, rep.body = Torn
               PROVE  CacheKey(ImageFromName(rep.name)) \in spoilt
    BY DEF TornOnlyAfterFailure
  <2>1. rep.name \in Names /\ Serves(Torn, rep.name)
    BY DEF Typed, CachesTyped, Serves
  <2> QED BY <2>1 DEF TornInv
<1> HIDE DEF Inv
<1> QED BY <1>1, <1>2, <1>3, PTL DEF Spec
================================================================================
