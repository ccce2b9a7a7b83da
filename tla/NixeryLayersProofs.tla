--------------------------- MODULE NixeryLayersProofs ---------------------------
(***************************************************************************)
(* Proofs about NixeryLayers, for any number of processes, goroutines and  *)
(* layers, on both storage backends.                                       *)
(***************************************************************************)
EXTENDS NixeryLayers, TLAPS

(***************************************************************************)
(* The strengthening.  Why a cached entry leads to a stored layer: entries *)
(* are recorded only past the move (UploadedInv), the move has a complete  *)
(* object to work on (StagedInv), because on the filesystem nobody else    *)
(* writes the staging file (Exclusive, LockInv) and in the bucket objects  *)
(* appear as a whole (BucketAtomic).                                       *)
(***************************************************************************)
KeyInv == \A w \in Workers : pc[w] # "idle" => key[w] \in Keys

LockInv == \A w \in Workers : pc[w] \in Holding => key[w] \in mutex[ServerOf[w]]

Exclusive ==
  \A v, w \in Workers :
    /\ pc[v] \in Holding /\ pc[w] \in Holding
    /\ ServerOf[v] = ServerOf[w]
    /\ key[v] = key[w]
    => v = w

BucketAtomic == Backend = "gcs" => \A k \in Keys : staging[k] # "partial"

StagedInv ==
  \A w \in Workers :
    At(w, "move") => \/ staging[key[w]] = "whole"
                     \/ Backend = "gcs" /\ Stored(key[w])

UploadedInv ==
  \A w \in Workers :
    pc[w] \in {"delete", "cacheLocal", "cacheOpen", "cacheWrite"} => Stored(key[w])

Typed == TypeOK /\ KeyInv
RecordedInv ==
  \A w \in Workers : pc[w] \in Caching => key[w] \in lcache[ServerOf[w]]

LockPart == LockInv /\ Exclusive
StorePart == BucketAtomic /\ StagedInv /\ UploadedInv /\ NoTruncatedLayer
CachePart == CacheEntriesPresent /\ CollectedEntriesPresent /\ RecordedInv
IInv == Typed /\ LockPart /\ StorePart /\ CachePart

--------------------------------------------------------------------------------
(***************************************************************************)
(* A step of the specification, with Work unfolded: the case split of the  *)
(* proofs below.                                                           *)
(***************************************************************************)
Step(w) ==
  \/ FinishRequest(w) \/ Lock(w)
  \/ LookupLocal(w) \/ FetchHit(w) \/ FetchMiss(w)
  \/ OpenStaging(w) \/ WriteStaging(w) \/ WriteStagingFails(w)
  \/ Rename(w) \/ Rewrite(w) \/ RewriteRejected(w) \/ MoveFails(w)
  \/ DeleteStaging(w)
  \/ CacheLocally(w) \/ OpenBuild(w) \/ WriteBuild(w)

(*****************************************************************************)
(* A step of the system is one of the named steps of a worker, a crash, or   *)
(* a stutter.                                                                *)
(*****************************************************************************)
LEMMA NextCases ==
  ASSUME [Next]_vars
  PROVE  \/ \E w \in Workers, k \in Keys : RequestLayer(w, k)
         \/ \E w \in Workers : Step(w)
         \/ \E s \in Servers, k \in Keys : FillLocal(s, k)
         \/ \E s \in Servers : Crash(s)
         \/ UNCHANGED vars
  BY DEF Next, Work, Upload, Record, Step

(* Type correctness is inductive together with KeyInv: a goroutine that is *)
(* in uploadHashLayer has a key.                                           *)
LEMMA TypeInit == Init => Typed
  BY NoKeyAssumption DEF Init, Typed, KeyInv, TypeOK, Content, Holding, Building, Caching

(*****************************************************************************)
(* Every step keeps the variables within their types.                        *)
(*****************************************************************************)
LEMMA TypeStep == Typed /\ [Next]_vars => Typed'
<1> SUFFICES ASSUME Typed, [Next]_vars PROVE Typed'
  OBVIOUS
<1> USE ServerAssumption, DigestAssumption
<1> USE DEF Typed, KeyInv, TypeOK, Content, Holding, Building, Caching, procVars, cacheVars, storeVars, At, Goto
<1>1. ASSUME NEW w \in Workers, NEW k \in Keys, RequestLayer(w, k) PROVE Typed'
  BY <1>1 DEF RequestLayer
<1>2. ASSUME NEW w \in Workers, Step(w) PROVE Typed'
  <2>1. CASE FinishRequest(w)
    BY <2>1 DEF FinishRequest
  <2>2. CASE Lock(w)
    BY <2>2 DEF Lock
  <2>3. CASE LookupLocal(w)
    BY <2>3 DEF LookupLocal, ReturnEntry, Release
  <2>4. CASE FetchHit(w)
    BY <2>4 DEF FetchHit, ReturnEntry, Release
  <2>5. CASE FetchMiss(w)
    BY <2>5 DEF FetchMiss
  <2>6. CASE OpenStaging(w)
    BY <2>6 DEF OpenStaging
  <2>7. CASE WriteStaging(w)
    BY <2>7 DEF WriteStaging
  <2>8. CASE WriteStagingFails(w)
    BY <2>8 DEF WriteStagingFails, ReturnError, Release
  <2>9. CASE Rename(w)
    BY <2>9 DEF Rename
  <2>10. CASE Rewrite(w)
    BY <2>10 DEF Rewrite
  <2>11. CASE RewriteRejected(w)
    BY <2>11 DEF RewriteRejected
  <2>12. CASE MoveFails(w)
    BY <2>12 DEF MoveFails, ReturnError, Release
  <2>13. CASE DeleteStaging(w)
    BY <2>13 DEF DeleteStaging
  <2>14. CASE CacheLocally(w)
    BY <2>14 DEF CacheLocally
  <2>15. CASE OpenBuild(w)
    BY <2>15 DEF OpenBuild
  <2>16. CASE WriteBuild(w)
    BY <2>16 DEF WriteBuild, ReturnEntry, Release
  <2>17. QED
    BY <1>2, <2>1, <2>2, <2>3, <2>4, <2>5, <2>6, <2>7, <2>8, <2>9, <2>10,
       <2>11, <2>12, <2>13, <2>14, <2>15, <2>16 DEF Step
<1>3. ASSUME NEW s \in Servers, NEW k \in Keys, FillLocal(s, k) PROVE Typed'
  BY <1>3 DEF FillLocal
<1>4. ASSUME NEW s \in Servers, Crash(s) PROVE Typed'
  BY <1>4 DEF Crash
<1>5. CASE UNCHANGED vars
  BY <1>5 DEF vars
<1>6. QED
  BY <1>1, <1>2, <1>3, <1>4, <1>5, NextCases

(* The goroutine-local and persistent state always has the shape TypeOK    *)
(* gives it.                                                               *)
THEOREM TypeCorrect == Spec => []TypeOK
  <1>1. Typed => TypeOK
  BY DEF Typed
<1>2. QED
  BY TypeInit, TypeStep, <1>1, PTL DEF Spec

--------------------------------------------------------------------------------
(* What a goroutine's step can do to the upload mutex. *)
Advance(w) ==
  /\ pc[w] \in Holding
  /\ \E p \in Holding : pc' = [pc EXCEPT ![w] = p]
  /\ UNCHANGED <<key, mutex>>

(*****************************************************************************)
(* What one step may do to the store, the cache and a worker: the facts      *)
(* that the other lemmas need of every action.                               *)
(*****************************************************************************)
LEMMA StepShape ==
  ASSUME NEW w \in Workers, Step(w)
  PROVE  \/ FinishRequest(w)
         \/ Lock(w)
         \/ Advance(w)
         \/ pc[w] \in Holding /\ Release(w)
<1> USE DEF At, Goto, Advance, Holding, Building, Caching, cacheVars, ReturnEntry, ReturnError
<1>1. CASE LookupLocal(w) \/ FetchHit(w) \/ FetchMiss(w)
  BY <1>1 DEF LookupLocal, FetchHit, FetchMiss
<1>2. CASE OpenStaging(w) \/ WriteStaging(w) \/ WriteStagingFails(w)
  BY <1>2 DEF OpenStaging, WriteStaging, WriteStagingFails
<1>3. CASE Rename(w) \/ Rewrite(w) \/ RewriteRejected(w) \/ MoveFails(w) \/ DeleteStaging(w)
  BY <1>3 DEF Rename, Rewrite, RewriteRejected, MoveFails, DeleteStaging
<1>4. CASE CacheLocally(w) \/ OpenBuild(w) \/ WriteBuild(w)
  BY <1>4 DEF CacheLocally, OpenBuild, WriteBuild
<1>5. QED
  BY <1>1, <1>2, <1>3, <1>4 DEF Step

(***************************************************************************)
(* At most one goroutine of a process is in the critical section of a key. *)
(***************************************************************************)
LEMMA LockStep == Typed /\ LockPart /\ [Next]_vars => LockPart'
<1> SUFFICES ASSUME Typed, LockPart, [Next]_vars PROVE LockPart'
  OBVIOUS
<1> USE ServerAssumption DEF Typed, KeyInv, TypeOK, LockPart, LockInv, Exclusive
<1>1. ASSUME NEW w \in Workers, NEW k \in Keys, RequestLayer(w, k) PROVE LockPart'
  BY <1>1 DEF RequestLayer, cacheVars, At, Holding, Building, Caching
<1>2. ASSUME NEW w \in Workers, Step(w) PROVE LockPart'
  <2>1. CASE FinishRequest(w)
    BY <2>1 DEF FinishRequest, cacheVars
  <2>2. CASE Lock(w)
    BY <2>2 DEF Lock, Goto, At, Holding, Building, Caching
  <2>3. CASE Advance(w)
    BY <2>3 DEF Advance
  <2>4. CASE pc[w] \in Holding /\ Release(w)
    <3>1. \A v \in Workers : v # w => pc'[v] = pc[v] /\ key'[v] = key[v]
      BY <2>4 DEF Release
    <3>2. pc'[w] = "idle" /\ "idle" \notin Holding
      BY <2>4 DEF Release, Holding, Building, Caching
    <3>3. LockInv'
      BY <2>4, <3>1, <3>2 DEF Release
    <3>4. QED
      BY <3>1, <3>2, <3>3
  <2>5. QED
    BY <1>2, <2>1, <2>2, <2>3, <2>4, StepShape
<1>3. ASSUME NEW s \in Servers, NEW k \in Keys, FillLocal(s, k) PROVE LockPart'
  BY <1>3 DEF FillLocal, procVars
<1>4. ASSUME NEW s \in Servers, Crash(s) PROVE LockPart'
  BY <1>4 DEF Crash, Holding, Building, Caching
<1>5. CASE UNCHANGED vars
  BY <1>5 DEF vars, procVars, cacheVars
<1>6. QED
  BY <1>1, <1>2, <1>3, <1>4, <1>5, NextCases

--------------------------------------------------------------------------------
LayersKept == \A d \in Digests : layers[d] = "whole" => layers'[d] = "whole"

(***************************************************************************)
(* What the upload steps do to storage.  The bucket's rewrites have to be  *)
(* reliable: a rejected one must mean that the source has been moved by    *)
(* another process.                                                        *)
(***************************************************************************)
LEMMA StoreStep ==
  ASSUME RewriteReliable, Typed, LockPart, StorePart, [Next]_vars
  PROVE  LayersKept /\ StorePart'
<1> USE ServerAssumption, DigestAssumption, BackendAssumption
<1> USE DEF Typed, KeyInv, TypeOK, StorePart, BucketAtomic, StagedInv, UploadedInv,
            NoTruncatedLayer, LayersKept, Stored, At, Content
<1>1. ASSUME NEW w \in Workers, NEW k \in Keys, RequestLayer(w, k)
      PROVE  LayersKept /\ StorePart'
  BY <1>1 DEF RequestLayer, storeVars
<1>2. ASSUME NEW w \in Workers, Step(w) PROVE LayersKept /\ StorePart'
  <2>1. CASE FinishRequest(w)
    BY <2>1 DEF FinishRequest, storeVars
  <2>2. CASE Lock(w)
    BY <2>2 DEF Lock, storeVars, Goto
  <2>3. CASE LookupLocal(w) \/ FetchHit(w) \/ FetchMiss(w)
    BY <2>3 DEF LookupLocal, FetchHit, FetchMiss, storeVars, Goto, ReturnEntry, Release
  <2>4. CASE OpenStaging(w)
    <3>1. ASSUME NEW v \in Workers, At(v, "move"), v # w, Backend = "fs" PROVE key[v] # key[w]
      BY <3>1, <2>4, OneProcessPerPath
         DEF OpenStaging, LockPart, Exclusive, Holding, Building, Caching
    <3>2. QED
      BY <2>4, <3>1 DEF OpenStaging, Goto
  <2>5. CASE WriteStaging(w)
    BY <2>5 DEF WriteStaging, Goto
  <2>6. CASE WriteStagingFails(w)
    BY <2>6 DEF WriteStagingFails, ReturnError, Release
  <2>7. CASE Rename(w)
    <3>1. ASSUME NEW v \in Workers, At(v, "move"), v # w PROVE key[v] # key[w]
      BY <3>1, <2>7, OneProcessPerPath
         DEF Rename, LockPart, Exclusive, Holding, Building, Caching
    <3>2. staging[key[w]] = "whole" /\ key[w] \in Keys
      BY <2>7 DEF Rename
    <3>3. layers' = [layers EXCEPT ![Digest[key[w]]] = "whole"]
      BY <2>7, <3>2 DEF Rename
    <3>4. LayersKept /\ NoTruncatedLayer' /\ Stored(key[w])'
      BY <2>7, <3>2, <3>3 DEF Rename, Goto
    <3>5. BucketAtomic'
      BY <2>7 DEF Rename
    <3>6. StagedInv'
      BY <2>7, <3>1, <3>2, <3>4 DEF Rename, Goto
    <3>7. UploadedInv'
      BY <2>7, <3>4 DEF Rename, Goto
    <3>8. QED
      BY <3>4, <3>5, <3>6, <3>7
  <2>8. CASE Rewrite(w)
    <3>1. staging[key[w]] = "whole" /\ key[w] \in Keys
      BY <2>8 DEF Rewrite
    <3>2. QED
      BY <2>8, <3>1 DEF Rewrite, Goto
  <2>9. CASE RewriteRejected(w)
    <3>1. Stored(key[w])
      BY <2>9 DEF RewriteRejected
    <3>2. QED
      BY <2>9, <3>1 DEF RewriteRejected, Goto, storeVars
  <2>10. CASE MoveFails(w)
    <3>1. layers' = layers \/ layers' = [layers EXCEPT ![Digest[key[w]]] = "whole"]
      BY <2>10 DEF MoveFails
    <3>2. QED
      BY <2>10, <3>1 DEF MoveFails, ReturnError, Release
  <2>11. CASE DeleteStaging(w)
    <3>1. Stored(key[w]) /\ key[w] \in Keys
      BY <2>11 DEF DeleteStaging
    <3>2. ASSUME NEW v \in Workers, At(v, "move"), v # w, Backend = "fs" PROVE key[v] # key[w]
      BY <3>2, <2>11, OneProcessPerPath
         DEF DeleteStaging, LockPart, Exclusive, Holding, Building, Caching
    <3>3. QED
      BY <2>11, <3>1, <3>2 DEF DeleteStaging, Goto
  <2>12. CASE CacheLocally(w) \/ OpenBuild(w) \/ WriteBuild(w)
    BY <2>12 DEF CacheLocally, OpenBuild, WriteBuild, Goto, ReturnEntry, Release, storeVars
  <2>13. QED
    BY <1>2, <2>1, <2>2, <2>3, <2>4, <2>5, <2>6, <2>7, <2>8, <2>9, <2>10, <2>11, <2>12 DEF Step
<1>3. ASSUME NEW s \in Servers, NEW k \in Keys, FillLocal(s, k) PROVE LayersKept /\ StorePart'
  BY <1>3 DEF FillLocal, procVars, storeVars
<1>4. ASSUME NEW s \in Servers, Crash(s) PROVE LayersKept /\ StorePart'
  BY <1>4 DEF Crash, storeVars
<1>5. CASE UNCHANGED vars
  BY <1>5 DEF vars, procVars, storeVars
<1>6. QED
  BY <1>1, <1>2, <1>3, <1>4, <1>5, NextCases

(***************************************************************************)
(* Entries are only made for, and copied from entries of, stored layers.   *)
(***************************************************************************)
LEMMA CacheStep ==
  ASSUME Typed, UploadedInv, LayersKept, CachePart, [Next]_vars
  PROVE  CachePart'
<1> USE ServerAssumption, DigestAssumption
<1> USE DEF Typed, KeyInv, TypeOK, CachePart, CacheEntriesPresent, CollectedEntriesPresent,
            RecordedInv, Caching, UploadedInv, LayersKept, Stored, At, Content
<1>1. ASSUME NEW w \in Workers, NEW k \in Keys, RequestLayer(w, k) PROVE CachePart'
  BY <1>1 DEF RequestLayer, cacheVars, storeVars
<1>2. ASSUME NEW w \in Workers, Step(w) PROVE CachePart'
  <2>1. CASE FinishRequest(w) \/ Lock(w) \/ FetchMiss(w)
    BY <2>1 DEF FinishRequest, Lock, FetchMiss, cacheVars, storeVars, Goto
  <2>2. CASE LookupLocal(w)
    BY <2>2 DEF LookupLocal, storeVars, Goto, ReturnEntry, Release
  <2>3. CASE FetchHit(w)
    <3>1. /\ UNCHANGED <<lcache, builds, layers>> /\ builds[key[w]] = "whole" /\ key[w] \in Keys
          /\ filling' = filling \union {<<ServerOf[w], key[w]>>}
          /\ entries' = [entries EXCEPT ![w] = @ \union {key[w]}]
          /\ pc' = [pc EXCEPT ![w] = "idle"] /\ key' = [key EXCEPT ![w] = NoKey]
      BY <2>3 DEF FetchHit, storeVars, ReturnEntry, Release
    <3>2. CacheEntriesPresent'
      BY <3>1
    <3>3. CollectedEntriesPresent'
      BY <3>1
    <3>4. RecordedInv'
      BY <3>1
    <3>5. QED
      BY <3>2, <3>3, <3>4
  <2>4. CASE OpenStaging(w) \/ WriteStaging(w) \/ Rename(w) \/ Rewrite(w) \/ RewriteRejected(w)
             \/ DeleteStaging(w)
    BY <2>4 DEF OpenStaging, WriteStaging, Rename, Rewrite, RewriteRejected, DeleteStaging,
                Goto, cacheVars, storeVars
  <2>5. CASE WriteStagingFails(w) \/ MoveFails(w)
    BY <2>5 DEF WriteStagingFails, MoveFails, ReturnError, Release
  <2>6. CASE CacheLocally(w)
    BY <2>6 DEF CacheLocally, Goto, storeVars
  <2>7. CASE OpenBuild(w)
    BY <2>7 DEF OpenBuild, Goto, cacheVars
  <2>8. CASE WriteBuild(w)
    BY <2>8 DEF WriteBuild, ReturnEntry, Release
  <2>9. QED
    BY <1>2, <2>1, <2>2, <2>3, <2>4, <2>5, <2>6, <2>7, <2>8 DEF Step
<1>3. ASSUME NEW s \in Servers, NEW k \in Keys, FillLocal(s, k) PROVE CachePart'
  BY <1>3 DEF FillLocal, procVars, storeVars
<1>4. ASSUME NEW s \in Servers, Crash(s) PROVE CachePart'
  BY <1>4 DEF Crash, storeVars
<1>5. CASE UNCHANGED vars
  BY <1>5 DEF vars, procVars, cacheVars, storeVars
<1>6. QED
  BY <1>1, <1>2, <1>3, <1>4, <1>5, NextCases

--------------------------------------------------------------------------------
(*****************************************************************************)
(* The inductive invariant holds of the empty store.                         *)
(*****************************************************************************)
LEMMA InitIInv == Init => IInv
<1> SUFFICES ASSUME Init PROVE IInv
  OBVIOUS
<1>1. Typed
  BY TypeInit
<1>2. LockPart /\ StorePart /\ CachePart
  BY DigestAssumption
     DEF Init, LockPart, LockInv, Exclusive, StorePart, BucketAtomic, StagedInv, UploadedInv,
         NoTruncatedLayer, CachePart, CacheEntriesPresent, CollectedEntriesPresent,
         RecordedInv, Stored, At,
         Holding, Building, Caching
<1>3. QED
  BY <1>1, <1>2 DEF IInv

(*****************************************************************************)
(* Every step preserves the inductive invariant, when a rewrite in the       *)
(* storage backend does not lose the object.                                 *)
(*****************************************************************************)
LEMMA IInvStep ==
  ASSUME RewriteReliable, IInv, [Next]_vars
  PROVE  IInv' /\ LayersKept
<1>1. Typed' /\ LockPart'
  BY TypeStep, LockStep DEF IInv
<1>2. LayersKept /\ StorePart'
  BY StoreStep DEF IInv
<1>3. CachePart'
  BY <1>2, CacheStep DEF IInv, StorePart
<1>4. QED
  BY <1>1, <1>2, <1>3 DEF IInv

(*****************************************************************************)
(* The inductive invariant holds in every reachable state, when a rewrite    *)
(* in the storage backend does not lose the object.                          *)
(*****************************************************************************)
THEOREM Invariant == ASSUME RewriteReliable PROVE Spec => []IInv
<1>1. IInv /\ [Next]_vars => IInv'
  BY IInvStep
<1>2. QED
  BY InitIInv, <1>1, PTL DEF Spec

(***************************************************************************)
(* The promise of builder.go:283-285, for any number of processes,         *)
(* requests and layers: what a cache returns, and what a request collects  *)
(* for its manifest whichever way uploadHashLayer came by it, is in        *)
(* storage.  It needs rewrites whose failures are not overlooked: Move     *)
(* discards the answer of the bucket to a rewrite (gcs.go:141).            *)
(***************************************************************************)
THEOREM EntriesAreStored == ASSUME RewriteReliable PROVE Spec => []EntriesPresent
<1>1. IInv => EntriesPresent
  BY DEF IInv, CachePart, EntriesPresent
<1>2. QED
  BY Invariant, <1>1, PTL

(***************************************************************************)
(* Content addressing: nothing truncated is ever stored under a digest.    *)
(***************************************************************************)
THEOREM LayersAreWhole == ASSUME RewriteReliable PROVE Spec => []NoTruncatedLayer
<1>1. IInv => NoTruncatedLayer
  BY DEF IInv, StorePart
<1>2. QED
  BY Invariant, <1>1, PTL

(***************************************************************************)
(* No step takes a stored layer away.                                      *)
(***************************************************************************)
THEOREM LayersStay == ASSUME RewriteReliable PROVE Spec => LayersArePermanent
<1>1. IInv /\ [Next]_vars => [LayersKept]_vars
  BY IInvStep
<1>2. QED
  BY Invariant, <1>1, PTL DEF Spec, LayersArePermanent, LayersKept

--------------------------------------------------------------------------------
(***************************************************************************)
(* The refinement.  A step either leaves the stored layers alone or adds   *)
(* one, and only CacheLocally makes a key retrievable that was not so.     *)
(***************************************************************************)
AddsNoKey == indexedBar' \in SUBSET indexedBar

(*****************************************************************************)
(* Every step of the workers is a step of the abstract layer index or        *)
(* changes nothing that it promises.                                         *)
(*****************************************************************************)
LEMMA RefinementStep ==
  ASSUME RewriteReliable, IInv, [Next]_vars
  PROVE  [Abstract!Next]_(Abstract!vars)
<1> USE ServerAssumption, DigestAssumption, IInvStep
<1> USE DEF IInv, Typed, KeyInv, TypeOK, At
<1> USE DEF Abstract!Next, Abstract!vars, Abstract!Forget, Abstract!Publish, Abstract!Index
<1>a. ASSUME UNCHANGED layers PROVE UNCHANGED presentBar
  BY <1>a DEF presentBar
<1>b. ASSUME UNCHANGED layers, AddsNoKey PROVE [Abstract!Next]_(Abstract!vars)
  BY <1>a, <1>b DEF AddsNoKey
<1>c. ASSUME NEW w \in Workers, key[w] \in lcache[ServerOf[w]] PROVE key[w] \in indexedBar
  BY <1>c DEF indexedBar
<1>1. ASSUME NEW w \in Workers, NEW k \in Keys, RequestLayer(w, k)
      PROVE  UNCHANGED layers /\ AddsNoKey
  BY <1>1 DEF RequestLayer, cacheVars, storeVars, AddsNoKey, indexedBar
<1>2. ASSUME NEW w \in Workers, Step(w) PROVE [Abstract!Next]_(Abstract!vars)
  <2>1. CASE FinishRequest(w) \/ Lock(w) \/ LookupLocal(w) \/ FetchHit(w) \/ FetchMiss(w)
    <3>1. UNCHANGED layers
      BY <2>1 DEF FinishRequest, Lock, LookupLocal, FetchHit, FetchMiss, storeVars
    <3>2. AddsNoKey
      <4>1. CASE FinishRequest(w) \/ Lock(w) \/ FetchMiss(w)
        BY <4>1 DEF FinishRequest, Lock, FetchMiss, Goto, cacheVars, storeVars, AddsNoKey, indexedBar
      <4>2. CASE LookupLocal(w)
        <5>1. UNCHANGED <<builds, lcache, filling>>
          BY <4>2 DEF LookupLocal, storeVars
        <5>2. \/ UNCHANGED entries
              \/ /\ key[w] \in indexedBar
                 /\ entries' = [entries EXCEPT ![w] = @ \union {key[w]}]
          BY <4>2, <1>c DEF LookupLocal, Goto, ReturnEntry
        <5>3. \A v \in Workers : \A k \in entries'[v] : k \in entries[v] \/ k \in indexedBar
          BY <5>2
        <5>4. QED
          BY <5>1, <5>3 DEF AddsNoKey, indexedBar
      <4>3. CASE FetchHit(w)
        <5>1. /\ UNCHANGED <<builds, lcache>> /\ builds[key[w]] = "whole"
              /\ filling' = filling \union {<<ServerOf[w], key[w]>>}
              /\ entries' = [entries EXCEPT ![w] = @ \union {key[w]}]
          BY <4>3 DEF FetchHit, storeVars, ReturnEntry
        <5>2. \A v \in Workers : \A k \in entries'[v] : k \in entries[v] \/ k = key[w]
          BY <5>1
        <5>3. \A f \in filling' : f \in filling \/ f[2] = key[w]
          BY <5>1
        <5>4. \A k \in indexedBar' : k \in indexedBar \/ k = key[w]
          BY <5>1, <5>2, <5>3 DEF indexedBar
        <5>5. \A k \in indexedBar' : k = key[w] => k \in indexedBar
          BY <5>1 DEF indexedBar
        <5>6. QED
          BY <5>4, <5>5 DEF AddsNoKey
      <4>4. QED
        BY <2>1, <4>1, <4>2, <4>3
    <3>3. QED
      BY <3>1, <3>2, <1>b
  <2>2. CASE OpenStaging(w) \/ WriteStaging(w) \/ RewriteRejected(w) \/ DeleteStaging(w)
    <3>1. UNCHANGED <<layers, builds, lcache, filling, entries>>
      BY <2>2 DEF OpenStaging, WriteStaging, RewriteRejected, DeleteStaging, Goto, cacheVars, storeVars
    <3>2. QED
      BY <3>1, <1>b DEF AddsNoKey, indexedBar
  <2>3. CASE WriteStagingFails(w)
    <3>1. /\ UNCHANGED <<layers, builds, lcache, filling>>
          /\ entries' = [entries EXCEPT ![w] = {}]
      BY <2>3 DEF WriteStagingFails, ReturnError
    <3>2. \A v \in Workers : entries'[v] \subseteq entries[v]
      BY <3>1
    <3>3. QED
      BY <3>1, <3>2, <1>b DEF AddsNoKey, indexedBar
  <2>4. CASE Rename(w) \/ Rewrite(w) \/ MoveFails(w)
    <3>1. AddsNoKey
      BY <2>4 DEF Rename, Rewrite, MoveFails, Goto, cacheVars, ReturnError, Release, AddsNoKey, indexedBar
    <3>2. layers' = layers \/ layers' = [layers EXCEPT ![Digest[key[w]]] = staging[key[w]]]
      BY <2>4 DEF Rename, Rewrite, MoveFails
    <3>3. key[w] \in Keys /\ LayersKept
      BY <2>4 DEF Rename, Rewrite, MoveFails
    <3>4. UNCHANGED presentBar \/ presentBar' = presentBar \union {Digest[key[w]]}
      BY <3>2, <3>3 DEF presentBar, LayersKept
    <3>5. QED
      BY <3>1, <3>3, <3>4 DEF AddsNoKey
  <2>5. CASE CacheLocally(w)
    <3>1. Stored(key[w]) /\ key[w] \in Keys
      BY <2>5 DEF CacheLocally, StorePart, UploadedInv
    <3>2. indexedBar' = indexedBar \union {key[w]}
      BY <2>5, <3>1 DEF CacheLocally, Goto, storeVars, indexedBar
    <3>3. UNCHANGED presentBar
      BY <2>5, <1>a DEF CacheLocally, storeVars
    <3>4. Digest[key[w]] \in presentBar
      BY <3>1 DEF Stored, presentBar
    <3>5. QED
      BY <3>1, <3>2, <3>3, <3>4
  <2>6. CASE OpenBuild(w)
    BY <2>6, <1>b DEF OpenBuild, Goto, cacheVars, AddsNoKey, indexedBar, Content
  <2>7. CASE WriteBuild(w)
    <3>1. key[w] \in lcache[ServerOf[w]] /\ key[w] \in Keys
      BY <2>7 DEF WriteBuild, CachePart, RecordedInv, Caching
    <3>2. AddsNoKey
      <4>1. UNCHANGED <<lcache, filling>>
        BY <2>7 DEF WriteBuild
      <4>2. \A k \in Keys : builds'[k] = "whole" => builds[k] = "whole" \/ k = key[w]
        BY <2>7, <3>1 DEF WriteBuild
      <4>3. \A v \in Workers : \A k \in entries'[v] : k \in entries[v] \/ k = key[w]
        BY <2>7, <3>1 DEF WriteBuild, ReturnEntry
      <4>4. key[w] \in indexedBar
        BY <3>1, <1>c
      <4>5. QED
        BY <4>1, <4>2, <4>3, <4>4 DEF AddsNoKey, indexedBar
    <3>3. QED
      BY <2>7, <3>2, <1>b DEF WriteBuild
  <2>8. QED
    BY <1>2, <2>1, <2>2, <2>3, <2>4, <2>5, <2>6, <2>7 DEF Step
<1>3. ASSUME NEW s \in Servers, NEW k \in Keys, FillLocal(s, k)
      PROVE  UNCHANGED layers /\ AddsNoKey
  BY <1>3 DEF FillLocal, procVars, storeVars, AddsNoKey, indexedBar
<1>4. ASSUME NEW s \in Servers, Crash(s) PROVE UNCHANGED layers /\ AddsNoKey
  BY <1>4 DEF Crash, storeVars, AddsNoKey, indexedBar
<1>5. CASE UNCHANGED vars
  BY <1>5, <1>b DEF vars, procVars, cacheVars, storeVars, AddsNoKey, indexedBar
<1>6. QED
  BY <1>1, <1>2, <1>3, <1>4, <1>5, <1>b, NextCases

(***************************************************************************)
(* The two-level cache over either backend implements LayerIndex.          *)
(***************************************************************************)
THEOREM Refinement == ASSUME RewriteReliable PROVE Spec => ImplementsLayerIndex
<1>1. Init => Abstract!Init
  BY DigestAssumption DEF Init, Abstract!Init, presentBar, indexedBar
<1>2. IInv /\ [Next]_vars => [Abstract!Next]_(Abstract!vars)
  BY RefinementStep
<1>3. QED
  BY Invariant, <1>1, <1>2, PTL DEF Spec, ImplementsLayerIndex, Abstract!Spec
--------------------------------------------------------------------------------
(***************************************************************************)
(* Why nothing is built twice on the filesystem.  A goroutine reaches      *)
(* "write" past both lookups, so the record was not there; it stays so     *)
(* because no other goroutine is past the mutex of the key.  The local     *)
(* cache can still be filled by the goroutine of an earlier hit, but such  *)
(* a goroutine exists only while the record does.                          *)
(***************************************************************************)
FillsFromRecords == \A f \in filling : builds[f[2]] = "whole"

LookedUpLocally ==
  \A w \in Workers :
    At(w, "fetch") /\ key[w] \in lcache[ServerOf[w]] => builds[key[w]] = "whole"

NotRecorded ==
  \A w \in Workers : pc[w] \in Building \union Caching => builds[key[w]] # "whole"

NotCached == \A w \in Workers : pc[w] \in Building => key[w] \notin lcache[ServerOf[w]]

OnceInv == FillsFromRecords /\ LookedUpLocally /\ NotRecorded /\ NotCached

(***************************************************************************)
(* Every step keeps it: the steps of a goroutine past the mutex disturb    *)
(* only their own key, and no other goroutine of the one process is past   *)
(* the mutex of that key.                                                  *)
(***************************************************************************)
LEMMA OnceStep ==
  ASSUME Backend = "fs", Typed, LockPart, OnceInv, [Next]_vars
  PROVE  OnceInv'
<1> USE ServerAssumption, OneProcessPerPath
<1> USE DEF Typed, KeyInv, TypeOK, OnceInv, FillsFromRecords, LookedUpLocally, NotRecorded,
            NotCached, At, Building, Caching
<1>1. ASSUME NEW w \in Workers, NEW k \in Keys, RequestLayer(w, k) PROVE OnceInv'
  BY <1>1 DEF RequestLayer, cacheVars, storeVars
<1>2. ASSUME NEW w \in Workers, Step(w) PROVE OnceInv'
  <2>a. ASSUME NEW v \in Workers, v # w, pc[v] \in Holding, pc[w] \in Holding
        PROVE  key[v] # key[w]
    BY <2>a DEF LockPart, Exclusive
  <2>1. CASE FinishRequest(w) \/ Lock(w)
    BY <2>1 DEF FinishRequest, Lock, Goto, cacheVars, storeVars
  <2>2. CASE LookupLocal(w)
    BY <2>2 DEF LookupLocal, Goto, storeVars, ReturnEntry, Release
  <2>3. CASE FetchHit(w)
    <3>1. /\ UNCHANGED <<lcache, builds>> /\ builds[key[w]] = "whole" /\ key[w] \in Keys
          /\ filling' = filling \union {<<ServerOf[w], key[w]>>}
          /\ pc' = [pc EXCEPT ![w] = "idle"] /\ key' = [key EXCEPT ![w] = NoKey]
      BY <2>3 DEF FetchHit, storeVars, ReturnEntry, Release
    <3>2. FillsFromRecords'
      BY <3>1
    <3>3. LookedUpLocally'
      BY <2>3, <2>a, <3>1 DEF FetchHit
    <3>4. NotRecorded' /\ NotCached'
      BY <3>1
    <3>5. QED
      BY <3>2, <3>3, <3>4
  <2>4. CASE FetchMiss(w)
    BY <2>4 DEF FetchMiss, Goto, cacheVars, storeVars
  <2>5. CASE OpenStaging(w) \/ WriteStaging(w)
    BY <2>5 DEF OpenStaging, WriteStaging, Goto, cacheVars
  <2>6. CASE WriteStagingFails(w) \/ MoveFails(w)
    <3>1. /\ UNCHANGED <<lcache, filling, builds>>
          /\ pc' = [pc EXCEPT ![w] = "idle"] /\ key' = [key EXCEPT ![w] = NoKey]
      BY <2>6 DEF WriteStagingFails, MoveFails, ReturnError, Release
    <3>2. QED
      BY <3>1
  <2>7. CASE Rename(w) \/ Rewrite(w) \/ RewriteRejected(w) \/ DeleteStaging(w)
    BY <2>7 DEF Rename, Rewrite, RewriteRejected, DeleteStaging, Goto, cacheVars, storeVars
  <2>8. CASE CacheLocally(w)
    <3>1. \A v \in Workers : v # w /\ pc[v] \in Holding => key[v] # key[w]
      BY <2>8, <2>a DEF CacheLocally, Holding
    <3>2. key[w] \in Keys /\ builds[key[w]] # "whole"
      BY <2>8 DEF CacheLocally
    <3>3. QED
      BY <2>8, <3>1, <3>2 DEF CacheLocally, Goto, storeVars, Holding
  <2>9. CASE OpenBuild(w)
    <3>1. key[w] \in Keys /\ builds[key[w]] # "whole"
      BY <2>9 DEF OpenBuild
    <3>2. \A v \in Workers : v # w /\ pc[v] \in Holding => key[v] # key[w]
      BY <2>9, <2>a DEF OpenBuild, Holding
    <3>3. \A f \in filling : f[2] # key[w]
      BY <3>1
    <3>4. QED
      BY <2>9, <3>1, <3>2, <3>3 DEF OpenBuild, Goto, cacheVars, Holding
  <2>10. CASE WriteBuild(w)
    <3>1. \A v \in Workers : v # w /\ pc[v] \in Holding => key[v] # key[w]
      BY <2>10, <2>a DEF WriteBuild, Holding
    <3>2. QED
      BY <2>10, <3>1 DEF WriteBuild, ReturnEntry, Release, Holding
  <2>11. QED
    BY <1>2, <2>1, <2>2, <2>3, <2>4, <2>5, <2>6, <2>7, <2>8, <2>9, <2>10 DEF Step
<1>3. ASSUME NEW s \in Servers, NEW k \in Keys, FillLocal(s, k) PROVE OnceInv'
  <2>1. builds[k] = "whole"
    BY <1>3 DEF FillLocal
  <2>2. QED
    BY <1>3, <2>1 DEF FillLocal, procVars, storeVars
<1>4. ASSUME NEW s \in Servers, Crash(s) PROVE OnceInv'
  BY <1>4 DEF Crash, storeVars
<1>5. CASE UNCHANGED vars
  BY <1>5 DEF vars, procVars, cacheVars, storeVars
<1>6. QED
  BY <1>1, <1>2, <1>3, <1>4, <1>5, NextCases

(***************************************************************************)
(* On the filesystem a layer that a cache has is never built again,        *)
(* whatever failed or crashed before.                                      *)
(***************************************************************************)
THEOREM CachedLayersAreNotRebuilt ==
  ASSUME Backend = "fs"
  PROVE  Spec => []NothingBuiltTwice
<1>1. Init => Typed /\ LockPart /\ OnceInv
  <2>1. Init => LockPart /\ OnceInv
    BY DEF Init, LockPart, LockInv, Exclusive, OnceInv, FillsFromRecords, LookedUpLocally,
           NotRecorded, NotCached, At, Holding, Building, Caching
  <2>2. QED
    BY <2>1, TypeInit
<1>2. Typed /\ LockPart /\ OnceInv /\ [Next]_vars => (Typed /\ LockPart /\ OnceInv)'
  BY TypeStep, LockStep, OnceStep
<1>3. OnceInv => NothingBuiltTwice
  BY DEF OnceInv, NotRecorded, NotCached, NothingBuiltTwice, At, Building
<1>4. QED
  BY <1>1, <1>2, <1>3, PTL DEF Spec
================================================================================
