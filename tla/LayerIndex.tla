------------------------------- MODULE LayerIndex -------------------------------
(***************************************************************************)
(* What Nixery's layer cache promises, without saying how: a set of blobs  *)
(* that only grows, and an index of layer keys that never leads to a blob  *)
(* which is not there.  The comment over prepareLayers in                  *)
(* tools/nixery/builder/builder.go (lines 283-285) states this promise;    *)
(* NixeryLayers is shown to implement it.                                  *)
(***************************************************************************)
EXTENDS Naturals

CONSTANTS Keys,     \* layer keys, the hash over a layer's store paths
          Digests,  \* sha256 digests of finished tarballs
          Digest    \* the digest of the tarball that is built for a key

VARIABLES present,  \* digests that can be downloaded
          indexed   \* keys for which somebody may be handed a cache entry

vars == <<present, indexed>>

TypeOK ==
  /\ present \subseteq Digests
  /\ indexed \subseteq Keys

Init ==
  /\ present = {}
  /\ indexed = {}

(***************************************************************************)
(* Entries may be lost at any time (a restart empties the in-memory cache, *)
(* a build record is overwritten, a request is given up); blobs may not.   *)
(***************************************************************************)
Forget == indexed' \in SUBSET indexed

Publish(d) ==
  /\ present' = present \union {d}
  /\ Forget

Index(k) ==
  /\ Digest[k] \in present
  /\ indexed' = indexed \union {k}
  /\ UNCHANGED present

Next ==
  \/ \E d \in Digests : Publish(d)
  \/ \E k \in Keys : Index(k)
  \/ Forget /\ UNCHANGED present

Spec == Init /\ [][Next]_vars
================================================================================
