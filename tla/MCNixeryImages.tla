----------------------------- MODULE MCNixeryImages -----------------------------
(* A package set with four packages and the standard ones, for two         *)
(* architectures.  Both collisions of CacheKey occur among the names: one  *)
(* image for two architectures, and two lists of packages that are spelled *)
(* the same when joined.                                                   *)
EXTENDS NixeryImages, TLC

CONSTANTS lBase, lBaseArm, lAb, lBash

SortedPackages == <<"a", "ab", "b", "bashInteractive", "cacert", "coreutils", "git", "iana-etc",
                    "moreutils", "nano">>

Tokens == [p \in ToSet(SortedPackages) |-> IF p = "ab" THEN <<"a", "b">> ELSE <<p>>]

(* Most packages share one layer, which makes images small. *)
FewLayers ==
  [ap \in {"amd64", "arm64"} \X ToSet(SortedPackages) |->
     CASE ap[2] = "ab" -> {lAb}
       [] ap[2] = "bashInteractive" -> {lBash}
       [] OTHER -> {IF ap[1] = "arm64" THEN lBaseArm ELSE lBase}]

Ratings == (lBase :> 2) @@ (lBaseArm :> 2) @@ (lBash :> 3) @@ (lAb :> 1)

Colliding == {<<"shell", "git">>, <<"arm64", "ab">>, <<"a", "b">>, <<"ab">>}
GitAndShell == {<<"git">>, <<"shell", "git">>}

(* The handlers of requests are all alike. *)
AnyRequest == Permutations(Requests)
================================================================================
