----------------------------- MODULE MCNixeryLayers -----------------------------
(* Small instances of NixeryLayers. *)
EXTENDS NixeryLayers, TLC

CONSTANTS s1, s2, w1, w2, w3, k1, k2, d1, d2

OneServer  == [w \in Workers |-> s1]
TwoServers == [w \in Workers |-> IF w = w1 THEN s1 ELSE s2]
OneDigestPerKey == [k \in Keys |-> IF k = k1 THEN d1 ELSE d2]
OneDigestForAll == [k \in Keys |-> d1]
================================================================================
