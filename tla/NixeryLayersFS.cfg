SPECIFICATION Spec
CONSTANTS
  s1 = s1  s2 = s2  w1 = w1  w2 = w2  w3 = w3
  k1 = k1  k2 = k2  d1 = d1  d2 = d2
  NoKey = NoKey
  Servers = {s1}
  Workers = {w1, w2, w3}
  Keys = {k1, k2}
  Digests = {d1, d2}
  ServerOf <- OneServer
  Digest <- OneDigestPerKey
  Backend = "fs"
  RewriteReliable = TRUE
INVARIANTS EntriesPresent NoTruncatedLayer NothingBuiltTwice
PROPERTIES LayersArePermanent
