SPECIFICATION FairSpec
CONSTANTS
  s1 = s1  s2 = s2  w1 = w1  w2 = w2  w3 = w3
  k1 = k1  k2 = k2  d1 = d1  d2 = d2
  NoKey = NoKey
  Servers = {s1, s2}
  Workers = {w1, w2, w3}
  Keys = {k1}
  Digests = {d1}
  ServerOf <- TwoServers
  Digest <- OneDigestForAll
  Backend = "gcs"
  RewriteReliable = TRUE
PROPERTIES ImplementsLayerIndex LocksAreReleased
