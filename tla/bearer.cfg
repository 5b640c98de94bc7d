SPECIFICATION Spec
CONSTANTS
  r1 = r1  r2 = r2  t1 = t1  t2 = t2
  NoToken = NoToken
  Tokens <- TwoTokens
  Replicas <- TwoReplicas
  StoredLayers <- EveryStore
  TokenDuration = 2
  CacheTTL = 2
  MaxBackground = 1
  MaxNow = 4
SYMMETRY BearerSymmetry
INVARIANTS TypeOK OnlyValidServed DeletesAreHarmless
PROPERTIES RefusedForAReason
