SPECIFICATION FairSpec

CONSTANTS
  NoBlock = NoBlock
  Block <- SkipBlock
  Height <- SkipHeight
  Parent <- SkipParent
  Chain <- SkipChain
  Modulus = 16
  RescanLastBlockCount = 0
  Careful = TRUE
  Reason = {"noInfo", "retry"}
  Budgets <- ReorgEnvs

PROPERTIES
  CatchUp
