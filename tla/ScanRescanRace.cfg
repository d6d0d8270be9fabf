SPECIFICATION Spec

CONSTANTS
  NoBlock = NoBlock
  Block <- ForkBlock
  Height <- ForkHeight
  Parent <- ForkParent
  Chain <- ForkChain
  Modulus = 16
  RescanLastBlockCount = 0
  Careful = FALSE
  Reason = {"noInfo", "retry"}
  Budgets <- RescanEnvs

PROPERTIES
  HeadRisesByLink
