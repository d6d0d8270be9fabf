SPECIFICATION Spec

CONSTANTS
  NoBlock = NoBlock
  Block <- ForkBlock
  Height <- ForkHeight
  Parent <- ForkParent
  Chain <- ForkChain
  Modulus = 16
  RescanLastBlockCount = 0
  Careful = TRUE
  Reason = {"noInfo", "retry"}
  Budgets <- RefuseEnvs

INVARIANTS
  RefusedIsRecorded
