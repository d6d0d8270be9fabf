SPECIFICATION FairSpec

CONSTANTS
  NoBlock = NoBlock
  Block <- ForkBlock
  Height <- ForkHeight
  Parent <- ForkParent
  Chain <- ForkChain
  Modulus = 16
  RescanLastBlockCount = 0
  Careful = TRUE
  Reason = {"retry"}
  Budgets <- FaultEnvs

INVARIANTS
  ForksLoseNothing
  FailuresLoseNothing
  AnnouncedOnChain
  LocalOnChain

PROPERTIES
  HeadRisesByLink
  CatchUp
  RecordsDrained
  PauseEndsTask
