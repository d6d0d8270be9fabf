SPECIFICATION Spec

CONSTANTS
  NoBlock = NoBlock
  Block <- TwigBlock
  Height <- TwigHeight
  Parent <- TwigParent
  Chain <- TwigChain
  Modulus = 16
  RescanLastBlockCount = 1
  Careful = FALSE
  Reason = {"noInfo", "retry"}
  Budgets <- CallEnvs

INVARIANTS
  TypeOK
  HeadVouched
  AdoptableVouched
