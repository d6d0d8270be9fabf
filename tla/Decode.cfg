SPECIFICATION Spec

CONSTANTS
  Blocks <- SomeBlocks
  Account <- Accounts
  NoAccount = "none"
  Grain = 2

INVARIANTS
  TypeOK
  SidesShown

PROPERTIES
  BlockDecoded
