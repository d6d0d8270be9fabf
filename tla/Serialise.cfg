SPECIFICATION Spec

CONSTANTS
  Nothing = Nothing
  Digit = 2
  KeyLength = 1
  HashLength = 2
  LengthWidth = 1
  NonceWidth = 2
  DepositWidth = 3
  Ten = 3
  Decimals = 3
  MaxUnits = 63
  Keys <- SomeKeys
  Receivers <- SomeReceivers
  Json <- SomeJson
  BlockHashes <- SomeHashes
  Nonces <- SomeNonces
  Amounts <- SomeAmounts

INVARIANTS
  NodeReadsAsked
  SignatureIsOfRead
