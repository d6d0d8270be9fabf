SPECIFICATION Spec

CONSTANTS
  first = first
  second = second
  Transfer <- OneTransfer
  AddressCount = 2
  Funds <- TwoFunds
  Amount <- OneAmount
  EstimateFees = 2
  Charge = 2
  RetainedBalance = 10
  MinTransfer = 0
  Grain = 2
  Gift = 3
  MaxGifts = 1
  MaxBuilds = 3
  Overlap = FALSE

\* Everything may have been paid or refused.
CHECK_DEADLOCK FALSE

INVARIANTS
  TypeOK
  Covered

PROPERTIES
  PaymentsKept
  RetainedKept
