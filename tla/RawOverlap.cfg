SPECIFICATION Spec

CONSTANTS
  first = first
  second = second
  Transfer <- TwoTransfers
  AddressCount = 1
  Funds <- OneFunds
  Amount <- TwoAmounts
  EstimateFees = 2
  Charge = 2
  RetainedBalance = 10
  MinTransfer = 0
  Grain = 2
  Gift = 3
  MaxGifts = 1
  MaxBuilds = 2
  Overlap = TRUE

\* Everything may have been paid or refused.
CHECK_DEADLOCK FALSE

PROPERTIES
  RetainedKept
