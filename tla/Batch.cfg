SPECIFICATION FairSpec

CONSTANTS
  scan = scan
  rescan = rescan
  empty = empty
  Batch <- ThreeCalls
  Size <- ThreeSizes
  MaxExtractingSize = 2

\* When every call has returned there is nothing left to do.
CHECK_DEADLOCK FALSE

INVARIANTS
  TypeOK
  ChannelsQuiet
  ExtractorsBounded

PROPERTIES
  PromiseKept
  CallsReturn
  NothingLeft
