\* A client that aborts transfers in flight: does busy still always clear?
CONSTANTS
  FreqPeriph = 1024
  Bauds <- MCOneBaud
  DataBits <- MCOneBits
  MaxItems = 1
  UninitDivs <- MCUninitDivs
  ChanDepth = 1
  SpimDepth = 1
  ClientMay = {"abort_busy"}
SPECIFICATION FairSpec
CONSTRAINT StateConstraint
PROPERTY BusyEventuallyClears
