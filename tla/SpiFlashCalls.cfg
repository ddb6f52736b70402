\* Does every Send and Receive of test.c reach the driver while it is idle?
CONSTANTS
  FreqPeriph = 1024
  Bauds <- MCTestBauds
  DataBits <- MCTestBits
  MaxItems = 2
  UninitDivs <- MCTestUninitDivs
  ChanDepth = 2
  SpimDepth = 2
  ClientMay = {}
  TestBaud = 3
SPECIFICATION TestFairSpec
CHECK_DEADLOCK FALSE

INVARIANT CallsAccepted
