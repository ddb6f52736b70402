\* test.c against the driver, the uDMA and a flash that finishes its erase
\* and program operations.
CONSTANTS
  FreqPeriph = 1024
  Bauds <- MCTestBauds
  DataBits <- MCTestBits
  MaxItems = 2
  UninitDivs <- MCTestUninitDivs
  ChanDepth = 2
  SpimDepth = 2
  ClientMay = {}
  TestBaud = 3
SPECIFICATION TestFairSpec
CHECK_DEADLOCK FALSE
INVARIANT TestTypeOK
INVARIANT ReadyOnReturn
PROPERTY TestTerminates
