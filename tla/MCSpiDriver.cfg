\* The driver used as test.c uses it: busy, completion and GetDataCount.
CONSTANTS
  FreqPeriph = 1024
  Bauds <- MCBauds
  DataBits <- MCDataBits
  MaxItems = 2
  UninitDivs <- MCUninitDivs
  ChanDepth = 2
  SpimDepth = 2
  ClientMay = {}
SPECIFICATION FairSpec
INVARIANT TypeOK
INVARIANT IdleMeansDone
INVARIANT CmdIntegrity
INVARIANT DataCountSound
INVARIANT IdleInv
PROPERTY BusyEventuallyClears
PROPERTY CompletionOnlyWhenDone
PROPERTY AbsSpec
PROPERTY AbsFairSpec
