\* The clock divider the configuration word carries.
CONSTANTS
  FreqPeriph = 1024
  Bauds <- MCBauds
  DataBits <- MCDataBits
  MaxItems = 2
  UninitDivs <- MCUninitDivs
  ChanDepth = 2
  SpimDepth = 2
  ClientMay = {}
SPECIFICATION Spec
INVARIANT CfgFromBaud
