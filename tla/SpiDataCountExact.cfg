\* GetDataCount once both channels are drained (spec section 8).
CONSTANTS
  FreqPeriph = 1024
  Bauds <- MCBauds
  DataBits <- MCDataBits
  MaxItems = 2
  UninitDivs <- MCUninitDivs
  ChanDepth = 2
  SpimDepth = 2
  ClientMay = {}
SPECIFICATION Spec
INVARIANT DataCountExact
