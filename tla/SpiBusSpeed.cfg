\* SET_BUS_SPEED then GET_BUS_SPEED.
CONSTANTS
  FreqPeriph = 1024
  Bauds <- MCBauds
  DataBits <- MCDataBits
  MaxItems = 2
  UninitDivs <- MCUninitDivs
  ChanDepth = 2
  SpimDepth = 2
  ClientMay = {}
SPECIFICATION Spec
INVARIANT BusSpeedRoundTrip
