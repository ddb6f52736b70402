\* A client that aborts a transfer in flight: can a late EOT end the next one?
CONSTANTS
  FreqPeriph = 1024
  Bauds <- MCBauds
  DataBits <- MCDataBits
  MaxItems = 2
  UninitDivs <- MCUninitDivs
  ChanDepth = 2
  SpimDepth = 2
  ClientMay = {"abort_busy"}
SPECIFICATION Spec
CONSTRAINT StateConstraint
PROPERTY CompletionOnlyWhenDone
