\* The interrupt-handler flash test: the loop exits once the flash is done.
CONSTANTS
  ChanDepth = 2
  VarCap = 2
SPECIFICATION RawFairSpec
\* main() returns: the run ends with nothing left to do.
CHECK_DEADLOCK FALSE
INVARIANT RawTypeOK
INVARIANT ExitOnlyWhenDone
