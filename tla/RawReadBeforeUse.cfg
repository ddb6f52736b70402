\* Does every iteration of the interrupt-handler test wait for its own read?
CONSTANTS
  ChanDepth = 2
  VarCap = 2
SPECIFICATION RawSpec
CHECK_DEADLOCK FALSE
INVARIANT ReadBeforeUse
