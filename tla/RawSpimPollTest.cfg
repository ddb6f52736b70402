\* The ver3 polling flash test: each wait sees its transfer complete and the
\* page is read back after the program.
SPECIFICATION PollFairSpec
\* main() returns, and a wait whose event was dropped spins for ever.
CHECK_DEADLOCK FALSE
INVARIANT PollTypeOK
INVARIANT WaitSeesCompletion
INVARIANT ReturnsZero
