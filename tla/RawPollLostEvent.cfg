\* Does every wait of the ver3 polling flash test end?
SPECIFICATION PollFairSpec
CHECK_DEADLOCK FALSE
PROPERTY PollTerminates
