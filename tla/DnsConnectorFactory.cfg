SPECIFICATION FairSpec
CONSTANT MaxEndpoints = 3
INVARIANTS AnsweredOnce EndIsReported
PROPERTIES DeadIsSilent EventuallyAnswered
CHECK_DEADLOCK FALSE
