CONSTANTS
  p1 = p1
  p2 = p2
  Processes = {p1, p2}
  Nobody = Nobody
  Abandoned = Abandoned
  Network = "unix"
SPECIFICATION FairSpec
INVARIANTS IInv SocketIsCleaned OneServer NeverStuck
PROPERTIES InterruptEnds FailureEnds EveryStepIsNearer
