CONSTANTS
  a1 = a1
  a2 = a2
  w1 = w1
  w2 = w2
  x1 = x1
  x2 = x2
  s1 = s1
  t1 = t1
  t2 = t2
  nobody = nobody
  TicksPerSecond = 2
  Agents = {a1, a2}
  Workers = {w1}
  FrontendNames = {"default"}
  Configured <- PowOnly
  DefaultFrontend = "default"
  LevelArgs = {1}
  RawHosts <- AB
  Addrs = {x1, x2}
  HostId <- HostIds
  IdBytes <- Bytes
  HostMatches <- Matches
  SupportIDs = {s1}
  Tokens = {}
  TokenPage <- Pages
  Nobody = nobody
  MaxLag = 2
  ProcTimeout = 1
  ClientTimeout = 1
  MaxTime = 7
  MaxChallenges = 1
  MaxCookies = 1
SPECIFICATION Spec
INVARIANTS IInv AdmissionJustified ClearanceHonoured WorkExpires WorkInv SumsAreDated
SYMMETRY Swaps
