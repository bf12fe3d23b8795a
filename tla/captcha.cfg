CONSTANTS
  a1 = a1
  a2 = a2
  w1 = w1
  w2 = w2
  x1 = x1
  x2 = x2
  s1 = s1
  t1 = t1
  t2 = t2
  nobody = nobody
  TicksPerSecond = 1
  Agents = {a1, a2}
  Workers = {w1, w2}
  FrontendNames = {"default"}
  Configured <- Captchas
  DefaultFrontend = "default"
  LevelArgs = {1}
  RawHosts <- Capital
  Addrs = {x1}
  HostId <- HostIds
  IdBytes <- Bytes
  HostMatches <- Matches
  SupportIDs = {s1}
  Tokens = {t1, t2}
  TokenPage <- Pages
  Nobody = nobody
  MaxLag = 1
  ProcTimeout = 1
  ClientTimeout = 0
  MaxTime = 5
  MaxChallenges = 1
  MaxCookies = 2
SPECIFICATION Spec
INVARIANTS WorkInv TokenBuysOneCookie ClearanceEarned
PROPERTY KeepsThePromise
SYMMETRY Swaps
