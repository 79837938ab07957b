CONSTANTS
  a1 = a1
  a2 = a2
  r1 = r1
  b1 = b1
  b2 = b2
  m1 = m1
  None = None
  Conn <- TwoBoards
  Addr <- TwoAddrs
  AddrOf <- ReuseAddrOf
  SvcOf <- TwoSvcOf
  Msg = {"bdinfo"}
  Responsive = {}
  Mute = {}
  Interval = 1
  Timeout = 1
  MaxRq = 1
  MaxCmds = 0
SPECIFICATION FairSpec
INVARIANTS
  UniqueByAddress
  NoGhostBoard
  RegisteredIsListed
  ReportedIsServed
PROPERTIES
  ReportKept
  FailedIsRemoved
  ImplementsFairDirectory
