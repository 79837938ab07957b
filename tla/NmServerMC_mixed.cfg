CONSTANTS
  a1 = a1
  a2 = a2
  r1 = r1
  b1 = b1
  b2 = b2
  m1 = m1
  None = None
  Conn <- Mixed
  Addr <- MixedAddrs
  AddrOf <- MixedAddrOf
  SvcOf <- MixedSvcOf
  Msg = {"bdinfo", "data"}
  Responsive = {}
  Mute = {}
  Interval = 1
  Timeout = 1
  MaxRq = 1
  MaxCmds = 1
SPECIFICATION Spec
INVARIANTS
  IInv
  NoCircularWait
