CONSTANTS
  a1 = a1
  a2 = a2
  r1 = r1
  b1 = b1
  b2 = b2
  m1 = m1
  None = None
  Conn <- TwoBoards
  Addr <- TwoAddrs
  AddrOf <- TwoAddrOf
  SvcOf <- TwoSvcOf
  Msg = {"bdinfo"}
  Responsive = {b1}
  Mute = {b2}
  Interval = 1
  Timeout = 3
  MaxRq = 1
  MaxCmds = 2
SPECIFICATION TimedSpec
PROPERTIES
  ResponsiveKept
  ResponsiveShown
  SilentRemoved
