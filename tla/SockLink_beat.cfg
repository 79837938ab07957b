\* Heartbeats both ways, and packets down.
CONSTANTS
  MaxConn = 2
  UpN = 1
  DownN = 1
  Heartbeat = TRUE
  TxCap = 1
  RxCap = 1
  SockCap = 2
  RetryWait = 0
SPECIFICATION Spec
INVARIANT InStep
CHECK_DEADLOCK FALSE
