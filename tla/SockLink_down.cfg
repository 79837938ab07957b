\* Packets from the server to the client, over three connections.
CONSTANTS
  MaxConn = 3
  UpN = 0
  DownN = 3
  Heartbeat = FALSE
  TxCap = 2
  RxCap = 1
  SockCap = 3
  RetryWait = 0
SPECIFICATION Spec
INVARIANT InStep
INVARIANT DownInOrder
CHECK_DEADLOCK FALSE
