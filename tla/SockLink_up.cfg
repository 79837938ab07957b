\* Packets from the client to the server, over two connections.
CONSTANTS
  MaxConn = 2
  UpN = 3
  DownN = 0
  Heartbeat = FALSE
  TxCap = 2
  RxCap = 1
  SockCap = 2
  RetryWait = 1
SPECIFICATION FairSpec
INVARIANT TypeOK
INVARIANT UpInOrder
PROPERTY UpDelivered
PROPERTY Reconnects
PROPERTY PeersReleased
CHECK_DEADLOCK FALSE
