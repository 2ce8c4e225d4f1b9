SPECIFICATION CaptureSpec
CONSTANTS
  se1 = se1
  se2 = se2
  tx1 = tx1
  tx2 = tx2
  tx3 = tx3
  a1 = a1
  a2 = a2
  a3 = a3
  Sessions <- MCSessions
  Streams = {1, 2, 3, 4, 5, 6}
  TxIds <- MCTxIds
  Addrs <- MCAddrs
  NoStream = 0
  NoTx = NoTx
  NoAddr = NoAddr
  Freed = Freed
  MaxTs = 1
  MaxFrames = 12
  AllTypes = TRUE
  Lossy = TRUE
  Reordering = FALSE
SYMMETRY Symmetry
PROPERTIES ReplacedIsIdle
CHECK_DEADLOCK FALSE
