SPECIFICATION Spec
CONSTANTS
  se1 = se1
  se2 = se2
  st1 = st1
  st2 = st2
  tx1 = tx1
  tx2 = tx2
  a1 = a1
  a2 = a2
  Sessions <- MCSessions
  Streams <- MCStreams
  TxIds <- MCTxIds
  Addrs <- MCAddrs
  NoStream = NoStream
  NoTx = NoTx
  NoAddr = NoAddr
  Freed = Freed
  MaxTs = 2
  MaxFrames = 8
SYMMETRY Symmetry
INVARIANTS TypeOK SingleOwner OpenConsistent FinishedConsistent AccountedFor
PROPERTIES FinishedImmutable
CHECK_DEADLOCK FALSE
