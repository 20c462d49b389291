SPECIFICATION Spec
CONSTANTS
  MSS = 2
  SND_BUF = 7
  WND = 4
  QUEUELEN = 6
  POOL = 7
  SEGS = 6
  SeqSpace <- MCSeqSpace
  ISS = 0
  PeerISS <- MCPeerISS
  PeerWnds = {0, 1, 4}
  PeerMss = {0, 1}
  Copies = {TRUE, FALSE}
INVARIANTS TypeOK SendBufConserved SegsConserved QueueLenSound QueuesContiguous InFlightWithinWindow HandshakeAckOwed PbufsAccounted
PROPERTIES StreamSpec
CHECK_DEADLOCK FALSE
