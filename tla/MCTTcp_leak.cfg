SPECIFICATION Spec
CONSTANTS
  MSS = 2
  SND_BUF = 5
  WND = 4
  QUEUELEN = 4
  POOL = 5
  SEGS = 4
  SeqSpace <- MCSeqSpace
  ISS = 0
  PeerISS <- MCPeerISS
  PeerWnds = {4}
  PeerMss = {}
  Copies = {FALSE}
INVARIANTS PbufsConserved
CHECK_DEADLOCK FALSE
