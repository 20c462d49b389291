SPECIFICATION Spec
CONSTANTS
  BUFSIZE = 1514
  STRUCT = 32
  MSS = 1400
  Sizes = {1, 10, 700, 1400}
  m1 = m1  m2 = m2  m3 = m3
  i1 = i1  i2 = i2
  NoMac = NoMac  NoIp = NoIp
  Macs <- MCMacs
  Ips <- MCIps
  T_ARP_TABLE_SIZE = 2
  Frames <- MCFrames
SYMMETRY Symmetry
INVARIANTS TypeOK EndInPlace DataExact SentWhole EchoToSender PrintedWasTold OneEntryPerMac
PROPERTIES CacheSpec
