SPECIFICATION Spec
CONSTANTS
  Base = 4
  Widths <- MCWidths
  ClearedBody = 3
  RotateName <- MCRotateName
  DepthName <- MCDepthName
  Site = 2
  LittleEndian = TRUE
  Datagrams <- MCDatagrams
  Times = {1, 14}
  Addrs <- MCAddrs
  Ports = {3}
  MaxBody = 5
  MaxPackets = 3
CHECK_DEADLOCK FALSE
INVARIANTS CodecSound NamesFromOwnBytes
