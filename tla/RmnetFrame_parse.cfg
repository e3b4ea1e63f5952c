SPECIFICATION FrameSpec
CONSTANTS
  QmapMode = 2
  Base = 112
  Mtu = 5
  RxMax = 40
  Sizes = {1, 4, 6}
  MaxLen = 3
  Fails = 1
 
INVARIANT OrdersObeyed
INVARIANT UplinkReadable
\* A datagram of session mbim_mux_id takes the handler out of its table: the machine may stop.
CHECK_DEADLOCK FALSE
