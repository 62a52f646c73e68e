SPECIFICATION FairSpec
CONSTANTS
  kbd = kbd
  mouse = mouse
  stick = stick
  Nothing = Nothing
  Devices = {kbd, mouse, stick}
  Config <- MCConfig
  MaxPktSize <- MCMaxPktSize
  BufSize = 40
  USB_NUMDEVICES = 3
INVARIANTS
  ReadsOwnBytes
  ServedAsDescribed
PROPERTIES
  ProbeIsTaskStep
  WalkEnds
