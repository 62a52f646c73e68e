SPECIFICATION FairSpec
CONSTANTS
  kbd = kbd
  mouse = mouse
  NoDevice = NoDevice
  BadLine = BadLine
  Devices = {kbd, mouse}
  LowSpeed = {mouse}
  Kind <- MCKind
  USB_NUMDEVICES = 3
  Keys = {0, 26}
INVARIANTS
  TypeOK
  ServedEntryIsLast
  PolledClassIsServed
PROPERTIES
  KeycodeComesFromKeyboard
  ServiceSpec
  EnumerationEnds
