SPECIFICATION Spec
CONSTANTS
  kbd = kbd
  mouse = mouse
  NoDevice = NoDevice
  BadLine = BadLine
  Devices = {kbd}
  LowSpeed = {}
  Kind <- MCKind
  USB_NUMDEVICES = 3
  Keys = {0, 26}
PROPERTY ReattachFindsTableClear
