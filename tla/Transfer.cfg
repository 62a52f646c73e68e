SPECIFICATION FairSpec
CONSTANTS
  Wrap = 6
  USB_XFER_TIMEOUT = 4
  USB_NAK_LIMIT = 2
  USB_RETRY_LIMIT = 2
  AnswerPackets = 3
  ChipTime = 1
  PollPackets = 1
  MaxReports = 2
INVARIANTS TypeOK InOrder WholeAnswer NothingLeftOver
PROPERTY CallReturns
