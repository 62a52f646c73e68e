SPECIFICATION Spec
CONSTANTS
  hpixels = 799
  vlines = 524
  Columns = 640
  Lines = 480
  HsyncFirst = 656
  HsyncEnd = 752
  VsyncFirst = 490
  VsyncLast = 491
PROPERTY FrameEdgeInBlank
