SPECIFICATION Spec
CONSTANTS
  Modulus = 32
  XMax = 31
  YMax = 13
  Ground = 10
  PipeTop = 8
  Pipes = {21}
  PipeWidth = 6
  Width = 12
  Height = 2
  Step = 8
  Jump = 2
  Ceiling = 3
  Screen = 24
  ScrollAt = 12
  ScrollMax = 7
  MarioStart = 0
  LuigiStart = 16
  MaxKeys = 1
  LuigiMoves = {"w"}
  MaxDeaths = 1
INVARIANTS AboveGround OnePressOneJump ScreenInLevel
