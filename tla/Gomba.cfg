SPECIFICATION GombaFairSpec
CONSTANTS
  Modulus = 128
  XMax = 127
  YMax = 47
  Ground = 40
  PipeTop = 34
  Pipes = {27, 104}
  PipeWidth = 14
  Width = 12
  Height = 6
  Step = 8
  Jump = 4
  Ceiling = 5
  Screen = 80
  ScrollAt = 40
  ScrollMax = 47
  MarioStart = 0
  LuigiStart = 16
  MaxKeys = 1
  LuigiMoves = {}
  MaxDeaths = 1
  GombaStart = 72
  GombaSize = 12
  Pace = 4
  GombaWait = 1
INVARIANTS Penned StandingLuigiOnScreen PlayersKeepApart
PROPERTIES GombaVanishes FallOnGombaStomps Lands
