SPECIFICATION CoinSpec
CONSTANTS
  Modulus = 40
  XMax = 39
  YMax = 32
  Ground = 30
  PipeTop = 27
  Pipes = {25}
  PipeWidth = 14
  Width = 12
  Height = 3
  Step = 8
  Jump = 3
  Ceiling = 5
  Screen = 32
  ScrollAt = 16
  ScrollMax = 7
  MarioStart = 0
  LuigiStart = 16
  MaxKeys = 1
  LuigiMoves = {}
  MaxDeaths = 1
  CoinStarts = {26, 28, 30}
  CoinY = 22
  CoinWidth = 8
  CoinHeight = 4
INVARIANT ScoreCountsCollected
PROPERTY TouchedCoinIsTaken
