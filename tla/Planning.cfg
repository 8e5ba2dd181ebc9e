\* Four tracks, one human and three automatic cars.
SPECIFICATION Spec
CONSTANTS
  One = 1000
  NaN = NaN
  Infinity = Infinity
  MinusInfinity = MinusInfinity
  None = None
  Intersections <- MCIntersections
  Human = 1
  Autos <- MCAutos
  Length <- MCLength
  Width = 7200
  Height = 10800
  Moves <- MCMoves
  Tolerance = 10
INVARIANTS
  TypeOK
  ArrivesWhenPlanned
  KeepsClear
  NaNHasASource
  SettledPlansRepeat
