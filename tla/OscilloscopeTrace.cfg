\* Two windows of one or two samples over at most three samples, after which
\* the sampler rests: the bound is the only reason to stop.
SPECIFICATION TraceSpec
CONSTANTS
  Requests = {r1, r2}
  Sizes = {2, 4}
  sr = 500000
  Junk = Junk
  MaxData = 3
  MaxSamples = 3
SYMMETRY Symmetry
INVARIANTS
  WindowsAreContiguous
  NoEdgeMissed
CHECK_DEADLOCK FALSE
