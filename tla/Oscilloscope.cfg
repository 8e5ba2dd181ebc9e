\* Two windows of no or two samples: 1 or 4 us at 500 kHz.
SPECIFICATION FairSpec
CONSTANTS
  Requests = {r1, r2}
  Sizes = {1, 4}
  sr = 500000
  Junk = Junk
  MaxData = 3
INVARIANTS
  TypeOK
  RequestsConserved
  OnlyFullWindowsLeave
  NoLostWakeup
  LocksAreReleased
  SamplerOutlivesFlusher
PROPERTIES
  FillingLeadsToCallback
  PendingWindowReleasesDestructor
  ImplementsService
