CONSTANTS
  Full = 3
  Interval = 5
  Duration = 2
  Injectors = {i1, i2}
  Handlers = {h}
  NoInjector = NoInjector
  Profiles <- MCProfiles
  Callers = {c1, c2}
  NoCaller = NoCaller
  Generators = {g1, g2}
  Banks = {b1, b2, b3}
  NoBank = NoBank
  Size = 2
  Settings <- MCSettings
  Nothing = Nothing
  Workers = {w1, w2}
  Series <- MCSeries
  SeriesLength = 6
SPECIFICATION Spec
SYMMETRY Interchangeable
INVARIANTS ErrorsHaveTheirShare WorkersStartAsTold BurstsAreFound
PROPERTIES BurstsOnSchedule ServesInTurn
