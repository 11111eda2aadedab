SPECIFICATION Spec
CONSTANTS
  p1 = p1
  p2 = p2
  s1 = s1
  s2 = s2
  c1 = c1
  c2 = c2
  Null = Null
  Particles = {p1, p2}
  Shareds = {s1, s2}
  SysCpus = 2
  Callers <- TwoCallers
  Warm = {TRUE, FALSE}
  Builds = {TRUE, FALSE}
  MaxCalls = 3
SYMMETRY Symmetry
INVARIANTS TypeOK CpusKnownBeforeDivide FiresWhatWasSet SetIsNotUndone NeverFiresNull
