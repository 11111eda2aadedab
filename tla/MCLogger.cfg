SPECIFICATION Spec
CONSTANTS
  t1 = t1
  t2 = t2
  Threads <- TwoThreads
  Levels <- ErrAndL3
  Clocks <- ZeroOrNot
  Parts = 1
  MaxMessages = 2
  MaxChannels = 2
  MaxChanges = 2
SYMMETRY Symmetric
INVARIANT TypeOK
PROPERTIES EchoedInEveryChannel NoUseOfDeleted ElapsedOnlyOnceStarted
