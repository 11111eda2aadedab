SPECIFICATION SafeSpec
CONSTANTS
  Word = 8
  NumCpus = 2
  Sizes <- SmallSizes
  Rounds = 1
  MaxFailures = 0
INVARIANT GridDoneAtReturn
