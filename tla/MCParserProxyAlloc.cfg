SPECIFICATION ProxySpec
CONSTANTS
  Sources <- WideFile
  MaxDepth = 1
  Indent = 1
  Asserts = {FALSE}
INVARIANT AllocationStandsAlone
