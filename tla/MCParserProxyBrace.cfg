SPECIFICATION ProxySpec
CONSTANTS
  Sources <- PlainFile
  MaxDepth = 1
  Indent = 1
  Asserts = {FALSE}
INVARIANT UserBlockIsClosed
