SPECIFICATION Spec
CONSTANTS
  Sources <- NestedFile
  MaxDepth = 2
INVARIANT ParserSeesSource
