SPECIFICATION ProxySpec
CONSTANTS
  Sources <- AllFiles
  MaxDepth = 1
  Indent = 1
  Asserts = {TRUE, FALSE}
INVARIANTS
  TypeOK ParserSeesSource ParticleEndsAtItsBrace UsesAreBlocks
  AcceptsTheGrammar ThreadNamesDiffer
  ParticlesGetThreads ParticlesAreMoved RestIsKept TextsInOrder LocksBracketTheBlock
  AbortsOnBracedBlocks
PROPERTY EveryFileIsParsed
