SPECIFICATION Spec
CONSTANTS
  Sources <- BracedFile
  MaxDepth = 1
INVARIANT ParticleIsTheBlock
