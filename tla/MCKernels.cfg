CONSTANTS
  Memories <- MCMemories
  Blocks <- MCBlocks
  LAYERS = 3
  Pow <- MCPow
  Q = 17
  R = 1024
  QINV = 241
  F = 2
  MLD_INTT_BOUND = 9
  L = 2
  Zetas <- MCZetas
  ROOT = 3
  Polynomials <- MCPolynomials
  Entries <- MCEntries
  Inputs <- MCInputs
SPECIFICATION Spec
INVARIANTS RoundsFollowKeccak PermutesEach NttInBounds ProductIsNegacyclic FieldsInPlace
CHECK_DEADLOCK FALSE
