CONSTANTS
  Modes = {2, 3, 5}
  Raw <- MCRaw
  Short <- MCShort
  Masks <- MCMasks
  ShortProducts <- MCShortProducts
  KeyProducts <- MCKeyProducts
SPECIFICATION Spec
INVARIANTS TypeOK UnpackedIsPacked ChecksLowBits HintExact HintRecovers
CHECK_DEADLOCK FALSE
