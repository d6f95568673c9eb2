CONSTANTS
  s1 = s1
  s2 = s2
  m0 = m0
  m1 = m1
  c0 = c0
  NoKey = NoKey
  Seeds <- MCSeeds
  Msgs <- MCMsgs
  ShortCtxs <- MCShortCtxs
  PctMsg <- m0
  PctCtx <- c0
  CRYPTO_BYTES = 3
  L = 7
  UINT16_MAX = 25
  PCT = TRUE
SPECIFICATION FairSpec
INVARIANTS TypeOK MaskFresh SiglenIsHonest VerifiedWasSigned OnlyExhaustionLeavesValues PctGate
PROPERTIES EveryCallReturns ImplementsApi
