CONSTANTS
  MLDSA_N = 6
  TAU = 4
  Rate = 3
  Head = 1
  MaxBytes = 9
SPECIFICATION ChallengeSpec
INVARIANTS ChallengeTypeOK InBall StreamInOrder
CHECK_DEADLOCK FALSE
