CONSTANTS
  Modes = {2, 3, 5}
SPECIFICATION KeySpec
INVARIANTS KeyTypeOK MatrixIsExpandA ShortIsExpandS UnpackedAsPacked
CHECK_DEADLOCK FALSE
