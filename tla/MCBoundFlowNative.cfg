CONSTANT Params <- MCParams
SPECIFICATION Spec
INVARIANT InverseNttBounded
CHECK_DEADLOCK FALSE
