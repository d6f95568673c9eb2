CONSTANT Params <- MCParams
SPECIFICATION Spec
INVARIANTS RequiresMet EnsuresMet
CHECK_DEADLOCK FALSE
