CONSTANT Samplers <- MCSamplers
SPECIFICATION Spec
INVARIANTS TypeOK SampledInOrder
CHECK_DEADLOCK FALSE
