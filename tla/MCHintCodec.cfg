CONSTANTS
  K = 2
  N = 5
  OMEGA = 3
SPECIFICATION Spec
INVARIANTS TypeOK PackEncodes UnpackExact
CHECK_DEADLOCK FALSE
