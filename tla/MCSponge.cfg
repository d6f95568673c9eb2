CONSTANTS
  Rate = 4
  HashBytes = 3
  MaxIn = 13
  MaxOut = 10
SPECIFICATION Spec
INVARIANTS TypeOK PaddedMessage OutputStream
