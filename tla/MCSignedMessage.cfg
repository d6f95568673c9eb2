CONSTANTS
  t1 = t1
  t2 = t2
  Texts <- MCTexts
  CRYPTO_BYTES = 2
  MaxLen = 3
SPECIFICATION Spec
INVARIANTS TypeOK SignsTheMessage OpenDelivers FailedOpenReleasesNothing RoundTrip
