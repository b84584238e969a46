\* Messages of up to 5 bytes, cut into fragments in every way.
SPECIFICATION Spec
CONSTANTS
  Bytes = {"a", "3", "4", "c"}
  MaxBytes = 5
INVARIANTS TextIsAccepted TextIsKept
