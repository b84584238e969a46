\* A short fragment behind the start of a character.
SPECIFICATION Spec
CONSTANTS
  Bytes = {"a", "2", "c", "x"}
  MaxBytes = 4
INVARIANT OnlyTextIsDelivered
