\* Bytes of one, two and three decimal digits, with and without hex letters.
\* Inputs grow up to the bounds, where they stop.
CONSTANTS
  WordModulus = 256
  Behind = 255
  Numbers <- SomeNumbers
  Bytes = {0, 10, 99, 171, 255}
  MaxBytes = 6
  MaxOptions = 4
SPECIFICATION Spec
INVARIANTS AddressesReadBack ChecksumsVerify  OptionsRead
CHECK_DEADLOCK FALSE
