\* Byte values at both ends of the range and around the middle, with carries
\* out of the sum, and 122, which makes it 0 modulo 256; up to two damaged bytes.
CONSTANTS
  Bytes = {0, 1, 122, 127, 255}
  MaxDamaged = 2
SPECIFICATION FrameSpec
INVARIANTS
  WrongValueNeedsTwoErrors
  IntactAccepted
CHECK_DEADLOCK FALSE
