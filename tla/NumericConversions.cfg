CONSTANTS
  Texts <- MCTexts
  Value <- MCValue
  Decimals = {"0", "1", "7", "9"}
  HexDigits = {"0", "1", "7", "9", "a", "F"}
  Blanks = {" "}
  LongMax = 31
  IntMax = 255
  MaxBodySize = 20
SPECIFICATION Spec
INVARIANT
  AcceptedIsMeant
CHECK_DEADLOCK FALSE
