CONSTANTS
  Digits <- MCDigits
  MaxLen = 5
SPECIFICATION Spec
\* get_version is called once and returns or raises.
CHECK_DEADLOCK FALSE
INVARIANT
  GetVersionTotal
