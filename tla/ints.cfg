SPECIFICATION Spec
CONSTANTS
  Widths = {2, 3}
  MaxLength = 2
  Included = {}
INVARIANT Represents
CHECK_DEADLOCK FALSE
