\* A comment opener four spaces in, which is no comment in CommonMark.
SPECIFICATION Spec
CONSTANTS
  Kinds = {"indentedOpen", "close", "ticks", "prose", "words"}
  MaxLines = 7
  MaxEdits = 1
INVARIANT ExecutableStaysExact
CHECK_DEADLOCK FALSE
