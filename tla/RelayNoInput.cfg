SPECIFICATION Spec
CONSTANTS
  Stdins <- AnyInput
  Stdouts <- OpenOutput
  PtyBuffer = 2
  MaxOutput = 4
  MaxTyped = 2
  Others = {"download"}
CHECK_DEADLOCK FALSE
PROPERTY OutputReachesCaller
