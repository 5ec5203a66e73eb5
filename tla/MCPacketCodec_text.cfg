\* Violated: write(string) drops what it does not escape.
SPECIFICATION Spec
CONSTANTS
  Numbers <- SmallAndLarge
  Hostnames <- PlainHostnames
  ReadModulus = 65536
  NoAddress = NoAddress
INVARIANTS TextSurvives
CHECK_DEADLOCK FALSE
