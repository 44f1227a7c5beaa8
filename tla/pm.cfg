CONSTANTS
  MaxLen = 3
  Inputs <- AllInputs
  Fallback = Fallback
SPECIFICATION ResolveSpec
CHECK_DEADLOCK FALSE
INVARIANTS DocumentedPrecedence UsernameShape
