SPECIFICATION Spec
CONSTANT MaxTokens = 4
INVARIANT TrueIffValid
CHECK_DEADLOCK FALSE
