SPECIFICATION Spec
CONSTANT MaxTokens = 8
INVARIANT TypeOK
INVARIANT NeverEmpty
INVARIANT AcceptsFiles
INVARIANT GivesUpInTime
INVARIANT TreeIsPlaced
INVARIANT AcceptsGrammar
INVARIANT TreeIsText
CHECK_DEADLOCK FALSE
