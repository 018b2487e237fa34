SPECIFICATION Spec
CONSTANT MaxLines = 7
INVARIANT LineIndexAlignment
INVARIANT MatchesReference
INVARIANT OpenCloseAlternate
CHECK_DEADLOCK FALSE
