SPECIFICATION ComposerSpec
CONSTANTS
  m1 = m1
  Metrics <- MCMetrics
  MaxTokens <- MCMaxTokens
INVARIANT SelectionInList
PROPERTY SelectionActedOnOnce
