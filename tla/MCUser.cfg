SPECIFICATION Spec
CONSTANTS
  MAXARGS = 3
  NPROC = 6
  NOFILE = 6
  Lines <- MCLines
  Top = 6
  MinCore = 2
  Requests = {1, 3}
  Patterns <- MCPatterns
  Inputs <- MCInputs
  BUFSIZE = 4
CHECK_DEADLOCK FALSE
INVARIANTS
  ParserAgrees
  PromptMeansDone
  HeapPartitioned
  GrepPrints
PROPERTIES
  PromptReturns
