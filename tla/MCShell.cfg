SPECIFICATION MCSpec
CONSTANTS
  Proc = {1, 2, 3, 4, 5}
  INPUT_BUF = 4
  CW = 8
  RXFIFO = 1
  Scripts <- Typed
  NFILE = 3
  NOFILE = 5
  Pipe = {1}
  PIPESIZE = 2
  PW = 4
  MAXARGS = 3
  BUF = 3
  MAXFILE = 3
  MaxLine = 5
CHECK_DEADLOCK FALSE
INVARIANTS InputAsEdited PipeInOrder DescriptorsCounted SleepersHaveReason RestsAtPrompt ParserMatchesGrammar
