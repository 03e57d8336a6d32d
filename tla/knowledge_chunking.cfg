SPECIFICATION GrowSpec
CONSTANTS
  Lines <- MCLines
  MaxLines = 5
  CharsPerToken = 2
  TargetTokens = 5
  OverlapTokens = 1
  MinTokens = 2
  MaxTokens = 8
INVARIANTS NothingIsLost FiledUnderItsHeading
CHECK_DEADLOCK FALSE
