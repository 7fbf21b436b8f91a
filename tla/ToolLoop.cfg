SPECIFICATION Spec
CONSTANTS
  ToolLists <- MCToolLists
  ValidName <- MCValidName
  Outputs <- MCOutputs
  Written <- MCWritten
  MaxWritten = 4
  MaxRequests = 3
  Overrides <- MCOverrides
  ToolAware <- MCToolAware
  Requested <- MCRequested
  Words = Words
  Open = Open
  Close = Close
  NoId = NoId
  NoTemplate = NoTemplate
  Failed = Failed
  NoReply = NoReply
  Outside = Outside
INVARIANTS
  ValidatorExact
  RepliesAccepted
  MarkupWithheld
  OnlyOverridesDropCalls
CHECK_DEADLOCK FALSE
