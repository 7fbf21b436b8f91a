CONSTANTS
  s1 = s1
  s2 = s2
  a = a
  b = b
  NoSession = NoSession
  Session = {s1, s2}
  Token = {a, b}
  Prompt <- Prompts
  ContextTokens = 3
  MaxTokens = 2
  EntryBytes = 2
  Config <- Configs
  MaxClock = 2
  MaxJobs = 3
SPECIFICATION Spec
INVARIANTS
  TypeOK
  CheckpointsFaithful
  WithinBudget
  OutputCountedOrFull
PROPERTIES
  ImplementsUncached
  FailureDiscards
CHECK_DEADLOCK FALSE
