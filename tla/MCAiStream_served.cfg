CONSTANTS
  s1 = s1  s2 = s2
  Streams = {s1, s2}
  Responses <- Answers
  Openings <- PromptOpenings
  Echoes <- PromptEchoes
  Users = {s1}
  NoText = NoText
  Attempts = 2
  MaxRestarts = 0
SPECIFICATION Spec
INVARIANTS OnlyCompletionsServed
CHECK_DEADLOCK FALSE
