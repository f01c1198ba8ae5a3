CONSTANTS
  s1 = s1  s2 = s2
  Streams = {s1, s2}
  Responses <- Answers
  Openings <- PromptOpenings
  Echoes <- PromptEchoes
  Users = {s1}
  NoText = NoText
  Attempts = 2
  MaxRestarts = 1
SPECIFICATION Spec
INVARIANTS TypeOK EventsInOrder DoneIsWhatWasShown NoEcho NoFragmentCached
CHECK_DEADLOCK FALSE
PROPERTIES EveryStreamEnds
