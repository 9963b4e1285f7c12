SPECIFICATION FairSpec
CONSTANTS
  r1 = r1
  r2 = r2
  r3 = r3
  a = a
  b = b
  e = e
  Requests = {r1, r2, r3}
  Streaming = {r1}
  Impatient = {r2}
  Prompt <- MCPrompt
  Space <- MCSpace
  MaxNew = 4
  Emitted = {b}
  Drafted = {a, b}
  TurnEnds = {e}
  NSlots = 2
  QueueSize = 2
  Context = 7
  BatchSize = 2
  Chunk = 2
  MaxDraft = 1
  PerSlot = 2
  Spacing = 1
  Kinds = {"trim", "recurrent", "none"}
INVARIANTS TypeOK NobodyLost RecordsTrue GeneratesFromWhole Isolated FitsContext
PROPERTIES UndoneExactly EveryRequestAnswered
CHECK_DEADLOCK FALSE
