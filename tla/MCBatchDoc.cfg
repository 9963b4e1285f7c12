SPECIFICATION Spec
CONSTANTS
  r1 = r1
  r2 = r2
  r3 = r3
  a = a
  b = b
  e = e
  Requests = {r1, r2}
  Streaming = {r1}
  Impatient = {r2}
  Prompt <- MCPrompt
  Space <- MCSpace
  MaxNew = 4
  Emitted = {b}
  Drafted = {a, b}
  TurnEnds = {e}
  NSlots = 2
  QueueSize = 2
  Context = 7
  BatchSize = 5
  Chunk = 2
  MaxDraft = 1
  PerSlot = 2
  Spacing = 1
  Kinds = {"trim"}
CHECK_DEADLOCK FALSE
INVARIANT ResidentIsCommitted
