SPECIFICATION Spec
CONSTANTS
  r1 = r1
  r2 = r2
  r3 = r3
  Text = Text
  Blank = Blank
  Unended = Unended
  Requests = {r1, r2, r3}
  Body <- AcceptedBody
  MaxLength = 3
  ToRubyCapacity = 2
  ToCCapacity = 1
  Outcomes = {"ok", "error"}
  MayClose = FALSE
  MayFailInstall = FALSE
  MaxInterrupts = 0
  MayFailSpawn = FALSE
INVARIANTS
  ExecutedInOrder
