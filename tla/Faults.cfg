SPECIFICATION FairSpec
CONSTANTS
  r1 = r1
  r2 = r2
  r3 = r3
  Text = Text
  Blank = Blank
  Unended = Unended
  Requests = {r1, r2, r3}
  Body <- OversizeBody
  MaxLength = 2
  ToRubyCapacity = 3
  ToCCapacity = 2
  Outcomes = {"ok", "error", "exit"}
  MayClose = TRUE
  MayFailInstall = FALSE
  MaxInterrupts = 1
  MayFailSpawn = FALSE
INVARIANTS
  TypeOK
  NoInterleaving
  NeverEarly
PROPERTIES
  CallbackInvoked
CHECK_DEADLOCK FALSE
