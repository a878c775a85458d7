SPECIFICATION FairSpec
CONSTANTS
  r1 = r1
  r2 = r2
  r3 = r3
  Text = Text
  Blank = Blank
  Unended = Unended
  Requests = {r1, r2, r3}
  Body <- AcceptedBody
  MaxLength = 3
  ToRubyCapacity = 2
  ToCCapacity = 1
  Outcomes = {"ok", "error", "exit", "kill", "hang"}
  MayClose = FALSE
  MayFailInstall = TRUE
  MaxInterrupts = 0
  MayFailSpawn = TRUE
INVARIANTS
  SocketOfHolder
  EvaluatesWholeScript
  OwnExitCode
  TransactionInv
  DeathExplained
PROPERTIES
  AnswerReadBeforeNextTurn
  CallbackInvoked
  EndOfVMEndsHost
  RunsSerially
