SPECIFICATION ContentSpec
CONSTANTS
  Sources = {"native"}
  MaxText = 2
  MaxLength = 6
INVARIANT
  ScriptIsTheSource
CHECK_DEADLOCK FALSE
