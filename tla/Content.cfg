SPECIFICATION ContentSpec
CONSTANTS
  Sources = {"jvm", "native", "embedded"}
  MaxText = 3
  MaxLength = 6
INVARIANTS
  ContentTypeOK
  ArrivesWhenItSurvives
  RefusedOnlyWhenEmptied
  CutOrMangledNotBoth
  OutputOnTheJvm
CHECK_DEADLOCK FALSE
