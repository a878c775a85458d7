SPECIFICATION GlobalSpec
CONSTANTS
  c1 = c1
  c2 = c2
  c3 = c3
  i1 = i1
  i2 = i2
  Calls = {c1, c2, c3}
  Interpreters = {i1, i2}
  InterpreterOf <- Caller
  MaxFailures = 1
INVARIANTS
  SharedVMInv
  OneRubyVMUnlessOverlap
  UnstartedExplained
  ToldOnce
  CrashNeedsLostVM
CHECK_DEADLOCK FALSE
