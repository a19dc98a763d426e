SPECIFICATION Spec
CHECK_DEADLOCK FALSE
CONSTANTS
  Callers = {"m1"}
  Names = {"a", "b"}
  TargetsOf <- BothTargets
  NoCommand = {}
  TokenFor <- TokensButOne
  Flaky = {}
  MapRaceFatal = TRUE
INVARIANTS
  CompleteUnlessTimedOut
