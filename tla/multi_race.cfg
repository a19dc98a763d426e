SPECIFICATION FairSpec
CHECK_DEADLOCK FALSE
CONSTANTS
  Callers = {"m1", "m2", "m3"}
  Names = {"a", "b"}
  TargetsOf <- TwiceTheSame
  NoCommand = {"m3"}
  TokenFor <- TokensButOne
  Flaky = {"a"}
  MapRaceFatal = TRUE
INVARIANTS
  TypeOK
  AtMostOneAggregate
  AllInMeansSent
PROPERTIES
  AggregateHonest
  EveryMultiAnswered
