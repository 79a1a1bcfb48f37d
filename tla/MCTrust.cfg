CONSTANTS
  Instants <- AllInstants
  Chains <- OddChains
  OptionSets <- AnyOptions
  Presented <- SomePresented
  Redirects <- SomeRedirects
  Reachable = {"v4", "v6"}
  Honest = {"ptb", "netnod", "honest"}
  Lies <- LiesTold
  Skew = 0
  Faults = TRUE
  StartTruth = 4
  MaxTruth = 5
  BootClocks <- SomeBoot
  MaxAnswers = 1
SPECIFICATION Spec
INVARIANT BothLegsVouch
INVARIANT AsksIndependentWitnesses
PROPERTY SetsOnlyVouchedTime
PROPERTY OneHonestOperatorBoundsTheError
PROPERTY StandsDownOnlyWhereTlsWorks
PROPERTY HealthyClockLeftAlone
