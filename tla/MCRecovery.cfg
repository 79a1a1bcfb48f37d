CONSTANTS
  Instants <- AllInstants
  Chains <- OddChains
  OptionSets <- LegOptions
  Presented <- LegPresented
  Redirects <- SomeRedirects
  Reachable = {"v6"}
  Honest = {"ptb", "netnod"}
  Lies <- LiesTold
  Skew = 0
  Faults = FALSE
  StartTruth = 4
  MaxTruth = 5
  BootClocks <- SomeBoot
  MaxAnswers = 1
SPECIFICATION FairSpec
PROPERTY HostRecovers
