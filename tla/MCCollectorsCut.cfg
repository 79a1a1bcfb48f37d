CONSTANTS
  None = None
  Infinity = Infinity
  Garbage = Garbage
  Numbers = {"0", "1", "2"}
  MaxRejected = 1
  DohProviders <- TwoProviders
  Delay = 3
  Retry = 1
  PassSpan = 1
  PASS_GAP = 1
  Window = 4
  Behind = 2
  MaxTime = 7
  MaxUnsynced = 1
  MaxPasses = 3
  Ordinary <- OrdinaryHost
  Readings <- AllReadings
  MetricLines <- AllLines
  Sites <- SiteSet
  DeviceLines <- AllDeviceLines
SPECIFICATION Spec
INVARIANT CutCapturesAreRead
