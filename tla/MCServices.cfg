CONSTANTS
  Names = {a, b}
  MaxBackups = 1
  MaxByHand = 2
  Closure <- ThreeVersions
  Inputs <- BuiltFrom
  Size <- Sizes
  Disk = 17
  Rate = 1
  Teardown = 1
  min_free = 5
  max_read_failures = 3
  MaxFaults = 5
  afterSeconds = 5
  intervalSeconds = 2
  accuracySeconds = 1
  DigSeconds = 1
  bootGrace = 1
  samples = 2
  sampleInterval = 1
  setupTimeout = 2
  MaxUptime = 12
  Never = Never
SPECIFICATION FairSpec
INVARIANT ReadsAtRest
INVARIANT OneGoalPerProcess
INVARIANT StoreNeverFull
INVARIANT OutageEndsInReboot
PROPERTY ComesBack
PROPERTY NewestIsBooted
PROPERTY RebootsAreEarned
CHECK_DEADLOCK FALSE
