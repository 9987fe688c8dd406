SPECIFICATION MCSpec
CONSTANTS
  NoExtent = NoExtent
  Systems <- MCSystems
  ImagesOf <- MCImagesOf
  FrameWrap = 6
  Hosts <- MCHosts
  Builds <- MCBuilds
  LogicalProcessorLimit = 7
  CountLimit = 16
  InvalidCacheIndex = 11
  EfficiencyClassLimit = 2
  NanosecondsPerSecond = 20
  WordLimit = 128
  Frequency10Mhz = 10
  Frequency24Mhz = 12
  Numerator24Mhz = 5
  Denominator24Mhz = 3
  DueTimeUnit = 3
  MaxDelta = 5
  Clocks <- MCClocks
  SleepDurations <- MCSleepDurations
  Uptime = 9
  FactorDenominator = 3
  Factors <- MCFactors
  RealDeltas = {1, 2}
  ElapsedLimit = 3
INVARIANTS
  TooManyProcessorsAreUnknown
CHECK_DEADLOCK FALSE
