CONSTANT MaxSamples = 1
SPECIFICATION FairSamplerSpec
INVARIANT SamplerInv
PROPERTIES StopReturns SilenceIsReported
CHECK_DEADLOCK FALSE
