CONSTANT MaxSamples = 1
SPECIFICATION FairSamplerSpec
INVARIANT WrapperLifetime
PROPERTY SamplerEndsAustin
CHECK_DEADLOCK FALSE
