CONSTANT MaxSamples = 1
SPECIFICATION SamplerSpec
INVARIANT StopTerminatesAustin
CHECK_DEADLOCK FALSE
