CONSTANT MaxSamples = 1
SPECIFICATION SamplerSpec
INVARIANT HealthCheckSurvives
CHECK_DEADLOCK FALSE
