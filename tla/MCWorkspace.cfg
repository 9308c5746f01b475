CONSTANTS
  Payloads <- SomePayloads
  Versions = {1, 2}
  MaxEvents = 2
  MaxStops = 2
SPECIFICATION Spec
INVARIANTS
  BootstrapMeansReady
  PassMeansCurrent
  FailedCheckExplained
PROPERTIES
  RefusalKeepsImage
