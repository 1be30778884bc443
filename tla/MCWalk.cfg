CONSTANTS
  NoValue = NoValue
  SchemaOf <- SchemaValue
  Schemas <- WalkSchemas
  Jobs <- WalkJobs
SPECIFICATION Spec
INVARIANTS
  LayersBalanced
  HandlerInLayer
  VerdictExact
  AcceptedClean
  FlagsJustified
PROPERTIES
  NoFailureLost
  FinalStable
