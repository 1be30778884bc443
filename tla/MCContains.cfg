CONSTANTS
  NoValue = NoValue
  SchemaOf <- SchemaValue
  Schemas <- ContainsSchemas
  Jobs <- ContainsJobs
SPECIFICATION FairSpec
INVARIANTS
  VerdictExact
PROPERTIES
  Termination
