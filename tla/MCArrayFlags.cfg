CONSTANTS
  NoValue = NoValue
  SchemaOf <- SchemaValue
  Schemas <- ArrayFlagSchemas
  Jobs <- ArrayFlagJobs
SPECIFICATION Spec
INVARIANTS
  FlagsJustified
