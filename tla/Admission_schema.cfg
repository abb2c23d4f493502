SPECIFICATION Spec
CONSTANTS
  None = None
  AdmittedKinds = {"EventType"}
PROPERTY SchemaDataIsKept
