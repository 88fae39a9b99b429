SPECIFICATION Spec
CONSTANTS
  None = None
  NonUnicode = NonUnicode
  Ports <- MCPorts
  Inits = {i1, i2}
  Envs <- MCEnvs
  Edits <- MCEdits
  Operator = Operator
  Off = Off
SYMMETRY MCSymmetry
INVARIANTS
  TemplateIsNeutral AgreesWithLegacy
PROPERTIES
  NeverClobbers
