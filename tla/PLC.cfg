SPECIFICATION Spec
CONSTANTS
  ByteBits = 2
  Variables <- VariableNames
  TypeOf <- VariableTypes
  Start <- StartValues
  Outputs = {"b", "s"}
  Pitfalls = {}
INVARIANTS
  RegisterOK
  InstructionsRight
