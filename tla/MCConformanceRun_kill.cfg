SPECIFICATION Spec
CONSTANTS
  ApiResource = {gateway, server}
INVARIANTS
  AlwaysRemovesStacks
CHECK_DEADLOCK FALSE
