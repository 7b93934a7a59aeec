SPECIFICATION Spec
CONSTANTS
  PDs = {8, 125}
  Devices = {d1, d2}
  None = None
PROPERTY
  IdentityIsCurrent
