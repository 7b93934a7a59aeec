SPECIFICATION Spec
CONSTANTS
  Roles = {"CP", "PD"}
  Addresses = {126, 127}
  BaudRates = {9600, 1}
  Caps = {"OsdpVersion"}
  Ops = {o1, o2}
  MaxCaps = 2
  MaxPds = 2
  None = None
INVARIANTS
  NoDanglingBox
  EveryBoxFreedOnce
  CapabilitiesFreedWhole
  ToldAsDescribed
  FilesServeTheirPd
\* an ended context takes no further step
CHECK_DEADLOCK FALSE
