SPECIFICATION Spec
CONSTANTS
  tilt = tilt
  jets = jets
  ramp = ramp
  amode = amode
  flash = flash
  l1 = l1
  l2 = l2
  l3 = l3
  l4 = l4
  NONE = NONE
  Effects <- MCEffects
  Lamps <- MCLamps
  Lampset <- MCLampset
  Prio <- MCPrio
  NumGids = 3
  QuickLamps <- MCQuick
  MaxQuick = 2
INVARIANTS
  SharedOnlyWithQuick
  LostOnlyBetweenBalls
