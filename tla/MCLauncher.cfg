SPECIFICATION LauncherSpec
CONSTANTS
  l1 = l1
  l2 = l2
  l3 = l3
  Launchers = {l1, l2, l3}
  Version <- Upgraded
  MaxKills = 1
  None = None
INVARIANT NothingIsLeft
PROPERTY NoOrphanOfInterrupt
