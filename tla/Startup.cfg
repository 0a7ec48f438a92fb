\* A rollout: an old and a new instance, two disturbances at any point.
CONSTANTS
  old = old
  new = new
  Instances = {old, new}
  Version <- MCVersion
  Timeout = 2
  MaxReadings = 2
  MaxDisturbances = 2
SPECIFICATION FairSpec
INVARIANTS TypeOK StartedComplete
PROPERTIES StartLeavesItsManifests StartsAtLast
CHECK_DEADLOCK FALSE
