SPECIFICATION Spec
CONSTANTS
  Cars = {"a", "b"}
  Classes = {"gt", "lmp"}
  ClassOf <- MCClassOf
  MaxLap = 2
  MaxStates = 2
  MaxMaps = 3
  MaxMix = 3
  MaxSwitch = 1
  Callers = {"x", "y"}
  SnapshotGap = 1
CHECK_DEADLOCK FALSE
INVARIANTS
  TypeOK
  InfosAttached
  SnapshotsSpaced
  SnapshotSession
PROPERTIES
  ReplaySpan
