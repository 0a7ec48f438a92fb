\* Any call may fail, the pod and the Network may be deleted, and the process
\* is restarted once, at any point.
CONSTANTS
  PodNames = {p1}
  NodeNames = {n1, c1}
  EdgeNodes = {n1}
  Main = main
  None = none
  NodeStreams = {"s"}
  MainStreams = {"aggregate"}
  SpecNamespaceSet = TRUE
  Faults = TRUE
  Events = {"deletePod", "deleteNetwork"}
  MaxRestarts = 1
SPECIFICATION Spec
INVARIANTS TypeOK TrackedNodes TerminatingWereDeleted ActiveHasStreams
           SetupIsHeld SourcesHaveStreams
PROPERTIES LivePodStaysRecorded ImplementsParticipation
CHECK_DEADLOCK FALSE
