\* Violation: the end of a pod is never recorded.
CONSTANTS
  PodNames = {p1}
  NodeNames = {n1}
  EdgeNodes = {n1}
  Main = main
  None = none
  NodeStreams = {"s"}
  MainStreams = {}
  SpecNamespaceSet = TRUE
  Faults = FALSE
  Events = {"deletePod"}
  MaxRestarts = 0
SPECIFICATION FairSpec
PROPERTY TerminationRecorded
