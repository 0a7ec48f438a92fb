\* Violation: a pod that is gone stays in Pods.
CONSTANTS
  PodNames = {p1}
  NodeNames = {n1}
  EdgeNodes = {n1}
  Main = main
  None = none
  NodeStreams = {"s"}
  MainStreams = {}
  SpecNamespaceSet = TRUE
  Faults = FALSE
  Events = {"deletePod"}
  MaxRestarts = 0
SPECIFICATION FairSpec
PROPERTY GonePodsForgotten
