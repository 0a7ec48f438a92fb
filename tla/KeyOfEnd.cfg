\* Violation: the end of a pod on a cloud node is recorded under another key
\* than its start.
CONSTANTS
  PodNames = {p1}
  NodeNames = {c1}
  EdgeNodes = {}
  Main = main
  None = none
  NodeStreams = {"s"}
  MainStreams = {}
  SpecNamespaceSet = TRUE
  Faults = FALSE
  Events = {"deletePod"}
  MaxRestarts = 0
SPECIFICATION Spec
INVARIANT TerminatingUnderItsDomain
