\* Two pods come to an edge node, their status is updated at any time, and the
\* process is restarted once.
CONSTANTS
  PodNames = {p1, p2}
  NodeNames = {n1}
  EdgeNodes = {n1}
  Main = main
  None = none
  NodeStreams = {"s"}
  MainStreams = {"standard", "aggregate"}
  SpecNamespaceSet = TRUE
  Faults = FALSE
  Events = {"podStatus"}
  MaxRestarts = 1
SPECIFICATION FairSpec
INVARIANT StreamsBeforePods
PROPERTIES PodServed AggregateCatchesUp
