\* Violation: a deletion that is never completed, although calls fail only for
\* some time.  A pod may come to a cloud node, whose domain is main.
CONSTANTS
  PodNames = {p1}
  NodeNames = {c1}
  EdgeNodes = {}
  Main = main
  None = none
  NodeStreams = {"s"}
  MainStreams = {"standard"}
  SpecNamespaceSet = TRUE
  Faults = TRUE
  Events = {"deleteNetwork"}
  MaxRestarts = 0
SPECIFICATION FairSpec
PROPERTY DeletionCompletes
CHECK_DEADLOCK FALSE
