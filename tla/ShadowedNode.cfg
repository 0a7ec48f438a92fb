\* Violation: pods moved to Pods before their streams exist.
CONSTANTS
  PodNames = {p1, p2, p3}
  NodeNames = {n1, n2}
  EdgeNodes = {n1, n2}
  Main = main
  None = none
  NodeStreams = {"s"}
  MainStreams = {}
  SpecNamespaceSet = TRUE
  Faults = FALSE
  Events = {}
  MaxRestarts = 0
SPECIFICATION Spec
INVARIANT StreamsBeforePods
SYMMETRY PodSymmetry
