\* Violation: a component that left its network keeps the credentials.
CONSTANTS
  n1 = n1
  n2 = n2
  c1 = c1
  c2 = c2
  o1 = o1
  o2 = o2
  o3 = o3
  NetworkNames = {n1}
  ComponentNames = {c1}
  None = none
  Resources = {o1}
  NetworkOf <- MCNetworkOf
  ComponentOf <- MCComponentOf
  Leaving = {o1}
  MaxTries = 5
  MaxDisturbances = 0
SPECIFICATION FairSpec
PROPERTY GoneParticipantForgotten
