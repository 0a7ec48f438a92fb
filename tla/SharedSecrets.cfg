\* A component joins two networks; one of them goes, with both of its secrets.
\* There is one restart, failure or other write at any point.
CONSTANTS
  n1 = n1
  n2 = n2
  c1 = c1
  c2 = c2
  o1 = o1
  o2 = o2
  o3 = o3
  NetworkNames = {n1, n2}
  ComponentNames = {c1}
  None = none
  Resources = {o1, o2}
  NetworkOf <- MCNetworkOf
  ComponentOf <- MCComponentOf
  Leaving = {n2}
  MaxTries = 2
  MaxDisturbances = 1
SPECIFICATION FairSpec
INVARIANT SecretsGoWithNetwork
PROPERTY ParticipantServed
