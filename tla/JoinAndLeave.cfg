\* Two components join a network; one leaves, the network may go, and there is
\* one restart, failure or other write at any point.
CONSTANTS
  n1 = n1
  n2 = n2
  c1 = c1
  c2 = c2
  o1 = o1
  o2 = o2
  o3 = o3
  NetworkNames = {n2}
  ComponentNames = {c1, c2}
  None = none
  Resources = {o2, o3}
  NetworkOf <- MCNetworkOf
  ComponentOf <- MCComponentOf
  Leaving = {o2, n2}
  MaxTries = 2
  MaxDisturbances = 1
SPECIFICATION Spec
INVARIANTS TypeOK SecretsGoWithNetwork
PROPERTIES ListedStaysListed ImplementsMembership
