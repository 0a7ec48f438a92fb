--------------------------- MODULE MCParticipants ---------------------------
(***************************************************************************)
(* Participants for TLC: o1 and o2 make one component join two networks,   *)
(* o3 makes another one join the second network.                           *)
(***************************************************************************)
EXTENDS Participants

CONSTANTS n1, n2, c1, c2, o1, o2, o3

MCNetworkOf == [o \in Resources |-> IF o = o1 THEN n1 ELSE n2]
MCComponentOf == [o \in Resources |-> IF o = o3 THEN c2 ELSE c1]

=============================================================================
