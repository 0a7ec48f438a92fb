----------------------------- MODULE MCStartup -----------------------------
(* Instances of Startup for TLC: a pod of version 1 and one of version 2.  *)
EXTENDS Startup

CONSTANTS old, new

MCVersion == [i \in {old, new} |-> IF i = old THEN 1 ELSE 2]

=============================================================================
