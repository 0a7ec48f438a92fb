---------------------------- MODULE MCJetStreams ----------------------------
(* Instances of JetStreams for TLC: a stream on every node, aggregates of    *)
(* it and standard streams, of which some have MaxAge -1.                    *)
EXTENDS JetStreams

Stream(name, location, link, maxAge, subjects) ==
  [name |-> name, location |-> location, link |-> link, maxAge |-> maxAge,
   subjects |-> subjects]

Year == [value |-> 1, unit |-> "y"]
MinusOne == [value |-> -1, unit |-> ""]

MCStreams ==
  <<Stream("data", "node", None, Year, {"sensor", Local}),
    Stream("command", "main", None, Empty, {"command"}),
    Stream("unlimited", "main", None, MinusOne, {"alarm"}),
    Stream("history", "main", "data", MinusOne, {}),
    Stream("all", "main", "data", Year, {})>>

=============================================================================
