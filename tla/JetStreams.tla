----------------------------- MODULE JetStreams -----------------------------
(***************************************************************************)
(* The JetStream client of anck, request by request, as the rounds of the  *)
(* network controller use it: createMainJetstreams, the creation of node   *)
(* streams in reconcileJetstreams, and deleteMainJetstreams.  A network    *)
(* has an account of its own, which holds no other streams.  Nodes join    *)
(* and leave, streams kept in memory get lost, and applications publish    *)
(* what the streams keep.                                                  *)
(***************************************************************************)
EXTENDS Integers, Sequences, FiniteSets, FiniteSetsExt

CONSTANTS NodeNames,        \* edge nodes, whose leaf-nats is a domain each
          Main,             \* the domain of the main cluster
          Network,          \* the name of the network
          Streams,          \* Spec.Streams, each with its subjects
          MaxTries,         \* attempts of retry.Do, 5 in reconcileJetstreams
          MaxMoves,         \* bound on the nodes that join or leave
          MaxMessages,      \* bound on the messages published
          MaxDisturbances   \* bound on failed requests and lost streams

None == "none"
Local == "local.>"          \* common.NatsDeniedExportTopics

\* A stream of Spec.Streams, with the subjects of its subject sets.
StreamSpec == [name : STRING, location : {"node", "main"}, link : STRING,
               maxAge : [value : Int, unit : STRING], subjects : SUBSET STRING]

ASSUME JetStreamsAssumption ==
  /\ Main \notin NodeNames
  /\ Streams \in Seq(StreamSpec)
  /\ \A i \in DOMAIN Streams :
       /\ IsFiniteSet(Streams[i].subjects)
       /\ \A j \in DOMAIN Streams : i # j =>
            /\ Streams[i].name # Streams[j].name
            /\ Streams[i].subjects \cap Streams[j].subjects = {}
  /\ MaxTries \in Nat \ {0}
  /\ {MaxMoves, MaxMessages, MaxDisturbances} \subseteq Nat

\* "main" stands for all nodes without the edge label.
Domains == NodeNames \cup {Main}

VARIABLES nodes,        \* Info.Participating.Nodes as stored
          deleting,     \* the Network is being deleted
          store,        \* the streams of each domain
          kept,         \* the messages in them
          pc, todo,     \* the worker's next request, and the streams of its loop
          dom, tries,   \* the domain of its loop and the attempt at it
          copy, current, \* its copy of Nodes, and whether its write is accepted
          pending,      \* the nodes it still has to look at
          dirty,        \* a node became active in the copy
          bad, cleared, \* an error was met; Delete succeeded in this round
          left,         \* the streams Delete has listed and not come to
          moves, messages, disturbances

workVars == <<pc, todo, dom, tries, copy, pending, dirty, bad, cleared, left>>
vars == <<nodes, deleting, store, kept, current, workVars, moves, messages,
          disturbances>>

Disturbance == /\ disturbances < MaxDisturbances
               /\ disturbances' = disturbances + 1

-----------------------------------------------------------------------------
(* Names, subjects and configurations.                                     *)

BareName(s) == <<s.name>>
FullName(name) == <<Network, name>>

\* The loops go over these, by their place in Streams.
NodeStreams == {i \in DOMAIN Streams : Streams[i].location = "node"}
Standard ==
  {i \in DOMAIN Streams : Streams[i].location = "main" /\ Streams[i].link = None}
Aggregates ==
  {i \in DOMAIN Streams : Streams[i].location = "main" /\ Streams[i].link # None}

\* A length of time is a number and a unit; the last character of a string
\* that ends in a digit is not a unit.  The result is in seconds.
Seconds == [s |-> 1, m |-> 60, h |-> 3600, d |-> 24 * 3600,
            w |-> 7 * 24 * 3600, M |-> 30 * 24 * 3600, y |-> 365 * 24 * 3600]

Empty == [value |-> 0, unit |-> ""]

parseDurationString(age) ==
  IF age = Empty THEN [ok |-> TRUE, dur |-> 0]
  ELSE IF age.unit \in DOMAIN Seconds
         THEN [ok |-> TRUE, dur |-> age.value * Seconds[age.unit]]
         ELSE [ok |-> FALSE, dur |-> 0]

\* Mutant of DomainSubjects: no prefix.
PlainSubjects(d, subjects) == {[prefix |-> "", name |-> s] : s \in subjects}

\* The subjects of a stream in domain d.
DomainSubjects(d, subjects) ==
  {[prefix |-> IF s = Local THEN "" ELSE d, name |-> s] : s \in subjects}

\* createJetstreamConfig rejects a stream without subjects, unless it is an
\* aggregate, and settings it does not know.
Accepted(s) ==
  /\ s.link = None => s.subjects # {}
  /\ parseDurationString(s.maxAge).ok

createJetstreamConfig(d, s, sources) ==
  [name |-> FullName(s.name),
   subjects |-> IF s.link = None THEN DomainSubjects(d, s.subjects) ELSE {},
   maxAge |-> parseDurationString(s.maxAge).dur,
   sources |-> sources]

Sources(s, domains) == [name : {FullName(s.link)}, domain : domains]

SliceDiff(s, t) == (s \ t) \cup (t \ s)

\* Mutant of SliceEqual: only the lengths are compared.
SliceSameLength(s, t) == Cardinality(s) = Cardinality(t)

SliceEqual(s, t) == Cardinality(s) = Cardinality(t) /\ SliceDiff(s, t) = {}

Names(d) == {x.name : x \in store[d]}

Subjects == UNION {Streams[i].subjects : i \in DOMAIN Streams}
StreamNames == {FullName(Streams[i].name) : i \in DOMAIN Streams}
PrefixedSubjects == [prefix : Domains \cup {""}, name : Subjects]

StreamConfigs ==
  [name : StreamNames,
   subjects : SUBSET PrefixedSubjects,
   maxAge : Int,
   sources : SUBSET [name : {FullName(Streams[i].link) : i \in DOMAIN Streams},
                     domain : Domains]]

\* A message in a stream, and the domain it came from.
Entries(ids) == [domain : Domains, name : StreamNames,
                 msg : [id : ids, subject : PrefixedSubjects], from : Domains]

\* LoadOrNewStreamFromDefault: a stream that exists is left as it is.
LoadOrNew(d, config) ==
  IF config.name \in Names(d) THEN store
                              ELSE [store EXCEPT ![d] = @ \cup {config}]

\* The server removes the messages of a stream with it.
Without(d, name) ==
  /\ store' = [store EXCEPT ![d] = {x \in @ : x.name # name}]
  /\ kept' = {k \in kept : ~(k.domain = d /\ k.name = name)}

-----------------------------------------------------------------------------

TypeOK ==
  /\ nodes \in [Domains -> {"none", "pending", "active"}]
  /\ deleting \in BOOLEAN
  /\ store \in [Domains -> SUBSET StreamConfigs]
  /\ kept \subseteq Entries(1..MaxMessages)
  /\ pc \in {"idle", "standard", "standardCreate", "aggregate",
             "aggregateCreate", "aggregateLoad", "aggregateUpdate", "nodes",
             "node", "nodeCreate", "list", "delete", "gone"}
  /\ \/ todo \subseteq Standard \/ todo \subseteq Aggregates
     \/ todo \subseteq NodeStreams
  /\ dom \in Domains
  /\ tries \in 0..MaxTries
  /\ copy \in [Domains -> {"none", "pending", "active"}]
  /\ pending \subseteq Domains
  /\ {current, dirty, bad, cleared} \subseteq BOOLEAN
  /\ left \subseteq StreamNames
  /\ moves \in 0..MaxMoves
  /\ messages \in 0..MaxMessages
  /\ disturbances \in 0..MaxDisturbances

Init ==
  /\ nodes = [d \in Domains |-> "none"]
  /\ deleting = FALSE
  /\ store = [d \in Domains |-> {}]
  /\ kept = {}
  /\ pc = "idle"
  /\ todo = {}
  /\ dom = Main
  /\ tries = 0
  /\ copy = nodes
  /\ current = FALSE
  /\ pending = {}
  /\ dirty = FALSE
  /\ bad = FALSE
  /\ cleared = FALSE
  /\ left = {}
  /\ moves = 0
  /\ messages = 0
  /\ disturbances = 0

\* What a request to JetStream leaves alone.
CallUnchanged ==
  UNCHANGED <<nodes, deleting, copy, current, dirty, cleared, moves, messages>>

\* The stream whose turn it is, and those after it.
Turn == Streams[Min(todo)]
Rest == todo \ {Min(todo)}

\* The next request is pc for the streams rest.
Goto(where, rest) == pc' = where /\ todo' = rest

\* The next standard stream; the aggregate streams come after the last one.
StandardLoop(rest) ==
  IF rest = {} THEN Goto("aggregate", Aggregates) ELSE Goto("standard", rest)

\* A round on a copy of the Network, which later changes make stale.
RoundStart ==
  /\ pc = "idle"
  /\ copy' = nodes
  /\ current' = TRUE
  /\ pending' = {d \in Domains : nodes[d] = "pending"}
  /\ dirty' = FALSE
  /\ bad' = FALSE
  /\ cleared' = FALSE
  /\ IF deleting THEN Goto("list", {}) ELSE StandardLoop(Standard)
  /\ UNCHANGED <<nodes, deleting, store, kept, dom, tries, left, moves,
                 messages, disturbances>>

-----------------------------------------------------------------------------
(* createMainJetstreams.                                                   *)

mainUnchanged == <<kept, dom, tries, pending, bad, left>>

\* An error ends the loop over the standard streams, not the function.
StandardBreaks == Goto("aggregate", Aggregates)

\* Exists is asked for the bare name.
StandardExists ==
  /\ pc = "standard"
  /\ \/ /\ IF BareName(Turn) \in Names(Main)
             THEN StandardLoop(Rest)
             ELSE Goto("standardCreate", todo)
        /\ UNCHANGED disturbances
     \/ Disturbance /\ StandardBreaks
  /\ CallUnchanged /\ UNCHANGED <<store, mainUnchanged>>

StandardCreate ==
  /\ pc = "standardCreate"
  /\ LET s == Turn
         made == LoadOrNew(Main, createJetstreamConfig(Main, s, {}))
     IN  \/ /\ Accepted(s)
            /\ store' = made
            /\ StandardLoop(Rest)
            /\ UNCHANGED disturbances
         \/ ~Accepted(s) /\ StandardBreaks /\ UNCHANGED <<store, disturbances>>
         \/ /\ Accepted(s)
            /\ Disturbance
            /\ store' \in {store, made}
            /\ StandardBreaks
  /\ CallUnchanged /\ UNCHANGED mainUnchanged

\* The active nodes of the copy.
CurrentNodes == {d \in Domains : copy[d] = "active"}

NextAggregate == Goto("aggregate", Rest)

\* CreateAggregate up to Exists, which is asked for the full name.  No stream is
\* created that would have no source.
AggregateExists ==
  /\ pc = "aggregate"
  /\ todo # {}
  /\ LET s == Turn
     IN  \/ /\ Accepted(s)
            /\ CASE FullName(s.name) \in Names(Main) -> Goto("aggregateLoad", todo)
                 [] CurrentNodes = {} -> NextAggregate
                 [] OTHER -> Goto("aggregateCreate", todo)
            /\ UNCHANGED disturbances
         \/ ~Accepted(s) /\ NextAggregate /\ UNCHANGED disturbances
         \/ Accepted(s) /\ Disturbance /\ NextAggregate
  /\ CallUnchanged /\ UNCHANGED <<store, mainUnchanged>>

AggregateCreate ==
  /\ pc = "aggregateCreate"
  /\ NextAggregate
  /\ LET s == Turn
         made == LoadOrNew(Main,
                   createJetstreamConfig(Main, s, Sources(s, CurrentNodes)))
     IN  \/ store' = made /\ UNCHANGED disturbances
         \/ Disturbance /\ store' \in {store, made}
  /\ CallUnchanged /\ UNCHANGED mainUnchanged

\* UpdateSources up to SliceEqual.  That the stream is gone by now is no error.
AggregateLoad ==
  /\ pc = "aggregateLoad"
  /\ \/ /\ IF \E x \in store[Main] :
                /\ x.name = FullName(Turn.name)
                /\ ~SliceEqual(x.sources, Sources(Turn, CurrentNodes))
             THEN Goto("aggregateUpdate", todo)
             ELSE NextAggregate
        /\ UNCHANGED disturbances
     \/ Disturbance /\ NextAggregate
  /\ CallUnchanged /\ UNCHANGED <<store, mainUnchanged>>

AggregateUpdate ==
  /\ pc = "aggregateUpdate"
  /\ NextAggregate
  /\ LET s == Turn
         updated == [store EXCEPT ![Main] =
           {IF x.name = FullName(s.name)
              THEN [x EXCEPT !.sources = Sources(s, CurrentNodes)]
              ELSE x : x \in @}]
     IN  \/ store' = updated /\ UNCHANGED disturbances
         \/ Disturbance /\ store' \in {store, updated}
  /\ CallUnchanged /\ UNCHANGED mainUnchanged

AggregateEnd ==
  /\ pc = "aggregate"
  /\ todo = {}
  /\ Goto("nodes", {})
  /\ CallUnchanged /\ UNCHANGED <<store, mainUnchanged, disturbances>>

-----------------------------------------------------------------------------
(* The streams of a new node in reconcileJetstreams.                       *)

NodeStart(d) ==
  /\ pc = "nodes"
  /\ d \in pending
  /\ pending' = pending \ {d}
  /\ dom' = d
  /\ tries' = 1
  /\ bad' = FALSE
  /\ Goto("node", NodeStreams)
  /\ CallUnchanged /\ UNCHANGED <<store, kept, left, disturbances>>

\* Mutant of NodeFails: one attempt too many.
NodeFailsLate ==
  /\ bad' = TRUE
  /\ tries' = tries + 1
  /\ IF tries <= MaxTries THEN Goto("node", NodeStreams) ELSE Goto("nodes", {})

\* retry.Do starts the loop over the streams again; the error is not forgotten.
NodeFails ==
  /\ bad' = TRUE
  /\ IF tries < MaxTries
       THEN tries' = tries + 1 /\ Goto("node", NodeStreams)
       ELSE UNCHANGED tries /\ Goto("nodes", {})

NodeExists ==
  /\ pc = "node"
  /\ todo # {}
  /\ \/ /\ IF BareName(Turn) \in Names(dom)
             THEN Goto("node", Rest)
             ELSE Goto("nodeCreate", todo)
        /\ UNCHANGED <<tries, bad, disturbances>>
     \/ Disturbance /\ NodeFails
  /\ CallUnchanged /\ UNCHANGED <<store, kept, dom, pending, left>>

NodeCreate ==
  /\ pc = "nodeCreate"
  /\ LET s == Turn
         made == LoadOrNew(dom, createJetstreamConfig(dom, s, {}))
     IN  \/ /\ Accepted(s)
            /\ store' = made
            /\ Goto("node", Rest)
            /\ UNCHANGED <<tries, bad, disturbances>>
         \/ /\ NodeFails
            /\ IF Accepted(s)
                 THEN Disturbance /\ store' \in {store, made}
                 ELSE UNCHANGED <<store, disturbances>>
  /\ CallUnchanged /\ UNCHANGED <<kept, dom, pending, left>>

\* The node becomes active unless there was an error in any of the attempts.
NodeEnd ==
  /\ pc = "node"
  /\ todo = {}
  /\ copy' = IF bad THEN copy ELSE [copy EXCEPT ![dom] = "active"]
  /\ dirty' = (dirty \/ ~bad)
  /\ Goto("nodes", {})
  /\ UNCHANGED <<nodes, deleting, store, kept, dom, tries, current, pending,
                 bad, cleared, left, moves, messages, disturbances>>

\* Mutant of RoundEnd: nothing is requeued after a write.
RoundEndNoRequeue ==
  /\ pc = "nodes"
  /\ pending = {}
  /\ \/ current /\ nodes' = copy /\ Goto("gone", {})
     \/ ~current /\ UNCHANGED nodes /\ Goto("idle", {})
  /\ UNCHANGED <<deleting, store, kept, dom, tries, copy, current, pending,
                 dirty, bad, cleared, left, moves, messages, disturbances>>

\* The Network is written if a node became active, which is refused if the copy
\* is stale.  A Network without main streams is on its way out, any other gets
\* another round.
RoundEnd ==
  /\ pc = "nodes"
  /\ pending = {}
  /\ \/ /\ ~dirty \/ current
        /\ nodes' = IF dirty THEN copy ELSE nodes
        /\ Goto(IF cleared THEN "gone" ELSE "idle", {})
        /\ UNCHANGED disturbances
     \/ /\ dirty
        /\ IF current THEN Disturbance ELSE UNCHANGED disturbances
        /\ UNCHANGED nodes
        /\ Goto("idle", {})
  /\ UNCHANGED <<deleting, store, kept, dom, tries, copy, current, pending,
                 dirty, bad, cleared, left, moves, messages>>

-----------------------------------------------------------------------------
(* deleteMainJetstreams.                                                   *)

\* Delete lists all streams of the domain, whatever their names.  An error of
\* this request leaves the deletion to the next round.
DeleteList ==
  /\ pc = "list"
  /\ \/ /\ left' = Names(Main)
        /\ Goto("delete", {})
        /\ UNCHANGED disturbances
     \/ Disturbance /\ Goto("nodes", {}) /\ UNCHANGED left
  /\ CallUnchanged /\ UNCHANGED <<store, kept, dom, tries, pending, bad>>

\* Mutant of DeleteFailed: the flag is that of the last stream.
DeleteFailedLast(error) == bad' = error

\* The variable errors.
DeleteFailed(error) == bad' = (bad \/ error)

\* A stream that is no longer there is an error as well.
DeleteStream(name) ==
  /\ pc = "delete"
  /\ name \in left
  /\ left' = left \ {name}
  /\ \/ /\ Without(Main, name)
        /\ DeleteFailed(name \notin Names(Main))
        /\ UNCHANGED disturbances
     \/ /\ Disturbance
        /\ UNCHANGED <<store, kept>> \/ Without(Main, name)
        /\ DeleteFailed(TRUE)
  /\ CallUnchanged /\ UNCHANGED <<pc, todo, dom, tries, pending>>

DeleteEnd ==
  /\ pc = "delete"
  /\ left = {}
  /\ cleared' = ~bad
  /\ Goto("nodes", {})
  /\ UNCHANGED <<nodes, deleting, store, kept, dom, tries, copy, current,
                 pending, dirty, bad, left, moves, messages, disturbances>>

Worker ==
  \/ RoundStart
  \/ StandardExists \/ StandardCreate
  \/ AggregateExists \/ AggregateCreate \/ AggregateLoad \/ AggregateUpdate
  \/ AggregateEnd
  \/ \E d \in Domains : NodeStart(d)
  \/ NodeExists \/ NodeCreate \/ NodeEnd
  \/ RoundEnd
  \/ DeleteList
  \/ \E name \in left : DeleteStream(name)
  \/ DeleteEnd

-----------------------------------------------------------------------------
(* The nodes, the servers and the applications.                            *)

\* The first pod comes to a node, or the last one goes.
Move(d) ==
  /\ moves < MaxMoves
  /\ moves' = moves + 1
  /\ nodes' = [nodes EXCEPT ![d] = IF @ = "none" THEN "pending" ELSE "none"]
  /\ current' = FALSE
  /\ UNCHANGED <<deleting, store, kept, workVars, messages, disturbances>>

MarkDeleted ==
  /\ ~deleting
  /\ deleting' = TRUE
  /\ current' = FALSE
  /\ UNCHANGED <<nodes, store, kept, workVars, moves, messages, disturbances>>

\* A stream that was kept in memory ends with its server.
Lost(d) ==
  /\ Disturbance
  /\ \E name \in Names(d) : Without(d, name)
  /\ UNCHANGED <<nodes, deleting, current, workVars, moves, messages>>

\* An application in domain d publishes on subject s with a prefix, or without
\* one; a leaf may be disconnected from the others, and Local never leaves it.
Publish(d, prefix, s) ==
  /\ messages < MaxMessages
  /\ messages' = messages + 1
  /\ LET subject == [prefix |-> prefix, name |-> s]
         msg == [id |-> messages', subject |-> subject]
         connected == IF prefix = "" /\ s = Local THEN {d} ELSE Domains
     IN  \E reached \in {{d}, connected} :
           kept' = kept \cup UNION {
             {[domain |-> x, name |-> y.name, msg |-> msg, from |-> x] :
                y \in {z \in store[x] : subject \in z.subjects}} : x \in reached}
  /\ UNCHANGED <<nodes, deleting, store, current, workVars, moves, disturbances>>

\* An aggregate stream gets a message from one of its sources.
Pull ==
  /\ \E x \in store[Main] : \E src \in x.sources, k \in kept :
       LET new == [domain |-> Main, name |-> x.name, msg |-> k.msg,
                   from |-> src.domain]
       IN  /\ k.domain = src.domain /\ k.name = src.name
           /\ new \notin kept
           /\ kept' = kept \cup {new}
  /\ UNCHANGED <<nodes, deleting, store, current, workVars, moves, messages,
                 disturbances>>

Next ==
  \/ Worker
  \/ \E d \in Domains : Move(d) \/ Lost(d)
  \/ MarkDeleted
  \/ \E d \in Domains, prefix \in Domains \cup {""}, s \in Subjects :
       Publish(d, prefix, s)
  \/ Pull

Spec == Init /\ [][Next]_vars

\* The worker runs: each round ends with a requeue.
FairSpec == Spec /\ WF_vars(Worker)

-----------------------------------------------------------------------------
(* Properties.                                                             *)

\* No crosstalk: a message is kept once, although all nodes have the same
\* streams and all leaf-nats are connected, and an aggregate stream has it from
\* one of its sources only.
KeptOnce ==
  \A k, l \in kept : k.msg = l.msg /\ k.name = l.name => k = l

\* Delete reports success only if no stream of the domain is left, whichever of
\* the deletions failed.
DeleteClears == [][cleared' /\ ~cleared => store'[Main] = {}]_vars

\* The streams of the main domain that can be there: those whose settings are
\* accepted and, since an error ends the loop, that no other standard stream
\* comes before whose settings are not.
Possible(i) ==
  /\ Streams[i].location = "main"
  /\ Accepted(Streams[i])
  /\ Streams[i].link = None =>
       \A j \in Standard : j <= i => Accepted(Streams[j])

\* Standard streams end up in the main domain, and come back after a server
\* lost them; failed requests and settings that are not accepted hold up no
\* more than the round or the loop they are in.
StandardStreamsMade ==
  \A i \in DOMAIN Streams :
    Possible(i) /\ Streams[i].link = None
      => <>[](deleting \/ FullName(Streams[i].name) \in Names(Main))

\* An aggregate stream ends up with the active nodes as its sources, however
\* nodes have come and gone.
AggregatesFollow ==
  \A i \in DOMAIN Streams :
    Possible(i) /\ Streams[i].link # None
      => <>[](LET active == {d \in Domains : nodes[d] = "active"}
              IN  \/ deleting
                  \/ active = {}
                  \/ \E x \in store[Main] :
                       /\ x.name = FullName(Streams[i].name)
                       /\ x.sources = Sources(Streams[i], active))

=============================================================================
