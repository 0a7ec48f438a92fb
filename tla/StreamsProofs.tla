--------------------------- MODULE StreamsProofs ----------------------------
(***************************************************************************)
(* Proofs about JetStreams, for any nodes, streams, messages and attempts, *)
(* and any number of moves and disturbances.                               *)
(***************************************************************************)
EXTENDS JetStreams, WellFoundedInduction, TLAPS

-----------------------------------------------------------------------------
(* The inductive invariant.                                                *)

\* A loop has streams of its kind to do; between the loops there are none.
LoopOK ==
  /\ pc \in {"standard", "standardCreate"} => todo \subseteq Standard
  /\ pc \in {"aggregate", "aggregateCreate", "aggregateLoad", "aggregateUpdate"}
       => todo \subseteq Aggregates
  /\ pc \in {"node", "nodeCreate"} => todo \subseteq NodeStreams
  /\ pc \in {"standard", "standardCreate", "aggregateCreate", "aggregateLoad",
             "aggregateUpdate", "nodeCreate"} => todo # {}
  /\ pc \in {"idle", "nodes", "list", "delete", "gone"} => todo = {}

\* x is the configuration of stream i in domain d.
MadeFrom(x, d, i) ==
  /\ x.name = FullName(Streams[i].name)
  /\ x.subjects = IF Streams[i].link = None
                    THEN DomainSubjects(d, Streams[i].subjects) ELSE {}
  /\ x.sources \subseteq Sources(Streams[i], Domains)
  /\ Streams[i].link = None => x.sources = {}

StoreOK ==
  \A d \in Domains : \A x \in store[d] : \E i \in DOMAIN Streams : MadeFrom(x, d, i)

\* Unless there was an error, what is left of the main streams is in the list.
DeleteOK == pc = "delete" /\ ~bad => Names(Main) \subseteq left

\* Stream i gets its messages from applications, or from a stream that does.
Direct(i) ==
  \/ Streams[i].link = None
  \/ \E j \in DOMAIN Streams : /\ Streams[j].name = Streams[i].link
                               /\ Streams[j].link = None

\* What is known of an entry of stream i.
EntryOf(k, i) ==
  /\ k.name = FullName(Streams[i].name)
  /\ Streams[i].link = None => k.from = k.domain
  /\ Streams[i].link # None => k.domain = Main
  /\ ~Direct(i) => k.from = Main

KeptOK ==
  /\ kept \subseteq Entries(1..messages)
  /\ \A k \in kept : \E i \in DOMAIN Streams : EntryOf(k, i)

\* A message has one home: all streams have it from the same domain, but for
\* the aggregates of aggregates, which have it from the main domain.
OneHome ==
  \A k, l \in kept : \A i, j \in DOMAIN Streams :
    /\ k.msg = l.msg
    /\ k.name = FullName(Streams[i].name) /\ Direct(i)
    /\ l.name = FullName(Streams[j].name) /\ Direct(j)
    => k.from = l.from

JInv ==
  /\ TypeOK
  /\ LoopOK
  /\ StoreOK
  /\ DeleteOK
  /\ KeptOK
  /\ OneHome

\* TypeOK by parts: the worker and the bounds, and the streams.
ControlOK ==
  /\ nodes \in [Domains -> {"none", "pending", "active"}]
  /\ pc \in {"idle", "standard", "standardCreate", "aggregate",
             "aggregateCreate", "aggregateLoad", "aggregateUpdate", "nodes",
             "node", "nodeCreate", "list", "delete", "gone"}
  /\ \/ todo \subseteq Standard \/ todo \subseteq Aggregates
     \/ todo \subseteq NodeStreams
  /\ dom \in Domains
  /\ tries \in 0..MaxTries
  /\ copy \in [Domains -> {"none", "pending", "active"}]
  /\ pending \subseteq Domains
  /\ left \subseteq StreamNames
  /\ moves \in 0..MaxMoves
  /\ disturbances \in 0..MaxDisturbances
  /\ LoopOK

FlagsOK == deleting \in BOOLEAN /\ {current, dirty, bad, cleared} \subseteq BOOLEAN

StreamsOK == store \in [Domains -> SUBSET StreamConfigs] /\ StoreOK

MessagesOK == messages \in 0..MaxMessages /\ KeptOK /\ OneHome

\* The parts are all of it.
LEMMA Parts ==
  JInv <=> ControlOK /\ FlagsOK /\ StreamsOK /\ MessagesOK /\ DeleteOK
<1>1. ASSUME MessagesOK PROVE kept \subseteq Entries(1..MaxMessages)
  BY <1>1, JetStreamsAssumption DEF MessagesOK, KeptOK, Entries
<1> QED
  BY <1>1 DEF JInv, TypeOK, ControlOK, FlagsOK, StreamsOK, MessagesOK

-----------------------------------------------------------------------------
(* The streams of the loops.                                               *)

\* A set of places has a first one.
LEMMA MinInSet ==
  ASSUME NEW T \in SUBSET Nat, T # {}
  PROVE  Min(T) \in T
<1> DEFINE R == OpToRel(<, Nat)
<1>1. \A x, y \in Nat : x < y => <<x, y>> \in R
  BY DEF OpToRel
<1>2. IsWellFoundedOn(R, Nat)
  BY NatLessThanWellFounded
<1> HIDE DEF R
<1>3. PICK x \in T : \A y \in T : ~(<<y, x>> \in R)
  BY <1>2, WFMin
<1>4. \A y \in T : ~(y < x)
  BY <1>1, <1>3
<1>5. \E z \in T : \A y \in T : z <= y
  BY <1>4
<1> QED
  BY <1>5 DEF Min

\* The stream whose turn it is is one of those to do.
LEMMA TurnInTodo ==
  ASSUME ControlOK, todo # {}
  PROVE  /\ \E i \in todo : i \in DOMAIN Streams /\ Turn = Streams[i]
         /\ Rest \subseteq todo
<1>1. DOMAIN Streams \subseteq Nat
  BY JetStreamsAssumption
<1>2. todo \subseteq DOMAIN Streams
  BY DEF ControlOK, Standard, Aggregates, NodeStreams
<1>3. Min(todo) \in todo
  BY <1>1, <1>2, MinInSet
<1> QED
  BY <1>2, <1>3 DEF Turn, Rest

\* What createJetstreamConfig makes of stream i for domain d.
LEMMA ConfigMade ==
  ASSUME NEW d \in Domains, NEW i \in DOMAIN Streams,
         NEW S \in SUBSET Sources(Streams[i], Domains),
         Streams[i].link = None => S = {}
  PROVE  /\ createJetstreamConfig(d, Streams[i], S) \in StreamConfigs
         /\ MadeFrom(createJetstreamConfig(d, Streams[i], S), d, i)
<1> DEFINE s == Streams[i]
           x == createJetstreamConfig(d, s, S)
<1>1. s \in StreamSpec
  BY JetStreamsAssumption
<1>2. parseDurationString(s.maxAge).dur \in Int
  <2>1. s.maxAge.value \in Int
    BY <1>1 DEF StreamSpec
  <2>2. ASSUME s.maxAge.unit \in DOMAIN Seconds PROVE Seconds[s.maxAge.unit] \in Int
    BY <2>2 DEF Seconds
  <2> QED
    BY <2>1, <2>2 DEF parseDurationString
<1>3. DomainSubjects(d, s.subjects) \subseteq PrefixedSubjects
  <2>1. ASSUME NEW t \in s.subjects
        PROVE  [prefix |-> IF t = Local THEN "" ELSE d, name |-> t] \in PrefixedSubjects
    <3>1. t \in Subjects
      BY <2>1 DEF Subjects
    <3> QED
      BY <3>1 DEF PrefixedSubjects
  <2> QED
    BY <2>1 DEF DomainSubjects
<1>4. FullName(s.name) \in StreamNames
  BY DEF StreamNames
<1>5. S \subseteq [name : {FullName(Streams[j].link) : j \in DOMAIN Streams},
                   domain : Domains]
  BY DEF Sources
<1>6. x = [name |-> FullName(s.name),
           subjects |-> IF s.link = None THEN DomainSubjects(d, s.subjects) ELSE {},
           maxAge |-> parseDurationString(s.maxAge).dur,
           sources |-> S]
  BY DEF createJetstreamConfig
<1>7. x \in StreamConfigs
  BY <1>2, <1>3, <1>4, <1>5, <1>6 DEF StreamConfigs
<1>8. MadeFrom(x, d, i)
  BY <1>6 DEF MadeFrom
<1> QED
  BY <1>7, <1>8

\* A stream is made, unless there is one of its name.
LEMMA MakeKeepsStreams ==
  ASSUME StreamsOK, NEW d \in Domains, NEW i \in DOMAIN Streams,
         NEW S \in SUBSET Sources(Streams[i], Domains),
         Streams[i].link = None => S = {},
         store' \in {store, LoadOrNew(d, createJetstreamConfig(d, Streams[i], S))}
  PROVE  StreamsOK'
<1>1. PICK x : x = createJetstreamConfig(d, Streams[i], S)
  OBVIOUS
<1>2. x \in StreamConfigs /\ MadeFrom(x, d, i)
  BY <1>1, ConfigMade
<1>3. store' = store \/ store' = [store EXCEPT ![d] = @ \cup {x}]
  BY <1>1 DEF LoadOrNew
<1>4. store' \in [Domains -> SUBSET StreamConfigs]
  BY <1>2, <1>3 DEF StreamsOK
<1>5. \A e \in Domains : store'[e] \subseteq store[e] \cup (IF e = d THEN {x} ELSE {})
  BY <1>3 DEF StreamsOK
<1>6. StoreOK'
  BY <1>2, <1>5 DEF StreamsOK, StoreOK
<1> QED
  BY <1>4, <1>6 DEF StreamsOK

\* Streams and their messages are removed.
LEMMA RemovalKeepsStreams ==
  ASSUME StreamsOK, NEW d \in Domains, NEW name, Without(d, name)
  PROVE  /\ StreamsOK'
         /\ kept' \subseteq kept
         /\ \A e \in Domains : store'[e] \subseteq store[e]
         /\ name \notin {x.name : x \in store'[d]}
<1>1. /\ store' = [store EXCEPT ![d] = {x \in @ : x.name # name}]
      /\ kept' \subseteq kept
  BY DEF Without
<1>2. /\ store'[d] = {x \in store[d] : x.name # name}
      /\ \A e \in Domains : store'[e] \subseteq store[e]
      /\ store' \in [Domains -> SUBSET StreamConfigs]
  BY <1>1 DEF StreamsOK
<1>3. StoreOK'
  BY <1>2 DEF StreamsOK, StoreOK
<1> QED
  BY <1>1, <1>2, <1>3 DEF StreamsOK

\* Fewer messages, or none that are new.
LEMMA FewerMessages ==
  ASSUME MessagesOK, kept' \subseteq kept, UNCHANGED messages
  PROVE  MessagesOK'
  BY DEF MessagesOK, KeptOK, OneHome

\* A place in Streams is the only one of its name.
LEMMA NamesDiffer ==
  ASSUME NEW i \in DOMAIN Streams, NEW j \in DOMAIN Streams,
         FullName(Streams[i].name) = FullName(Streams[j].name)
  PROVE  i = j
<1>1. Streams[i].name = Streams[j].name
  BY DEF FullName
<1> QED
  BY <1>1, JetStreamsAssumption

-----------------------------------------------------------------------------
(* The control of the worker.                                              *)

\* The flags are Booleans.
LEMMA FlagsStay ==
  ASSUME FlagsOK, [Next]_vars
  PROVE  FlagsOK'
<1>1. deleting \in BOOLEAN /\ current \in BOOLEAN /\ dirty \in BOOLEAN
      /\ bad \in BOOLEAN /\ cleared \in BOOLEAN
  BY Zenon DEF FlagsOK
<1> USE DEF Next, Worker, RoundStart, StandardExists, StandardCreate, AggregateExists,
            AggregateCreate, AggregateLoad, AggregateUpdate, AggregateEnd, NodeStart,
            NodeExists, NodeCreate, NodeEnd, RoundEnd, DeleteList, DeleteStream, DeleteEnd,
            Move, MarkDeleted, Lost, Publish, Pull, vars,
            CallUnchanged, Goto, workVars, mainUnchanged
<1>2. deleting' \in BOOLEAN /\ current' \in BOOLEAN
  <2>1. UNCHANGED deleting \/ deleting' = TRUE
    OBVIOUS
  <2>2. UNCHANGED current \/ current' = TRUE \/ current' = FALSE
    OBVIOUS
  <2> QED
    BY <1>1, <2>1, <2>2, Zenon
<1>3. dirty' \in BOOLEAN /\ cleared' \in BOOLEAN
  <2>1. UNCHANGED dirty \/ dirty' = FALSE \/ dirty' = (dirty \/ ~bad)
    OBVIOUS
  <2>2. UNCHANGED cleared \/ cleared' = FALSE \/ cleared' = ~bad
    OBVIOUS
  <2> QED
    BY <1>1, <2>1, <2>2, Zenon
<1>4. bad' \in BOOLEAN
  <2>1. \/ UNCHANGED bad \/ bad' = FALSE \/ bad' = TRUE
        \/ \E name \in left : bad' = (bad \/ name \notin Names(Main))
        \/ bad' = (bad \/ TRUE)
    BY DEF NodeFails, DeleteFailed
  <2> QED
    BY <1>1, <2>1, Zenon
<1> QED
  BY <1>2, <1>3, <1>4, Zenon DEF FlagsOK

\* The number of disturbances stays within its bound.
LEMMA DisturbancesBound ==
  ASSUME ControlOK, Disturbance \/ UNCHANGED disturbances
  PROVE  disturbances' \in 0..MaxDisturbances
  BY JetStreamsAssumption DEF ControlOK, Disturbance

\* A request of the loops over the main streams.
LEMMA MainControl ==
  ASSUME ControlOK,
         \/ StandardExists \/ StandardCreate \/ AggregateExists \/ AggregateCreate
         \/ AggregateLoad \/ AggregateUpdate \/ AggregateEnd
  PROVE  ControlOK'
<1>1. /\ UNCHANGED <<nodes, copy, moves, dom, tries, pending, left>>
      /\ Disturbance \/ UNCHANGED disturbances
  BY DEF StandardExists, StandardCreate, AggregateExists, AggregateCreate, AggregateLoad,
         AggregateUpdate, AggregateEnd, CallUnchanged, mainUnchanged
<1>2. disturbances' \in 0..MaxDisturbances
  BY <1>1, DisturbancesBound
<1>3. ASSUME pc \in {"standard", "standardCreate", "aggregateCreate", "aggregateLoad",
                     "aggregateUpdate"} \/ todo # {}
      PROVE  Rest \subseteq todo /\ todo # {}
  BY <1>3, TurnInTodo DEF ControlOK, LoopOK
<1>4. CASE StandardExists \/ StandardCreate
  <2>1. /\ pc \in {"standard", "standardCreate"} /\ todo \subseteq Standard /\ todo # {}
        /\ Rest \subseteq Standard
    BY <1>3, <1>4 DEF StandardExists, StandardCreate, ControlOK, LoopOK
  <2>2. \/ StandardLoop(Rest) \/ StandardBreaks \/ Goto("standardCreate", todo)
    BY <1>4 DEF StandardExists, StandardCreate
  <2>3. \/ pc' = "aggregate" /\ todo' = Aggregates
        \/ pc' = "standard" /\ todo' = Rest /\ Rest # {}
        \/ pc' = "standardCreate" /\ todo' = todo
    BY <2>2 DEF StandardLoop, StandardBreaks, Goto
  <2> QED
    BY <1>1, <1>2, <2>1, <2>3 DEF ControlOK, LoopOK
<1>5. CASE AggregateExists \/ AggregateCreate \/ AggregateLoad \/ AggregateUpdate
  <2>1. todo # {} /\ todo \subseteq Aggregates /\ Rest \subseteq Aggregates
    BY <1>3, <1>5 DEF AggregateExists, AggregateCreate, AggregateLoad, AggregateUpdate,
                      ControlOK, LoopOK
  <2>2. \/ pc' = "aggregate" /\ todo' = Rest
        \/ pc' \in {"aggregateCreate", "aggregateLoad", "aggregateUpdate"} /\ todo' = todo
    BY <1>5 DEF AggregateExists, AggregateCreate, AggregateLoad, AggregateUpdate,
                NextAggregate, Goto
  <2> QED
    BY <1>1, <1>2, <2>1, <2>2 DEF ControlOK, LoopOK
<1>6. CASE AggregateEnd
  BY <1>1, <1>2, <1>6 DEF AggregateEnd, Goto, ControlOK, LoopOK
<1> QED
  BY <1>4, <1>5, <1>6

\* The loop over the nodes, and the streams of a new one.
LEMMA NodeControl ==
  ASSUME ControlOK,
         (\E d \in Domains : NodeStart(d)) \/ NodeExists \/ NodeCreate \/ NodeEnd
  PROVE  ControlOK'
<1>1. /\ UNCHANGED <<nodes, moves, left>>
      /\ Disturbance \/ UNCHANGED disturbances
  BY DEF NodeStart, NodeExists, NodeCreate, NodeEnd, CallUnchanged
<1>2. disturbances' \in 0..MaxDisturbances
  BY <1>1, DisturbancesBound
<1>3. ASSUME NEW d \in Domains, NodeStart(d)
      PROVE  ControlOK'
  BY <1>1, <1>2, <1>3, JetStreamsAssumption
     DEF NodeStart, Goto, CallUnchanged, ControlOK, LoopOK
<1>4. CASE NodeExists \/ NodeCreate
  <2>1. /\ todo # {} /\ todo \subseteq NodeStreams /\ Rest \subseteq NodeStreams
        /\ UNCHANGED <<copy, dom, pending>>
    BY <1>4, TurnInTodo DEF NodeExists, NodeCreate, CallUnchanged, ControlOK, LoopOK
  <2>2. \/ pc' = "node" /\ todo' \in {Rest, NodeStreams}
        \/ pc' = "nodeCreate" /\ todo' = todo
        \/ pc' = "nodes" /\ todo' = {}
    BY <1>4 DEF NodeExists, NodeCreate, NodeFails, Goto
  <2>3. tries' \in 0..MaxTries
    <3>1. UNCHANGED tries \/ (tries < MaxTries /\ tries' = tries + 1)
      BY <1>4 DEF NodeExists, NodeCreate, NodeFails
    <3> QED
      BY <3>1, JetStreamsAssumption DEF ControlOK
  <2> QED
    BY <1>1, <1>2, <2>1, <2>2, <2>3 DEF ControlOK, LoopOK
<1>5. CASE NodeEnd
  BY <1>1, <1>2, <1>5 DEF NodeEnd, Goto, ControlOK, LoopOK
<1> QED
  BY <1>3, <1>4, <1>5

\* The start and the end of a round, and Delete.
LEMMA RoundControl ==
  ASSUME ControlOK, StreamsOK,
         \/ RoundStart \/ RoundEnd \/ DeleteList \/ DeleteEnd
         \/ \E name \in left : DeleteStream(name)
  PROVE  ControlOK'
<1>1. /\ UNCHANGED <<moves, dom, tries>>
      /\ Disturbance \/ UNCHANGED disturbances
  BY DEF RoundStart, RoundEnd, DeleteList, DeleteEnd, DeleteStream, CallUnchanged
<1>2. disturbances' \in 0..MaxDisturbances
  BY <1>1, DisturbancesBound
<1>3. CASE RoundStart
  <2>1. \/ pc' = "list" /\ todo' = {}
        \/ pc' = "aggregate" /\ todo' = Aggregates
        \/ pc' = "standard" /\ todo' = Standard /\ Standard # {}
    BY <1>3 DEF RoundStart, StandardLoop, Goto
  <2> QED
    BY <1>1, <1>2, <1>3, <2>1 DEF RoundStart, ControlOK, LoopOK
<1>4. CASE RoundEnd
  <2>1. /\ pc' \in {"gone", "idle"} /\ todo' = {} /\ nodes' \in {copy, nodes}
        /\ UNCHANGED <<copy, pending, left>>
    BY <1>4 DEF RoundEnd, Goto
  <2> QED
    BY <1>1, <1>2, <2>1 DEF ControlOK, LoopOK
<1>5. CASE DeleteList \/ DeleteEnd
  <2>1. Names(Main) \subseteq StreamNames
    BY DEF StreamsOK, Names, StreamConfigs, Domains
  <2>2. /\ pc' \in {"delete", "nodes"} /\ todo' = {} /\ left' \in {Names(Main), left}
        /\ UNCHANGED <<nodes, copy, pending>>
    BY <1>5 DEF DeleteList, DeleteEnd, Goto, CallUnchanged
  <2> QED
    BY <1>1, <1>2, <2>1, <2>2 DEF ControlOK, LoopOK
<1>6. ASSUME NEW name \in left, DeleteStream(name)
      PROVE  ControlOK'
  BY <1>1, <1>2, <1>6 DEF DeleteStream, CallUnchanged, ControlOK, LoopOK
<1> QED
  BY <1>3, <1>4, <1>5, <1>6

-----------------------------------------------------------------------------
(* The streams.                                                            *)

\* What the worker makes and removes.
LEMMA WorkerStreams ==
  ASSUME ControlOK, StreamsOK, Worker
  PROVE  StreamsOK' /\ kept' \subseteq kept
<1>0. Main \in Domains /\ dom \in Domains
  BY DEF Domains, ControlOK
<1>1. CASE UNCHANGED <<store, kept>>
  BY <1>1 DEF StreamsOK, StoreOK
<1>2. ASSUME NEW d \in Domains, NEW S,
             todo # {}, S \subseteq Sources(Turn, Domains), Turn.link = None => S = {},
             store' \in {store, LoadOrNew(d, createJetstreamConfig(d, Turn, S))}
      PROVE  StreamsOK'
  <2>1. PICK i \in DOMAIN Streams : Turn = Streams[i]
    BY <1>2, TurnInTodo
  <2> QED
    BY <1>2, <2>1, MakeKeepsStreams
<1>3. CASE StandardCreate \/ NodeCreate
  <2>1. /\ todo # {} /\ UNCHANGED kept
        /\ \/ store' \in {store, LoadOrNew(Main, createJetstreamConfig(Main, Turn, {}))}
           \/ store' \in {store, LoadOrNew(dom, createJetstreamConfig(dom, Turn, {}))}
    BY <1>3 DEF StandardCreate, NodeCreate, mainUnchanged, ControlOK, LoopOK
  <2> QED
    BY <1>0, <1>2, <2>1
<1>4. CASE AggregateCreate
  <2>1. /\ todo # {} /\ todo \subseteq Aggregates /\ UNCHANGED kept
        /\ store' \in {store, LoadOrNew(Main,
                         createJetstreamConfig(Main, Turn, Sources(Turn, CurrentNodes)))}
    BY <1>4 DEF AggregateCreate, mainUnchanged, ControlOK, LoopOK
  <2>2. PICK i \in todo : Turn = Streams[i]
    BY <2>1, TurnInTodo
  <2>3. Turn.link # None /\ Sources(Turn, CurrentNodes) \subseteq Sources(Turn, Domains)
    BY <2>1, <2>2 DEF Aggregates, Sources, CurrentNodes
  <2> QED
    BY <1>0, <1>2, <2>1, <2>3
<1>5. CASE AggregateUpdate
  <2>1. todo # {} /\ todo \subseteq Aggregates /\ UNCHANGED kept
    BY <1>5 DEF AggregateUpdate, mainUnchanged, ControlOK, LoopOK
  <2>2. PICK i \in todo : Turn = Streams[i] /\ i \in DOMAIN Streams
    BY <2>1, TurnInTodo
  <2>3. PICK S : S = Sources(Turn, CurrentNodes)
    OBVIOUS
  <2>4. /\ Streams[i].link # None
        /\ S \subseteq Sources(Streams[i], Domains)
    BY <2>1, <2>2, <2>3 DEF Aggregates, Sources, CurrentNodes
  <2> DEFINE new(x) == IF x.name = FullName(Streams[i].name)
                         THEN [x EXCEPT !.sources = S] ELSE x
  <2>5. ASSUME NEW x \in store[Main]
        PROVE  /\ new(x) \in StreamConfigs
               /\ \E j \in DOMAIN Streams : MadeFrom(new(x), Main, j)
    <3>1. x \in StreamConfigs
      BY <1>0, <2>5 DEF StreamsOK
    <3>2. PICK j \in DOMAIN Streams : MadeFrom(x, Main, j)
      BY <1>0, <2>5 DEF StreamsOK, StoreOK
    <3>3. CASE x.name # FullName(Streams[i].name)
      BY <3>1, <3>2, <3>3
    <3>4. CASE x.name = FullName(Streams[i].name)
      <4>1. i = j
        BY <2>2, <3>2, <3>4, NamesDiffer DEF MadeFrom
      <4>2. new(x) = [name |-> x.name, subjects |-> x.subjects, maxAge |-> x.maxAge,
                      sources |-> S]
        BY <3>1, <3>4 DEF StreamConfigs
      <4>3. S \subseteq [name : {FullName(Streams[k].link) : k \in DOMAIN Streams},
                         domain : Domains]
        BY <2>2, <2>4 DEF Sources
      <4>4. new(x) \in StreamConfigs
        BY <3>1, <4>2, <4>3 DEF StreamConfigs
      <4>5. MadeFrom(new(x), Main, j)
        BY <2>4, <3>2, <4>1, <4>2 DEF MadeFrom
      <4> QED
        BY <4>4, <4>5
    <3> QED
      BY <3>3, <3>4
  <2>6. \/ store' = store
        \/ store' = [store EXCEPT ![Main] = {new(x) : x \in @}]
    BY <1>5, <2>2, <2>3 DEF AggregateUpdate
  <2> HIDE DEF new
  <2>7. CASE store' = [store EXCEPT ![Main] = {new(x) : x \in @}]
    <3>1. /\ store'[Main] = {new(x) : x \in store[Main]}
          /\ \A d \in Domains \ {Main} : store'[d] = store[d]
      BY <1>0, <2>7 DEF StreamsOK
    <3>2. store' \in [Domains -> SUBSET StreamConfigs]
      BY <1>0, <2>5, <2>7 DEF StreamsOK
    <3>3. StoreOK'
      BY <2>5, <3>1 DEF StreamsOK, StoreOK
    <3> QED
      BY <2>1, <3>2, <3>3 DEF StreamsOK
  <2> QED
    BY <1>1, <2>1, <2>6, <2>7
<1>6. ASSUME NEW name \in left, DeleteStream(name)
      PROVE  StreamsOK' /\ kept' \subseteq kept
  <2>1. UNCHANGED <<store, kept>> \/ Without(Main, name)
    BY <1>6 DEF DeleteStream
  <2> QED
    BY <1>0, <1>1, <2>1, RemovalKeepsStreams
<1>7. UNCHANGED kept => kept' \subseteq kept
  OBVIOUS
<1>8. \/ UNCHANGED <<store, kept>> \/ StandardCreate \/ NodeCreate
      \/ AggregateCreate \/ AggregateUpdate \/ \E name \in left : DeleteStream(name)
  BY DEF Worker, RoundStart, StandardExists, AggregateExists, AggregateLoad, AggregateEnd,
         NodeStart, NodeExists, NodeEnd, RoundEnd, DeleteList, DeleteEnd, mainUnchanged
<1> QED
  BY <1>1, <1>3, <1>4, <1>5, <1>6, <1>8

-----------------------------------------------------------------------------
(* The messages.                                                           *)

\* Whoever keeps a message that is published is in one domain: its subject names
\* the domain, or does not leave the one it is published in.
LEMMA PublishedAtHome ==
  ASSUME StreamsOK, NEW e \in Domains, NEW y \in store[e], NEW subject \in y.subjects
  PROVE  /\ subject.prefix = IF subject.name = Local THEN "" ELSE e
         /\ \E i \in DOMAIN Streams : /\ y.name = FullName(Streams[i].name)
                                      /\ Streams[i].link = None
<1>1. PICK i \in DOMAIN Streams : MadeFrom(y, e, i)
  BY DEF StreamsOK, StoreOK
<1>2. Streams[i].link = None
  BY <1>1 DEF MadeFrom
<1>3. subject \in DomainSubjects(e, Streams[i].subjects)
  BY <1>1, <1>2 DEF MadeFrom
<1>4. PICK t \in Streams[i].subjects :
        subject = [prefix |-> IF t = Local THEN "" ELSE e, name |-> t]
  BY <1>3, Zenon DEF DomainSubjects
<1>5. subject.prefix = IF subject.name = Local THEN "" ELSE e
  BY <1>4
<1> QED
  BY <1>1, <1>2, <1>5 DEF MadeFrom

\* The numbers of messages.
LEMMA NextNumber ==
  ASSUME NEW m, NEW n, m \in 0..MaxMessages, m < MaxMessages, n = m + 1
  PROVE  /\ m \in Nat /\ n \in 0..MaxMessages /\ n \in 1..n
         /\ 1..m \subseteq 1..n /\ n \notin 1..m
<1>1. MaxMessages \in Nat
  BY JetStreamsAssumption
<1> QED
  BY <1>1

\* A message is published.
LEMMA PublishKeepsMessages ==
  ASSUME StreamsOK, MessagesOK, NEW d \in Domains, NEW prefix \in Domains \cup {""},
         NEW s \in Subjects, Publish(d, prefix, s)
  PROVE  MessagesOK'
<1> DEFINE subject == [prefix |-> prefix, name |-> s]
           msg == [id |-> messages', subject |-> subject]
<1>0. messages < MaxMessages /\ messages' = messages + 1
  BY DEF Publish
<1>1. /\ messages' \in 0..MaxMessages /\ messages' \in 1..messages'
      /\ 1..messages \subseteq 1..messages' /\ messages' \notin 1..messages
  BY <1>0, NextNumber, Zenon DEF MessagesOK
<1>2. PICK reached \in {{d}, IF prefix = "" /\ s = Local THEN {d} ELSE Domains} :
        kept' = kept \cup UNION {
          {[domain |-> x, name |-> y.name, msg |-> msg, from |-> x] :
             y \in {z \in store[x] : subject \in z.subjects}} : x \in reached}
  BY Zenon DEF Publish
<1>3. reached \subseteq Domains /\ (prefix = "" /\ s = Local => reached = {d})
  BY <1>2
<1>4. ASSUME NEW k \in kept', k \notin kept
      PROVE  \E x \in reached : \E y \in store[x] :
               /\ subject \in y.subjects
               /\ k = [domain |-> x, name |-> y.name, msg |-> msg, from |-> x]
  <2>1. PICK x \in reached :
          k \in {[domain |-> x, name |-> y.name, msg |-> msg, from |-> x] :
                   y \in {z \in store[x] : subject \in z.subjects}}
    BY <1>2, <1>4, Zenon
  <2> QED
    BY <2>1, Zenon
<1>5. /\ subject \in PrefixedSubjects /\ subject.prefix = prefix /\ subject.name = s
      /\ msg.id = messages' /\ msg \in [id : 1..messages', subject : PrefixedSubjects]
  <2>1. subject \in PrefixedSubjects /\ subject.prefix = prefix /\ subject.name = s
    BY DEF PrefixedSubjects
  <2> HIDE DEF subject
  <2>2. msg.id = messages' /\ msg \in [id : 1..messages', subject : PrefixedSubjects]
    BY <1>1, <2>1
  <2> QED
    BY <2>1, <2>2
<1> HIDE DEF subject, msg
<1>6. PICK home : home = IF s = Local THEN d ELSE prefix
  OBVIOUS
<1>7. ASSUME NEW k \in kept', k \notin kept
      PROVE  /\ k \in Entries(1..messages')
             /\ k.msg = msg /\ k.from = home
             /\ \E i \in DOMAIN Streams : EntryOf(k, i)
  <2>0. PICK x \in reached : \E y \in store[x] :
          /\ subject \in y.subjects
          /\ k = [domain |-> x, name |-> y.name, msg |-> msg, from |-> x]
    BY <1>4, <1>7
  <2>1. PICK y \in store[x] :
          /\ subject \in y.subjects
          /\ k = [domain |-> x, name |-> y.name, msg |-> msg, from |-> x]
    BY <2>0
  <2>2. x \in Domains
    BY <1>3, <2>1
  <2>3. PICK i \in DOMAIN Streams : y.name = FullName(Streams[i].name)
                                    /\ Streams[i].link = None
    BY <2>1, <2>2, PublishedAtHome
  <2>4. x = home
    <3>1. prefix = IF s = Local THEN "" ELSE x
      BY <1>5, <2>1, <2>2, PublishedAtHome
    <3> QED
      BY <1>3, <1>6, <3>1
  <2>5. y.name \in StreamNames
    BY <2>3 DEF StreamNames
  <2>6. k \in Entries(1..messages')
    BY <1>5, <2>1, <2>2, <2>5 DEF Entries
  <2>7. EntryOf(k, i)
    BY <2>1, <2>3 DEF EntryOf, Direct
  <2> QED
    BY <2>1, <2>4, <2>6, <2>7
<1>8. ASSUME NEW k \in kept
      PROVE  k \in Entries(1..messages') /\ k.msg # msg
  <2>1. k \in Entries(1..messages)
    BY <1>8 DEF MessagesOK, KeptOK
  <2>2. /\ k.domain \in Domains /\ k.name \in StreamNames /\ k.from \in Domains
        /\ k.msg \in [id : 1..messages, subject : PrefixedSubjects]
    BY <2>1 DEF Entries
  <2>3. k.msg.id \in 1..messages
    BY <2>2
  <2>4. k.msg.id # msg.id
    BY <1>1, <1>5, <2>3
  <2>5. Entries(1..messages) \subseteq Entries(1..messages')
    BY <1>1 DEF Entries
  <2> QED
    BY <2>1, <2>4, <2>5
<1>9. KeptOK'
  <2>1. kept' \subseteq Entries(1..messages')
    BY <1>7, <1>8
  <2>2. ASSUME NEW k \in kept' PROVE \E i \in DOMAIN Streams : EntryOf(k, i)
    BY <1>7, <2>2 DEF MessagesOK, KeptOK
  <2> QED
    BY <2>1, <2>2 DEF KeptOK, EntryOf, Direct, Entries
<1>10. OneHome'
  <2>1. SUFFICES ASSUME NEW k \in kept', NEW l \in kept',
                        NEW i \in DOMAIN Streams, NEW j \in DOMAIN Streams,
                        k.msg = l.msg,
                        k.name = FullName(Streams[i].name), Direct(i),
                        l.name = FullName(Streams[j].name), Direct(j)
                 PROVE  k.from = l.from
    BY DEF OneHome, Direct
  <2>2. CASE k \in kept /\ l \in kept
    BY <2>1, <2>2 DEF MessagesOK, OneHome
  <2>3. CASE k \notin kept \/ l \notin kept
    BY <1>7, <1>8, <2>1, <2>3
  <2> QED
    BY <2>2, <2>3
<1> QED
  BY <1>1, <1>9, <1>10 DEF MessagesOK

\* An aggregate stream gets a message from a source.
LEMMA PullKeepsMessages ==
  ASSUME StreamsOK, MessagesOK, Pull
  PROVE  MessagesOK'
<1>0. Main \in Domains /\ UNCHANGED messages /\ KeptOK /\ OneHome
  BY DEF Domains, Pull, MessagesOK
<1> DEFINE pulled(x, src, k) ==
             /\ k.domain = src.domain /\ k.name = src.name
             /\ kept' = kept \cup {[domain |-> Main, name |-> x.name, msg |-> k.msg,
                                    from |-> src.domain]}
<1>a. PICK x \in store[Main] : \E src \in x.sources, k \in kept : pulled(x, src, k)
  BY DEF Pull
<1>1. PICK src \in x.sources, k \in kept : pulled(x, src, k)
  BY <1>a
<1>2. PICK new : new = [domain |-> Main, name |-> x.name, msg |-> k.msg,
                        from |-> k.domain]
  OBVIOUS
<1>3. kept' = kept \cup {new}
  BY <1>1, <1>2
<1>4. PICK i \in DOMAIN Streams : MadeFrom(x, Main, i)
  BY <1>0, <1>1 DEF StreamsOK, StoreOK
<1>5. /\ x.name = FullName(Streams[i].name) /\ Streams[i].link # None
      /\ k.name = FullName(Streams[i].link)
  BY <1>1, <1>4 DEF MadeFrom, Sources
<1>6. PICK j \in DOMAIN Streams : EntryOf(k, j)
  BY <1>0 DEF KeptOK
<1>7. Streams[j].name = Streams[i].link
  BY <1>5, <1>6 DEF EntryOf, FullName
<1>8. /\ k \in Entries(1..messages) /\ new \in Entries(1..messages)
      /\ new.name = FullName(Streams[i].name) /\ new.msg = k.msg
      /\ new.domain = Main /\ new.from = k.domain
  <2>1. k \in Entries(1..messages)
    BY <1>0 DEF KeptOK
  <2>2. x.name \in StreamNames
    BY <1>5 DEF StreamNames
  <2> QED
    BY <1>0, <1>2, <1>5, <2>1, <2>2 DEF Entries
<1>9. CASE Streams[j].link = None
  <2>1. Direct(i) /\ Direct(j) /\ new.from = k.from
    BY <1>6, <1>7, <1>8, <1>9 DEF Direct, EntryOf
  <2>2. EntryOf(new, i)
    BY <1>5, <1>8, <2>1 DEF EntryOf
  <2>3. KeptOK'
    BY <1>0, <1>3, <1>8, <2>2 DEF KeptOK
  <2>4. OneHome'
    BY <1>0, <1>3, <1>6, <1>8, <2>1 DEF OneHome, EntryOf
  <2> QED
    BY <1>0, <2>3, <2>4 DEF MessagesOK
<1>10. CASE Streams[j].link # None
  <2>1. ~Direct(i)
    BY <1>5, <1>7, <1>10, JetStreamsAssumption DEF Direct
  <2>2. EntryOf(new, i)
    BY <1>5, <1>6, <1>8, <1>10 DEF EntryOf
  <2>3. KeptOK'
    BY <1>0, <1>3, <1>8, <2>2 DEF KeptOK
  <2>4. \A h \in DOMAIN Streams : new.name = FullName(Streams[h].name) => ~Direct(h)
    BY <1>8, <2>1, NamesDiffer
  <2>5. OneHome'
    BY <1>0, <1>3, <2>4 DEF OneHome
  <2> QED
    BY <1>0, <2>3, <2>5 DEF MessagesOK
<1> QED
  BY <1>9, <1>10

-----------------------------------------------------------------------------
(* The list of Delete.                                                     *)

\* Fewer streams, and the worker elsewhere.
LEMMA FewerStreams ==
  ASSUME DeleteOK, store'[Main] \subseteq store[Main], UNCHANGED <<pc, bad, left>>
  PROVE  DeleteOK'
  BY DEF DeleteOK, Names

\* A stream is off the list when it is deleted, or the error is remembered.
LEMMA WorkerDeletes ==
  ASSUME FlagsOK, StreamsOK, DeleteOK, Worker
  PROVE  DeleteOK'
<1>1. CASE DeleteList
  BY <1>1 DEF DeleteList, Goto, DeleteOK, Names
<1>2. ASSUME NEW name \in left, DeleteStream(name)
      PROVE  DeleteOK'
  <2>1. pc = "delete" /\ left' = left \ {name}
    BY <1>2 DEF DeleteStream
  <2>2. CASE Without(Main, name) /\ DeleteFailed(name \notin Names(Main))
    <3>1. ASSUME ~bad' PROVE ~bad
      BY <2>2, <3>1, Zenon DEF DeleteFailed
    <3>2. Main \in Domains
      BY DEF Domains
    <3>3. store'[Main] \subseteq store[Main] /\ name \notin {x.name : x \in store'[Main]}
      BY <2>2, <3>2, RemovalKeepsStreams
    <3> QED
      BY <2>1, <3>1, <3>3 DEF DeleteOK, Names
  <2>3. CASE DeleteFailed(TRUE)
    <3>1. bad'
      BY <2>3, Zenon DEF DeleteFailed
    <3> QED
      BY <3>1 DEF DeleteOK
  <2> QED
    BY <1>2, <2>2, <2>3 DEF DeleteStream
<1>3. CASE ~DeleteList /\ ~(\E name \in left : DeleteStream(name))
  <2>1. pc' # "delete"
    BY <1>3 DEF Worker, RoundStart, StandardExists, StandardCreate, AggregateExists,
                AggregateCreate, AggregateLoad, AggregateUpdate, AggregateEnd, NodeStart,
                NodeExists, NodeCreate, NodeEnd, RoundEnd, DeleteEnd, StandardLoop,
                StandardBreaks, NextAggregate, NodeFails, Goto
  <2> QED
    BY <2>1 DEF DeleteOK
<1> QED
  BY <1>1, <1>2, <1>3

-----------------------------------------------------------------------------
(* The invariant.                                                          *)

\* It holds at the start.
LEMMA InitJInv == Init => JInv
<1> SUFFICES ASSUME Init PROVE JInv
  OBVIOUS
<1>1. /\ 0 \in 0..MaxTries /\ 0 \in 0..MaxMoves /\ 0 \in 0..MaxDisturbances
      /\ 0 \in 0..MaxMessages
  BY JetStreamsAssumption
<1>2. ControlOK
  BY <1>1 DEF Init, ControlOK, LoopOK, Domains
<1>3. FlagsOK
  BY DEF Init, FlagsOK
<1>4. StreamsOK
  BY DEF Init, StreamsOK, StoreOK
<1>5. MessagesOK
  BY <1>1 DEF Init, MessagesOK, KeptOK, OneHome
<1>6. DeleteOK
  BY DEF Init, DeleteOK
<1> QED
  BY <1>2, <1>3, <1>4, <1>5, <1>6, Parts

\* What the nodes, the servers and the applications do leaves the worker as it is.
LEMMA OutsideControl ==
  ASSUME ControlOK, UNCHANGED workVars,
         \/ \E d \in Domains : Move(d)
         \/ UNCHANGED <<nodes, moves>> /\ (Disturbance \/ UNCHANGED disturbances)
  PROVE  ControlOK'
<1>1. CASE UNCHANGED <<nodes, moves>> /\ (Disturbance \/ UNCHANGED disturbances)
  <2>1. disturbances' \in 0..MaxDisturbances
    BY <1>1, DisturbancesBound
  <2> QED
    BY <1>1, <2>1 DEF workVars, ControlOK, LoopOK
<1>2. ASSUME NEW d \in Domains, Move(d) PROVE ControlOK'
  <2>1. moves' \in 0..MaxMoves
    BY <1>2, JetStreamsAssumption DEF Move, ControlOK
  <2>2. nodes' \in [Domains -> {"none", "pending", "active"}]
    BY <1>2 DEF Move, ControlOK
  <2>3. UNCHANGED disturbances
    BY <1>2 DEF Move
  <2> QED
    BY <2>1, <2>2, <2>3 DEF workVars, ControlOK, LoopOK
<1> QED
  BY <1>1, <1>2

\* Each step keeps the invariant.
LEMMA NextJInv ==
  ASSUME JInv, [Next]_vars
  PROVE  JInv'
<1>1. ControlOK /\ FlagsOK /\ StreamsOK /\ MessagesOK /\ DeleteOK
  BY Parts
<1>2. FlagsOK'
  BY <1>1, FlagsStay
<1>3. SUFFICES ControlOK' /\ StreamsOK' /\ MessagesOK' /\ DeleteOK'
  <2>1. (ControlOK /\ FlagsOK /\ StreamsOK /\ MessagesOK /\ DeleteOK)' => JInv'
    BY Parts, PTL
  <2> QED
    BY <1>2, <1>3, <2>1
<1>4. CASE Worker
  <2>1. ControlOK'
    BY <1>1, <1>4, MainControl, NodeControl, RoundControl DEF Worker
  <2>2. StreamsOK' /\ kept' \subseteq kept
    BY <1>1, <1>4, WorkerStreams
  <2>3. UNCHANGED messages
    BY <1>4 DEF Worker, RoundStart, StandardExists, StandardCreate, AggregateExists,
                AggregateCreate, AggregateLoad, AggregateUpdate, AggregateEnd, NodeStart,
                NodeExists, NodeCreate, NodeEnd, RoundEnd, DeleteList, DeleteStream,
                DeleteEnd, CallUnchanged
  <2>4. MessagesOK'
    BY <1>1, <2>2, <2>3, FewerMessages
  <2>5. DeleteOK'
    BY <1>1, <1>4, WorkerDeletes
  <2> QED
    BY <2>1, <2>2, <2>4, <2>5
<1>5. ASSUME UNCHANGED workVars, UNCHANGED store,
             \/ \E d \in Domains : Move(d)
             \/ UNCHANGED <<nodes, moves>> /\ (Disturbance \/ UNCHANGED disturbances)
      PROVE  ControlOK' /\ StreamsOK' /\ DeleteOK'
  <2>1. ControlOK'
    BY <1>1, <1>5, OutsideControl
  <2>2. StreamsOK'
    BY <1>1, <1>5 DEF StreamsOK, StoreOK
  <2>3. DeleteOK'
    BY <1>1, <1>5 DEF workVars, DeleteOK, Names
  <2> QED
    BY <2>1, <2>2, <2>3
<1>6. CASE (\E d \in Domains : Move(d)) \/ MarkDeleted \/ UNCHANGED vars
  <2>1. /\ UNCHANGED workVars /\ UNCHANGED store /\ UNCHANGED <<kept, messages>>
        /\ \/ \E d \in Domains : Move(d)
           \/ UNCHANGED <<nodes, moves>> /\ (Disturbance \/ UNCHANGED disturbances)
    BY <1>6 DEF Move, MarkDeleted, vars
  <2>2. MessagesOK'
    BY <1>1, <2>1, FewerMessages
  <2> QED
    BY <1>5, <2>1, <2>2
<1>7. ASSUME NEW d \in Domains, Lost(d)
      PROVE  ControlOK' /\ StreamsOK' /\ MessagesOK' /\ DeleteOK'
  <2>1. /\ UNCHANGED workVars /\ UNCHANGED <<nodes, moves, messages>>
        /\ Disturbance /\ \E name \in Names(d) : Without(d, name)
    BY <1>7 DEF Lost
  <2>2. /\ StreamsOK' /\ kept' \subseteq kept
        /\ \A e \in Domains : store'[e] \subseteq store[e]
    BY <1>1, <2>1, RemovalKeepsStreams
  <2>3. ControlOK'
    BY <1>1, <2>1, OutsideControl
  <2>4. MessagesOK'
    BY <1>1, <2>1, <2>2, FewerMessages
  <2>5. DeleteOK'
    BY <1>1, <2>1, <2>2, FewerStreams DEF workVars, Domains
  <2> QED
    BY <2>2, <2>3, <2>4, <2>5
<1>8. ASSUME NEW d \in Domains, NEW prefix \in Domains \cup {""}, NEW s \in Subjects,
             Publish(d, prefix, s)
      PROVE  ControlOK' /\ StreamsOK' /\ MessagesOK' /\ DeleteOK'
  <2>1. UNCHANGED workVars /\ UNCHANGED store /\ UNCHANGED <<nodes, moves, disturbances>>
    BY <1>8 DEF Publish
  <2>2. MessagesOK'
    BY <1>1, <1>8, PublishKeepsMessages
  <2> QED
    BY <1>5, <2>1, <2>2
<1>9. CASE Pull
  <2>1. UNCHANGED workVars /\ UNCHANGED store /\ UNCHANGED <<nodes, moves, disturbances>>
    BY <1>9 DEF Pull
  <2>2. MessagesOK'
    BY <1>1, <1>9, PullKeepsMessages
  <2> QED
    BY <1>5, <2>1, <2>2
<1> QED
  BY <1>4, <1>6, <1>7, <1>8, <1>9 DEF Next

\* The invariant of the JetStream client: what exists was made from the spec of
\* the network, and where a message is kept says where it came from.
THEOREM StreamsInvariance == Spec => []JInv
<1>1. JInv /\ [Next]_vars => JInv'
  BY NextJInv
<1> QED
  BY InitJInv, <1>1, PTL DEF Spec

\* The variables have their types; among them, the retries of a node stay within
\* their number and every stream has a name, subjects and sources of the spec.
THEOREM StreamsTyped == Spec => []TypeOK
<1>1. JInv => TypeOK
  BY DEF JInv
<1> QED
  BY <1>1, StreamsInvariance, PTL

\* A message is kept once by the streams of a name, whatever nodes take part and
\* which leaves are connected: its subject names the domain that keeps it, and
\* an aggregate has it from that domain only.
THEOREM MessagesKeptOnce == Spec => []KeptOnce
<1>1. ASSUME JInv PROVE KeptOnce
  <2>1. SUFFICES ASSUME NEW k \in kept, NEW l \in kept, k.msg = l.msg, k.name = l.name
                 PROVE  k = l
    BY DEF KeptOnce
  <2>2. KeptOK /\ OneHome
    BY <1>1 DEF JInv
  <2>3. PICK i \in DOMAIN Streams : EntryOf(k, i)
    BY <2>2 DEF KeptOK
  <2>4. PICK j \in DOMAIN Streams : EntryOf(l, j)
    BY <2>2 DEF KeptOK
  <2>5. i = j
    BY <2>1, <2>3, <2>4, NamesDiffer DEF EntryOf
  <2>6. k.from = l.from
    BY <2>1, <2>2, <2>3, <2>4, <2>5 DEF OneHome, EntryOf
  <2>7. k.domain = l.domain
    BY <2>3, <2>4, <2>5, <2>6 DEF EntryOf
  <2> QED
    BY <2>1, <2>2, <2>6, <2>7 DEF KeptOK, Entries
<1> QED
  BY <1>1, StreamsInvariance, PTL

\* Delete reports success only when the main domain has no stream: an error of
\* one deletion is not forgotten in the next, and no stream is made meanwhile.
THEOREM DeleteReportsTrue == Spec => DeleteClears
<1>1. ASSUME JInv, [Next]_vars
      PROVE  cleared' /\ ~cleared => store'[Main] = {}
  <2>1. SUFFICES ASSUME cleared', ~cleared PROVE store'[Main] = {}
    OBVIOUS
  <2>2. DeleteEnd
    <3>1. DeleteEnd \/ UNCHANGED cleared \/ cleared' = FALSE
      BY <1>1 DEF Next, Worker, RoundStart, StandardExists, StandardCreate,
                  AggregateExists, AggregateCreate, AggregateLoad, AggregateUpdate,
                  AggregateEnd, NodeStart, NodeExists, NodeCreate, NodeEnd, RoundEnd,
                  DeleteList, DeleteStream, Move, MarkDeleted, Lost, Publish, Pull,
                  CallUnchanged, workVars, vars
    <3> QED
      BY <2>1, <3>1, Zenon
  <2>3. ~bad
    BY <2>1, <2>2, Zenon DEF DeleteEnd
  <2>4. Names(Main) = {} /\ UNCHANGED store
    BY <1>1, <2>2, <2>3 DEF DeleteEnd, JInv, DeleteOK
  <2> QED
    BY <2>4 DEF Names
<1>2. JInv /\ [Next]_vars => (cleared' /\ ~cleared => store'[Main] = {})
  BY <1>1
<1> QED
  BY <1>2, StreamsInvariance, PTL DEF Spec, DeleteClears

=============================================================================
