------------------------ MODULE EndpointSlicesProofs ------------------------
(***************************************************************************)
(* Theorems about EndpointSlices, for any slices, nodes, configuration and *)
(* bounds.                                                                 *)
(***************************************************************************)
EXTENDS DumpEndpoints, EndpointSlicesRefinement, ReflectorProofs

\* The names of the clusters that the slices of a service have ports of.
NamesOf(svc) == ClusterNames(Slices(serverESs[svc]))

\* The store keeps slices under their name and service, and is through with
\* one call before it translates for the next.
StoreInv ==
    /\ reading => Told
    /\ serverESs \in [Services -> [Objects -> Contents \union {Gone}]]
    /\ \A svc \in Services, o \in Objects :
          serverESs[svc][o] # Gone =>
              serverESs[svc][o] \in ContentsOf[o] /\ serverESs[svc][o].service = svc

\* Everything that is served, or is about to be, belongs to slices that the
\* store keeps, and these have everything; nothing of theirs is about to be
\* deleted.
Accounted ==
    /\ \A svc \in Services : NamesOf(svc) \intersect doomed = {}
    /\ (DOMAIN resources \ doomed) \union DOMAIN fresh
       = UNION {NamesOf(svc) : svc \in Services}

-----------------------------------------------------------------------------
\* A cluster is that of one service.
LEMMA ClusterHasService ==
    ASSUME NEW slices, NEW svc, \A es \in slices : es.service = svc,
           NEW c \in ClusterNames(slices)
    PROVE  c[1] = svc
<1>1. PICK es \in slices :
          \E port \in NumberedPorts(es) : c = NameCluster(es.service, port)
    BY DEF ClusterNames
<1>2. c # None
    BY DEF ClusterNames
<1>3. \E rest : \E protocol : c = <<es.service, rest, protocol>>
    BY <1>1, <1>2, Zenon DEF NameCluster
<1> QED
    BY <1>1, <1>3

\* Every slice that has a port of a cluster gives it a load assignment.
LEMMA AssignedSeeing ==
    ASSUME NEW seen, NEW slices
    PROVE  DOMAIN LoadAssignmentsSeeing(seen, slices) = ClusterNames(slices)
BY DEF LoadAssignmentsSeeing

LEMMA Assigned ==
    ASSUME NEW nodeList, NEW slices
    PROVE  DOMAIN LoadAssignments(nodeList, slices) = ClusterNames(slices)
BY AssignedSeeing DEF LoadAssignments

LEMMA NamesHaveService ==
    ASSUME StoreInv, NEW svc \in Services, NEW c \in NamesOf(svc)
    PROVE  c[1] = svc
<1>1. \A es \in Slices(serverESs[svc]) : es.service = svc
    BY DEF StoreInv, Slices
<1> QED
    BY <1>1, ClusterHasService DEF NamesOf

\* Nodes change behind the store's back, and neither reflector notices.
LEMMA NextReflector == ReflectorInv /\ [Next]_vars => ReflectorInv'
<1> SUFFICES ASSUME ReflectorInv, [Next]_vars PROVE ReflectorInv'
    OBVIOUS
<1>1. CASE Replace
    BY <1>1, SyncedReflector DEF Replace
<1>2. ASSUME NEW node \in Nodes, NEW labels \in NodeLabels \union {None},
             ChangeNode(node, labels)
      PROVE  ReflectorInv'
  <2>1. changes' \in 0 .. MaxChanges
      BY <1>2, ReflectorAssumption DEF ChangeNode, ReflectorInv, ReflectorTypeOK
  <2> QED
      BY <1>2, <2>1, RestReflector DEF ChangeNode
<1>3. CASE UNCHANGED reflectorVars
    BY <1>3, RestReflector DEF reflectorVars, ReflectorInv, ReflectorTypeOK
<1> QED
    BY <1>1, <1>2, <1>3, ChangeReflector, ListReflector, ReceiveReflector,
       StartOverReflector
    DEF Next, Step, Begin, ChangeSlice, ListSlices, AddOrUpdate, Delete,
        DeleteEndpoints, AddEndpoints, Break, Restart, vars

THEOREM ReflectorCorrect == Spec => []ReflectorInv
<1>1. Init => ReflectorInv
    BY InitReflector DEF Init
<1> QED
    BY <1>1, NextReflector, PTL DEF Spec

-----------------------------------------------------------------------------
\* What one update does: it changes the slice under its service, and the
\* clusters of that service split into those to delete and those to add.
LEMMA UpdateStore ==
    ASSUME StoreInv, Accounted,
           NEW o \in Objects, NEW es \in ContentsOf[o], NEW slice \in {es, Gone},
           Update(o, es, [serverESs[es.service] EXCEPT ![o] = slice])
    PROVE  StoreInv' /\ Accounted'
<1> DEFINE svc == es.service
           after == [serverESs[svc] EXCEPT ![o] = slice]
<1>1. es \in Contents /\ svc \in Services
    BY ServicesAssumption DEF Contents
<1>2. serverESs' = [serverESs EXCEPT ![svc] = after] /\ ~reading' /\ Told
    BY DEF Update, EndReading, StoreInv
<1>3. after \in [Objects -> Contents \union {Gone}]
    BY <1>1 DEF StoreInv
<1>4. StoreInv'
    BY <1>1, <1>2, <1>3 DEF StoreInv
<1>5. \A q \in Services : NamesOf(q)' = IF q = svc THEN ClusterNames(Slices(after))
                                        ELSE NamesOf(q)
    BY <1>1, <1>2 DEF StoreInv, NamesOf
<1>6. /\ DOMAIN fresh' = ClusterNames(Slices(after))
      /\ doomed' = NamesOf(svc) \ ClusterNames(Slices(after))
      /\ resources' = resources
    BY AssignedSeeing DEF Update, Translated, Withdrawn, NamesOf
<1>7. DOMAIN resources = UNION {NamesOf(q) : q \in Services}
    BY <1>2 DEF Told, Accounted, Empty
<1>8. \A q \in Services : q # svc => NamesOf(q) \intersect doomed' = {}
    BY <1>1, <1>6, NamesHaveService
<1>9. \A q \in Services : NamesOf(q)' \intersect doomed' = {}
    BY <1>5, <1>6, <1>8
<1>10. (DOMAIN resources' \ doomed') \union DOMAIN fresh'
       = UNION {NamesOf(q)' : q \in Services}
  <2>1. ASSUME NEW c \in DOMAIN resources', c \notin doomed'
        PROVE  \E q \in Services : c \in NamesOf(q)'
      BY <1>5, <1>6, <1>7, <2>1
  <2>2. ASSUME NEW c \in DOMAIN fresh' PROVE \E q \in Services : c \in NamesOf(q)'
      BY <1>1, <1>5, <1>6
  <2>3. ASSUME NEW q \in Services, NEW c \in NamesOf(q)'
        PROVE  \/ c \in DOMAIN resources' /\ c \notin doomed'
               \/ c \in DOMAIN fresh'
      BY <1>1, <1>5, <1>6, <1>7, <1>9
  <2> QED
      BY <2>1, <2>2, <2>3
<1> QED
    BY <1>4, <1>9, <1>10 DEF Accounted

\* An event leads to an update of the slice that it names.
LEMMA EventUpdates ==
    ASSUME ReflectorInv, AddOrUpdate \/ Delete
    PROVE  \E o \in Objects, es \in Contents :
              /\ es \in ContentsOf[o]
              /\ o = events[1].object /\ es = events[1].content
              /\ Update(o, es, [serverESs[es.service] EXCEPT
                                    ![o] = IF events[1].kind = "delete" THEN Gone
                                           ELSE es])
<1>1. ASSUME AddOrUpdate
      PROVE  /\ events[1] \in Event /\ events[1].kind # "delete"
             /\ Head(events) = events[1]
             /\ events[1].content \in ContentsOf[events[1].object]
    BY <1>1, ReceiveEvents DEF AddOrUpdate
<1>2. ASSUME Delete
      PROVE  /\ events[1] \in Event /\ events[1].kind = "delete"
             /\ Head(events) = events[1]
             /\ events[1].content \in ContentsOf[events[1].object]
    BY <1>2, ReceiveEvents DEF Delete
<1> QED
    BY <1>1, <1>2 DEF AddOrUpdate, Delete, Event

\* The slices of a list are those of its services.
LEMMA ListedSlices ==
    ASSUME ReflectorInv, NEW kept,
           kept = [svc \in Services |-> OfService(listed, svc)]
    PROVE  UNION {Slices(kept[svc]) : svc \in Services} = Slices(listed)
<1>1. ASSUME NEW o \in Objects, listed[o] # Gone
      PROVE  \E svc \in Services : listed[o] \in Slices(kept[svc])
  <2>1. listed[o].service \in Services
      BY <1>1, ServicesAssumption DEF ReflectorInv, ReflectorTypeOK
  <2>2. kept[listed[o].service][o] = listed[o]
      BY <1>1, <2>1 DEF OfService
  <2> QED
      BY <1>1, <2>1, <2>2 DEF Slices
<1>2. ASSUME NEW svc \in Services, NEW es \in Slices(kept[svc])
      PROVE  es \in Slices(listed)
    BY DEF Slices, OfService
<1>3. ASSUME NEW es \in Slices(listed)
      PROVE  \E svc \in Services : es \in Slices(kept[svc])
  <2>1. PICK o \in Objects : listed[o] # Gone /\ es = listed[o]
      BY DEF Slices
  <2> QED
      BY <1>1, <2>1
<1> QED
    BY <1>2, <1>3

\* The clusters of a list are those of its services.
LEMMA ReplaceStore ==
    ASSUME ReflectorInv, StoreInv, Accounted, Replace
    PROVE  StoreInv' /\ Accounted'
<1>1. /\ serverESs' = [svc \in Services |-> OfService(listed, svc)]
      /\ DOMAIN resources' = ClusterNames(Slices(listed))
      /\ doomed' = {} /\ DOMAIN fresh' = {} /\ ~reading'
    BY AssignedSeeing DEF Replace, Replaced, EndReading, StoreInv, Told, Empty
<1>2. /\ listed \in [Objects -> Contents \union {Gone}]
      /\ \A o \in Objects : listed[o] \in ContentsOf[o] \union {Gone}
    BY DEF ReflectorInv, ReflectorTypeOK, OwnContents
<1>3. StoreInv'
    BY <1>1, <1>2 DEF StoreInv, OfService
<1>4. Slices(listed) = UNION {Slices(serverESs'[svc]) : svc \in Services}
    BY <1>1, ListedSlices
<1>5. \A c : c \in ClusterNames(Slices(listed)) <=>
          \E svc \in Services : c \in ClusterNames(Slices(serverESs'[svc]))
    BY <1>4 DEF ClusterNames
<1>6. Accounted'
    BY <1>1, <1>5 DEF Accounted, NamesOf
<1> QED
    BY <1>3, <1>6

LEMMA NextStore ==
    ReflectorInv /\ StoreInv /\ Accounted /\ [Next]_vars => StoreInv' /\ Accounted'
<1> SUFFICES ASSUME ReflectorInv, StoreInv, Accounted, [Next]_vars
             PROVE  StoreInv' /\ Accounted'
    OBVIOUS
<1>1. CASE AddOrUpdate \/ Delete
    BY <1>1, EventUpdates, UpdateStore
<1>2. ASSUME NEW c \in doomed, DeleteEndpoints(c) PROVE StoreInv' /\ Accounted'
  <2>1. \A svc \in Services : NamesOf(svc)' = NamesOf(svc)
      BY <1>2 DEF DeleteEndpoints, NamesOf
  <2>2. DOMAIN resources' \ doomed' = DOMAIN resources \ doomed
      BY <1>2 DEF DeleteEndpoints
  <2>3. ~reading'
      BY <1>2 DEF DeleteEndpoints, readVars, StoreInv, Told
  <2> QED
      BY <1>2, <2>1, <2>2, <2>3 DEF DeleteEndpoints, StoreInv, Accounted
<1>3. ASSUME NEW c \in DOMAIN fresh, AddEndpoints(c) PROVE StoreInv' /\ Accounted'
  <2>1. \A svc \in Services : NamesOf(svc)' = NamesOf(svc)
      BY <1>3 DEF AddEndpoints, NamesOf
  <2>2. DOMAIN resources' \union DOMAIN fresh' = DOMAIN resources \union DOMAIN fresh
      BY <1>3 DEF AddEndpoints, Stored
  <2>3. ~reading'
      BY <1>3 DEF AddEndpoints, readVars, StoreInv, Told, Empty
  <2> QED
      BY <1>3, <2>1, <2>2, <2>3 DEF AddEndpoints, StoreInv, Accounted
<1>4. CASE Restart
  <2>1. serverESs' = [svc \in Services |-> NoObjects]
      BY <1>4 DEF Restart
  <2>2. \A svc \in Services : NamesOf(svc)' = {}
      BY <2>1 DEF NamesOf, ClusterNames, Slices, NoObjects
  <2> QED
      BY <1>4, <2>1, <2>2 DEF Restart, StoreInv, Accounted, NoObjects, Empty
<1>5. CASE UNCHANGED storeVars /\ (reading' = reading \/ Idle)
    BY <1>5 DEF storeVars, StoreInv, Accounted, NamesOf, Idle, Told
<1> QED
    BY <1>1, <1>2, <1>3, <1>4, <1>5, ReplaceStore
    DEF Next, Step, Begin, ChangeSlice, ChangeNode, ListSlices, Break, readVars,
        vars

THEOREM StoreCorrect == Spec => [](StoreInv /\ Accounted)
<1>1. Init => StoreInv /\ Accounted
  <2> SUFFICES ASSUME Init PROVE StoreInv /\ Accounted
      OBVIOUS
  <2>1. \A svc \in Services : NamesOf(svc) = {}
      BY DEF Init, NamesOf, ClusterNames, Slices, NoObjects
  <2> QED
      BY <2>1 DEF Init, StoreInv, Accounted, NoObjects, Empty
<1> QED
    BY <1>1, NextStore, ReflectorCorrect, PTL DEF Spec

-----------------------------------------------------------------------------
\* For any slices and interleaving: between two steps of the store, no cluster
\* loses its load assignment while a slice that the store keeps has a port of
\* it, but for the end of the process.
THEOREM NoneWithdrawn == Spec => NeverWithdrawn
<1> DEFINE Keeps ==
        \A c \in DOMAIN resources \ DOMAIN resources' :
            \/ \A svc \in Services : c \notin ClusterNames(Slices(serverESs'[svc]))
            \/ breaks' # breaks
<1>1. ReflectorInv /\ StoreInv /\ Accounted /\ [Next]_vars => [Keeps]_vars
  <2> SUFFICES ASSUME ReflectorInv, StoreInv, Accounted, [Next]_vars
               PROVE  Keeps
      OBVIOUS
  <2>1. CASE Replace
    <3>1. Accounted' /\ DOMAIN fresh' = {} /\ doomed' = {}
        BY <2>1, ReplaceStore DEF Replace, EndReading, StoreInv, Told, Empty
    <3> QED
        BY <3>1 DEF Accounted, NamesOf
  <2>2. ASSUME NEW c \in doomed, DeleteEndpoints(c) PROVE Keeps
      BY <2>2 DEF DeleteEndpoints, Accounted, NamesOf
  <2>3. ASSUME NEW c \in DOMAIN fresh, AddEndpoints(c) PROVE Keeps
      BY <2>3 DEF AddEndpoints, Stored
  <2>4. CASE Restart
      BY <2>4, ReflectorAssumption
      DEF Restart, StartOver, ReflectorInv, ReflectorTypeOK
  <2>5. CASE UNCHANGED resources
      BY <2>5
  <2> QED
      BY <2>1, <2>2, <2>3, <2>4, <2>5
      DEF Next, Step, Begin, ChangeSlice, ChangeNode, ListSlices, AddOrUpdate, Delete,
          Update, Break, storeVars, vars
<1> QED
    BY <1>1, ReflectorCorrect, StoreCorrect, PTL DEF Spec, NeverWithdrawn

-----------------------------------------------------------------------------
(***************************************************************************)
(* Nothing more and nothing less than what exists.                         *)
(***************************************************************************)

\* The hypothesis: a slice stays with its service.  The run eds_relabel shows
\* what happens otherwise.
KeepLabels ==
    \A o \in Objects : \A es, other \in ContentsOf[o] : es.service = other.service

\* A slice under its service, and under no other.
Placed(o, svc, slice) == IF slice # Gone /\ slice.service = svc THEN slice ELSE Gone

\* The store keeps what a slice of which it has heard everything is now.
SlicesCurrent ==
    mode = "watch" =>
        \A o \in Objects : Quiet(o) =>
            \A svc \in Services : serverESs[svc][o] = Placed(o, svc, api[o])

LEMMA UpdateCurrent ==
    ASSUME KeepLabels, ReflectorInv, StoreInv, SlicesCurrent,
           AddOrUpdate \/ Delete
    PROVE  SlicesCurrent'
<1>1. PICK o \in Objects, es \in Contents :
          /\ es \in ContentsOf[o]
          /\ o = events[1].object /\ es = events[1].content
          /\ Update(o, es, [serverESs[es.service] EXCEPT
                                ![o] = IF events[1].kind = "delete" THEN Gone
                                       ELSE es])
    BY EventUpdates
<1>2. PICK kinds : Receive(kinds)
    BY DEF AddOrUpdate, Delete
<1> DEFINE slice == IF events[1].kind = "delete" THEN Gone ELSE es
<1>3. /\ mode = "watch" /\ api' = api
      /\ es.service \in Services /\ es # Gone
      /\ serverESs' = [serverESs EXCEPT ![es.service] =
                          [serverESs[es.service] EXCEPT ![o] = slice]]
    BY <1>1, <1>2, ServicesAssumption, ReflectorAssumption DEF Receive, Update
<1>4. \A svc \in Services : serverESs'[svc][o] = Placed(o, svc, slice)
  <2> SUFFICES ASSUME NEW svc \in Services
               PROVE  serverESs'[svc][o] = Placed(o, svc, slice)
      OBVIOUS
  <2>1. CASE svc = es.service
      BY <1>3, <2>1 DEF StoreInv, Placed
  <2>2. CASE svc # es.service
    <3>1. serverESs[svc][o] = Gone
        BY <1>1, <2>2 DEF StoreInv, KeepLabels
    <3> QED
        BY <1>3, <2>2, <3>1 DEF StoreInv, Placed
  <2> QED
      BY <2>1, <2>2
<1>5. \A svc \in Services, p \in Objects : p # o => serverESs'[svc][p] = serverESs[svc][p]
    BY <1>3 DEF StoreInv
<1>6. ASSUME NEW p \in Objects, Quiet(p)', NEW svc \in Services
      PROVE  serverESs'[svc][p] = Placed(p, svc, api[p])
  <2>1. CASE p = o
    <3>1. api[p] = slice
        BY <1>1, <1>2, <1>6, <2>1, ReceiveQuiet
    <3> QED
        BY <1>4, <2>1, <3>1
  <2>2. CASE p # o
    <3>1. Quiet(p)
        BY <1>1, <1>2, <1>6, <2>2, ReceiveQuiet
    <3> QED
        BY <1>3, <1>5, <2>2, <3>1 DEF SlicesCurrent
  <2> QED
      BY <2>1, <2>2
<1> QED
    BY <1>3, <1>6 DEF SlicesCurrent, Placed

LEMMA NextCurrent ==
    ASSUME KeepLabels, ReflectorInv, StoreInv, SlicesCurrent, [Next]_vars
    PROVE  SlicesCurrent'
<1>1. ASSUME NEW o \in Objects, NEW content \in Contents \union {Gone},
             ChangeSlice(o, content)
      PROVE  SlicesCurrent'
  <2>1. mode' = mode /\ serverESs' = serverESs /\ Change(o, content)
      BY <1>1 DEF ChangeSlice, Change, storeVars
  <2> QED
      BY <2>1, ChangeQuiet DEF SlicesCurrent, Placed
<1>2. CASE ListSlices
    BY <1>2 DEF ListSlices, List, SlicesCurrent
<1>3. CASE Replace
    BY <1>3
    DEF Replace, Synced, ReflectorInv, ListCurrent, OfService, SlicesCurrent,
        Placed, Quiet
<1>4. CASE StartOver
    BY <1>4 DEF StartOver, SlicesCurrent
<1>5. CASE UNCHANGED <<api, mode, events, serverESs>>
    BY <1>5 DEF SlicesCurrent, Placed, Quiet
<1> QED
    BY <1>1, <1>2, <1>3, <1>4, <1>5, UpdateCurrent
    DEF Next, Step, Begin, ChangeNode, DeleteEndpoints, AddEndpoints, Break, Restart,
        reflectorVars, storeVars, vars

LEMMA CurrentSlices ==
    ASSUME KeepLabels PROVE Spec => []SlicesCurrent
<1>1. Init => SlicesCurrent
    BY DEF Init, ReflectorInit, SlicesCurrent
<1>2. ReflectorInv /\ StoreInv /\ SlicesCurrent /\ [Next]_vars => SlicesCurrent'
    BY NextCurrent
<1> QED
    BY <1>1, <1>2, ReflectorCorrect, StoreCorrect, PTL DEF Spec

\* When the store has heard everything, it keeps every slice that exists with
\* its service, and serves the clusters that these have ports of.
LEMMA CaughtUpSlices ==
    ASSUME ReflectorInv, Accounted, SlicesCurrent, CaughtUp, Idle
    PROVE  /\ \A svc \in Services :
                 Slices(serverESs[svc]) = {es \in Slices(api) : es.service = svc}
           /\ DOMAIN resources = ClusterNames(Slices(api))
<1>1. mode = "watch" /\ \A o \in Objects : Quiet(o)
    BY DEF CaughtUp, Quiet
<1>2. \A svc \in Services, o \in Objects : serverESs[svc][o] = Placed(o, svc, api[o])
    BY <1>1 DEF SlicesCurrent
<1>3. \A o \in Objects : api[o] # Gone => api[o].service \in Services
    BY ServicesAssumption DEF ReflectorInv, ReflectorTypeOK
<1>4. \A svc \in Services :
          Slices(serverESs[svc]) = {es \in Slices(api) : es.service = svc}
    BY <1>2 DEF Slices, Placed
<1>5. Slices(api) = UNION {Slices(serverESs[svc]) : svc \in Services}
    BY <1>2, <1>3 DEF Slices, Placed
<1>6. \A c : c \in ClusterNames(Slices(api)) <=>
          \E svc \in Services : c \in NamesOf(svc)
    BY <1>5 DEF ClusterNames, NamesOf
<1>7. DOMAIN resources = UNION {NamesOf(svc) : svc \in Services}
    BY DEF Accounted, Idle, Told, Empty
<1>8. DOMAIN resources = ClusterNames(Slices(api))
    BY <1>6, <1>7
<1> QED
    BY <1>4, <1>8

\* For any slices that keep their label, whatever happens to them, to the nodes
\* and to the watch: when the store has heard everything, there is a load
\* assignment for each cluster that a slice has a port of, and no other.
THEOREM Mirrored ==
    ASSUME KeepLabels
    PROVE  Spec => []ClustersMirrored
<1>1. ReflectorInv /\ Accounted /\ SlicesCurrent => ClustersMirrored
    BY CaughtUpSlices, Assigned DEF ClustersMirrored, Expected
<1> QED
    BY <1>1, CurrentSlices, ReflectorCorrect, StoreCorrect, PTL

-----------------------------------------------------------------------------
(***************************************************************************)
(* Types.                                                                  *)
(***************************************************************************)

\* Clusters are named after a service, a port and a protocol.
LEMMA NamesAreClusters ==
    ASSUME NEW slices \in SUBSET Contents
    PROVE  ClusterNames(slices) \subseteq Cluster
<1> SUFFICES ASSUME NEW c \in ClusterNames(slices) PROVE c \in Cluster
    OBVIOUS
<1>1. PICK es \in slices : \E port \in es.ports :
          c = NameCluster(es.service, port) /\ c # None
    BY DEF ClusterNames, NumberedPorts
<1>2. PICK port \in es.ports : c = NameCluster(es.service, port) /\ c # None
    BY <1>1
<1>3. es.service \in Services /\ port.name \in STRING /\ ToString(port.number) \in STRING
    BY ServicesAssumption, PortsAssumption
<1> DEFINE number == ToString(port.number)
<1>4. number \in STRING
    BY <1>3
<1>5. /\ EnvoyProtocol(port) \in {"TCP", "UDP"}
      /\ c = <<es.service, IF port.name = "" THEN number ELSE port.name,
               EnvoyProtocol(port)>>
    BY <1>2, Zenon DEF NameCluster
<1> HIDE DEF number
<1> QED
    BY <1>3, <1>4, <1>5 DEF Cluster

\* The nodes, what was seen of them, and what is about to be deleted: the rest
\* follows from what the store accounts for.
RestTyped ==
    /\ nodes \in NodeLists
    /\ reading \in BOOLEAN
    /\ recent \in [Nodes -> SUBSET (NodeLabels \union {None})]
    /\ doomed \subseteq Cluster

LEMMA StoredNames ==
    ASSUME StoreInv, NEW svc \in Services
    PROVE  Slices(serverESs[svc]) \subseteq Contents /\ NamesOf(svc) \subseteq Cluster
<1>1. Slices(serverESs[svc]) \subseteq Contents
    BY DEF StoreInv, Slices
<1> QED
    BY <1>1, NamesAreClusters DEF NamesOf

LEMMA NextRestTyped ==
    ReflectorInv /\ StoreInv /\ RestTyped /\ [Next]_vars => RestTyped'
<1> SUFFICES ASSUME ReflectorInv, StoreInv, RestTyped, [Next]_vars PROVE RestTyped'
    OBVIOUS
<1> USE DEF RestTyped
<1>1. CASE AddOrUpdate \/ Delete
  <2>1. PICK o \in Objects, es \in Contents : \E after : Update(o, es, after)
      BY <1>1, EventUpdates
  <2>2. es.service \in Services
      BY ServicesAssumption
  <2>3. /\ doomed' \subseteq NamesOf(es.service) /\ nodes' = nodes
        /\ reading' = FALSE /\ recent' = NotReading
      BY <2>1 DEF Update, Withdrawn, NamesOf, EndReading
  <2> QED
      BY <2>2, <2>3, StoredNames DEF NotReading
<1>2. ASSUME NEW c \in doomed, DeleteEndpoints(c) PROVE RestTyped'
    BY <1>2 DEF DeleteEndpoints, readVars
<1>3. ASSUME NEW node \in Nodes, NEW labels \in NodeLabels \union {None},
             ChangeNode(node, labels)
      PROVE  RestTyped'
    BY <1>3 DEF ChangeNode, storeVars, NodeLists
<1>4. CASE Restart
    BY <1>4 DEF Restart, NotReading
<1>5. CASE UNCHANGED <<nodes, doomed, readVars>>
    BY <1>5 DEF readVars
<1>6. CASE Begin
    BY <1>6 DEF Begin, storeVars, NodeLists
<1>7. CASE Replace
    BY <1>7 DEF Replace, EndReading, NotReading
<1> QED
    BY <1>1, <1>2, <1>3, <1>4, <1>5, <1>6, <1>7
    DEF Next, Step, ChangeSlice, ListSlices, AddEndpoints, Break, storeVars, vars

\* For any slices, nodes and configuration: the state is well formed, and what
\* the manager serves, or is about to serve or to delete, is named after a
\* service, a port and a protocol that Envoy has.
THEOREM TypeCorrect == Spec => []TypeOK
<1>1. Init => RestTyped
    BY DEF Init, RestTyped, NotReading
<1>2. ReflectorInv /\ StoreInv /\ Accounted /\ RestTyped => TypeOK
  <2> SUFFICES ASSUME ReflectorInv, StoreInv, Accounted, RestTyped PROVE TypeOK
      OBVIOUS
  <2>1. UNION {NamesOf(svc) : svc \in Services} \subseteq Cluster
      BY StoredNames
  <2>2. DOMAIN resources \subseteq Cluster /\ DOMAIN fresh \subseteq Cluster
      BY <2>1 DEF Accounted, RestTyped
  <2> QED
      BY <2>2 DEF TypeOK, RestTyped, ReflectorInv, StoreInv
<1> QED
    BY <1>1, <1>2, NextRestTyped, ReflectorCorrect, StoreCorrect, PTL DEF Spec

-----------------------------------------------------------------------------
(***************************************************************************)
(* What a load assignment contains.                                        *)
(***************************************************************************)

\* The endpoints that slices give to a cluster, by node, without localities.
Hosts(slices) == UNION {{ep.node : ep \in es.endpoints} : es \in slices}
On(slices, c, node) == UNION {LbEndpoints(es, c, node) : es \in slices}
Groups(slices, c) ==
    {[node |-> node, endpoints |-> On(slices, c, node)] :
        node \in {h \in Hosts(slices) : On(slices, c, h) # {}}}

\* Groups with the localities of their nodes, and without.
Located(nodeList, groups) ==
    {[node |-> g.node, locality |-> LocalityFromHost(nodeList, g.node),
      endpoints |-> g.endpoints] : g \in groups}
Bare(groups) == {[node |-> g.node, endpoints |-> g.endpoints] : g \in groups}

\* Localities are all that a load assignment takes from the nodes.
LEMMA LocatedAlone ==
    ASSUME NEW nodeList, NEW slices, NEW c
    PROVE  LoadAssignment(c, nodeList, slices) = Located(nodeList, Groups(slices, c))
<1>1. LoadAssignment(c, nodeList, slices)
      = {[node |-> node, locality |-> LocalityFromHost(nodeList, node),
          endpoints |-> On(slices, c, node)] :
            node \in {h \in Hosts(slices) : On(slices, c, h) # {}}}
    BY DEF LoadAssignment, Hosts, On
<1>2. ASSUME NEW g \in LoadAssignment(c, nodeList, slices)
      PROVE  g \in Located(nodeList, Groups(slices, c))
  <2>1. PICK node \in {h \in Hosts(slices) : On(slices, c, h) # {}} :
            g = [node |-> node, locality |-> LocalityFromHost(nodeList, node),
                 endpoints |-> On(slices, c, node)]
      BY <1>1
  <2> DEFINE group == [node |-> node, endpoints |-> On(slices, c, node)]
  <2>2. group \in Groups(slices, c)
      BY DEF Groups
  <2>3. g = [node |-> group.node,
             locality |-> LocalityFromHost(nodeList, group.node),
             endpoints |-> group.endpoints]
      BY <2>1
  <2> HIDE DEF group
  <2> QED
      BY <2>2, <2>3, Zenon DEF Located
<1>3. ASSUME NEW g \in Located(nodeList, Groups(slices, c))
      PROVE  g \in LoadAssignment(c, nodeList, slices)
  <2>1. PICK group \in Groups(slices, c) :
            g = [node |-> group.node,
                 locality |-> LocalityFromHost(nodeList, group.node),
                 endpoints |-> group.endpoints]
      BY DEF Located
  <2>2. PICK node \in {h \in Hosts(slices) : On(slices, c, h) # {}} :
            group.node = node /\ group.endpoints = On(slices, c, node)
      BY DEF Groups
  <2> QED
      BY <1>1, <2>1, <2>2
<1> QED
    BY <1>2, <1>3

\* Also when it is made together with others.
LEMMA SeeingIs ==
    ASSUME NEW seen, NEW slices, NEW c \in ClusterNames(slices)
    PROVE  LoadAssignmentsSeeing(seen, slices)[c] = Located(seen[c], Groups(slices, c))
BY LocatedAlone DEF LoadAssignmentsSeeing

LEMMA LoadAssignmentIs ==
    ASSUME NEW nodeList, NEW slices, NEW c \in ClusterNames(slices)
    PROVE  LoadAssignments(nodeList, slices)[c] = Located(nodeList, Groups(slices, c))
BY SeeingIs DEF LoadAssignments

LEMMA LocatedBare ==
    ASSUME NEW nodeList, NEW slices, NEW c
    PROVE  Bare(Located(nodeList, Groups(slices, c))) = Groups(slices, c)
<1> DEFINE groups == Groups(slices, c)
           located == Located(nodeList, groups)
<1>1. ASSUME NEW b \in Bare(located) PROVE b \in groups
  <2>1. PICK l \in located : b = [node |-> l.node, endpoints |-> l.endpoints]
      BY Zenon DEF Bare
  <2>2. PICK g \in groups : l.node = g.node /\ l.endpoints = g.endpoints
      BY DEF Located
  <2>3. g = [node |-> g.node, endpoints |-> g.endpoints]
      BY DEF Groups
  <2> QED
      BY <2>1, <2>2, <2>3
<1>2. ASSUME NEW g \in groups PROVE g \in Bare(located)
  <2> DEFINE l == [node |-> g.node, locality |-> LocalityFromHost(nodeList, g.node),
                   endpoints |-> g.endpoints]
  <2>1. l \in located
      BY Zenon DEF Located
  <2>2. g = [node |-> l.node, endpoints |-> l.endpoints]
      BY DEF Groups
  <2> HIDE DEF l
  <2> QED
      BY <2>1, <2>2, Zenon DEF Bare
<1>3. Bare(located) \subseteq groups /\ groups \subseteq Bare(located)
    BY <1>1, <1>2
<1> QED
    BY <1>3, Zenon

\* A cluster only has endpoints of slices of its service.
LEMMA OnlyOwnEndpoints ==
    ASSUME NEW es, NEW c, c # None, NEW node, LbEndpoints(es, c, node) # {}
    PROVE  es.service = c[1] /\ \E ep \in es.endpoints : ep.node = node
<1>1. PICK ep \in es.endpoints :
          /\ ep.node = node
          /\ \E port \in NumberedPorts(es) : NameCluster(es.service, port) = c
    BY DEF LbEndpoints
<1>2. \E rest : \E protocol : c = <<es.service, rest, protocol>>
    BY <1>1, Zenon DEF NameCluster
<1> QED
    BY <1>1, <1>2

\* So that those of its service are all that matter.
LEMMA GroupsOfService ==
    ASSUME NEW slices, NEW part, NEW c, c # None, part \subseteq slices,
           \A es \in slices : es.service = c[1] => es \in part
    PROVE  Groups(slices, c) = Groups(part, c)
<1>1. \A node : On(slices, c, node) = On(part, c, node)
  <2> SUFFICES ASSUME NEW node PROVE On(slices, c, node) = On(part, c, node)
      OBVIOUS
  <2>1. \A es \in slices : LbEndpoints(es, c, node) # {} => es \in part
      BY OnlyOwnEndpoints
  <2> QED
      BY <2>1 DEF On
<1>2. \A node : On(part, c, node) # {} => node \in Hosts(part) /\ node \in Hosts(slices)
  <2> SUFFICES ASSUME NEW node, On(part, c, node) # {} PROVE node \in Hosts(part)
      BY DEF Hosts
  <2>1. PICK es \in part : LbEndpoints(es, c, node) # {}
      BY DEF On
  <2>2. \E ep \in es.endpoints : ep.node = node
      BY <2>1, OnlyOwnEndpoints
  <2> QED
      BY <2>2 DEF Hosts
<1>3. {h \in Hosts(slices) : On(slices, c, h) # {}} = {h \in Hosts(part) : On(part, c, h) # {}}
    BY <1>1, <1>2
<1> QED
    BY <1>1, <1>3 DEF Groups

-----------------------------------------------------------------------------
(***************************************************************************)
(* Endpoints and localities.                                               *)
(***************************************************************************)

\* A group of endpoints has the locality of its node, as the store of nodes
\* has it now, or had it when the service was translated.
WellLocated(c, g) ==
    /\ g = [node |-> g.node, locality |-> g.locality, endpoints |-> g.endpoints]
    /\ g.node \in Nodes \union {""}
    /\ \/ g.locality = LocalityFromHost(nodes, g.node)
       \/ g.node \in unseen[c[1]]

\* A load assignment has what the slices of its service give to it.
Accurate(c, groups) ==
    /\ \A g \in groups : WellLocated(c, g)
    /\ Bare(groups) = Groups(Slices(serverESs[c[1]]), c)

\* That holds of all that is served, unless the store is about to delete it or
\* has something better at hand.
ContentInv ==
    /\ unseen \in [Services -> SUBSET Nodes]
    /\ nodes \in NodeLists
    /\ \A c \in DOMAIN fresh : Accurate(c, fresh[c])
    /\ \A c \in DOMAIN resources \ (doomed \union DOMAIN fresh) :
          Accurate(c, resources[c])

\* What is translated now is located by the nodes as they are, but for nodes
\* that changed meanwhile.
LEMMA TranslatedLocated ==
    ASSUME NEW slices \in SUBSET Contents, NEW seen \in Sightings(slices),
           NEW c \in ClusterNames(slices),
           NEW g \in LoadAssignmentsSeeing(seen, slices)[c]
    PROVE  /\ g = [node |-> g.node, locality |-> g.locality, endpoints |-> g.endpoints]
           /\ g.node \in Nodes \union {""}
           /\ \/ g.locality = LocalityFromHost(nodes, g.node)
              \/ g.node \in Missed
<1>1. PICK group \in Groups(slices, c) :
          g = [node |-> group.node, locality |-> LocalityFromHost(seen[c], group.node),
               endpoints |-> group.endpoints]
    BY SeeingIs DEF Located
<1>2. group.node \in Hosts(slices)
    BY DEF Groups
<1>3. PICK es \in slices : \E ep \in es.endpoints : group.node = ep.node
    BY <1>2 DEF Hosts
<1>4. group.node \in Nodes \union {""}
    BY <1>3, NodesAssumption
<1>5. \A node \in Nodes : seen[c][node] \in recent[node]
    BY DEF Sightings
<1>6. ASSUME group.node \notin Missed
      PROVE  LocalityFromHost(seen[c], group.node) = LocalityFromHost(nodes, group.node)
  <2>1. group.node = "" \/ seen[c][group.node] = nodes[group.node]
      BY <1>4, <1>5, <1>6 DEF Missed
  <2> QED
      BY <2>1 DEF LocalityFromHost
<1> QED
    BY <1>1, <1>4, <1>6

\* Clusters that are served are those of a service.
LEMMA ServedHaveService ==
    ASSUME StoreInv, Accounted,
           NEW c \in (DOMAIN resources \ doomed) \union DOMAIN fresh
    PROVE  c[1] \in Services /\ c \in NamesOf(c[1]) /\ c # None
<1>1. PICK svc \in Services : c \in NamesOf(svc)
    BY DEF Accounted
<1> QED
    BY <1>1, NamesHaveService DEF NamesOf, ClusterNames

\* A node that changes is not seen until the services are translated.
LEMMA ChangeNodeContent ==
    ASSUME StoreInv, Accounted, ContentInv,
           NEW node \in Nodes, NEW labels \in NodeLabels \union {None},
           ChangeNode(node, labels)
    PROVE  ContentInv'
<1>1. /\ nodes' = [nodes EXCEPT ![node] = labels]
      /\ unseen' = [svc \in Services |-> unseen[svc] \union {node}]
      /\ UNCHANGED storeVars
    BY DEF ChangeNode
<1>2. ASSUME NEW c, c[1] \in Services, NEW g, WellLocated(c, g)
      PROVE  WellLocated(c, g)'
  <2>1. CASE g.node = node
      BY <1>1, <1>2, <2>1 DEF WellLocated
  <2>2. CASE g.node # node
    <3>1. g.node = "" \/ nodes'[g.node] = nodes[g.node]
        BY <1>1, <1>2, <2>2 DEF WellLocated, ContentInv, NodeLists
    <3>2. LocalityFromHost(nodes', g.node) = LocalityFromHost(nodes, g.node)
        BY <3>1 DEF LocalityFromHost
    <3>3. g.node \in unseen[c[1]] => g.node \in unseen'[c[1]]
        BY <1>1, <1>2
    <3> QED
        BY <1>2, <3>2, <3>3 DEF WellLocated
  <2> QED
      BY <2>1, <2>2
<1>3. \A c \in (DOMAIN resources \ doomed) \union DOMAIN fresh : c[1] \in Services
    BY ServedHaveService
<1>4. ASSUME NEW c, c[1] \in Services, NEW groups, Accurate(c, groups)
      PROVE  Accurate(c, groups)'
    BY <1>1, <1>2, <1>4 DEF Accurate, storeVars
<1>5. /\ \A c \in DOMAIN fresh : Accurate(c, fresh[c])'
      /\ \A c \in DOMAIN resources \ (doomed \union DOMAIN fresh) :
            Accurate(c, resources[c])'
    BY <1>1, <1>3, <1>4 DEF ContentInv, storeVars
<1>6. unseen' \in [Services -> SUBSET Nodes] /\ nodes' \in NodeLists
    BY <1>1 DEF ContentInv, NodeLists
<1> QED
    BY <1>1, <1>5, <1>6 DEF ContentInv, storeVars

\* The service of the slice that changes is translated with all its slices;
\* what is served of the others stays accurate.
LEMMA UpdateContent ==
    ASSUME StoreInv, Accounted, ContentInv,
           NEW o \in Objects, NEW es \in ContentsOf[o], NEW slice \in {es, Gone},
           Update(o, es, [serverESs[es.service] EXCEPT ![o] = slice])
    PROVE  ContentInv'
<1> DEFINE svc == es.service
           after == [serverESs[svc] EXCEPT ![o] = slice]
<1>1. svc \in Services
    BY ServicesAssumption DEF Contents
<1>2. StoreInv' /\ serverESs' = [serverESs EXCEPT ![svc] = after]
    BY UpdateStore DEF Update
<1>3. serverESs'[svc] = after
    BY <1>1, <1>2 DEF StoreInv
<1>4. PICK seen \in Sightings(Slices(after)) :
          /\ fresh' = LoadAssignmentsSeeing(seen, Slices(after))
          /\ DOMAIN fresh' = ClusterNames(Slices(after))
          /\ doomed' = NamesOf(svc) \ DOMAIN fresh'
          /\ resources' = resources /\ nodes' = nodes
          /\ unseen' = [unseen EXCEPT ![svc] = Missed]
          /\ doomed = {} /\ DOMAIN fresh = {}
    BY AssignedSeeing
    DEF Update, Translated, Withdrawn, NamesOf, EndReading, StoreInv, Told, Empty
<1>5. /\ Slices(after) \in SUBSET Contents
      /\ \A e \in Slices(after) : e.service = svc
    BY <1>1, <1>2, <1>3 DEF StoreInv, Slices
<1> HIDE DEF after
<1>6. ASSUME NEW c \in DOMAIN fresh' PROVE Accurate(c, fresh[c])'
  <2>1. c[1] = svc
      BY <1>4, <1>5, ClusterHasService
  <2>2. c # None
      BY <1>4 DEF ClusterNames
  <2>3. Bare(fresh'[c]) = Groups(Slices(after), c)
      BY <1>4, SeeingIs, LocatedBare
  <2>4. ASSUME NEW g \in fresh'[c] PROVE WellLocated(c, g)'
    <3>1. /\ Slices(after) \in SUBSET Contents /\ c \in ClusterNames(Slices(after))
          /\ g \in LoadAssignmentsSeeing(seen, Slices(after))[c]
        BY <1>4, <1>5
    <3>2. /\ g = [node |-> g.node, locality |-> g.locality, endpoints |-> g.endpoints]
          /\ g.node \in Nodes \union {""}
          /\ \/ g.locality = LocalityFromHost(nodes, g.node)
             \/ g.node \in Missed
        BY <3>1, TranslatedLocated
    <3>3. unseen'[c[1]] = Missed
        BY <1>1, <1>4, <2>1 DEF ContentInv
    <3> QED
        BY <1>4, <3>2, <3>3 DEF WellLocated
  <2> QED
      BY <1>3, <2>1, <2>3, <2>4 DEF Accurate
<1>7. ASSUME NEW c \in DOMAIN resources' \ (doomed' \union DOMAIN fresh')
      PROVE  Accurate(c, resources[c])'
  <2>1. c[1] \in Services /\ c \in NamesOf(c[1])
      BY <1>4, <1>7, ServedHaveService
  <2>2. c[1] # svc
      BY <1>4, <1>7, <2>1
  <2>3. serverESs'[c[1]] = serverESs[c[1]] /\ unseen'[c[1]] = unseen[c[1]]
      BY <1>1, <1>2, <1>4, <2>1, <2>2 DEF StoreInv, ContentInv
  <2>4. Accurate(c, resources[c])
      BY <1>4, <1>7 DEF ContentInv
  <2> QED
      BY <1>4, <2>3, <2>4 DEF Accurate, WellLocated
<1>8. unseen' \in [Services -> SUBSET Nodes] /\ nodes' \in NodeLists
    BY <1>4 DEF ContentInv, Missed
<1> QED
    BY <1>6, <1>7, <1>8 DEF ContentInv

\* All slices of a list are translated together, those of a service as if they
\* were alone.
LEMMA ReplaceContent ==
    ASSUME ReflectorInv, StoreInv, Accounted, ContentInv, Replace
    PROVE  ContentInv'
<1>1. PICK seen \in Sightings(Slices(listed)) :
          /\ resources' = LoadAssignmentsSeeing(seen, Slices(listed))
          /\ DOMAIN resources' = ClusterNames(Slices(listed))
          /\ serverESs' = [svc \in Services |-> OfService(listed, svc)]
          /\ unseen' = [svc \in Services |-> Missed]
          /\ doomed' = {} /\ DOMAIN fresh' = {} /\ nodes' = nodes
    BY AssignedSeeing DEF Replace, Replaced, EndReading, StoreInv, Told, Empty
<1>2. Slices(listed) \in SUBSET Contents
    BY DEF ReflectorInv, ReflectorTypeOK, Slices
<1>3. ASSUME NEW c \in DOMAIN resources' PROVE Accurate(c, resources[c])'
  <2>1. c \in Cluster
      BY <1>1, <1>2, NamesAreClusters
  <2>2. c[1] \in Services /\ c # None
      BY <1>1, <2>1 DEF Cluster, ClusterNames
  <2>3. Slices(serverESs'[c[1]]) = {es \in Slices(listed) : es.service = c[1]}
      BY <1>1, <1>2, <2>2, ReflectorAssumption DEF Slices, OfService
  <2>4. Bare(resources'[c]) = Groups(Slices(listed), c)
      BY <1>1, SeeingIs, LocatedBare
  <2>5. Groups(Slices(listed), c) = Groups(Slices(serverESs'[c[1]]), c)
      BY <2>2, <2>3, GroupsOfService
  <2>6. ASSUME NEW g \in resources'[c] PROVE WellLocated(c, g)'
    <3>1. /\ Slices(listed) \in SUBSET Contents /\ c \in ClusterNames(Slices(listed))
          /\ g \in LoadAssignmentsSeeing(seen, Slices(listed))[c]
        BY <1>1, <1>2
    <3>2. /\ g = [node |-> g.node, locality |-> g.locality, endpoints |-> g.endpoints]
          /\ g.node \in Nodes \union {""}
          /\ \/ g.locality = LocalityFromHost(nodes, g.node)
             \/ g.node \in Missed
        BY <3>1, TranslatedLocated
    <3>3. unseen'[c[1]] = Missed
        BY <1>1, <2>2
    <3> QED
        BY <1>1, <3>2, <3>3 DEF WellLocated
  <2> QED
      BY <2>4, <2>5, <2>6 DEF Accurate
<1>4. unseen' \in [Services -> SUBSET Nodes] /\ nodes' \in NodeLists
    BY <1>1 DEF ContentInv, Missed
<1> QED
    BY <1>1, <1>3, <1>4 DEF ContentInv

LEMMA NextContent ==
    ReflectorInv /\ StoreInv /\ Accounted /\ ContentInv /\ [Next]_vars => ContentInv'
<1> SUFFICES ASSUME ReflectorInv, StoreInv, Accounted, ContentInv, [Next]_vars
             PROVE  ContentInv'
    OBVIOUS
<1>1. CASE AddOrUpdate \/ Delete
    BY <1>1, EventUpdates, UpdateContent
<1>2. ASSUME NEW cluster \in doomed, DeleteEndpoints(cluster) PROVE ContentInv'
  <2>1. /\ DOMAIN resources' \ (doomed' \union DOMAIN fresh')
             = DOMAIN resources \ (doomed \union DOMAIN fresh)
        /\ \A c \in DOMAIN resources' : resources'[c] = resources[c]
        /\ UNCHANGED <<nodes, serverESs, fresh, unseen>>
      BY <1>2 DEF DeleteEndpoints
  <2> QED
      BY <2>1 DEF ContentInv, Accurate, WellLocated
<1>3. ASSUME NEW cluster \in DOMAIN fresh, AddEndpoints(cluster) PROVE ContentInv'
  <2>1. /\ DOMAIN fresh' = DOMAIN fresh \ {cluster}
        /\ \A c \in DOMAIN fresh' : fresh'[c] = fresh[c]
        /\ DOMAIN resources' = DOMAIN resources \union {cluster}
        /\ \A c \in DOMAIN resources' :
              resources'[c] = IF c = cluster THEN fresh[c] ELSE resources[c]
        /\ doomed' = doomed
        /\ UNCHANGED <<nodes, serverESs, unseen>>
      BY <1>3 DEF AddEndpoints, Stored
  <2>2. \A c, groups : Accurate(c, groups)' <=> Accurate(c, groups)
      BY <2>1 DEF Accurate, WellLocated
  <2>3. \A c \in DOMAIN fresh' : Accurate(c, fresh[c])'
      BY <2>1, <2>2 DEF ContentInv
  <2>4. \A c \in DOMAIN resources' \ (doomed' \union DOMAIN fresh') :
            Accurate(c, resources[c])'
      BY <2>1, <2>2 DEF ContentInv
  <2> QED
      BY <2>1, <2>3, <2>4 DEF ContentInv
<1>4. CASE Restart
    BY <1>4 DEF Restart, Empty, ContentInv
<1>5. CASE UNCHANGED <<nodes, storeVars, unseen>>
    BY <1>5 DEF storeVars, ContentInv, Accurate, WellLocated
<1> QED
    BY <1>1, <1>2, <1>3, <1>4, <1>5, ReplaceContent, ChangeNodeContent
    DEF Next, Step, Begin, ChangeSlice, ListSlices, Break, vars

THEOREM ContentCorrect == Spec => []ContentInv
<1>1. Init => ContentInv
    BY DEF Init, Empty, ContentInv
<1> QED
    BY <1>1, NextContent, ReflectorCorrect, StoreCorrect, PTL DEF Spec

\* For any slices, nodes and interleaving: between two calls of the store, each
\* group of endpoints that is served has the locality that the store of nodes
\* gives it now, unless that node changed since the last translation of the
\* slices of the service began.
THEOREM LocalitiesFollow == Spec => []LocalitiesCatchUp
<1>1. ContentInv => LocalitiesCatchUp
    BY DEF ContentInv, LocalitiesCatchUp, Accurate, WellLocated, Idle, Told, Empty
<1> QED
    BY <1>1, ContentCorrect, PTL

\* What the manager serves of a cluster when the store has heard everything:
\* what all slices that exist give to it.
LEMMA CaughtUpContent ==
    ASSUME ReflectorInv, StoreInv, Accounted, SlicesCurrent, ContentInv,
           CaughtUp, Idle
    PROVE  /\ DOMAIN resources = ClusterNames(Slices(api))
           /\ \A c \in DOMAIN resources :
                 /\ c[1] \in Services
                 /\ \A g \in resources[c] : WellLocated(c, g)
                 /\ Bare(resources[c]) = Groups(Slices(api), c)
<1>1. /\ \A svc \in Services :
            Slices(serverESs[svc]) = {es \in Slices(api) : es.service = svc}
      /\ DOMAIN resources = ClusterNames(Slices(api))
    BY CaughtUpSlices
<1>2. doomed = {} /\ DOMAIN fresh = {}
    BY DEF Idle, Told, Empty
<1>3. ASSUME NEW c \in DOMAIN resources
      PROVE  /\ c[1] \in Services
             /\ \A g \in resources[c] : WellLocated(c, g)
             /\ Bare(resources[c]) = Groups(Slices(api), c)
  <2>1. c[1] \in Services /\ c # None
      BY <1>2, ServedHaveService
  <2>2. Accurate(c, resources[c])
      BY <1>2 DEF ContentInv
  <2>3. Groups(Slices(api), c) = Groups(Slices(serverESs[c[1]]), c)
      BY <1>1, <2>1, GroupsOfService
  <2> QED
      BY <2>1, <2>2, <2>3 DEF Accurate
<1> QED
    BY <1>1, <1>3

\* For any slices that keep their label, whatever happens to them, to the nodes
\* and to the watch: when the store has heard everything, each cluster has the
\* addresses, ports and health of its ready endpoints, although only the
\* slices of one service were translated at a time.
THEOREM EndpointsFollow ==
    ASSUME KeepLabels
    PROVE  Spec => []EndpointsMirrored
<1>1. ReflectorInv /\ StoreInv /\ Accounted /\ SlicesCurrent /\ ContentInv
      => EndpointsMirrored
  <2> SUFFICES ASSUME ReflectorInv, StoreInv, Accounted, SlicesCurrent, ContentInv,
                      CaughtUp, Idle, NEW c \in DOMAIN resources
               PROVE  Bare(resources[c]) = Bare(Expected[c])
      BY DEF EndpointsMirrored, Bare
  <2>1. c \in ClusterNames(Slices(api)) /\ Bare(resources[c]) = Groups(Slices(api), c)
      BY CaughtUpContent
  <2>2. Bare(Expected[c]) = Groups(Slices(api), c)
      BY <2>1, LoadAssignmentIs, LocatedBare DEF Expected
  <2> QED
      BY <2>1, <2>2
<1> QED
    BY <1>1, CurrentSlices, ContentCorrect, ReflectorCorrect, StoreCorrect, PTL


-----------------------------------------------------------------------------
(***************************************************************************)
(* The command shows what the server serves.                               *)
(***************************************************************************)

\* What remains of the name of a cluster in part of the slices.
LEMMA NamesOfService ==
    ASSUME NEW slices, NEW part, part \subseteq slices,
           NEW c \in ClusterNames(slices),
           \A es \in slices : es.service = c[1] => es \in part
    PROVE  c \in ClusterNames(part)
<1>1. PICK es \in slices : \E port \in NumberedPorts(es) :
          c = NameCluster(es.service, port) /\ c # None
    BY DEF ClusterNames
<1>2. \E rest : \E protocol : c = <<es.service, rest, protocol>>
    BY <1>1, Zenon DEF NameCluster
<1>3. es \in part
    BY <1>2
<1> QED
    BY <1>1, <1>3 DEF ClusterNames

\* The load assignments of slices of one service, and otherwise those of the
\* slices before.
Joined(nodeList, own, before) ==
    LET new == LoadAssignments(nodeList, own)
        served == LoadAssignments(nodeList, before)
    IN  [c \in DOMAIN new \union DOMAIN served |->
            IF c \in DOMAIN new THEN new[c] ELSE served[c]]

\* To translate one more slice with those of its service, and to keep the rest,
\* is to translate all.
LEMMA OneMore ==
    ASSUME NEW nodeList, NEW before, NEW es, NEW all, all = before \union {es},
           NEW own, own = {e \in all : e.service = es.service}
    PROVE  Joined(nodeList, own, before) = LoadAssignments(nodeList, all)
<1> DEFINE new == LoadAssignments(nodeList, own)
           served == LoadAssignments(nodeList, before)
<1>1. DOMAIN new = ClusterNames(own) /\ DOMAIN served = ClusterNames(before)
    BY Assigned
<1>2. ClusterNames(own) \union ClusterNames(before) = ClusterNames(all)
  <2>1. ClusterNames(own) \subseteq ClusterNames(all)
      BY DEF ClusterNames
  <2>2. ClusterNames(before) \subseteq ClusterNames(all)
      BY DEF ClusterNames
  <2>3. ASSUME NEW c \in ClusterNames(all), c \notin ClusterNames(before)
        PROVE  c \in ClusterNames(own)
    <3>1. PICK e \in all : \E port \in NumberedPorts(e) :
              c = NameCluster(e.service, port) /\ c # None
        BY DEF ClusterNames
    <3>2. e \notin before
        BY <2>3, <3>1 DEF ClusterNames
    <3>3. e \in own
        BY <3>2
    <3> QED
        BY <3>1, <3>3 DEF ClusterNames
  <2> QED
      BY <2>1, <2>2, <2>3
<1>3. ASSUME NEW c \in ClusterNames(own)
      PROVE  new[c] = LoadAssignments(nodeList, all)[c]
  <2>1. c[1] = es.service /\ c # None
      BY ClusterHasService DEF ClusterNames
  <2>2. Groups(all, c) = Groups(own, c)
      BY <2>1, GroupsOfService
  <2>3. new[c] = Located(nodeList, Groups(own, c))
      BY LoadAssignmentIs
  <2>4. c \in ClusterNames(all)
      BY <1>2
  <2>5. LoadAssignments(nodeList, all)[c] = Located(nodeList, Groups(all, c))
      BY <2>4, LoadAssignmentIs
  <2> QED
      BY <2>2, <2>3, <2>5
<1>4. ASSUME NEW c \in ClusterNames(before), c \notin ClusterNames(own)
      PROVE  served[c] = LoadAssignments(nodeList, all)[c]
  <2>1. c \in ClusterNames(all) /\ c # None
      BY <1>2 DEF ClusterNames
  <2>2. c[1] # es.service
      BY <1>4, <2>1, NamesOfService
  <2>3. Groups(all, c) = Groups(before, c)
      BY <2>1, <2>2, GroupsOfService
  <2>4. served[c] = Located(nodeList, Groups(before, c))
      BY LoadAssignmentIs
  <2>5. LoadAssignments(nodeList, all)[c] = Located(nodeList, Groups(all, c))
      BY <2>1, LoadAssignmentIs
  <2> QED
      BY <2>3, <2>4, <2>5
<1> DEFINE together == LoadAssignments(nodeList, all)
<1>5. together = [c \in ClusterNames(all) |-> together[c]]
    BY DEF LoadAssignments, LoadAssignmentsSeeing
<1>6. \A c \in ClusterNames(all) :
          together[c] = IF c \in DOMAIN new THEN new[c] ELSE served[c]
    BY <1>1, <1>2, <1>3, <1>4
<1> HIDE DEF together, new, served
<1>7. [c \in DOMAIN new \union DOMAIN served |->
          IF c \in DOMAIN new THEN new[c] ELSE served[c]] = together
    BY <1>1, <1>2, <1>5, <1>6
<1> QED
    BY <1>7, Zenon DEF together, new, served, Joined

\* Whatever the order of the list, the command translates it as a whole.
LEMMA DumpedIs ==
    ASSUME NEW nodeList, NEW slices \in Seq(Contents)
    PROVE  Dumped(nodeList, slices)
           = LoadAssignments(nodeList, {slices[j] : j \in 1 .. Len(slices)})
<1> DEFINE n == Len(slices)
           Upto(i) == {slices[j] : j \in 1 .. i}
           Want(i) == LoadAssignments(nodeList, Upto(i))
           Follows(s) == s = [i \in 0 .. n |->
                                 IF i = 0 THEN Empty
                                 ELSE Added(s[i - 1], NodesListed(nodeList), slices, i)]
           step == CHOOSE s : Follows(s)
<1>1. n \in Nat
    OBVIOUS
<1>2. Want(0) = Empty
  <2>1. Upto(0) = {}
      OBVIOUS
  <2>2. ClusterNames({}) = {}
      BY DEF ClusterNames
  <2> QED
      BY <2>1, <2>2 DEF LoadAssignments, LoadAssignmentsSeeing, Empty
<1>3. ASSUME NEW i \in 1 .. n
      PROVE  Added(Want(i - 1), NodesListed(nodeList), slices, i) = Want(i)
  <2> DEFINE own == {slices[j] : j \in {k \in 1 .. i : slices[k].service = slices[i].service}}
  <2>1. Upto(i) = Upto(i - 1) \union {slices[i]}
      BY <1>1
  <2>2. own = {e \in Upto(i) : e.service = slices[i].service}
      OBVIOUS
  <2> HIDE DEF Upto, own
  <2>3. Joined(nodeList, own, Upto(i - 1)) = LoadAssignments(nodeList, Upto(i))
      BY <2>1, <2>2, OneMore
  <2> QED
      BY <2>3, Zenon DEF Added, NodesListed, Joined, own
<1>4. Follows([i \in 0 .. n |-> Want(i)])
  <2> DEFINE s == [i \in 0 .. n |-> Want(i)]
  <2> HIDE DEF Want
  <2>1. ASSUME NEW i \in 0 .. n
        PROVE  s[i] = IF i = 0 THEN Empty
                      ELSE Added(s[i - 1], NodesListed(nodeList), slices, i)
      BY <1>1, <1>2, <1>3
  <2> QED
      BY <2>1
<1>5. Follows(step)
  <2> HIDE DEF Follows, Want
  <2> QED
      BY <1>4, Zenon
<1>6. step[n] = Want(n)
  <2> HIDE DEF step, Want
  <2> DEFINE want == [k \in 0 .. n |-> Want(k)]
  <2>1. step[0] = want[0]
      BY <1>1, <1>2, <1>5
  <2>2. ASSUME NEW k \in 1 .. n, step[k - 1] = want[k - 1] PROVE step[k] = want[k]
      BY <1>1, <1>3, <1>5, <2>2
  <2>3. want[n] = Want(n)
      BY <1>1
  <2> HIDE DEF want
  <2>4. GoOnAlike(n, step, want)
      BY <2>2 DEF GoOnAlike
  <2> QED
      BY <1>1, <2>1, <2>3, <2>4, Alike
<1>7. Dumped(nodeList, slices) = step[n]
    BY Zenon DEF Dumped
<1> QED
    BY <1>6, <1>7


\* The list has every slice that exists.
LEMMA ListHasAll ==
    ASSUME IsFiniteSet(Objects), ReflectorInv, NEW order \in Orders(api)
    PROVE  LET slices == [i \in DOMAIN order |-> api[order[i]]]
           IN  /\ slices \in Seq(Contents)
               /\ {slices[j] : j \in 1 .. Len(slices)} = Slices(api)
<1> DEFINE S == {o \in Objects : api[o] # Gone}
           n == Len(order)
           slices == [i \in DOMAIN order |-> api[order[i]]]
<1>1. IsFiniteSet(S)
    BY FS_Subset
<1>2. order \in Seq(S) /\ \A o \in S : \E i \in 1 .. n : order[i] = o
    BY <1>1, OrderHasAll DEF Orders
<1>3. n \in Nat /\ DOMAIN order = 1 .. n
    BY <1>2
<1>4. \A j \in 1 .. n : slices[j] = api[order[j]] /\ order[j] \in S
    BY <1>2, <1>3
<1>5. \A o \in S : api[o] \in Contents
    BY DEF ReflectorInv, ReflectorTypeOK
<1>6. slices \in [1 .. n -> Contents]
    BY <1>3, <1>4, <1>5
<1>7. slices \in Seq(Contents) /\ Len(slices) = n
    BY <1>3, <1>6
<1>8. {slices[j] : j \in 1 .. n} = {api[o] : o \in S}
  <2> HIDE DEF slices, S
  <2>1. \A j \in 1 .. n : slices[j] \in {api[o] : o \in S}
      BY <1>4
  <2>2. \A o \in S : \E j \in 1 .. n : api[o] = slices[j]
      BY <1>2, <1>4
  <2> QED
      BY <2>1, <2>2
<1>9. Slices(api) = {api[o] : o \in S}
    BY DEF Slices
<1> QED
    BY <1>7, <1>8, <1>9

\* The manager's map is one.
LEMMA NextFunction ==
    ASSUME [Next]_vars, resources = [c \in DOMAIN resources |-> resources[c]]
    PROVE  resources' = [c \in DOMAIN resources' |-> resources'[c]]
<1>1. CASE Replace
    BY <1>1 DEF Replace, Replaced, LoadAssignmentsSeeing
<1>2. ASSUME NEW c \in doomed, DeleteEndpoints(c)
      PROVE  resources' = [d \in DOMAIN resources' |-> resources'[d]]
    BY <1>2 DEF DeleteEndpoints
<1>3. ASSUME NEW c \in DOMAIN fresh, AddEndpoints(c)
      PROVE  resources' = [d \in DOMAIN resources' |-> resources'[d]]
    BY <1>3 DEF AddEndpoints, Stored
<1>4. CASE Restart
    BY <1>4 DEF Restart, Empty
<1>5. CASE UNCHANGED resources
    BY <1>5
<1> QED
    BY <1>1, <1>2, <1>3, <1>4, <1>5
    DEF Next, Step, Begin, ChangeSlice, ChangeNode, ListSlices, AddOrUpdate,
        Delete, Update, Break, storeVars, vars

\* When the localities are those of the nodes as well, what is served is just
\* what the slices that exist translate to.
LEMMA CaughtUpServed ==
    ASSUME ReflectorInv, StoreInv, Accounted, SlicesCurrent, ContentInv,
           resources = [c \in DOMAIN resources |-> resources[c]],
           CaughtUp, Idle, \A svc \in Services : unseen[svc] = {}
    PROVE  resources = LoadAssignments(nodes, Slices(api))
<1>1. DOMAIN resources = ClusterNames(Slices(api))
    BY CaughtUpSlices
<1>2. ASSUME NEW c \in DOMAIN resources
      PROVE  resources[c] = LoadAssignments(nodes, Slices(api))[c]
  <2>1. Bare(resources[c]) = Groups(Slices(api), c)
      BY CaughtUpContent
  <2>2. \A g \in resources[c] :
            g = [node |-> g.node, locality |-> LocalityFromHost(nodes, g.node),
                 endpoints |-> g.endpoints]
      BY CaughtUpContent DEF WellLocated
  <2>3. LoadAssignments(nodes, Slices(api))[c] = Located(nodes, Bare(resources[c]))
      BY <1>1, <2>1, LoadAssignmentIs
  <2>4. ASSUME NEW g \in resources[c] PROVE g \in Located(nodes, Bare(resources[c]))
    <3> DEFINE b == [node |-> g.node, endpoints |-> g.endpoints]
    <3>1. b \in Bare(resources[c])
        BY Zenon DEF Bare
    <3>2. g = [node |-> b.node, locality |-> LocalityFromHost(nodes, b.node),
               endpoints |-> b.endpoints]
        BY <2>2
    <3> HIDE DEF b
    <3> QED
        BY <3>1, <3>2, Zenon DEF Located
  <2>5. ASSUME NEW g \in Located(nodes, Bare(resources[c])) PROVE g \in resources[c]
    <3>1. PICK b \in Bare(resources[c]) :
              g = [node |-> b.node, locality |-> LocalityFromHost(nodes, b.node),
                   endpoints |-> b.endpoints]
        BY Zenon DEF Located
    <3>2. PICK h \in resources[c] : b = [node |-> h.node, endpoints |-> h.endpoints]
        BY Zenon DEF Bare
    <3>3. g = h
        BY <2>2, <3>1, <3>2
    <3> QED
        BY <3>3
  <2>6. /\ resources[c] \subseteq Located(nodes, Bare(resources[c]))
        /\ Located(nodes, Bare(resources[c])) \subseteq resources[c]
      BY <2>4, <2>5
  <2> QED
      BY <2>3, <2>6, Zenon
<1> DEFINE all == LoadAssignments(nodes, Slices(api))
<1>3. all = [c \in ClusterNames(Slices(api)) |-> all[c]]
    BY DEF LoadAssignments, LoadAssignmentsSeeing
<1> HIDE DEF all
<1>4. \A c \in DOMAIN resources : resources[c] = all[c]
    BY <1>2 DEF all
<1>5. resources = all
    BY <1>1, <1>3, <1>4
<1> QED
    BY <1>5 DEF all

\* For finitely many slices that keep their label, whatever the server went
\* through and in whatever order the command gets the slices: when the server
\* has caught up with the slices and the nodes, the command shows what it
\* serves.
THEOREM DumpFollows ==
    ASSUME KeepLabels, IsFiniteSet(Objects)
    PROVE  Spec => []DumpShowsServed
<1> DEFINE Function == resources = [c \in DOMAIN resources |-> resources[c]]
<1>1. Init => Function
    BY DEF Init, Empty
<1>2. Function /\ [Next]_vars => Function'
    BY NextFunction
<1>3. ReflectorInv /\ StoreInv /\ Accounted /\ SlicesCurrent /\ ContentInv /\ Function
      => DumpShowsServed
  <2> SUFFICES ASSUME ReflectorInv, StoreInv, Accounted, SlicesCurrent, ContentInv,
                      Function, CaughtUp, Idle,
                      \A svc \in Services : unseen[svc] = {},
                      NEW order \in Orders(api)
               PROVE  Dumped(nodes, [i \in DOMAIN order |-> api[order[i]]]) = resources
      BY DEF DumpShowsServed
  <2> DEFINE slices == [i \in DOMAIN order |-> api[order[i]]]
  <2>1. resources = LoadAssignments(nodes, Slices(api))
      BY CaughtUpServed
  <2>2. /\ slices \in Seq(Contents)
        /\ {slices[j] : j \in 1 .. Len(slices)} = Slices(api)
      BY ListHasAll
  <2> HIDE DEF slices
  <2>3. Dumped(nodes, slices) = LoadAssignments(nodes, Slices(api))
      BY <2>2, DumpedIs
  <2> QED
      BY <2>1, <2>3 DEF slices
<1> QED
    BY <1>1, <1>2, <1>3, CurrentSlices, ContentCorrect, ReflectorCorrect,
       StoreCorrect, PTL DEF Spec

-----------------------------------------------------------------------------
(***************************************************************************)
(* The store implements EndpointAssignments.                               *)
(***************************************************************************)

\* The manager's map, and any other, as functions.
Map(f) == f = [c \in DOMAIN f |-> f[c]]

\* A map of slices holds slices.
LEMMA SlicesType ==
    \A map \in [Objects -> Contents \union {Gone}] : Slices(map) \subseteq Contents
BY DEF Slices

\* When the manager has been told everything, what is to be served is served.
LEMMA ToldTarget == ASSUME Told, Map(resources) PROVE Target = resources
BY DEF Told, Empty, Map, Target

\* A call reads nodes as the abstract one does.
LEMMA SameReading ==
    ASSUME EndReading PROVE Assignments!EndReading
BY DEF EndReading, NotReading, Assignments!EndReading, Assignments!NotReading

\* What the lookups of a call may lead to is what EndpointAssignments allows.
LEMMA SameTranslations ==
    ASSUME NEW slices \in SUBSET Contents, NEW seen \in Sightings(slices)
    PROVE  LoadAssignmentsSeeing(seen, slices) \in Assignments!Translations(slices)
<1> DEFINE Of == [known \in SUBSET Contents |->
                    [c \in ClusterNames(known) |->
                        [list \in NodeLists |-> LoadAssignment(c, list, known)]]]
           Seen == {list \in NodeLists : \A node \in Nodes : list[node] \in recent[node]}
<1>1. /\ Of[slices] = [c \in ClusterNames(slices) |->
                          [list \in NodeLists |-> LoadAssignment(c, list, slices)]]
      /\ DOMAIN Of[slices] = ClusterNames(slices)
    OBVIOUS
<1>2. seen \in [DOMAIN Of[slices] -> Seen]
    BY <1>1 DEF Sightings
<1>3. \A c \in ClusterNames(slices) :
          Of[slices][c][seen[c]] = LoadAssignment(c, seen[c], slices)
  <2> SUFFICES ASSUME NEW c \in ClusterNames(slices)
               PROVE  Of[slices][c][seen[c]] = LoadAssignment(c, seen[c], slices)
      OBVIOUS
  <2>1. seen[c] \in NodeLists
      BY DEF Sightings
  <2>2. Of[slices][c] = [list \in NodeLists |-> LoadAssignment(c, list, slices)]
      BY <1>1
  <2> QED
      BY <2>1, <2>2
<1> HIDE DEF Of, Seen
<1>4. LoadAssignmentsSeeing(seen, slices)
      = [c \in DOMAIN Of[slices] |-> Of[slices][c][seen[c]]]
    BY <1>1, <1>3 DEF LoadAssignmentsSeeing
<1>5. Assignments!Translations(slices)
      = {[c \in DOMAIN Of[slices] |-> Of[slices][c][s[c]]] :
            s \in [DOMAIN Of[slices] -> Seen]}
    BY Zenon DEF Assignments!Translations, Of, Seen, NodeLists
<1> QED
    BY <1>2, <1>4, <1>5, Zenon

\* An update is a translation of the slices of one service: of the clusters
\* that are served, those of the service are the ones that its slices had
\* ports of, so that what is not doomed and not replaced is of another one.
LEMMA UpdateImplements ==
    ASSUME StoreInv, StoreInv', Accounted, Map(resources),
           NEW o \in Objects, NEW es \in ContentsOf[o], NEW slice \in {es, Gone},
           Update(o, es, [serverESs[es.service] EXCEPT ![o] = slice])
    PROVE  Assignments!Next
<1> DEFINE svc == es.service
           after == [serverESs[svc] EXCEPT ![o] = slice]
           own == fresh'
           others == {c \in DOMAIN resources : c[1] # svc}
<1>1. es \in Contents /\ svc \in Services
    BY ServicesAssumption DEF Contents
<1>2. /\ serverESs' = [serverESs EXCEPT ![svc] = after]
      /\ DOMAIN own = ClusterNames(Slices(after))
      /\ doomed' = NamesOf(svc) \ ClusterNames(Slices(after))
      /\ resources' = resources /\ nodes' = nodes
      /\ EndReading
    BY AssignedSeeing DEF Update, Translated, Withdrawn, NamesOf
<1>3. Told /\ Target = resources
    BY <1>2, ToldTarget DEF EndReading, StoreInv
<1>4. /\ KnownSlices' \in [Services -> SUBSET Contents]
      /\ \A other \in Services \ {svc} : KnownSlices'[other] = KnownSlices[other]
      /\ KnownSlices'[svc] = Slices(after)
  <2>1. \A q \in Services : KnownSlices'[q] = Slices(serverESs'[q])
      BY DEF KnownSlices
  <2>2. \A q \in Services : Slices(serverESs'[q]) \subseteq Contents
      BY SlicesType DEF StoreInv
  <2>3. KnownSlices' \in [Services -> SUBSET Contents]
      BY <2>2 DEF KnownSlices
  <2>4. \A q \in Services : serverESs'[q] = IF q = svc THEN after ELSE serverESs[q]
      BY <1>1, <1>2 DEF StoreInv
  <2> QED
      BY <1>1, <2>1, <2>3, <2>4 DEF KnownSlices
<1>7. own \in Assignments!Translations(KnownSlices'[svc])
  <2>1. PICK seen \in Sightings(Slices(after)) :
            own = LoadAssignmentsSeeing(seen, Slices(after))
      BY DEF Update, Translated
  <2>2. KnownSlices'[svc] = Slices(after) /\ Slices(after) \in SUBSET Contents
      BY <1>1, <1>4
  <2> QED
      BY <2>1, <2>2, SameTranslations
<1> HIDE DEF after
<1>5. (DOMAIN resources \ doomed') \union DOMAIN own = others \union DOMAIN own
  <2>1. DOMAIN resources = UNION {NamesOf(q) : q \in Services}
      BY <1>3 DEF Told, Accounted, Empty
  <2>2. ASSUME NEW c \in DOMAIN resources, c \notin doomed', c \notin DOMAIN own
        PROVE  c[1] # svc
    <3>1. c \notin NamesOf(svc)
        BY <1>2, <2>2
    <3>2. PICK q \in Services : c \in NamesOf(q)
        BY <2>1
    <3> QED
        BY <3>1, <3>2, NamesHaveService
  <2>3. ASSUME NEW c \in DOMAIN resources, c[1] # svc
        PROVE  c \notin doomed'
      BY <1>1, <1>2, <2>3, NamesHaveService
  <2> QED
      BY <2>2, <2>3
<1>6. Target' = [c \in others \union DOMAIN own |->
                    IF c \in DOMAIN own THEN own[c] ELSE resources[c]]
    BY <1>2, <1>5 DEF Target
<1>8. Assignments!EndReading
    BY <1>2, SameReading
<1> HIDE DEF others, own
<1>9. Assignments!Translate(svc)
    BY <1>1, <1>2, <1>3, <1>4, <1>6, <1>7, <1>8 DEF Assignments!Translate, others
<1> QED
    BY <1>1, <1>9 DEF Assignments!Next

\* A load assignment that is to be deleted is not to be added as well: when it
\* is deleted, the cluster has what it is to have, which is nothing.
LEMMA DeleteImplements ==
    ASSUME Accounted, Map(resources), NEW c \in doomed, DeleteEndpoints(c)
    PROVE  [Assignments!Next]_(Assignments!vars)
<1>1. c \notin DOMAIN Target
  <2>1. c \notin DOMAIN fresh
      BY DEF Accounted
  <2> QED
      BY <2>1 DEF Target
<1>2. /\ resources' = [d \in DOMAIN resources \ {c} |-> resources[d]]
      /\ nodes' = nodes /\ KnownSlices' = KnownSlices
      /\ reading' = reading /\ recent' = recent
    BY DEF DeleteEndpoints, KnownSlices, readVars
<1>3. Target' = Target
  <2>1. DOMAIN resources' \ doomed' = DOMAIN resources \ doomed /\ fresh' = fresh
      BY DEF DeleteEndpoints
  <2>2. \A d \in DOMAIN resources \ doomed : resources'[d] = resources[d]
      BY DEF DeleteEndpoints
  <2> QED
      BY <2>1, <2>2 DEF Target
<1>4. CASE c \in DOMAIN resources
  <2>1. Assignments!Serve(c)
      BY <1>1, <1>2, <1>3, <1>4 DEF Assignments!Serve, Assignments!readVars
  <2> QED
      BY <1>4, <2>1 DEF Assignments!Next
<1>5. CASE c \notin DOMAIN resources
  <2>1. resources' = resources
      BY <1>2, <1>5 DEF Map
  <2> QED
      BY <1>2, <1>3, <2>1 DEF Assignments!vars, Assignments!readVars
<1> QED
    BY <1>4, <1>5

\* A load assignment that is added is the one that the cluster is to have.
LEMMA AddImplements ==
    ASSUME NEW c \in DOMAIN fresh, AddEndpoints(c)
    PROVE  Assignments!Next
<1>1. c \in DOMAIN Target /\ Target[c] = fresh[c]
    BY DEF Target
<1>2. /\ resources' = [d \in DOMAIN resources \union {c} |->
                          IF d = c THEN fresh[d] ELSE resources[d]]
      /\ nodes' = nodes /\ KnownSlices' = KnownSlices
      /\ reading' = reading /\ recent' = recent
      /\ doomed = {} /\ doomed' = {}
      /\ fresh' = [d \in DOMAIN fresh \ {c} |-> fresh[d]]
    BY DEF AddEndpoints, Stored, KnownSlices, readVars
<1>3. Target' = Target
  <2>1. DOMAIN resources' \union DOMAIN fresh' = DOMAIN resources \union DOMAIN fresh
      BY <1>2
  <2>2. \A d \in DOMAIN resources \union DOMAIN fresh :
            (IF d \in DOMAIN fresh' THEN fresh'[d] ELSE resources'[d])
            = (IF d \in DOMAIN fresh THEN fresh[d] ELSE resources[d])
      BY <1>2
  <2> QED
      BY <1>2, <2>1, <2>2 DEF Target
<1>4. resources' = [d \in (DOMAIN resources \ {c}) \union (DOMAIN Target \intersect {c}) |->
                       IF d = c THEN Target[d] ELSE resources[d]]
  <2>1. (DOMAIN resources \ {c}) \union (DOMAIN Target \intersect {c})
        = DOMAIN resources \union {c}
      BY <1>1
  <2> QED
      BY <1>1, <1>2, <2>1
<1>5. Assignments!Serve(c)
    BY <1>1, <1>2, <1>3, <1>4 DEF Assignments!Serve, Assignments!readVars
<1> QED
    BY <1>1, <1>5 DEF Assignments!Next

\* A list is translated and served at once.
LEMMA ReplaceImplements ==
    ASSUME ReflectorInv, StoreInv, StoreInv', Map(resources), Replace
    PROVE  Assignments!Next
<1>1. PICK seen \in Sightings(Slices(listed)) :
          resources' = LoadAssignmentsSeeing(seen, Slices(listed))
    BY DEF Replace, Replaced
<1> DEFINE all == LoadAssignmentsSeeing(seen, Slices(listed))
<1>2. /\ EndReading /\ Told /\ nodes' = nodes
      /\ doomed' = {} /\ fresh' = Empty
      /\ serverESs' = [svc \in Services |-> OfService(listed, svc)]
      /\ all = [c \in DOMAIN all |-> all[c]]
    BY DEF Replace, EndReading, StoreInv, Told, LoadAssignmentsSeeing
<1>3. Slices(listed) \in SUBSET Contents
    BY SlicesType DEF ReflectorInv, ReflectorTypeOK
<1>4. /\ KnownSlices' \in [Services -> SUBSET Contents]
      /\ \A svc \in Services : KnownSlices'[svc] = Slices(serverESs'[svc])
  <2>1. \A svc \in Services : Slices(serverESs'[svc]) \subseteq Contents
      BY SlicesType DEF StoreInv
  <2> QED
      BY <2>1 DEF KnownSlices
<1>5. UNION {KnownSlices'[svc] : svc \in Services} = Slices(listed)
    BY <1>2, <1>4, ListedSlices
<1>6. all \in Assignments!Translations(UNION {KnownSlices'[svc] : svc \in Services})
    BY <1>3, <1>5, SameTranslations
<1>7. resources' = all
    BY <1>1
<1> HIDE DEF all
<1>8. Target' = all
    BY <1>2, <1>7 DEF Target, Empty
<1>9. Assignments!TranslateAll
    BY <1>2, <1>4, <1>6, <1>7, <1>8, SameReading DEF Assignments!TranslateAll
<1> QED
    BY <1>9 DEF Assignments!Next

\* For any slices, nodes and configuration: although a call of the store looks
\* nodes up and deletes and adds load assignments one by one, while nodes
\* change, clients see no more than a service whose clusters go, one by one, from
\* what they had to what its slices give to them, on nodes as each was at some
\* moment of the call.
THEOREM StoreImplementsAssignments == Spec => ImplementsAssignments
<1> DEFINE Inv == ReflectorInv /\ StoreInv /\ Accounted /\ TypeOK /\ Map(resources)
<1>1. Init => Map(resources) /\ Assignments!Init
  <2> SUFFICES ASSUME Init PROVE Map(resources) /\ Assignments!Init
      OBVIOUS
  <2>1. Slices(NoObjects) = {}
      BY DEF Slices, NoObjects
  <2>2. KnownSlices = [svc \in Services |-> {}]
      BY <2>1 DEF Init, KnownSlices
  <2>3. /\ resources = Empty /\ Target = Empty /\ nodes \in NodeLists
        /\ reading = FALSE /\ recent = NotReading
      BY DEF Init, Target, Empty
  <2> QED
      BY <2>2, <2>3
      DEF Map, Empty, NodeLists, NotReading, Assignments!Init,
          Assignments!NoAssignments, Assignments!NotReading
<1>2. Map(resources) /\ [Next]_vars => Map(resources)'
    BY NextFunction DEF Map
<1>3. Inv /\ Inv' /\ [Next]_vars => [Assignments!Next]_(Assignments!vars)
  <2> SUFFICES ASSUME Inv, Inv', [Next]_vars
               PROVE  [Assignments!Next]_(Assignments!vars)
      OBVIOUS
  <2>1. CASE Begin
    <3>1. Target = resources
        BY <2>1, ToldTarget DEF Begin, Idle
    <3>2. UNCHANGED <<KnownSlices, Target>>
        BY <2>1 DEF Begin, storeVars, KnownSlices, Target
    <3>3. Assignments!Begin
        BY <2>1, <3>1, <3>2 DEF Begin, Idle, storeVars, Assignments!Begin
    <3> QED
        BY <3>3 DEF Assignments!Next
  <2>2. CASE AddOrUpdate \/ Delete
      BY <2>2, EventUpdates, UpdateImplements
  <2>3. CASE Replace
      BY <2>3, ReplaceImplements
  <2>4. CASE Restart
    <3>1. Slices(NoObjects) = {}
        BY DEF Slices, NoObjects
    <3>2. KnownSlices' = [svc \in Services |-> {}]
        BY <2>4, <3>1 DEF Restart, KnownSlices
    <3>3. /\ resources' = Empty /\ Target' = Empty /\ nodes' = nodes
          /\ reading' = FALSE /\ recent' = NotReading
        BY <2>4 DEF Restart, Target, Empty
    <3> QED
        BY <3>2, <3>3
        DEF Empty, NotReading, Assignments!Restart, Assignments!NoAssignments,
            Assignments!NotReading, Assignments!Next
  <2>5. ASSUME NEW node \in Nodes, NEW labels \in NodeLabels \union {None},
               ChangeNode(node, labels)
        PROVE  Assignments!Next
    <3>1. UNCHANGED <<KnownSlices, Target, resources>>
        BY <2>5 DEF ChangeNode, storeVars, KnownSlices, Target
    <3>2. Assignments!ChangeNode(node, labels)
        BY <2>5, <3>1 DEF ChangeNode, Assignments!ChangeNode
    <3> QED
        BY <3>2 DEF Assignments!Next
  <2>6. CASE UNCHANGED <<nodes, storeVars, readVars>>
      BY <2>6
      DEF storeVars, readVars, KnownSlices, Target, Assignments!vars,
          Assignments!readVars
  <2> QED
      BY <2>1, <2>2, <2>3, <2>4, <2>5, <2>6, DeleteImplements, AddImplements
      DEF Next, Step, ChangeSlice, ListSlices, Break, vars
<1> QED
    BY <1>1, <1>2, <1>3, ReflectorCorrect, StoreCorrect, TypeCorrect, PTL
    DEF Spec, ImplementsAssignments, Assignments!Spec
=============================================================================
