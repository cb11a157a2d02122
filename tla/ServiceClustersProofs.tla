----------------------- MODULE ServiceClustersProofs -----------------------
(***************************************************************************)
(* Theorems about ServiceClusters, for any services, configuration and     *)
(* bounds.                                                                 *)
(***************************************************************************)
EXTENDS DumpClusters, ReflectorProofs

\* The reflector's part of the state is its own, whatever the store does.
LEMMA NextReflector == ReflectorInv /\ [Next]_vars => ReflectorInv'
<1> SUFFICES ASSUME ReflectorInv, [Next]_vars PROVE ReflectorInv'
    OBVIOUS
<1>1. CASE Replace
    BY <1>1, SyncedReflector DEF Replace
<1>2. CASE UNCHANGED vars
    BY <1>2, RestReflector
    DEF vars, reflectorVars, ReflectorInv, ReflectorTypeOK
<1> QED
    BY <1>1, <1>2, ChangeReflector, ListReflector, ReceiveReflector,
       StartOverReflector
    DEF Next, Step, ChangeService, ListServices, AddOrUpdate, Delete, Break,
        Restart

THEOREM ReflectorCorrect == Spec => []ReflectorInv
<1>1. Init => ReflectorInv
    BY InitReflector DEF Init
<1> QED
    BY <1>1, NextReflector, PTL DEF Spec

-----------------------------------------------------------------------------
(***************************************************************************)
(* Nothing invalid.                                                        *)
(***************************************************************************)

\* What Add and Update leave in the manager is new or was there.
LEMMA AddedClusters ==
    ASSUME NEW cs, AddClusters(cs)
    PROVE  /\ DOMAIN clusters' = {c.name : c \in Stored(cs)} \union DOMAIN clusters
           /\ \A n \in DOMAIN clusters \ {c.name : c \in Stored(cs)} :
                 clusters'[n] = clusters[n]
           /\ \A n \in {c.name : c \in Stored(cs)} :
                 /\ clusters'[n] \in Stored(cs)
                 /\ clusters'[n].name = n
BY DEF AddClusters, Added, ByName

\* What is stored is on the list and validates.
LEMMA StoredValid ==
    ASSUME NEW cs
    PROVE  \A c \in Stored(cs) : c \in ToSet(cs) /\ Valid(c)
BY DEF Stored, ToSet

\* What is stored of a service is named after its ports, and what is deleted
\* has all their names.
LEMMA NamesOfService ==
    ASSUME NEW o \in Objects, NEW service \in ContentsOf[o]
    PROVE  /\ {c.name : c \in Stored(Translation[o][service])} \subseteq NamesOf(o, service)
           /\ DeletedNames(Translation[o][service]) = NamesOf(o, service)
<1> DEFINE cs == Translation[o][service]
<1>1. NamesOf(o, service) = {c.name : c \in ToSet(cs)}
    BY ContentsExist DEF NamesOf
<1>2. {c.name : c \in Stored(cs)} \subseteq {c.name : c \in ToSet(cs)}
    BY StoredValid
<1>3. DeletedNames(cs) = {c.name : c \in ToSet(cs)}
    BY DEF DeletedNames, ToSet
<1> QED
    BY <1>1, <1>2, <1>3

\* What replaces or joins the clusters is valid, and what is deleted is gone.
LEMMA NextOnlyValid ==
    OnlyValidClusters /\ [Next]_vars => OnlyValidClusters'
<1> SUFFICES ASSUME OnlyValidClusters, [Next]_vars PROVE OnlyValidClusters'
    OBVIOUS
<1> USE DEF OnlyValidClusters
<1>1. CASE Replace
  <2>1. CASE clusters' = clusters
      BY <2>1 DEF Valid
  <2>2. CASE /\ \A c \in ClustersOf(listed) : Valid(c)
             /\ clusters' = ByName(ClustersOf(listed))
      BY <2>2 DEF ByName, Valid
  <2> QED
      BY <1>1, <2>1, <2>2 DEF Replace
<1>2. CASE AddOrUpdate
  <2>1. PICK cs : AddClusters(cs)
      BY <1>2 DEF AddOrUpdate
  <2> QED
      BY <2>1, AddedClusters, StoredValid DEF Valid
<1>3. CASE Delete
    BY <1>3 DEF Delete, Valid
<1>4. CASE Restart
    BY <1>4 DEF Restart, Empty
<1>5. CASE UNCHANGED clusters
    BY <1>5 DEF Valid
<1> QED
    BY <1>1, <1>2, <1>3, <1>4, <1>5
    DEF Next, Step, ChangeService, ListServices, Break, vars

\* For every configuration that the loader accepts: no cluster that does not
\* validate is ever served, although only the base was validated.
THEOREM NothingInvalid == Spec => []OnlyValidClusters
<1>1. Init => OnlyValidClusters
    BY DEF Init, Empty, OnlyValidClusters
<1> QED
    BY <1>1, NextOnlyValid, PTL DEF Spec

-----------------------------------------------------------------------------
(***************************************************************************)
(* No ghosts but lost ports.                                               *)
(***************************************************************************)

\* A name of object o has a reason to be served when the first i events have
\* been handled: it is that of a port that o lost, or has, or had when it was
\* deleted, of which the store is still to hear.
Explained(n, o, i) ==
    \/ n \in lost
    \/ n \in NamesOf(o, api[o])
    \/ \E j \in DOMAIN events :
          /\ j > i
          /\ events[j].kind = "delete" /\ events[j].object = o
          /\ n \in NamesOf(o, events[j].content)

\* That holds of what the store is still to be told ...
EventsExplained ==
    \A i \in DOMAIN events :
        events[i].kind # "delete" =>
            \A n \in NamesOf(events[i].object, events[i].content) :
                Explained(n, events[i].object, i)

ListExplained ==
    mode = "sync" =>
        \A o \in Objects : \A n \in NamesOf(o, listed[o]) : Explained(n, o, 0)

\* ... and of what it has made of what it was told.
ClustersExplained ==
    mode = "watch" =>
        \A n \in DOMAIN clusters : \E o \in Objects : Explained(n, o, 0)

GhostInv == EventsExplained /\ ListExplained /\ ClustersExplained

\* A change keeps every reason.
LEMMA ChangeExplained ==
    ASSUME ReflectorInv, mode # "list",
           NEW o \in Objects, NEW content \in Contents \union {Gone},
           ChangeService(o, content),
           NEW n, NEW p \in Objects, NEW i \in 0 .. Len(events),
           Explained(n, p, i)
    PROVE  Explained(n, p, i)'
<1> USE DEF ChangeService, Change, ReflectorInv, ReflectorTypeOK
<1>1. \A j \in DOMAIN events : j \in DOMAIN events' /\ events'[j] = events[j]
    BY ChangeEvent
<1>3. CASE n \in lost
    BY <1>3 DEF Explained
<1>4. CASE \E j \in DOMAIN events :
              /\ j > i
              /\ events[j].kind = "delete" /\ events[j].object = p
              /\ n \in NamesOf(p, events[j].content)
    BY <1>1, <1>4 DEF Explained, NamesOf
<1>5. CASE n \in NamesOf(p, api[p]) /\ p # o
    BY <1>5 DEF Explained, NamesOf
<1>6. CASE n \in NamesOf(o, api[o]) /\ p = o /\ content # Gone
    BY <1>6 DEF Explained, NamesOf
<1>7. CASE n \in NamesOf(o, api[o]) /\ p = o /\ content = Gone
  <2>1. /\ Len(events) + 1 \in DOMAIN events'
        /\ events'[Len(events) + 1] =
              [kind |-> "delete", object |-> o, content |-> api[o]]
      BY <1>7
  <2> QED
      BY <1>7, <2>1 DEF Explained, NamesOf
<1> QED
    BY <1>3, <1>4, <1>5, <1>6, <1>7 DEF Explained

\* The event of a change is explained by what the object has become.
LEMMA ChangeGhostInv ==
    ASSUME ReflectorInv, GhostInv,
           NEW o \in Objects, NEW content \in Contents \union {Gone},
           ChangeService(o, content)
    PROVE  GhostInv'
<1> USE DEF GhostInv
<1>1. CASE mode = "list"
    BY <1>1
    DEF ChangeService, Change, ReflectorInv, NoEvents, EventsExplained,
        ListExplained, ClustersExplained
<1>2. CASE mode # "list"
  <2>1. /\ mode' = mode /\ listed' = listed /\ clusters' = clusters
        /\ api' = [api EXCEPT ![o] = content]
        /\ api \in [Objects -> Contents \union {Gone}]
        /\ events \in Seq(Event)
      BY DEF ChangeService, Change, ReflectorInv, ReflectorTypeOK
  <2>2. PICK e \in Event :
            /\ events' = Append(events, e)
            /\ e.kind # "delete" => e.object = o /\ e.content = content
      BY <1>2, <2>1
      DEF ChangeService, Change, Event, ReflectorInv, ReflectorTypeOK, Contents
  <2>3. EventsExplained'
    <3> SUFFICES ASSUME NEW i \in DOMAIN events', events'[i].kind # "delete",
                        NEW n \in NamesOf(events'[i].object, events'[i].content)
                 PROVE  Explained(n, events[i].object, i)'
        BY DEF EventsExplained
    <3>1. CASE i \in DOMAIN events
      <4> DEFINE p == events[i].object
      <4>1. events'[i] = events[i] /\ events[i] \in Event
          BY <2>1, <2>2, <3>1
      <4>2. PICK q \in Objects : q = p
          BY <4>1 DEF Event
      <4>3. Explained(n, q, i)
          BY <3>1, <4>1, <4>2 DEF EventsExplained, NamesOf
      <4>4. Explained(n, q, i)'
          BY <1>2, <2>1, <3>1, <4>3, ChangeExplained
      <4> QED
          BY <4>1, <4>2, <4>4 DEF Explained
    <3>2. CASE i \notin DOMAIN events
      <4>1. events'[i] = e
          BY <2>1, <2>2, <3>2
      <4> QED
          BY <2>1, <2>2, <4>1 DEF Explained, NamesOf
    <3> QED
        BY <3>1, <3>2
  <2>4. ListExplained'
      BY <1>2, <2>1, ChangeExplained DEF ListExplained, NamesOf
  <2>5. ClustersExplained'
      BY <1>2, <2>1, ChangeExplained DEF ClustersExplained
  <2> QED
      BY <2>3, <2>4, <2>5
<1> QED
    BY <1>1, <1>2

\* When the first event is handled, the others come one place forward.
LEMMA ReceiveExplained ==
    ASSUME ReflectorInv, NEW kinds, Receive(kinds), UNCHANGED lost,
           NEW n, NEW p \in Objects
    PROVE  /\ \A i \in Nat : Explained(n, p, i + 1) => Explained(n, p, i)'
           /\ \/ ~Explained(n, p, 0)
              \/ Explained(n, p, 0)'
              \/ /\ events[1].kind = "delete" /\ events[1].object = p
                 /\ n \in NamesOf(p, events[1].content)
<1>1. api' = api /\ events \in Seq(Event)
    BY DEF Receive, ReflectorInv, ReflectorTypeOK
<1>2. CASE n \in lost \/ n \in NamesOf(p, api[p])
    BY <1>1, <1>2 DEF Explained, NamesOf
<1>3. ASSUME NEW i \in Nat, NEW j \in DOMAIN events, j > 1, j - 1 > i,
             events[j].kind = "delete", events[j].object = p,
             n \in NamesOf(p, events[j].content)
      PROVE  Explained(n, p, i)'
  <2>1. j - 1 \in DOMAIN events' /\ events'[j - 1] = events[j]
      BY <1>3, ReceiveEvents
  <2> QED
      BY <1>3, <2>1 DEF Explained, NamesOf
<1>4. ASSUME NEW i \in Nat, Explained(n, p, i + 1) PROVE Explained(n, p, i)'
    BY <1>1, <1>2, <1>3, <1>4 DEF Explained
<1>5. ASSUME Explained(n, p, 0),
             ~(/\ events[1].kind = "delete" /\ events[1].object = p
               /\ n \in NamesOf(p, events[1].content))
      PROVE  Explained(n, p, 0)'
    BY <1>1, <1>2, <1>3, <1>5 DEF Explained
<1> QED
    BY <1>4, <1>5

\* What was still to be told stays explained when the first event is.
LEMMA ReceiveGhostInv ==
    ASSUME ReflectorInv, GhostInv, NEW kinds, Receive(kinds), UNCHANGED lost
    PROVE  EventsExplained' /\ ListExplained'
<1>1. ListExplained'
    BY DEF Receive, ListExplained
<1>2. ASSUME NEW i \in DOMAIN events', events'[i].kind # "delete",
             NEW n \in NamesOf(events'[i].object, events'[i].content)
      PROVE  Explained(n, events[i].object, i)'
  <2>1. /\ events' \in Seq(Event) /\ events'[i] \in Event
        /\ i + 1 \in DOMAIN events /\ events'[i] = events[i + 1]
      BY ReceiveEvents
  <2>2. PICK q \in Objects : q = events'[i].object
      BY <2>1 DEF Event
  <2>3. Explained(n, q, i + 1)
      BY <1>2, <2>1, <2>2 DEF GhostInv, EventsExplained
  <2>4. \A k \in Nat : Explained(n, q, k + 1) => Explained(n, q, k)'
      BY ReceiveExplained
  <2>5. i \in Nat
      BY <2>1
  <2>6. Explained(n, q, i)'
      BY <2>3, <2>4, <2>5
  <2> QED
      BY <2>2, <2>6 DEF Explained
<1> QED
    BY <1>1, <1>2 DEF EventsExplained, NamesOf

\* A service's clusters get names that the event explains.
LEMMA AddGhostInv == ASSUME ReflectorInv, GhostInv, AddOrUpdate PROVE GhostInv'
<1>1. PICK kinds : Receive(kinds) /\ "delete" \notin kinds
    BY DEF AddOrUpdate
<1>2. PICK o \in Objects, service \in Contents :
          /\ o = events[1].object /\ service = events[1].content
          /\ service \in ContentsOf[o]
          /\ 1 \in DOMAIN events /\ events[1].kind # "delete"
          /\ AddClusters(Translation[o][service])
    BY <1>1, ReceiveEvents DEF AddOrUpdate, Event
<1>3. UNCHANGED lost /\ mode = "watch"
    BY <1>1 DEF AddOrUpdate, Receive
<1>4. ASSUME NEW n \in DOMAIN clusters PROVE \E p \in Objects : Explained(n, p, 0)'
  <2>1. PICK p \in Objects : Explained(n, p, 0)
      BY <1>3 DEF GhostInv, ClustersExplained
  <2> QED
      BY <1>1, <1>2, <1>3, <2>1, ReceiveExplained
<1>5. ASSUME NEW n \in {c.name : c \in Stored(Translation[o][service])}
      PROVE  Explained(n, o, 0)'
  <2>1. n \in NamesOf(o, service)
      BY <1>2, ContentsExist, StoredValid DEF NamesOf
  <2>2. Explained(n, o, 0 + 1)
      BY <1>2, <2>1 DEF GhostInv, EventsExplained
  <2> QED
      BY <1>1, <1>3, <2>2, ReceiveExplained
<1>6. ClustersExplained'
    BY <1>2, <1>4, <1>5, AddedClusters DEF ClustersExplained
<1> QED
    BY <1>1, <1>3, <1>6, ReceiveGhostInv DEF GhostInv

\* A name that only the deletion explains is deleted.
LEMMA DeleteGhostInv == ASSUME ReflectorInv, GhostInv, Delete PROVE GhostInv'
<1>1. PICK kinds : Receive(kinds)
    BY DEF Delete
<1>2. PICK o \in Objects, service \in Contents :
          /\ o = events[1].object /\ service = events[1].content
          /\ service \in ContentsOf[o]
          /\ clusters' = [n \in DOMAIN clusters
                                \ DeletedNames(Translation[o][service]) |-> clusters[n]]
    BY <1>1, ReceiveEvents DEF Delete, Event
<1>3. UNCHANGED lost /\ mode = "watch"
    BY <1>1 DEF Delete, Receive
<1>4. ASSUME NEW n \in DOMAIN clusters' PROVE \E p \in Objects : Explained(n, p, 0)'
  <2>1. n \in DOMAIN clusters /\ n \notin NamesOf(o, service)
    <3>1. n \in DOMAIN clusters /\ n \notin DeletedNames(Translation[o][service])
        BY <1>2
    <3> QED
        BY <1>2, <3>1, NamesOfService
  <2>2. PICK p \in Objects : Explained(n, p, 0)
      BY <1>3, <2>1 DEF GhostInv, ClustersExplained
  <2>3. ~(/\ events[1].kind = "delete" /\ events[1].object = p
          /\ n \in NamesOf(p, events[1].content))
      BY <1>2, <2>1
  <2> QED
      BY <1>1, <1>3, <2>2, <2>3, ReceiveExplained
<1>5. ClustersExplained'
    BY <1>4 DEF ClustersExplained
<1> QED
    BY <1>1, <1>3, <1>5, ReceiveGhostInv DEF GhostInv

\* What replaces the clusters is explained because the list is.
LEMMA ReplaceGhostInv == ASSUME ReflectorInv, GhostInv, Replace PROVE GhostInv'
<1>1. CASE mode' = "list" /\ events' = <<>>
    BY <1>1 DEF GhostInv, EventsExplained, ListExplained, ClustersExplained
<1>2. CASE /\ mode' = "watch" /\ mode = "sync"
           /\ UNCHANGED <<api, events, lost>>
           /\ clusters' = ByName(ClustersOf(listed))
  <2>1. \A n, p, i : Explained(n, p, i)' <=> Explained(n, p, i)
      BY <1>2 DEF Explained, NamesOf
  <2>2. EventsExplained'
      BY <1>2, <2>1 DEF GhostInv, EventsExplained, NamesOf
  <2>3. ASSUME NEW n \in DOMAIN clusters' PROVE \E p \in Objects : Explained(n, p, 0)'
    <3>1. PICK p \in Objects : n \in NamesOf(p, listed[p])
        BY <1>2, <2>3 DEF ByName, ClustersOf, NamesOf
    <3> QED
        BY <1>2, <2>1, <3>1 DEF GhostInv, ListExplained
  <2> QED
      BY <1>2, <2>2, <2>3 DEF GhostInv, ListExplained, ClustersExplained
<1> QED
    BY <1>1, <1>2 DEF Replace, Synced

\* Every step: a list and a new start leave nothing to explain.
LEMMA NextGhostInv == ReflectorInv /\ GhostInv /\ [Next]_vars => GhostInv'
<1> SUFFICES ASSUME ReflectorInv, GhostInv, [Next]_vars PROVE GhostInv'
    OBVIOUS
<1>1. CASE ListServices
    BY <1>1
    DEF ListServices, List, ReflectorInv, NoEvents, GhostInv, EventsExplained,
        ListExplained, ClustersExplained, Explained
<1>2. CASE StartOver
    BY <1>2
    DEF StartOver, GhostInv, EventsExplained, ListExplained, ClustersExplained
<1>3. CASE UNCHANGED vars
    BY <1>3
    DEF vars, reflectorVars, GhostInv, EventsExplained, ListExplained,
        ClustersExplained, Explained, NamesOf
<1> QED
    BY <1>1, <1>2, <1>3, ChangeGhostInv, AddGhostInv, DeleteGhostInv,
       ReplaceGhostInv
    DEF Next, Step, Break, Restart

\* For any services, configuration and interleaving of changes, lists and
\* calls: when the store has heard everything, what it serves beyond the
\* existing ports are ports that a living service has lost since the last list.
THEOREM GhostsComeFromUpdate == Spec => []GhostsAreLostPorts
<1>1. Init => GhostInv
    BY DEF Init, ReflectorInit, GhostInv, EventsExplained, ListExplained,
           ClustersExplained
<1>2. ReflectorInv /\ GhostInv => GhostsAreLostPorts
  <2> SUFFICES ASSUME ReflectorInv, GhostInv, CaughtUp, NEW n \in DOMAIN clusters
               PROVE  n \in {c.name : c \in Expected} \union lost
      BY DEF GhostsAreLostPorts
  <2>1. PICK o \in Objects : Explained(n, o, 0)
      BY DEF CaughtUp, GhostInv, ClustersExplained
  <2>2. n \in lost \/ n \in NamesOf(o, api[o])
      BY <2>1 DEF CaughtUp, Explained
  <2> QED
      BY <2>2 DEF Expected, ClustersOf, NamesOf
<1> QED
    BY <1>1, <1>2, ReflectorCorrect, NextGhostInv, PTL DEF Spec

\* The hypothesis: a service never loses a port while it lives.
KeepPorts ==
    \A o \in Objects : \A before, after \in ContentsOf[o] :
        NamesOf(o, before) \subseteq NamesOf(o, after)

\* A ghost takes a service that loses a port: where none does, whatever else
\* happens, nothing is served that no port of an existing service has.
THEOREM NoPortLostNoGhost ==
    ASSUME KeepPorts
    PROVE  Spec => []NoGhostClusters
<1> DEFINE NoneLost == lost = {}
<1>1. Init => NoneLost
    BY DEF Init
<1>2. ReflectorInv /\ NoneLost /\ [Next]_vars => NoneLost'
  <2> SUFFICES ASSUME ReflectorInv, NoneLost, [Next]_vars PROVE NoneLost'
      OBVIOUS
  <2>1. ASSUME NEW o \in Objects, NEW content \in Contents \union {Gone},
               ChangeService(o, content), content # Gone
        PROVE  NamesOf(o, api[o]) \subseteq NamesOf(o, content)
    <3>1. content \in ContentsOf[o] /\ api[o] \in ContentsOf[o] \union {Gone}
        BY <2>1 DEF ChangeService, Change, ReflectorInv, OwnContents
    <3> QED
        BY <3>1 DEF KeepPorts, NamesOf
  <2> QED
      BY <2>1 DEF Next, ChangeService, ListServices, Step, Replace, AddOrUpdate,
                  Delete, Break, Restart, vars
<1>3. GhostsAreLostPorts /\ NoneLost => NoGhostClusters
    BY DEF GhostsAreLostPorts, NoGhostClusters
<1> QED
    BY <1>1, <1>2, <1>3, ReflectorCorrect, GhostsComeFromUpdate, PTL DEF Spec

-----------------------------------------------------------------------------
(***************************************************************************)
(* Every port that can be served is.                                       *)
(***************************************************************************)

\* The hypothesis: clusters are told apart by their names.  Kubernetes sees to
\* it that services and the ports of one have different names; an override
\* that sets a name can break it.
UniqueNames ==
    /\ \A o, p \in Objects : o # p =>
          \A service \in ContentsOf[o], other \in ContentsOf[p] :
              NamesOf(o, service) \intersect NamesOf(p, other) = {}
    /\ \A o \in Objects : \A service \in ContentsOf[o] :
          \A c, d \in ToSet(Translation[o][service]) : c.name = d.name => c = d

\* The manager has the clusters of a service.
Serves(o, service) ==
    \A c \in Stored(Translation[o][service]) :
        c.name \in DOMAIN clusters /\ clusters[c.name] = c

\* The manager has those of every service of which the store has heard all.
ClustersCurrent ==
    mode = "watch" =>
        \A o \in Objects : Quiet(o) /\ api[o] # Gone => Serves(o, api[o])

\* A change is an event about its object: it need not be served yet.
LEMMA ChangeClustersCurrent ==
    ASSUME ReflectorInv, ClustersCurrent,
           NEW o \in Objects, NEW content \in Contents \union {Gone},
           ChangeService(o, content)
    PROVE  ClustersCurrent'
<1>1. mode' = mode /\ clusters' = clusters /\ Change(o, content)
    BY DEF ChangeService, Change
<1> QED
    BY <1>1, ChangeQuiet DEF ClustersCurrent, Serves

\* The clusters of the service of the event are what it says, and they are
\* nobody else's.
LEMMA AddClustersCurrent ==
    ASSUME UniqueNames, ReflectorInv, ClustersCurrent, AddOrUpdate PROVE ClustersCurrent'
<1>1. PICK kinds : Receive(kinds) /\ "delete" \notin kinds
    BY DEF AddOrUpdate
<1>2. PICK o \in Objects, service \in Contents :
          /\ o = events[1].object /\ service = events[1].content
          /\ service \in ContentsOf[o]
          /\ events[1].kind # "delete"
          /\ AddClusters(Translation[o][service])
    BY <1>1, ReceiveEvents DEF AddOrUpdate, Event
<1>3. api' = api /\ mode = "watch"
    BY <1>1 DEF Receive
<1> DEFINE cs == Translation[o][service]
<1>4. \A c \in Stored(cs) : c \in ToSet(cs) /\ c.name \in NamesOf(o, service)
    BY <1>2, ContentsExist, StoredValid DEF NamesOf
<1>5. ASSUME NEW c \in Stored(cs)
      PROVE  c.name \in DOMAIN clusters' /\ clusters'[c.name] = c
  <2>1. c.name \in {d.name : d \in Stored(cs)}
      OBVIOUS
  <2>2. c.name \in DOMAIN clusters'
      BY <1>2, <2>1, AddedClusters
  <2>3. clusters'[c.name] \in Stored(cs) /\ clusters'[c.name].name = c.name
      BY <1>2, <2>1, AddedClusters
  <2>4. \A d \in Stored(cs) : d.name = c.name => d = c
      BY <1>2, <1>4 DEF UniqueNames
  <2> QED
      BY <2>2, <2>3, <2>4
<1>6. ASSUME NEW p \in Objects, p # o, api[p] # Gone, Serves(p, api[p]),
             NEW c \in Stored(Translation[p][api[p]])
      PROVE  c.name \in DOMAIN clusters' /\ clusters'[c.name] = c
  <2>1. api[p] \in ContentsOf[p]
      BY <1>6 DEF ReflectorInv, OwnContents
  <2>2. c.name \in NamesOf(p, api[p])
      BY <1>6, StoredValid DEF NamesOf
  <2>3. c.name \notin {d.name : d \in Stored(cs)}
    <3>1. c.name \notin NamesOf(o, service)
        BY <1>2, <1>6, <2>1, <2>2 DEF UniqueNames
    <3> QED
        BY <1>4, <3>1
  <2>4. c.name \in DOMAIN clusters /\ clusters[c.name] = c
      BY <1>6 DEF Serves
  <2>5. AddClusters(cs)
      BY <1>2
  <2> QED
      BY <2>3, <2>4, <2>5, AddedClusters
<1>7. ASSUME NEW p \in Objects, Quiet(p)', api[p] # Gone
      PROVE  Serves(p, api[p])'
  <2>1. CASE p = o
      BY <1>1, <1>2, <1>3, <1>5, <1>7, <2>1, ReceiveQuiet DEF Serves
  <2>2. CASE p # o
    <3>1. Serves(p, api[p])
        BY <1>1, <1>2, <1>3, <1>7, <2>2, ReceiveQuiet DEF ClustersCurrent
    <3> QED
        BY <1>3, <1>6, <1>7, <2>2, <3>1 DEF Serves
  <2> QED
      BY <2>1, <2>2
<1> QED
    BY <1>3, <1>7 DEF ClustersCurrent

\* A deletion takes nothing from the services that remain.
LEMMA DeleteClustersCurrent ==
    ASSUME UniqueNames, ReflectorInv, ClustersCurrent, Delete PROVE ClustersCurrent'
<1>1. PICK kinds : Receive(kinds) /\ kinds = {"delete"}
    BY DEF Delete
<1>2. PICK o \in Objects, service \in Contents :
          /\ o = events[1].object /\ service = events[1].content
          /\ service \in ContentsOf[o]
          /\ events[1].kind = "delete"
          /\ clusters' = [n \in DOMAIN clusters
                                \ DeletedNames(Translation[o][service]) |-> clusters[n]]
    BY <1>1, ReceiveEvents DEF Delete, Event
<1>3. api' = api /\ mode = "watch"
    BY <1>1 DEF Receive
<1>4. \A n \in DeletedNames(Translation[o][service]) : n \in NamesOf(o, service)
    BY <1>2, NamesOfService
<1>5. ASSUME NEW p \in Objects, Quiet(p)', api[p] # Gone
      PROVE  Serves(p, api[p])'
  <2>1. p # o /\ Serves(p, api[p])
      BY <1>1, <1>2, <1>3, <1>5, ReceiveQuiet DEF ClustersCurrent
  <2>2. api[p] \in ContentsOf[p]
      BY <1>5 DEF ReflectorInv, OwnContents
  <2>3. \A c \in Stored(Translation[p][api[p]]) : c.name \notin NamesOf(o, service)
    <3> SUFFICES ASSUME NEW c \in Stored(Translation[p][api[p]])
                 PROVE  c.name \notin NamesOf(o, service)
        OBVIOUS
    <3>1. c.name \in NamesOf(p, api[p])
        BY <1>5, StoredValid DEF NamesOf
    <3> QED
        BY <1>2, <2>1, <2>2, <3>1 DEF UniqueNames
  <2> QED
      BY <1>2, <1>3, <1>4, <2>1, <2>3 DEF Serves
<1> QED
    BY <1>3, <1>5 DEF ClustersCurrent

\* Each cluster of a list has its name to itself.
LEMMA ReplaceClustersCurrent ==
    ASSUME UniqueNames, ReflectorInv, ClustersCurrent, Replace PROVE ClustersCurrent'
<1>1. CASE mode' = "list" /\ events' = <<>>
    BY <1>1 DEF ClustersCurrent
<1>2. CASE /\ mode' = "watch" /\ mode = "sync"
           /\ UNCHANGED <<api, events>>
           /\ clusters' = ByName(ClustersOf(listed))
  <2>1. ASSUME NEW p \in Objects, listed[p] # Gone,
               NEW c \in Stored(Translation[p][listed[p]])
        PROVE  c.name \in DOMAIN clusters' /\ clusters'[c.name] = c
    <3>1. listed[p] \in ContentsOf[p]
        BY <2>1 DEF ReflectorInv, OwnContents
    <3>2. c \in ToSet(Translation[p][listed[p]]) /\ c.name \in NamesOf(p, listed[p])
        BY <2>1, StoredValid DEF NamesOf
    <3>3. c \in ClustersOf(listed)
        BY <2>1, <3>2 DEF ClustersOf
    <3>4. ASSUME NEW d \in ClustersOf(listed), d.name = c.name PROVE d = c
      <4>1. PICK q \in Objects : listed[q] # Gone /\ d \in ToSet(Translation[q][listed[q]])
          BY DEF ClustersOf
      <4>2. listed[q] \in ContentsOf[q] /\ d.name \in NamesOf(q, listed[q])
          BY <4>1 DEF ReflectorInv, OwnContents, NamesOf
      <4>3. q = p
          BY <3>1, <3>2, <3>4, <4>2 DEF UniqueNames
      <4> QED
          BY <3>1, <3>2, <3>4, <4>1, <4>3 DEF UniqueNames
    <3> QED
        BY <1>2, <3>3, <3>4 DEF ByName
  <2> QED
      BY <1>2, <2>1 DEF ReflectorInv, ListCurrent, ClustersCurrent, Serves, Quiet
<1> QED
    BY <1>1, <1>2 DEF Replace, Synced

\* Every step: a list is current, and a new start leaves nothing to show.
LEMMA NextClustersCurrent ==
    UniqueNames /\ ReflectorInv /\ ClustersCurrent /\ [Next]_vars => ClustersCurrent'
<1> SUFFICES ASSUME UniqueNames, ReflectorInv, ClustersCurrent, [Next]_vars PROVE ClustersCurrent'
    OBVIOUS
<1>1. CASE ListServices
    BY <1>1
    DEF ListServices, List, ClustersCurrent
<1>2. CASE StartOver
    BY <1>2 DEF StartOver, ClustersCurrent
<1>3. CASE UNCHANGED vars
    BY <1>3
    DEF vars, reflectorVars, ClustersCurrent, Quiet, Serves
<1> QED
    BY <1>1, <1>2, <1>3, ChangeClustersCurrent, AddClustersCurrent,
       DeleteClustersCurrent, ReplaceClustersCurrent
    DEF Next, Step, Break, Restart

\* For any services whose clusters have names of their own, whatever happens to
\* them and to the watch: when the store has heard everything, every port up
\* to an invalid one has its cluster, with the configuration it should have.
THEOREM PortsServed ==
    ASSUME UniqueNames
    PROVE  Spec => []EveryPortServed
<1>1. Init => ClustersCurrent
    BY DEF Init, ReflectorInit, ClustersCurrent
<1>2. ReflectorInv /\ ClustersCurrent => EveryPortServed
  <2> SUFFICES ASSUME ClustersCurrent, CaughtUp,
                      NEW o \in Objects, api[o] # Gone,
                      NEW c \in Stored(Translation[o][api[o]])
               PROVE  c.name \in DOMAIN clusters /\ clusters[c.name] = c
      BY DEF EveryPortServed, AllServed, Servable
  <2>1. mode = "watch" /\ Quiet(o)
      BY DEF CaughtUp, Quiet
  <2> QED
      BY <2>1 DEF ClustersCurrent, Serves
<1>3. ReflectorInv /\ ClustersCurrent /\ [Next]_vars => ClustersCurrent'
    BY NextClustersCurrent
<1> QED
    BY <1>1, <1>2, <1>3, ReflectorCorrect, PTL DEF Spec


-----------------------------------------------------------------------------
(***************************************************************************)
(* Types.                                                                  *)
(***************************************************************************)

\* The manager's map is one, from the names of clusters to clusters that have
\* them, for ports of services.
ClustersTyped ==
    /\ clusters = [n \in DOMAIN clusters |-> clusters[n]]
    /\ \A n \in DOMAIN clusters :
          /\ clusters[n].name = n
          /\ \E o \in Objects : \E service \in ContentsOf[o] : n \in NamesOf(o, service)

LEMMA NextClustersTyped ==
    ReflectorInv /\ ClustersTyped /\ [Next]_vars => ClustersTyped'
<1> SUFFICES ASSUME ReflectorInv, ClustersTyped, [Next]_vars PROVE ClustersTyped'
    OBVIOUS
<1> DEFINE Known(n) ==
        \E o \in Objects : \E service \in ContentsOf[o] : n \in NamesOf(o, service)
<1>1. CASE Replace /\ clusters' = ByName(ClustersOf(listed))
  <2>1. ASSUME NEW c \in ClustersOf(listed) PROVE Known(c.name)
    <3>1. PICK o \in Objects :
              listed[o] # Gone /\ c \in ToSet(Translation[o][listed[o]])
        BY DEF ClustersOf
    <3>2. listed[o] \in ContentsOf[o] /\ c.name \in NamesOf(o, listed[o])
        BY <3>1 DEF NamesOf, ReflectorInv, OwnContents
    <3> QED
        BY <3>2
  <2> HIDE DEF Known
  <2>2. /\ DOMAIN clusters' = {c.name : c \in ClustersOf(listed)}
        /\ \A n \in DOMAIN clusters' :
              clusters'[n] \in ClustersOf(listed) /\ clusters'[n].name = n
        /\ clusters' = [n \in DOMAIN clusters' |-> clusters'[n]]
      BY <1>1 DEF ByName
  <2>3. \A n \in DOMAIN clusters' : clusters'[n].name = n /\ Known(n)
      BY <2>1, <2>2
  <2> QED
      BY <2>2, <2>3 DEF ClustersTyped, Known, NamesOf
<1>2. CASE AddOrUpdate
  <2>1. PICK o \in Objects, service \in Contents :
            /\ service \in ContentsOf[o]
            /\ AddClusters(Translation[o][service])
    <3>1. PICK kinds : Receive(kinds)
        BY <1>2 DEF AddOrUpdate
    <3> QED
        BY <1>2, <3>1, ReceiveEvents DEF AddOrUpdate, Event
  <2> DEFINE cs == Translation[o][service]
  <2>2. \A n \in {c.name : c \in Stored(cs)} : Known(n)
      BY <2>1, NamesOfService
  <2>3. clusters' = [n \in DOMAIN clusters' |-> clusters'[n]]
      BY <2>1 DEF AddClusters, Added
  <2>4. ASSUME NEW n \in DOMAIN clusters' PROVE clusters'[n].name = n /\ Known(n)
    <3>1. AddClusters(cs)
        BY <2>1
    <3>2. CASE n \in {c.name : c \in Stored(cs)}
        BY <2>2, <3>1, <3>2, AddedClusters
    <3>3. CASE n \notin {c.name : c \in Stored(cs)}
      <4>1. n \in DOMAIN clusters /\ clusters'[n] = clusters[n]
          BY <2>4, <3>1, <3>3, AddedClusters
      <4> QED
          BY <4>1 DEF ClustersTyped
    <3> QED
        BY <3>2, <3>3
  <2> QED
      BY <2>3, <2>4 DEF ClustersTyped, NamesOf
<1>3. CASE Delete
    BY <1>3 DEF Delete, ClustersTyped, NamesOf
<1>4. CASE Restart
    BY <1>4 DEF Restart, Empty, ClustersTyped
<1>5. CASE UNCHANGED clusters
    BY <1>5 DEF ClustersTyped, NamesOf
<1> QED
    BY <1>1, <1>2, <1>3, <1>4, <1>5
    DEF Next, Step, Replace, ChangeService, ListServices, Break, vars

LEMMA TypedClusters == Spec => []ClustersTyped
<1>1. Init => ClustersTyped
    BY DEF Init, Empty, ClustersTyped
<1> QED
    BY <1>1, NextClustersTyped, ReflectorCorrect, PTL DEF Spec

-----------------------------------------------------------------------------
(***************************************************************************)
(* Where the names of clusters come from.                                  *)
(***************************************************************************)

\* No override sets a name.
KeepNames ==
    \A i \in DOMAIN Overrides :
        ~ Overrides[i].suppress => Overrides[i].override.name = None

\* A cluster of that name, or none.
Named(cluster, name) ==
    cluster = None \/ ("name" \in DOMAIN cluster /\ cluster.name = name)

\* What ApplyOverride computes, up to the n-th override.
Overriding(after, n, cluster, port) ==
    after = [i \in 0 .. n |->
                IF i = 0 THEN cluster ELSE Apply(Overrides[i], after[i - 1], port)]

LEMMA SomeOverriding ==
    ASSUME NEW n \in Nat, NEW cluster, NEW port
    PROVE  \E after : Overriding(after, n, cluster, port)
<1> DEFINE Defined == {k \in 0 .. n : \E after : Overriding(after, k, cluster, port)}
<1>1. 0 \in Defined
  <2>1. Overriding([i \in 0 .. 0 |-> cluster], 0, cluster, port)
      BY DEF Overriding
  <2> QED
      BY <2>1
<1>2. ASSUME NEW k \in 1 .. n, k - 1 \in Defined PROVE k \in Defined
  <2>1. PICK f : Overriding(f, k - 1, cluster, port)
      BY <1>2
  <2> DEFINE g == [i \in 0 .. k |->
                     IF i = k THEN Apply(Overrides[k], f[k - 1], port) ELSE f[i]]
  <2>2. \A i \in 0 .. k :
            g[i] = IF i = 0 THEN cluster ELSE Apply(Overrides[i], g[i - 1], port)
      BY <2>1 DEF Overriding
  <2>3. g = [i \in 0 .. k |-> g[i]]
      OBVIOUS
  <2> HIDE DEF g
  <2>4. Overriding(g, k, cluster, port)
      BY <2>2, <2>3 DEF Overriding
  <2> QED
      BY <2>4
<1> HIDE DEF Defined
<1>3. n \in Defined
    BY <1>1, <1>2, Induction DEF Climbs
<1> QED
    BY <1>3 DEF Defined

\* Without a name of their own, overrides leave the cluster its name.
LEMMA NameStays ==
    ASSUME KeepNames, NEW cluster, "name" \in DOMAIN cluster, NEW port
    PROVE  Named(ApplyOverride(cluster, port), cluster.name)
<1> DEFINE n == Len(Overrides)
           after == CHOOSE f : Overriding(f, n, cluster, port)
           Right == {k \in 0 .. n : Named(after[k], cluster.name)}
<1>1. n \in Nat /\ DOMAIN Overrides = 1 .. n
    BY LoadedConfig
<1>2. Overriding(after, n, cluster, port)
    BY <1>1, SomeOverriding
<1>3. ApplyOverride(cluster, port) = after[n]
    BY Zenon DEF ApplyOverride, Overriding
<1> HIDE DEF after
<1>4. 0 \in Right
    BY <1>1, <1>2 DEF Overriding, Named
<1>5. ASSUME NEW k \in 1 .. n, k - 1 \in Right PROVE k \in Right
  <2>1. after[k] = Apply(Overrides[k], after[k - 1], port)
      BY <1>1, <1>2 DEF Overriding
  <2>2. Named(after[k - 1], cluster.name)
      BY <1>5
  <2>3. Named(Apply(Overrides[k], after[k - 1], port), cluster.name)
      BY <1>1, <2>2 DEF KeepNames, Named, Apply, Merge
  <2> QED
      BY <2>1, <2>3
<1>6. 0 .. n \subseteq Right
    BY <1>1, <1>4, <1>5, Induction DEF Climbs
<1> QED
    BY <1>1, <1>3, <1>6

\* A cluster has the name of its port.
LEMMA PortNames ==
    ASSUME KeepNames, NEW svc, NEW port
    PROVE  LET cluster == ClusterFromPort(svc, port)
               name == NameCluster(svc, port)
           IN  cluster = None \/ (name # None /\ cluster.name = name)
<1> DEFINE name == NameCluster(svc, port)
           base == [BaseConfig EXCEPT !.name = name]
           cluster == ApplyOverride(base, port)
<1>1. "name" \in DOMAIN base /\ base.name = name
    BY LoadedConfig DEF AcceptedBase
<1>2. Named(cluster, name)
  <2> HIDE DEF name, base
  <2> QED
      BY <1>1, NameStays
<1> HIDE DEF name, cluster
<1>3. cluster = None \/ WithTarget(svc, port, cluster).name = name
    BY <1>2 DEF Named, WithTarget
<1> QED
    BY <1>3 DEF ClusterFromPort, name, cluster

\* What ClustersFromService computes, up to the n-th port.
Collecting(result, n, svc, ports) ==
    result = [i \in 0 .. n |->
                 IF i = 0 THEN <<>>
                 ELSE AppendCluster(result[i - 1], ClusterFromPort(svc, ports[i]))]

LEMMA SomeCollecting ==
    ASSUME NEW n \in Nat, NEW svc, NEW ports
    PROVE  \E result : Collecting(result, n, svc, ports)
<1> DEFINE Defined == {k \in 0 .. n : \E result : Collecting(result, k, svc, ports)}
<1>1. 0 \in Defined
  <2>1. Collecting([i \in 0 .. 0 |-> <<>>], 0, svc, ports)
      BY DEF Collecting
  <2> QED
      BY <2>1
<1>2. ASSUME NEW k \in 1 .. n, k - 1 \in Defined PROVE k \in Defined
  <2>1. PICK f : Collecting(f, k - 1, svc, ports)
      BY <1>2
  <2> DEFINE g == [i \in 0 .. k |-> 
                     IF i = k
                     THEN AppendCluster(f[k - 1], ClusterFromPort(svc, ports[k]))
                     ELSE f[i]]
  <2>2. \A i \in 0 .. k :
            g[i] = IF i = 0 THEN <<>>
                   ELSE AppendCluster(g[i - 1], ClusterFromPort(svc, ports[i]))
      BY <2>1 DEF Collecting
  <2>3. g = [i \in 0 .. k |-> g[i]]
      OBVIOUS
  <2> HIDE DEF g
  <2>4. Collecting(g, k, svc, ports)
      BY <2>2, <2>3 DEF Collecting
  <2> QED
      BY <2>4
<1> HIDE DEF Defined
<1>3. n \in Defined
    BY <1>1, <1>2, Induction DEF Climbs
<1> QED
    BY <1>3 DEF Defined

\* The clusters of a service are those of its ports.
LEMMA ClustersOfPorts ==
    ASSUME NEW svc, NEW ports, Len(ports) \in Nat
    PROVE  ClustersFromService(svc, ports)
           \in Seq({ClusterFromPort(svc, ports[i]) : i \in 1 .. Len(ports)} \ {None})
<1> DEFINE n == Len(ports)
           Made == {ClusterFromPort(svc, ports[i]) : i \in 1 .. n} \ {None}
           result == CHOOSE f : Collecting(f, n, svc, ports)
           Right == {k \in 0 .. n : result[k] \in Seq(Made)}
<1>1. Collecting(result, n, svc, ports)
    BY SomeCollecting
<1>2. ClustersFromService(svc, ports) = result[n]
    BY Zenon DEF ClustersFromService, Collecting
<1> HIDE DEF result
<1>3. 0 \in Right
    BY <1>1 DEF Collecting
<1>4. ASSUME NEW k \in 1 .. n, k - 1 \in Right PROVE k \in Right
  <2> DEFINE cluster == ClusterFromPort(svc, ports[k])
  <2>1. result[k] = AppendCluster(result[k - 1], cluster)
      BY <1>1 DEF Collecting
  <2>2. cluster = None \/ cluster \in Made
      OBVIOUS
  <2>3. result[k - 1] \in Seq(Made)
      BY <1>4
  <2>4. AppendCluster(result[k - 1], cluster) \in Seq(Made)
    <3> HIDE DEF cluster, Made
    <3> QED
        BY <2>2, <2>3 DEF AppendCluster
  <2> QED
      BY <2>1, <2>4
<1>5. 0 .. n \subseteq Right
    BY <1>3, <1>4, Induction DEF Climbs
<1> QED
    BY <1>2, <1>5

\* The ports of a service.
LEMMA PortsOfService ==
    ASSUME NEW o \in Objects, NEW service \in ContentsOf[o]
    PROVE  /\ Len(service) \in Nat /\ DOMAIN service = 1 .. Len(service)
           /\ Len(service) > 1 => \A i \in DOMAIN service : service[i].name # ""
           /\ \A i, j \in DOMAIN service : service[i].name = service[j].name => i = j
<1>1. service \in Contents
    BY DEF Contents
<1>2. service \in Seq(ServicePort)
    BY <1>1, PortsAssumption
<1>3. Len(service) \in Nat /\ DOMAIN service = 1 .. Len(service)
    BY <1>2
<1> QED
    BY <1>1, <1>3, PortsAssumption

\* The clusters of a service are named after its ports.
LEMMA NamedAfterPort ==
    ASSUME KeepNames, NEW o \in Objects, NEW service \in ContentsOf[o],
           NEW c \in ToSet(Translation[o][service])
    PROVE  \E i \in DOMAIN service :
              /\ c = ClusterFromPort(o, service[i])
              /\ c.name = NameCluster(o, service[i]) /\ c.name # None
<1>1. Len(service) \in Nat /\ DOMAIN service = 1 .. Len(service)
    BY PortsOfService
<1> DEFINE Made == {ClusterFromPort(o, service[i]) : i \in 1 .. Len(service)} \ {None}
<1>2. ClustersFromService(o, service) \in Seq(Made)
    BY <1>1, ClustersOfPorts
<1>3. c \in Made
  <2>1. Translation[o][service] = ClustersFromService(o, service)
      BY DEF Translation
  <2> HIDE DEF Made
  <2> QED
      BY <1>2, <2>1 DEF ToSet
<1>4. PICK i \in 1 .. Len(service) : c = ClusterFromPort(o, service[i])
    BY <1>3
<1>5. c # None
    BY <1>3
<1> QED
    BY <1>1, <1>4, <1>5, PortNames

\* Unless an override sets a name, clusters have names of their own, because
\* services and, by the rules of Kubernetes, the ports of one have; and the name
\* tells the protocol.
THEOREM NamesAreOwn ==
    ASSUME KeepNames
    PROVE  /\ UniqueNames
           /\ \A o \in Objects : \A service \in ContentsOf[o] :
                 \A n \in NamesOf(o, service) : n[3] \in {"TCP", "UDP"}
<1>1. ASSUME NEW o \in Objects, NEW service \in ContentsOf[o],
             NEW n \in NamesOf(o, service)
      PROVE  /\ n[1] = o /\ n[3] \in {"TCP", "UDP"}
  <2>1. PICK c \in ToSet(Translation[o][service]) : c.name = n
      BY <1>1, ReflectorAssumption DEF NamesOf, Contents
  <2>2. PICK i \in DOMAIN service : n = NameCluster(o, service[i]) /\ n # None
      BY <2>1, NamedAfterPort
  <2> QED
      BY <2>2 DEF NameCluster
<1>2. ASSUME NEW o \in Objects, NEW service \in ContentsOf[o],
             NEW c \in ToSet(Translation[o][service]),
             NEW d \in ToSet(Translation[o][service]), c.name = d.name
      PROVE  c = d
  <2>1. PICK i \in DOMAIN service : /\ c = ClusterFromPort(o, service[i])
                                    /\ c.name = NameCluster(o, service[i])
                                    /\ c.name # None
      BY NamedAfterPort
  <2>2. PICK j \in DOMAIN service : /\ d = ClusterFromPort(o, service[j])
                                    /\ d.name = NameCluster(o, service[j])
                                    /\ d.name # None
      BY NamedAfterPort
  <2>3. i = j
    <3>1. CASE Len(service) > 1
      <4>1. service[i].name # "" /\ service[j].name # ""
          BY <3>1, PortsOfService
      <4>2. NameCluster(o, service[i]) = NameCluster(o, service[j])
          BY <1>2, <2>1, <2>2
      <4>3. NameCluster(o, service[i])[2] = service[i].name
        <5>1. NameCluster(o, service[i])
              = <<o, service[i].name, EnvoyProtocol(service[i])>>
            BY <2>1, <4>1, Zenon DEF NameCluster
        <5> QED
            BY <5>1
      <4>4. NameCluster(o, service[j])[2] = service[j].name
        <5>1. NameCluster(o, service[j])
              = <<o, service[j].name, EnvoyProtocol(service[j])>>
            BY <2>2, <4>1, Zenon DEF NameCluster
        <5> QED
            BY <5>1
      <4>5. service[i].name = service[j].name
          BY <4>2, <4>3, <4>4, Zenon
      <4> QED
          BY <4>5, PortsOfService
    <3>2. CASE ~ Len(service) > 1
      <4>1. Len(service) \in Nat /\ i \in 1 .. Len(service) /\ j \in 1 .. Len(service)
          BY PortsOfService
      <4> QED
          BY <3>2, <4>1
    <3> QED
        BY <3>1, <3>2
  <2> QED
      BY <2>1, <2>2, <2>3
<1> QED
    BY <1>1, <1>2 DEF UniqueNames

\* For any services and overrides that leave names alone: the state is well
\* formed, a cluster is kept under its own name, and that is one of a protocol
\* that Envoy has.
THEOREM TypeCorrect ==
    ASSUME KeepNames
    PROVE  Spec => []TypeOK
<1>1. ReflectorInv /\ ClustersTyped => TypeOK
    BY NamesAreOwn DEF ReflectorInv, ClustersTyped, TypeOK
<1> QED
    BY <1>1, TypedClusters, ReflectorCorrect, PTL

-----------------------------------------------------------------------------
(***************************************************************************)
(* The command shows what the server serves.                               *)
(***************************************************************************)

\* Among the clusters of some services a name tells which one.
LEMMA DistinctNames ==
    ASSUME UniqueNames, NEW services,
           \A o \in Objects : services[o] \in ContentsOf[o] \union {Gone}
    PROVE  \A c, d \in ClustersOf(services) : c.name = d.name => c = d
<1> SUFFICES ASSUME NEW c \in ClustersOf(services), NEW d \in ClustersOf(services),
                    c.name = d.name
             PROVE  c = d
    OBVIOUS
<1>1. PICK p \in Objects : services[p] # Gone /\ c \in ToSet(Translation[p][services[p]])
    BY DEF ClustersOf
<1>2. PICK q \in Objects : services[q] # Gone /\ d \in ToSet(Translation[q][services[q]])
    BY DEF ClustersOf
<1>3. /\ services[p] \in ContentsOf[p] /\ c.name \in NamesOf(p, services[p])
      /\ services[q] \in ContentsOf[q] /\ d.name \in NamesOf(q, services[q])
    BY <1>1, <1>2 DEF NamesOf
<1>4. p = q
    BY <1>3 DEF UniqueNames
<1> QED
    BY <1>1, <1>2, <1>3, <1>4 DEF UniqueNames

\* The map of clusters that have names of their own.
LEMMA ByNameIs ==
    ASSUME NEW cs, \A c, d \in cs : c.name = d.name => c = d,
           NEW f, f = [n \in DOMAIN f |-> f[n]],
           DOMAIN f = {c.name : c \in cs}, \A c \in cs : f[c.name] = c
    PROVE  f = ByName(cs)
<1>1. \A n \in DOMAIN f : ByName(cs)[n] = f[n]
  <2> SUFFICES ASSUME NEW c \in cs PROVE (CHOOSE d \in cs : d.name = c.name) = c
      BY DEF ByName
  <2> QED
      OBVIOUS
<1>2. ByName(cs) = [n \in DOMAIN f |-> ByName(cs)[n]]
    BY DEF ByName
<1> QED
    BY <1>1, <1>2

\* To add clusters to others, when each has its name to itself.
LEMMA AddedIs ==
    ASSUME NEW served, NEW cs, Stored(cs) = ToSet(cs),
           NEW all, all = served \union ToSet(cs),
           \A c, d \in all : c.name = d.name => c = d
    PROVE  Added(ByName(served), cs) = ByName(all)
<1> DEFINE new == ByName(ToSet(cs))
           old == ByName(served)
           f == Added(old, cs)
<1>1. /\ DOMAIN new = {c.name : c \in ToSet(cs)}
      /\ DOMAIN old = {c.name : c \in served}
    BY DEF ByName
<1>2. f = [n \in DOMAIN new \union DOMAIN old |->
              IF n \in DOMAIN new THEN new[n] ELSE old[n]]
    BY Zenon DEF Added
<1>3. \A c \in ToSet(cs) : new[c.name] = c
    BY DEF ByName
<1>4. \A c \in served : old[c.name] = c
    BY DEF ByName
<1> HIDE DEF f, new, old
<1>5. f = [n \in DOMAIN f |-> f[n]] /\ DOMAIN f = {c.name : c \in all}
    BY <1>1, <1>2
<1>6. \A c \in all : f[c.name] = c
    BY <1>1, <1>2, <1>3, <1>4
<1>7. f = ByName(all)
    BY <1>5, <1>6, ByNameIs
<1> QED
    BY <1>7 DEF f, old


\* Unless it gives up, the command has the clusters of all services, whatever
\* their order.
LEMMA DumpedIs ==
    ASSUME UniqueNames, NEW services, NEW order \in Seq(Objects),
           \A o \in Objects : services[o] \in ContentsOf[o] \union {Gone},
           \A i \in 1 .. Len(order) : services[order[i]] # Gone,
           ~ Fails(services, order)
    PROVE  Dumped(services, order)
           = ByName(UNION {ToSet(Translation[order[j]][services[order[j]]]) :
                              j \in 1 .. Len(order)})
<1> DEFINE n == Len(order)
           cs(i) == Translation[order[i]][services[order[i]]]
           Upto(i) == UNION {ToSet(cs(j)) : j \in 1 .. i}
           want == [i \in 0 .. n |-> ByName(Upto(i))]
           Follows(s) == s = [i \in 0 .. n |->
                                 IF i = 0 THEN Empty
                                 ELSE Added(s[i - 1],
                                            Translation[order[i]][services[order[i]]])]
           step == CHOOSE s : Follows(s)
<1>1. n \in Nat /\ DOMAIN order = 1 .. n
    OBVIOUS
<1>2. want[0] = Empty
  <2>1. Upto(0) = {}
      OBVIOUS
  <2>2. want[0] = ByName({})
      BY <1>1, <2>1
  <2> QED
      BY <2>2 DEF ByName, Empty
<1>3. \A i \in 0 .. n : Upto(i) \subseteq ClustersOf(services)
    BY <1>1 DEF ClustersOf
<1>4. ASSUME NEW i \in 1 .. n PROVE Added(want[i - 1], cs(i)) = want[i]
  <2>1. Upto(i) = Upto(i - 1) \union ToSet(cs(i))
      BY <1>1
  <2>2. \A c, d \in Upto(i) : c.name = d.name => c = d
      BY <1>1, <1>3, DistinctNames
  <2>3. Stored(cs(i)) = ToSet(cs(i))
      BY <1>1 DEF Fails
  <2>4. want[i - 1] = ByName(Upto(i - 1)) /\ want[i] = ByName(Upto(i))
      BY <1>1
  <2> HIDE DEF want, Upto, cs
  <2> QED
      BY <2>1, <2>2, <2>3, <2>4, AddedIs
<1>5. Follows(want)
  <2>1. want = [i \in 0 .. n |-> want[i]]
      OBVIOUS
  <2> HIDE DEF want
  <2>2. \A i \in 0 .. n :
            want[i] = IF i = 0 THEN Empty
                      ELSE Added(want[i - 1], Translation[order[i]][services[order[i]]])
      BY <1>1, <1>2, <1>4
  <2> QED
      BY <2>1, <2>2
<1>6. Follows(step)
  <2> HIDE DEF Follows, want
  <2> QED
      BY <1>5, Zenon
<1>7. step[n] = want[n]
  <2> HIDE DEF step, want
  <2>1. step[0] = want[0]
      BY <1>1, <1>2, <1>6
  <2>2. ASSUME NEW k \in 1 .. n, step[k - 1] = want[k - 1] PROVE step[k] = want[k]
      BY <1>1, <1>4, <1>6, <2>2
  <2>3. GoOnAlike(n, step, want)
      BY <2>2 DEF GoOnAlike
  <2> QED
      BY <1>1, <2>1, <2>3, Alike
<1>8. Dumped(services, order) = step[n]
    BY Zenon DEF Dumped
<1>9. want[n] = ByName(Upto(n))
    BY <1>1
<1> QED
    BY <1>7, <1>8, <1>9

\* For finitely many services whose clusters have names of their own, whatever
\* the server went through and in whatever order the command gets them: when
\* the server has caught up, and none has lost ports behind its back, the
\* command shows what it serves, or gives up.
THEOREM DumpFollows ==
    ASSUME UniqueNames, IsFiniteSet(Objects)
    PROVE  Spec => []DumpShowsServed
<1>1. ReflectorInv /\ ClustersTyped /\ GhostsAreLostPorts /\ EveryPortServed
      => DumpShowsServed
  <2> SUFFICES ASSUME ReflectorInv, ClustersTyped, GhostsAreLostPorts,
                      EveryPortServed, CaughtUp, lost = {},
                      NEW order \in Orders(api), ~ Fails(api, order)
               PROVE  clusters = Dumped(api, order)
      BY DEF DumpShowsServed
  <2> DEFINE S == {o \in Objects : api[o] # Gone}
             n == Len(order)
  <2>1. IsFiniteSet(S)
      BY FS_Subset
  <2>2. order \in Seq(S) /\ \A o \in S : \E i \in 1 .. n : order[i] = o
      BY <2>1, OrderHasAll DEF Orders
  <2>3. /\ order \in Seq(Objects) /\ n \in Nat /\ DOMAIN order = 1 .. n
        /\ \A i \in 1 .. n : order[i] \in S
      BY <2>2
  <2>4. \A o \in Objects : api[o] \in ContentsOf[o] \union {Gone}
      BY DEF ReflectorInv, OwnContents
  <2>5. Dumped(api, order)
        = ByName(UNION {ToSet(Translation[order[j]][api[order[j]]]) : j \in 1 .. n})
      BY <2>3, <2>4, DumpedIs
  <2>6. UNION {ToSet(Translation[order[j]][api[order[j]]]) : j \in 1 .. n} = Expected
    <3>1. Expected = UNION {ToSet(Translation[o][api[o]]) : o \in S}
        BY DEF Expected, ClustersOf
    <3> HIDE DEF S, n
    <3> QED
        BY <2>2, <2>3, <3>1
  <2>7. \A o \in S : Stored(Translation[o][api[o]]) = ToSet(Translation[o][api[o]])
      BY <2>2, <2>3 DEF Fails
  <2>8. \A c \in Expected : c.name \in DOMAIN clusters /\ clusters[c.name] = c
      BY <2>7 DEF EveryPortServed, AllServed, Servable, Expected, ClustersOf
  <2>9. DOMAIN clusters = {c.name : c \in Expected}
    <3>1. DOMAIN clusters \subseteq {c.name : c \in Expected}
        BY DEF GhostsAreLostPorts
    <3> QED
        BY <2>8, <3>1
  <2>10. \A c, d \in Expected : c.name = d.name => c = d
      BY <2>4, DistinctNames DEF Expected
  <2>11. clusters = ByName(Expected)
      BY <2>8, <2>9, <2>10, ByNameIs DEF ClustersTyped
  <2> QED
      BY <2>5, <2>6, <2>11
<1> QED
    BY <1>1, TypedClusters, ReflectorCorrect, GhostsComeFromUpdate, PortsServed, PTL
=============================================================================
