--------------------------- MODULE EndpointSlices ---------------------------
(***************************************************************************)
(* EndpointStore of pkg/glue/glue.go: it keeps the endpoint slices of each *)
(* service and turns every change of one into changes of the load          *)
(* assignments that the Endpoints manager serves (pkg/cds/cds.go).         *)
(*                                                                         *)
(* One reflector calls the store.  The clients of the manager can look at  *)
(* its resources between any two of the changes that one call makes: each  *)
(* of them is a step.  The reflector of nodes shares no lock with the call,*)
(* which looks nodes up one by one as it translates: its begin is a step,  *)
(* and each lookup finds what the node was at some moment since.           *)
(* Load assignments made here validate.                                    *)
(***************************************************************************)
EXTENDS Reflector, GlueTranslation

CONSTANTS
    Services,    \* services that slices belong to
    Nodes,       \* names of nodes
    NodeLabels   \* the labels a node can have

VARIABLES
    nodes,       \* the store of nodes
    serverESs,   \* EndpointStore.serverESs: slices by service and name
    resources,   \* load assignments of the manager, by cluster
    doomed,      \* load assignments that update has still to delete
    fresh,       \* load assignments that update has still to add
    reading,     \* is a call translating
    recent,      \* the labels that each node has had since it began
    unseen       \* nodes that changed since the last translation of the
                 \* slices of a service began (auxiliary)

storeVars == <<serverESs, resources, doomed, fresh>>
readVars == <<reading, recent>>
vars == <<reflectorVars, nodes, storeVars, readVars, unseen>>

ASSUME ServicesAssumption == \A es \in Contents : es.service \in Services

\* Endpoints are on one of the nodes, in the API server or not, or on none.
ASSUME NodesAssumption ==
    \A es \in Contents : \A ep \in es.endpoints : ep.node \in Nodes \union {""}

ASSUME PortsAssumption ==
    \A es \in Contents : \A port \in es.ports :
        port.name \in STRING /\ ToString(port.number) \in STRING

Empty == [cluster \in {} |-> None]
NotReading == [node \in Nodes |-> {}]
NodeLists == [Nodes -> NodeLabels \union {None}]
Cluster == Services \X STRING \X {"TCP", "UDP"}

\* The slices that a map of slices holds.
Slices(map) == {map[o] : o \in {p \in Objects : map[p] # Gone}}

\* The slices of a service among those of a list.
OfService(list, svc) ==
    [o \in Objects |->
        IF list[o] # Gone /\ list[o].service = svc THEN list[o] ELSE Gone]

TypeOK ==
    /\ ReflectorTypeOK
    /\ nodes \in NodeLists
    /\ serverESs \in [Services -> [Objects -> Contents \union {Gone}]]
    /\ DOMAIN resources \subseteq Cluster
    /\ DOMAIN fresh \subseteq Cluster
    /\ doomed \subseteq Cluster
    /\ reading \in BOOLEAN
    /\ recent \in [Nodes -> SUBSET (NodeLabels \union {None})]

\* main fills the store of nodes before it starts the reflectors, with the
\* nodes there are.
Init ==
    /\ ReflectorInit
    /\ nodes \in NodeLists
    /\ serverESs = [svc \in Services |-> NoObjects]
    /\ resources = Empty
    /\ doomed = {}
    /\ fresh = Empty
    /\ reading = FALSE
    /\ recent = NotReading
    /\ unseen = [svc \in Services |-> {}]

\* The manager has been told everything, and the last call has returned.
Told == doomed = {} /\ fresh = Empty
Idle == ~reading /\ Told

\* The API server and the reflector of nodes, which replaces, adds and
\* deletes in a plain store, go their own ways.
ChangeSlice(o, content) ==
    Change(o, content) /\ UNCHANGED <<nodes, storeVars, readVars, unseen>>

ChangeNode(node, labels) ==
    /\ changes < MaxChanges
    /\ labels # nodes[node]
    /\ nodes' = [nodes EXCEPT ![node] = labels]
    /\ changes' = changes + 1
    /\ recent' = IF reading THEN [recent EXCEPT ![node] = @ \union {labels}]
                 ELSE recent
    /\ unseen' = [svc \in Services |-> unseen[svc] \union {node}]
    /\ UNCHANGED <<api, mode, listed, events, breaks, storeVars, reading>>

ListSlices == List /\ UNCHANGED <<nodes, storeVars, readVars, unseen>>

\* The store is called, with a list or an event, and translates.
Begin ==
    /\ Idle
    /\ mode = "sync" \/ (mode = "watch" /\ events # <<>>)
    /\ reading' = TRUE
    /\ recent' = [node \in Nodes |-> {nodes[node]}]
    /\ UNCHANGED <<reflectorVars, nodes, storeVars, unseen>>

\* What the lookups of a translation may have found: for each cluster, each
\* node as it was at some moment since the call began.
Sightings(slices) ==
    [ClusterNames(slices) ->
        {list \in NodeLists : \A node \in Nodes : list[node] \in recent[node]}]

\* The nodes that it may have found otherwise than they are.
Missed == {node \in Nodes : recent[node] # {nodes[node]}}

\* The translation is made.
EndReading == reading /\ reading' = FALSE /\ recent' = NotReading

\* A defect: what was served before stays.
Merged(loadAssignments) == loadAssignments @@ resources

Replaced(loadAssignments) == loadAssignments

\* All slices are translated together, and the manager replaces its load
\* assignments in one critical section.
Replace ==
    /\ EndReading
    /\ Synced(TRUE)
    /\ \E seen \in Sightings(Slices(listed)) :
          resources' = Replaced(LoadAssignmentsSeeing(seen, Slices(listed)))
    /\ serverESs' = [svc \in Services |-> OfService(listed, svc)]
    /\ unseen' = [svc \in Services |-> Missed]
    /\ UNCHANGED <<nodes, doomed, fresh>>

\* A defect: only the slice that changed is translated.
TranslatedAlone(es, after) == Slices(after) \intersect {es}

\* A defect: a load assignment that exists stays as it is.
Kept(cluster) == resources @@ (cluster :> fresh[cluster])

\* A load assignment replaces the one of that name.
Stored(cluster) ==
    [c \in DOMAIN resources \union {cluster} |->
        IF c = cluster THEN fresh[c] ELSE resources[c]]

\* All slices of the service are translated again when one changes.
Translated(es, after) == Slices(after)

\* Two defects: the clusters that remain are not left out, or the names are
\* collected when the map has been updated already.
WithdrawnAll(before, after, loadAssignments) == ClusterNames(Slices(before))
WithdrawnLate(before, after, loadAssignments) ==
    ClusterNames(Slices(after)) \ DOMAIN loadAssignments

\* The clusters that the slices of the service had ports of, and have no more.
Withdrawn(before, after, loadAssignments) ==
    ClusterNames(Slices(before)) \ DOMAIN loadAssignments

\* update, up to the first call of the manager: the store is changed at the
\* name of the slice, under the service that its label names now.
Update(o, es, after) ==
    LET svc == es.service
        slices == Translated(es, after)
    IN  /\ EndReading
        /\ serverESs' = [serverESs EXCEPT ![svc] = after]
        /\ \E seen \in Sightings(slices) :
              fresh' = LoadAssignmentsSeeing(seen, slices)
        /\ doomed' = Withdrawn(serverESs[svc], after, fresh')
        /\ unseen' = [unseen EXCEPT ![svc] = Missed]
        /\ UNCHANGED <<nodes, resources>>

\* Add and Update of the store.
AddOrUpdate ==
    /\ Receive({"add", "update"})
    /\ LET o == Head(events).object
           es == Head(events).content
       IN  Update(o, es, [serverESs[es.service] EXCEPT ![o] = es])

Delete ==
    /\ Receive({"delete"})
    /\ LET o == Head(events).object
           es == Head(events).content
       IN  Update(o, es, [serverESs[es.service] EXCEPT ![o] = Gone])

\* First the load assignments of clusters that are no more are deleted ...
DeleteEndpoints(cluster) ==
    /\ cluster \in doomed
    /\ doomed' = doomed \ {cluster}
    /\ resources' = [c \in DOMAIN resources \ {cluster} |-> resources[c]]
    /\ UNCHANGED <<reflectorVars, nodes, serverESs, fresh, readVars, unseen>>

\* ... then the new ones are stored, one by one.
AddEndpoints(cluster) ==
    /\ doomed = {}
    /\ cluster \in DOMAIN fresh
    /\ resources' = Stored(cluster)
    /\ fresh' = [c \in DOMAIN fresh \ {cluster} |-> fresh[c]]
    /\ UNCHANGED <<reflectorVars, nodes, serverESs, doomed, readVars, unseen>>

\* The watch of slices breaks between two calls of the store.
Break == Idle /\ StartOver /\ UNCHANGED <<nodes, storeVars, readVars, unseen>>

\* The process stops anywhere, and starts again with nothing.
Restart ==
    /\ StartOver
    /\ serverESs' = [svc \in Services |-> NoObjects]
    /\ resources' = Empty
    /\ doomed' = {}
    /\ fresh' = Empty
    /\ reading' = FALSE
    /\ recent' = NotReading
    /\ UNCHANGED <<nodes, unseen>>

Step ==
    \/ Begin
    \/ Replace
    \/ AddOrUpdate \/ Delete
    \/ \E c \in doomed : DeleteEndpoints(c)
    \/ \E c \in DOMAIN fresh : AddEndpoints(c)

Next ==
    \/ \E o \in Objects, content \in Contents \union {Gone} :
          ChangeSlice(o, content)
    \/ \E node \in Nodes, labels \in NodeLabels \union {None} :
          ChangeNode(node, labels)
    \/ ListSlices
    \/ Step
    \/ Break \/ Restart

Spec == Init /\ [][Next]_vars

\* The reflector lists, and the store handles what it is handed.
FairSpec == Spec /\ WF_vars(ListSlices) /\ WF_vars(Step)

-----------------------------------------------------------------------------
\* What should be served for the slices in the API server.
Expected == LoadAssignments(nodes, Slices(api))

\* When everything has been delivered, the manager serves load assignments
\* for the clusters of the existing slices, and no others, although the store
\* only looks at the slices of one service at a time.
ClustersMirrored == CaughtUp /\ Idle => DOMAIN resources = DOMAIN Expected

\* And each has the addresses, ports and health of the ready endpoints.
EndpointsMirrored ==
    CaughtUp /\ Idle =>
        \A c \in DOMAIN resources \intersect DOMAIN Expected :
            {[node |-> g.node, endpoints |-> g.endpoints] : g \in resources[c]}
            = {[node |-> g.node, endpoints |-> g.endpoints] : g \in Expected[c]}

\* The locality of an endpoint is the one of its node, not an empty one if
\* there is a way to determine it.  The store of nodes is only read when a
\* slice of the service changes, so that all its slices catch up then; a node
\* that changes while they are translated, or afterwards, is the only excuse.
LocalitiesCatchUp ==
    Idle => \A c \in DOMAIN resources : \A g \in resources[c] :
                \/ g.locality = LocalityFromHost(nodes, g.node)
                \/ g.node \in unseen[c[1]]

\* A load assignment is withdrawn only when no slice that the store holds has
\* a port of that cluster: a change of a slice never takes the endpoints of a
\* cluster away for a moment, to add them again.
NeverWithdrawn ==
    [][\A c \in DOMAIN resources \ DOMAIN resources' :
          \/ \A svc \in Services : c \notin ClusterNames(Slices(serverESs'[svc]))
          \/ breaks' # breaks]_vars

\* When the API server, the watch and the process are at rest at last, what
\* is served is and stays what should be served.
EventuallyMirrored ==
    <>[](CaughtUp /\ Idle /\ DOMAIN resources = DOMAIN Expected)
=============================================================================
