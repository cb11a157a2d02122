-------------------------- MODULE ServiceClusters --------------------------
(***************************************************************************)
(* ClusterStore of pkg/glue/glue.go: it turns every change of a service    *)
(* into changes of the clusters that the Clusters manager serves           *)
(* (pkg/cds/cds.go).  The store keeps nothing itself; what a call does to  *)
(* the manager is one step here, with a cluster that does not validate     *)
(* stopping Add halfway.                                                   *)
(***************************************************************************)
EXTENDS Reflector, GlueTranslation

CONSTANT
    InvalidOptions  \* an override may give a cluster that does not validate

VARIABLES
    clusters,   \* the clusters of the manager, by name
    lost        \* clusters of ports that services lost since the reflector
                \* listed last (auxiliary)

vars == <<reflectorVars, clusters, lost>>

Empty == [name \in {} |-> None]

\* The clusters of everything that a service can be.
Translation ==
    [o \in Objects |-> [service \in ContentsOf[o] |->
                          ClustersFromService(o, service)]]

Valid(cluster) == cluster.option \notin InvalidOptions

ServicePort == [name : STRING, number : Nat, protocol : STRING]

\* What Kubernetes sees to: if a service has more than one port, each has a
\* name, and no two have the same.
ASSUME PortsAssumption ==
    \A ports \in Contents :
        /\ ports \in Seq(ServicePort)
        /\ Len(ports) > 1 => \A i \in DOMAIN ports : ports[i].name # ""
        /\ \A i, j \in DOMAIN ports : ports[i].name = ports[j].name => i = j

\* The loader validates the base, but not what the overrides make of it.
ASSUME ValidBase == Valid(BaseConfig)

TypeOK ==
    /\ ReflectorTypeOK
    /\ \A name \in DOMAIN clusters : clusters[name].name = name
    /\ \A name \in DOMAIN clusters : name[3] \in {"TCP", "UDP"}

Init == ReflectorInit /\ clusters = Empty /\ lost = {}

\* The clusters of a set, by name.  Of several that an override gives one
\* name, the code keeps the last, and this any; where UniqueNames of the proofs
\* holds there are none such.
ByName(cs) ==
    [name \in {c.name : c \in cs} |-> CHOOSE c \in cs : c.name = name]

\* Those that validate, as do all before them.
Stored(cs) ==
    {cs[i] : i \in {k \in DOMAIN cs : Valid(cs[k]) /\ \A j \in 1 .. k - 1 : Valid(cs[j])}}

\* Manager.Add: clusters are stored up to the first that does not validate.
Added(served, cs) ==
    LET new == ByName(Stored(cs))
    IN  [name \in DOMAIN new \union DOMAIN served |->
            IF name \in DOMAIN new THEN new[name] ELSE served[name]]

\* Two defects: a cluster that exists is not overwritten, or nobody calls
\* Validate.
AddNewClusters(cs) == clusters' = clusters @@ ByName(ToSet(cs))
AddAnyClusters(cs) == clusters' = ByName(ToSet(cs)) @@ clusters

AddClusters(cs) == clusters' = Added(clusters, cs)

\* The names of the clusters of a service, which may be gone.
NamesOf(o, service) ==
    IF service = Gone THEN {}
    ELSE {c.name : c \in ToSet(Translation[o][service])}

ChangeService(o, content) ==
    /\ Change(o, content)
    /\ lost' = IF content = Gone THEN lost
               ELSE lost \union (NamesOf(o, api[o]) \ NamesOf(o, content))
    /\ UNCHANGED clusters

ListServices == List /\ lost' = {} /\ UNCHANGED clusters

\* The clusters of all services in a map.
ClustersOf(services) ==
    UNION {ToSet(Translation[o][services[o]]) :
              o \in {p \in Objects : services[p] # Gone}}

\* Manager.Replace: one cluster that does not validate keeps all others out,
\* and the reflector lists again.
Replace ==
    LET replacement == ClustersOf(listed)
        ok == \A c \in replacement : Valid(c)
    IN  /\ Synced(ok)
        /\ clusters' = IF ok THEN ByName(replacement) ELSE clusters
        /\ UNCHANGED lost

\* Add and Update are the same: the clusters of the service's ports are
\* stored, and those of ports that it had before are left alone.
AddOrUpdate ==
    /\ Receive({"add", "update"})
    /\ AddClusters(Translation[Head(events).object][Head(events).content])
    /\ UNCHANGED lost

\* A defect: the clusters that EDS serves are not deleted.
DeletedNamesDNS(cs) == {cs[i].name : i \in {j \in DOMAIN cs : cs[j].type # "EDS"}}

DeletedNames(cs) == {cs[i].name : i \in DOMAIN cs}

\* The clusters of the ports that the service had at last are deleted.
Delete ==
    /\ Receive({"delete"})
    /\ LET names == DeletedNames(Translation[Head(events).object]
                                            [Head(events).content])
       IN  clusters' = [n \in DOMAIN clusters \ names |-> clusters[n]]
    /\ UNCHANGED lost

Break == StartOver /\ UNCHANGED <<clusters, lost>>

Restart == StartOver /\ clusters' = Empty /\ UNCHANGED lost

Step == Replace \/ AddOrUpdate \/ Delete

Next ==
    \/ \E o \in Objects, content \in Contents \union {Gone} :
          ChangeService(o, content)
    \/ ListServices
    \/ Step
    \/ Break \/ Restart

Spec == Init /\ [][Next]_vars

\* The reflector lists, and the store handles what it is handed.
FairSpec == Spec /\ WF_vars(ListServices) /\ WF_vars(Step)

-----------------------------------------------------------------------------
\* The clusters of the services in the API server.
Expected == ClustersOf(api)

\* Those that can be served: a service's ports up to the first whose cluster
\* does not validate.
Servable ==
    UNION {Stored(Translation[o][api[o]]) :
              o \in {p \in Objects : api[p] # Gone}}

AllServed ==
    \A c \in Servable : c.name \in DOMAIN clusters /\ clusters[c.name] = c

\* When everything has been delivered, every port of every service has its
\* cluster, with the configuration that its overrides give it now; only the
\* ports from an invalid one on may lack theirs.  A service that has such a
\* port keeps the others from being served only while the list fails for it,
\* and then not everything has been delivered.
EveryPortServed == CaughtUp => AllServed

\* And there are no other clusters: none of a service or a port that is gone.
NoGhostClusters ==
    CaughtUp => DOMAIN clusters \subseteq {c.name : c \in Expected}

\* There are no others, but for ports that a service lost while it lived and
\* since the last list: whatever else happens, a ghost comes from Update.
GhostsAreLostPorts ==
    CaughtUp => DOMAIN clusters \subseteq {c.name : c \in Expected} \union lost

\* A cluster that does not validate is never served, although the overrides
\* that lead to it are not validated when the configuration is loaded.
OnlyValidClusters == \A name \in DOMAIN clusters : Valid(clusters[name])

\* Once the API server, the watch and the process are at rest, every port has
\* its cluster and keeps it.  While a service with an invalid cluster makes
\* Replace fail, nobody is served: it has to go, and then all recover.
EventuallyServed ==
    <>[](\A c \in Expected : Valid(c)) => <>[](CaughtUp /\ AllServed)
=============================================================================
