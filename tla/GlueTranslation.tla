-------------------------- MODULE GlueTranslation --------------------------
(***************************************************************************)
(* How pkg/glue/glue.go translates Kubernetes objects: the ports of a      *)
(* service to clusters, and the endpoint slices of services to load        *)
(* assignments.  Both are pure functions of an object, the configuration   *)
(* and, for localities, the store of nodes.                                *)
(*                                                                         *)
(* A port is [name, number, protocol], its name "" when it has none.  A    *)
(* slice is [service, ports, endpoints], an endpoint [node, ready, addrs]. *)
(* A port with protocol "" is one for TCP.                                 *)
(***************************************************************************)
EXTENDS Naturals, SequencesExt

CONSTANTS
    BaseConfig,       \* the base cluster: [name, type, option, target]
    Overrides,        \* a sequence of [match, suppress, override]
    LocalityConfig,   \* maps region, zone and sub_zone to a field or None
    IncludeNotReady,  \* are endpoints that are not ready included
    None              \* nil: an unset field, no port number, a suppressed
                      \* cluster, a node that is not in the store

\* The loader accepts an override that has rules to match and either changes
\* a cluster or suppresses it.
AcceptedOverride(o) ==
    /\ o.match # {}
    /\ o.suppress <=> o.override = None

\* The base has no name: each cluster gets its own.
AcceptedBase(base) ==
    DOMAIN base = {"name", "type", "option", "target"} /\ base.name = None

ASSUME LoadedConfig ==
    /\ IncludeNotReady \in BOOLEAN
    /\ AcceptedBase(BaseConfig)
    /\ Overrides \in Seq({Overrides[i] : i \in DOMAIN Overrides})
    /\ \A i \in DOMAIN Overrides : AcceptedOverride(Overrides[i])

-----------------------------------------------------------------------------
(***************************************************************************)
(* Clusters.                                                               *)
(***************************************************************************)

\* Envoy's protocol for that of a port.
EnvoyProtocol(port) == IF port.protocol = "" THEN "TCP" ELSE port.protocol

\* A defect: every protocol is accepted.
NameClusterOfAny(svc, port) ==
    <<svc, IF port.name = "" THEN ToString(port.number) ELSE port.name,
      EnvoyProtocol(port)>>

\* Clusters and load assignments are named alike, so that EDS finds the
\* endpoints of a cluster.  Protocols that Envoy lacks have no name.
NameCluster(svc, port) ==
    IF EnvoyProtocol(port) \notin {"TCP", "UDP"} THEN None
    ELSE <<svc,
           IF port.name = "" THEN ToString(port.number) ELSE port.name,
           EnvoyProtocol(port)>>

\* A matcher with a cluster name does not look at the name of the port.
Evaluate(matcher, cluster, port) ==
    IF matcher.cluster_name # None THEN matcher.cluster_name = cluster.name
    ELSE matcher.port_name # "" /\ matcher.port_name = port.name

\* proto.Merge: the fields that the override sets replace those of the cluster.
Merge(cluster, override) ==
    [f \in DOMAIN cluster |->
        IF override[f] = None THEN cluster[f] ELSE override[f]]

\* What an override makes of a cluster that is not suppressed already.
Apply(o, cluster, port) ==
    IF cluster = None \/ ~\E m \in o.match : Evaluate(m, cluster, port) THEN cluster
    ELSE IF o.suppress THEN None
    ELSE Merge(cluster, o.override)

\* Overrides apply in order, each to the result of those before it, until
\* one suppresses the cluster.
ApplyOverride(cluster, port) ==
    LET after[i \in 0 .. Len(Overrides)] ==
            IF i = 0 THEN cluster ELSE Apply(Overrides[i], after[i - 1], port)
    IN  after[Len(Overrides)]

\* A cluster that EDS does not serve gets the DNS name of the service as its
\* only target, and STRICT_DNS unless another type is configured.
WithTarget(svc, port, cluster) ==
    IF cluster.type = "EDS" THEN cluster
    ELSE [cluster EXCEPT !.type = IF @ = None THEN "STRICT_DNS" ELSE @,
                         !.target = <<svc, port.number, EnvoyProtocol(port)>>]

ClusterFromPort(svc, port) ==
    LET name == NameCluster(svc, port)
        cluster == ApplyOverride([BaseConfig EXCEPT !.name = name], port)
    IN  IF name = None \/ cluster = None THEN None
        ELSE WithTarget(svc, port, cluster)

AppendCluster(result, cluster) ==
    IF cluster = None THEN result ELSE Append(result, cluster)

\* One cluster for each port of the service that can be named and is not
\* suppressed.
ClustersFromService(svc, ports) ==
    LET result[i \in 0 .. Len(ports)] ==
            IF i = 0 THEN <<>>
            ELSE AppendCluster(result[i - 1], ClusterFromPort(svc, ports[i]))
    IN  result[Len(ports)]

-----------------------------------------------------------------------------
(***************************************************************************)
(* Load assignments.                                                       *)
(***************************************************************************)

\* A literal overrides the other ways to select a value.
ExtractLabel(labels, hostname, field) ==
    IF field = None THEN ""
    ELSE IF field.literal # "" THEN field.literal
    ELSE IF field.use_hostname THEN hostname
    ELSE IF labels # None /\ field.label \in DOMAIN labels THEN labels[field.label]
    ELSE ""

\* The locality of a host, from the labels of its node if the node is known;
\* an endpoint without a node has the empty locality.
LocalityFromHost(nodes, hostname) ==
    [part \in DOMAIN LocalityConfig |->
        IF hostname = "" THEN ""
        ELSE ExtractLabel(nodes[hostname], hostname, LocalityConfig[part])]

\* Ports without a number are ignored.
NumberedPorts(es) == {port \in es.ports : port.number # None}

\* The clusters that the ports of the slices belong to.
ClusterNames(slices) ==
    (UNION {{NameCluster(es.service, port) : port \in NumberedPorts(es)}
               : es \in slices}) \ {None}

\* What a slice gives to a cluster on a node: an entry for each address of
\* each endpoint.  Readiness becomes health.
LbEndpoints(es, cluster, node) ==
    UNION {{[addr |-> addr, port |-> port.number,
             health |-> IF ep.ready THEN "HEALTHY" ELSE "DEGRADED"] :
                addr \in ep.addrs,
                port \in {p \in NumberedPorts(es) :
                            NameCluster(es.service, p) = cluster}}
             : ep \in {e \in es.endpoints :
                         e.node = node /\ (e.ready \/ IncludeNotReady)}}

\* The load assignment of a cluster: its endpoints are grouped by node, and a
\* group has the locality of its node.
LoadAssignment(cluster, nodes, slices) ==
    LET Hosts == UNION {{ep.node : ep \in es.endpoints} : es \in slices}
        On(node) == UNION {LbEndpoints(es, cluster, node) : es \in slices}
    IN  {[node |-> node, locality |-> LocalityFromHost(nodes, node),
          endpoints |-> On(node)] : node \in {h \in Hosts : On(h) # {}}}

\* A load assignment for each cluster, even one without endpoints.  The store
\* of nodes is asked again for each cluster and node: the lookups made for a
\* cluster find the nodes as in seen[cluster].
LoadAssignmentsSeeing(seen, slices) ==
    [cluster \in ClusterNames(slices) |->
        LoadAssignment(cluster, seen[cluster], slices)]

\* While no node changes, every lookup finds the same.
LoadAssignments(nodes, slices) ==
    LoadAssignmentsSeeing([cluster \in ClusterNames(slices) |-> nodes], slices)
=============================================================================
