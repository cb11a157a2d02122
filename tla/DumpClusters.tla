---------------------------- MODULE DumpClusters ----------------------------
(***************************************************************************)
(* The command ekglue-dump-config, as far as clusters go: it lists the     *)
(* services, hands one after the other to a ClusterStore, and prints the   *)
(* clusters; when the store returns an error, it gives up.                 *)
(***************************************************************************)
EXTENDS ServiceClusters

\* The services that exist, in the orders in which the API server may list them.
Orders(map) == SetToSeqs({o \in Objects : map[o] # Gone})

\* One service with a cluster that does not validate ends the command.
Fails(services, order) ==
    \E i \in DOMAIN order :
        LET cs == Translation[order[i]][services[order[i]]] IN Stored(cs) # ToSet(cs)

\* ListServices: the services of a list are added one by one.
Dumped(services, order) ==
    LET step[i \in 0 .. Len(order)] ==
            IF i = 0 THEN Empty
            ELSE Added(step[i - 1], Translation[order[i]][services[order[i]]])
    IN  step[Len(order)]

\* The command shows what the server serves: when the server has caught up,
\* and no service has lost ports behind its back, its clusters are those that
\* the command computes from the same API server, in whatever order that lists
\* its services and whatever the server went through.
DumpShowsServed ==
    CaughtUp /\ lost = {} =>
        \A order \in Orders(api) :
            Fails(api, order) \/ clusters = Dumped(api, order)
=============================================================================
