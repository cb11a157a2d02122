--------------------------- MODULE DumpEndpoints ---------------------------
(***************************************************************************)
(* The command ekglue-dump-config, as far as endpoints go: it lists the    *)
(* nodes, then the endpoint slices, and prints the load assignments that   *)
(* an EndpointStore makes of them when it is handed one after the other.   *)
(* A server next to it is handed lists and changes; both should arrive at  *)
(* the same load assignments.                                              *)
(***************************************************************************)
EXTENDS EndpointSlices

\* The slices that exist, in the orders in which the API server may list them.
Orders(map) == SetToSeqs({o \in Objects : map[o] # Gone})

\* A defect: the nodes are listed after the slices.
NodesListedLast(nodeList) == [node \in Nodes |-> None]

\* ListNodes fills the store of nodes before the first slice is added.
NodesListed(nodeList) == nodeList

\* EndpointStore.Add of the i-th slice: all slices of its service so far are
\* translated again.  Every cluster that they had remains, so that nothing is
\* deleted.
Added(served, nodeList, slices, i) ==
    LET own == {slices[j] : j \in {k \in 1 .. i : slices[k].service = slices[i].service}}
        new == LoadAssignments(nodeList, own)
    IN  [c \in DOMAIN new \union DOMAIN served |->
            IF c \in DOMAIN new THEN new[c] ELSE served[c]]

\* ListEndpointSlices: the slices of a list are added one by one.
Dumped(nodeList, slices) ==
    LET step[i \in 0 .. Len(slices)] ==
            IF i = 0 THEN Empty
            ELSE Added(step[i - 1], NodesListed(nodeList), slices, i)
    IN  step[Len(slices)]

\* The command shows what the server serves: when the server has caught up,
\* and no node has changed behind its back, its load assignments are those that
\* the command computes from the same API server, in whatever order that lists
\* its slices and whatever the server went through.
DumpShowsServed ==
    CaughtUp /\ Idle /\ (\A svc \in Services : unseen[svc] = {}) =>
        \A order \in Orders(api) :
            Dumped(nodes, [i \in DOMAIN order |-> api[order[i]]]) = resources
=============================================================================
