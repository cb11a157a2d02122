------------------------ MODULE EndpointAssignments ------------------------
(***************************************************************************)
(* What the EndpointStore of pkg/glue/glue.go promises to those who look   *)
(* at the load assignments, without its calls into the manager.            *)
(*                                                                         *)
(* When the slices of a service change, the load assignments of that       *)
(* service are to become those of its new slices, and no others change.    *)
(* Each becomes so in one step, before anything else is translated.        *)
(*                                                                         *)
(* Nodes change meanwhile.  In a load assignment, each node is one that    *)
(* there was since the call began; two nodes, or a node in two load        *)
(* assignments, need not be of the same moment.                            *)
(***************************************************************************)
CONSTANTS
    Services,   \* services; the first component of a cluster is its service
    AllSlices,  \* the slices there can be
    Nodes,      \* the nodes
    Labels,     \* what a node can be
    Assignment  \* for a set of slices, the load assignment of each cluster,
                \* for each state of the nodes

VARIABLES
    nodes,    \* what each node is
    reading,  \* is a call under way that has not translated yet
    recent,   \* what each node has been since it began
    slices,   \* the slices that were translated, by service
    target,   \* the load assignments that are to be served, by cluster
    served    \* those that are served

readVars == <<reading, recent>>
vars == <<nodes, readVars, slices, target, served>>

NoAssignments == [c \in {} |-> c]

NotReading == [node \in Nodes |-> {}]

Init ==
    /\ nodes \in [Nodes -> Labels]
    /\ reading = FALSE
    /\ recent = NotReading
    /\ slices = [svc \in Services |-> {}]
    /\ target = NoAssignments
    /\ served = NoAssignments

\* A node changes, whether a call is under way or not.
ChangeNode(node, labels) ==
    /\ nodes' = [nodes EXCEPT ![node] = labels]
    /\ recent' = IF reading THEN [recent EXCEPT ![node] = @ \union {labels}]
                 ELSE recent
    /\ UNCHANGED <<reading, slices, target, served>>

\* A call begins when the one before has ended.
Begin ==
    /\ ~reading
    /\ served = target
    /\ reading' = TRUE
    /\ recent' = [node \in Nodes |-> {nodes[node]}]
    /\ UNCHANGED <<nodes, slices, target, served>>

EndReading == reading /\ reading' = FALSE /\ recent' = NotReading

\* The load assignments of some slices, each for nodes that there were.
Translations(known) ==
    LET Seen == {list \in [Nodes -> Labels] :
                   \A node \in Nodes : list[node] \in recent[node]}
    IN  {[c \in DOMAIN Assignment[known] |-> Assignment[known][c][seen[c]]] :
            seen \in [DOMAIN Assignment[known] -> Seen]}

\* The slices of one service change.
Translate(svc) ==
    /\ EndReading
    /\ slices' \in [Services -> SUBSET AllSlices]
    /\ \A other \in Services \ {svc} : slices'[other] = slices[other]
    /\ \E own \in Translations(slices'[svc]) :
          LET others == {c \in DOMAIN target : c[1] # svc}
          IN  target' = [c \in others \union DOMAIN own |->
                            IF c \in DOMAIN own THEN own[c] ELSE target[c]]
    /\ UNCHANGED <<nodes, served>>

\* A cluster gets the load assignment that it is to have, or loses its own.
Serve(c) ==
    /\ c \in DOMAIN served \union DOMAIN target
    /\ served' = [d \in (DOMAIN served \ {c}) \union (DOMAIN target \intersect {c}) |->
                     IF d = c THEN target[d] ELSE served[d]]
    /\ UNCHANGED <<nodes, readVars, slices, target>>

\* The slices of all services are translated and served at once.
TranslateAll ==
    /\ EndReading
    /\ slices' \in [Services -> SUBSET AllSlices]
    /\ target' \in Translations(UNION {slices'[svc] : svc \in Services})
    /\ served' = target'
    /\ UNCHANGED nodes

\* A new process knows nothing and serves nothing.
Restart ==
    /\ slices' = [svc \in Services |-> {}]
    /\ target' = NoAssignments
    /\ served' = NoAssignments
    /\ reading' = FALSE
    /\ recent' = NotReading
    /\ UNCHANGED nodes

Next ==
    \/ \E node \in Nodes, labels \in Labels : ChangeNode(node, labels)
    \/ Begin
    \/ \E svc \in Services : Translate(svc)
    \/ \E c \in DOMAIN served \union DOMAIN target : Serve(c)
    \/ TranslateAll
    \/ Restart

Spec == Init /\ [][Next]_vars
=============================================================================
