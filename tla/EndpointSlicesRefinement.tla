---------------------- MODULE EndpointSlicesRefinement ----------------------
(***************************************************************************)
(* The endpoint store, which deletes and adds load assignments one by one  *)
(* when a slice changes, implements EndpointAssignments.  What is to be    *)
(* served is what the call under way will leave behind.                    *)
(***************************************************************************)
EXTENDS EndpointSlices

KnownSlices == [svc \in Services |-> Slices(serverESs[svc])]

Target ==
    [c \in (DOMAIN resources \ doomed) \union DOMAIN fresh |->
        IF c \in DOMAIN fresh THEN fresh[c] ELSE resources[c]]

Assignments == INSTANCE EndpointAssignments
    WITH AllSlices <- Contents, Labels <- NodeLabels \union {None},
         Assignment <- [known \in SUBSET Contents |->
                           [c \in ClusterNames(known) |-> [list \in NodeLists |->
                               LoadAssignment(c, list, known)]]],
         slices <- KnownSlices, target <- Target, served <- resources

\* Although a call changes the manager in several critical sections, and the
\* process may stop between two of them: what clients see goes cluster by
\* cluster, and for the clusters of the one service that changed, from what they
\* had to what its slices give to them, and to nothing else.  Localities are
\* those that the nodes had at some moment of the call: nodes that change during
\* it, and only these, may be old in one load assignment and new in another.
ImplementsAssignments == Assignments!Spec
=============================================================================
