------------------------ MODULE XdsManagerRefinement ------------------------
(***************************************************************************)
(* The manager with its mutexes, channels and goroutines implements        *)
(* ManagerService.  A client is served from the moment its response is     *)
(* built until its stream sets out to replace it; what it is owed is what  *)
(* writers have stored and not yet announced to its stream.                *)
(***************************************************************************)
EXTENDS XdsManager

Served == {s \in Streams : Serving(s)}

ServedNames == [s \in Streams |-> IF Serving(s) THEN Wanted(sub[s]) ELSE {}]

Views == [s \in Streams |-> IF Serving(s) THEN sent[s] ELSE Nothing]

Owed == [s \in Streams |->
            {n \in ServedNames[s] : \E w \in Writers : Owes(w, s, n)}]

Dropped == [s \in Streams |-> missed[s] \intersect ServedNames[s]]

Service == INSTANCE ManagerService
               WITH served <- Served, want <- ServedNames, view <- Views,
                    owed <- Owed, dropped <- Dropped

\* Whatever the interleaving of writers, streams and timeouts: an answer is a
\* snapshot of one moment, a change is owed to everyone who is served from the
\* moment it is stored, and only a new answer or a timeout ends that.
ImplementsService == Service!Spec
=============================================================================
