--------------------------- MODULE ManagerService ---------------------------
(***************************************************************************)
(* What a manager of pkg/xds promises to the clients that it serves,       *)
(* without goroutines, locks and channels.                                 *)
(*                                                                         *)
(* A client that has been answered holds a snapshot of the resources at    *)
(* one moment.  Every later change of a name that it wants is owed to it   *)
(* from the moment of the change on.  The debt ends with a new answer, or  *)
(* is dropped openly when the announcement times out.                      *)
(***************************************************************************)
CONSTANTS
    Names,    \* names of resources
    Values,   \* contents that a resource can have
    Absent,   \* stands for "no resource of that name"
    Streams   \* clients

VARIABLES
    resources,  \* the managed resources
    served,     \* the clients that hold an answer
    want,       \* the names that each of these is interested in
    view,       \* the answer that it holds
    owed,       \* names that changed since and are still to be announced
    dropped     \* names whose announcement was given up

answerVars == <<served, want, view, owed, dropped>>
vars == <<resources, answerVars>>

Store == [Names -> Values \union {Absent}]
NoStore == [n \in Names |-> Absent]
Snapshot(names) == [n \in Names |-> IF n \in names THEN resources[n] ELSE Absent]

Init ==
    /\ resources = NoStore
    /\ served = {}
    /\ want = [s \in Streams |-> {}]
    /\ view = [s \in Streams |-> NoStore]
    /\ owed = [s \in Streams |-> {}]
    /\ dropped = [s \in Streams |-> {}]

\* Some of the names get other contents.
Change(names) ==
    /\ resources' \in Store
    /\ \A n \in Names \ names : resources'[n] = resources[n]
    /\ owed' = [s \in Streams |-> owed[s] \union (names \intersect want[s])]
    /\ UNCHANGED <<served, want, view, dropped>>

\* A client gets a snapshot, which contains every change that happened before
\* it.  Changes may be announced to it once more.
Answer(s, names) ==
    /\ s \notin served
    /\ served' = served \union {s}
    /\ want' = [want EXCEPT ![s] = names]
    /\ view' = [view EXCEPT ![s] = Snapshot(names)]
    /\ \E again \in SUBSET names : owed' = [owed EXCEPT ![s] = again]
    /\ UNCHANGED <<resources, dropped>>

\* A client is about to be answered anew, or leaves.
Release(s) ==
    /\ s \in served
    /\ served' = served \ {s}
    /\ want' = [want EXCEPT ![s] = {}]
    /\ view' = [view EXCEPT ![s] = NoStore]
    /\ owed' = [owed EXCEPT ![s] = {}]
    /\ dropped' = [dropped EXCEPT ![s] = {}]
    /\ UNCHANGED resources

\* A client that holds more than it asks for asks for less.
Narrow(s, names) ==
    /\ names \subseteq want[s]
    /\ want' = [want EXCEPT ![s] = names]
    /\ owed' = [owed EXCEPT ![s] = @ \intersect names]
    /\ dropped' = [dropped EXCEPT ![s] = @ \intersect names]
    /\ UNCHANGED <<resources, served, view>>

\* An announcement of some names times out for some clients.  The same names
\* may still be owed to them by another one.
GiveUp(clients, names) ==
    /\ dropped' = [s \in Streams |->
                      IF s \in clients
                      THEN dropped[s] \union (names \intersect want[s])
                      ELSE dropped[s]]
    /\ owed' \in [Streams -> SUBSET Names]
    /\ \A s \in Streams : /\ owed'[s] \subseteq owed[s]
                          /\ owed[s] \ owed'[s] \subseteq dropped'[s]
    /\ UNCHANGED <<resources, served, want, view>>

Next ==
    \/ \E names \in SUBSET Names : Change(names)
    \/ \E s \in Streams :
          \/ Release(s)
          \/ \E names \in SUBSET Names : Answer(s, names) \/ Narrow(s, names)
    \/ \E clients \in SUBSET Streams, names \in SUBSET Names :
          GiveUp(clients, names)

Spec == Init /\ [][Next]_vars

\* What a client of the service can rely on: where its answer is not up to
\* date, a change is owed to it or was dropped.
Accountable ==
    \A s \in served : \A n \in want[s] :
        view[s][n] = resources[n] \/ n \in owed[s] \union dropped[s]
=============================================================================
