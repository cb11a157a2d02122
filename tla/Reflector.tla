----------------------------- MODULE Reflector -----------------------------
(***************************************************************************)
(* The environment of a store that pkg/k8s/k8s.go attaches to the          *)
(* Kubernetes API: the objects of one kind in the API server, and the      *)
(* reflector (client-go's, external) that lists them, hands the list to    *)
(* the store's Replace and then delivers the changes since, one by one and *)
(* in order, to Add, Update and Delete.  It lists again when its watch     *)
(* breaks, and when Replace returned an error; an error of the others is   *)
(* only logged.                                                            *)
(***************************************************************************)
EXTENDS Naturals, Sequences

CONSTANTS
    Objects,    \* names of the objects
    ContentsOf, \* what each object can be
    Gone,       \* stands for "no object of that name"
    MaxChanges, \* bound: changes to objects in a behaviour
    MaxBreaks   \* bound: broken watches and restarts in a behaviour

Contents == UNION {ContentsOf[o] : o \in Objects}

ASSUME ReflectorAssumption ==
    /\ Gone \notin Contents
    /\ MaxChanges \in Nat /\ MaxBreaks \in Nat

VARIABLES
    api,      \* the objects in the API server
    mode,     \* the reflector is to "list", to "sync" a list, or it watches
    listed,   \* the list that it is to hand to Replace
    events,   \* changes that it has not delivered yet
    changes,  \* changes so far
    breaks    \* broken watches and restarts so far

reflectorVars == <<api, mode, listed, events, changes, breaks>>

NoObjects == [o \in Objects |-> Gone]

Event == [kind : {"add", "update", "delete"}, object : Objects,
          content : Contents]

ReflectorTypeOK ==
    /\ api \in [Objects -> Contents \union {Gone}]
    /\ mode \in {"list", "sync", "watch"}
    /\ listed \in [Objects -> Contents \union {Gone}]
    /\ events \in Seq(Event)
    /\ changes \in 0 .. MaxChanges
    /\ breaks \in 0 .. MaxBreaks

ReflectorInit ==
    /\ api \in [Objects -> Contents \union {Gone}]
    /\ \A o \in Objects : api[o] \in ContentsOf[o] \union {Gone}
    /\ mode = "list"
    /\ listed = NoObjects
    /\ events = <<>>
    /\ changes = 0
    /\ breaks = 0

\* A change of object o is an event unless a list is still to be made.  A
\* deletion is reported with the object's last state.
Change(o, content) ==
    /\ changes < MaxChanges
    /\ content \in ContentsOf[o] \union {Gone}
    /\ content # api[o]
    /\ api' = [api EXCEPT ![o] = content]
    /\ events' = IF mode = "list" THEN events
                 ELSE Append(events,
                        IF content = Gone
                        THEN [kind |-> "delete", object |-> o, content |-> api[o]]
                        ELSE [kind |-> IF api[o] = Gone THEN "add" ELSE "update",
                              object |-> o, content |-> content])
    /\ changes' = changes + 1
    /\ UNCHANGED <<mode, listed, breaks>>

List ==
    /\ mode = "list"
    /\ listed' = api
    /\ mode' = "sync"
    /\ UNCHANGED <<api, events, changes, breaks>>

\* The end of Replace: start watching, or list again after an error.
Synced(ok) ==
    /\ mode = "sync"
    /\ mode' = IF ok THEN "watch" ELSE "list"
    /\ events' = IF ok THEN events ELSE <<>>
    /\ listed' = NoObjects
    /\ UNCHANGED <<api, changes, breaks>>

\* The next event is taken up.
Receive(kinds) ==
    /\ mode = "watch"
    /\ events # <<>>
    /\ Head(events).kind \in kinds
    /\ events' = Tail(events)
    /\ UNCHANGED <<api, mode, listed, changes, breaks>>

\* The watch breaks, with events undelivered; or the process stops and a new
\* one starts.
StartOver ==
    /\ breaks < MaxBreaks
    /\ breaks' = breaks + 1
    /\ mode' = "list"
    /\ listed' = NoObjects
    /\ events' = <<>>
    /\ UNCHANGED <<api, changes>>

\* Everything that happened has been delivered.
CaughtUp == mode = "watch" /\ events = <<>>
=============================================================================
