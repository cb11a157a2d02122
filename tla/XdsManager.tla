----------------------------- MODULE XdsManager -----------------------------
(***************************************************************************)
(* The resource manager of pkg/xds/xds.go: writers change the managed      *)
(* resources and notify the connected streams; every stream runs the       *)
(* select loop of Manager.Stream and answers its client with snapshots.    *)
(*                                                                         *)
(* A critical section of resourcesMu contains no blocking operation, so it *)
(* is one step.  sessionsMu is held by notify while it waits for busy      *)
(* streams, so it is a variable.  Channels are unbuffered: a notification  *)
(* is a joint step of the writer and the stream that receives it.          *)
(***************************************************************************)
EXTENDS Naturals, Sequences

CONSTANTS
    Names,          \* names of resources (clusters, or load assignments)
    Values,         \* contents a resource can have
    Absent,         \* stands for "no resource of that name"
    Invalid,        \* the values whose Validate() returns an error
    Unmarshalable,  \* the values that anypb.New cannot marshal
    Batches,        \* the arguments Add and Replace are called with
    Writers,        \* goroutines that call Add, Replace and Delete
    Streams,        \* client connections, each one a call of Stream
    Subscriptions,  \* the resource_names lists that clients send
    RequestNodes,   \* may a request carry a node id: a subset of BOOLEAN
    Nobody,         \* holder of a free sessionsMu
    MaxVersion,     \* bound: no operation starts at or above this version
    MaxPushes       \* bound: no request is answered above this many pushes

\* What the manager keeps by name: a partial map, Absent where undefined.
Store == [Names -> Values \union {Absent}]

ASSUME ConstantsAssumption ==
    /\ Absent \notin Values
    /\ Invalid \subseteq Values /\ Unmarshalable \subseteq Values
    /\ Batches \subseteq Store
    /\ Subscriptions \subseteq Seq(Names)
    /\ RequestNodes \subseteq BOOLEAN
    /\ Nobody \notin Writers
    /\ MaxVersion \in Nat /\ MaxPushes \in Nat

VARIABLES
    resources,   \* Manager.resources
    version,     \* Manager.version
    sessionsMu,  \* the writer that holds Manager.sessionsMu, or Nobody
    sessions,    \* Manager.sessions: the streams that are registered
    draining,    \* is the channel Manager.Draining closed
    wpc,         \* control point of each writer
    todo,        \* what Add has still to store, by writer
    changed,     \* the names a writer has to announce (update.resources)
    unsent,      \* streams the first pass of notify has not tried yet
    blocked,     \* streams found busy, which notify waits for
    spc,         \* control point of each stream
    named,       \* has the stream learnt its client's node id
    sub,         \* the names the stream's client is interested in
    txs,         \* nonces in flight; the k-th response of a stream has nonce k
    pushes,      \* responses built by the stream so far
    sent,        \* content of the stream's latest response
    sentVersion, \* version of the stream's latest response
    missed       \* names of timed-out notifications (auxiliary)

managerVars == <<resources, version, sessionsMu, sessions, draining>>
writerVars == <<wpc, todo, changed, unsent, blocked>>
clientVars == <<named, sub, txs>>
pushVars == <<pushes, sent, sentVersion, missed>>
vars == <<managerVars, writerVars, spc, clientVars, pushVars>>

\* A defect the checks must notice: NewManager forgets to make the map.
NilMap == [n \in {} |-> Absent]

Nothing == [n \in Names |-> Absent]
Defined(store) == {n \in Names : store[n] # Absent}

\* The names snapshot(want) looks up: every name when want is empty.
Wanted(want) == IF want = <<>> THEN Names ELSE {want[i] : i \in DOMAIN want}

TypeOK ==
    /\ resources \in Store
    /\ version \in Nat
    /\ sessionsMu \in Writers \union {Nobody}
    /\ sessions \subseteq Streams
    /\ draining \in BOOLEAN
    /\ wpc \in [Writers -> {"idle", "add", "notify", "lock", "send"}]
    /\ todo \in [Writers -> Store]
    /\ changed \in [Writers -> SUBSET Names]
    /\ unsent \in [Writers -> SUBSET Streams]
    /\ blocked \in [Writers -> SUBSET Streams]
    /\ spc \in [Streams ->
                 {"off", "opening", "loop", "build", "push", "exit", "done"}]
    /\ named \in [Streams -> BOOLEAN]
    /\ sub \in [Streams -> Seq(Names)]
    /\ txs \in [Streams -> SUBSET Nat]
    /\ pushes \in [Streams -> Nat]
    /\ sent \in [Streams -> Store]
    /\ sentVersion \in [Streams -> Nat]
    /\ missed \in [Streams -> SUBSET Names]

Init ==
    /\ resources = Nothing
    /\ version = 0
    /\ sessionsMu = Nobody
    /\ sessions = {}
    /\ draining = FALSE
    /\ wpc = [w \in Writers |-> "idle"]
    /\ todo = [w \in Writers |-> Nothing]
    /\ changed = [w \in Writers |-> {}]
    /\ unsent = [w \in Writers |-> {}]
    /\ blocked = [w \in Writers |-> {}]
    /\ spc = [s \in Streams |-> "off"]
    /\ named = [s \in Streams |-> FALSE]
    /\ sub = [s \in Streams |-> <<>>]
    /\ txs = [s \in Streams |-> {}]
    /\ pushes = [s \in Streams |-> 0]
    /\ sent = [s \in Streams |-> Nothing]
    /\ sentVersion = [s \in Streams |-> 0]
    /\ missed = [s \in Streams |-> {}]

-----------------------------------------------------------------------------
(***************************************************************************)
(* Writers: Add, Replace, Delete, and the notify they all end with.        *)
(***************************************************************************)

\* A defect: nobody calls Validate.
Unvalidated(value) == TRUE

Valid(value) == value \notin Invalid

\* A defect: nobody takes sessionsMu.
Unlocked == TRUE

\* A goroutine that asks for sessionsMu gets it.
MayLock == sessionsMu = Nobody

\* A writer may call into the manager again (version bounds the model).
CanCall(w) == wpc[w] = "idle" /\ version < MaxVersion

AddCall(w, batch) ==
    /\ CanCall(w)
    /\ todo' = [todo EXCEPT ![w] = batch]
    /\ wpc' = [wpc EXCEPT ![w] = "add"]
    /\ UNCHANGED <<managerVars, changed, unsent, blocked, spc, clientVars,
                   pushVars>>

\* One round of Add's loop: a valid resource is stored under the lock.
AddStore(w, n) ==
    /\ wpc[w] = "add"
    /\ todo[w][n] # Absent
    /\ Valid(todo[w][n])
    /\ resources' = [resources EXCEPT ![n] = todo[w][n]]
    /\ changed' = [changed EXCEPT ![w] = @ \union {n}]
    /\ todo' = [todo EXCEPT ![w][n] = Absent]
    /\ UNCHANGED <<version, sessionsMu, sessions, draining, wpc, unsent,
                   blocked, spc, clientVars, pushVars>>

\* An invalid resource: Add returns at once and does not reach notify.
AddInvalid(w, n) ==
    /\ wpc[w] = "add"
    /\ todo[w][n] # Absent
    /\ ~Valid(todo[w][n])
    /\ todo' = [todo EXCEPT ![w] = Nothing]
    /\ changed' = [changed EXCEPT ![w] = {}]
    /\ wpc' = [wpc EXCEPT ![w] = "idle"]
    /\ UNCHANGED <<managerVars, unsent, blocked, spc, clientVars, pushVars>>

AddStored(w) ==
    /\ wpc[w] = "add"
    /\ todo[w] = Nothing
    /\ wpc' = [wpc EXCEPT ![w] = "notify"]
    /\ UNCHANGED <<managerVars, todo, changed, unsent, blocked, spc,
                   clientVars, pushVars>>

\* Replace validates everything first: with an invalid resource it returns
\* an error and changes nothing, which is no step here.
Replace(w, batch) ==
    /\ CanCall(w)
    /\ \A n \in Defined(batch) : Valid(batch[n])
    /\ resources' = batch
    /\ changed' = [changed EXCEPT ![w] = Defined(batch) \union Defined(resources)]
    /\ wpc' = [wpc EXCEPT ![w] = "notify"]
    /\ UNCHANGED <<version, sessionsMu, sessions, draining, todo, unsent,
                   blocked, spc, clientVars, pushVars>>

Delete(w, n) ==
    /\ CanCall(w)
    /\ resources[n] # Absent
    /\ resources' = [resources EXCEPT ![n] = Absent]
    /\ changed' = [changed EXCEPT ![w] = {n}]
    /\ wpc' = [wpc EXCEPT ![w] = "notify"]
    /\ UNCHANGED <<version, sessionsMu, sessions, draining, todo, unsent,
                   blocked, spc, clientVars, pushVars>>

\* A defect: the version is not incremented.
SameVersion == version

NextVersion == version + 1

\* notify returns at once when nothing changed; otherwise it takes
\* resourcesMu a second time to increment the version.
NotifyStart(w) ==
    /\ wpc[w] = "notify"
    /\ IF changed[w] = {}
       THEN /\ wpc' = [wpc EXCEPT ![w] = "idle"]
            /\ UNCHANGED version
       ELSE /\ wpc' = [wpc EXCEPT ![w] = "lock"]
            /\ version' = NextVersion
    /\ UNCHANGED <<resources, sessionsMu, sessions, draining, todo, changed,
                   unsent, blocked, spc, clientVars, pushVars>>

NotifyLock(w) ==
    /\ wpc[w] = "lock"
    /\ MayLock
    /\ sessionsMu' = w
    /\ unsent' = [unsent EXCEPT ![w] = sessions]
    /\ wpc' = [wpc EXCEPT ![w] = "send"]
    /\ UNCHANGED <<resources, version, sessions, draining, todo, changed,
                   blocked, spc, clientVars, pushVars>>

\* A stream is receiving from its channel in its select loop, and through
\* the goroutine that its cleanup starts before it asks for sessionsMu.
Receives(s) == spc[s] \in {"loop", "exit"}

\* A defect: an empty subscription matches no name instead of every name.
InterestedByName(s, names) == \E i \in DOMAIN sub[s] : sub[s][i] \in names

Interested(s, names) == sub[s] = <<>> \/ names \intersect Wanted(sub[s]) # {}

\* The writer hands its update to s: in the first pass, or while it waits
\* for the busy streams (the 100ms rotation among these is any order here).
\* The loop of s sends a response if it is interested; the cleanup
\* goroutine throws the update away.
Deliver(w, s) ==
    /\ wpc[w] = "send"
    /\ s \in unsent[w] \/ (unsent[w] = {} /\ s \in blocked[w])
    /\ Receives(s)
    /\ unsent' = [unsent EXCEPT ![w] = @ \ {s}]
    /\ blocked' = [blocked EXCEPT ![w] = @ \ {s}]
    /\ spc' = IF spc[s] = "loop" /\ Interested(s, changed[w])
              THEN [spc EXCEPT ![s] = "build"] ELSE spc
    /\ UNCHANGED <<managerVars, wpc, todo, changed, clientVars, pushVars>>

\* A defect: a busy stream is not remembered.
SkipBusyForgotten(w, s) ==
    /\ wpc[w] = "send"
    /\ s \in unsent[w]
    /\ unsent' = [unsent EXCEPT ![w] = @ \ {s}]
    /\ UNCHANGED <<managerVars, wpc, todo, changed, blocked, spc, clientVars,
                   pushVars>>

\* The non-blocking send of the first pass fails.  It may do so for a
\* stream in its loop as well, which has not reached its select yet.
SkipBusy(w, s) ==
    /\ wpc[w] = "send"
    /\ s \in unsent[w]
    /\ unsent' = [unsent EXCEPT ![w] = @ \ {s}]
    /\ blocked' = [blocked EXCEPT ![w] = @ \union {s}]
    /\ UNCHANGED <<managerVars, wpc, todo, changed, spc, clientVars, pushVars>>

\* A defect: the deferred Unlock is missing.
EndNotifyLocked(w) ==
    /\ changed' = [changed EXCEPT ![w] = {}]
    /\ wpc' = [wpc EXCEPT ![w] = "idle"]
    /\ UNCHANGED sessionsMu

EndNotify(w) ==
    /\ changed' = [changed EXCEPT ![w] = {}]
    /\ wpc' = [wpc EXCEPT ![w] = "idle"]
    /\ sessionsMu' = Nobody

\* The context of the caller is done while streams are still blocked: they
\* do not get this update.  Add, Replace and Delete ignore the error.
NotifyTimeout(w) ==
    /\ wpc[w] = "send" /\ unsent[w] = {} /\ blocked[w] # {}
    /\ missed' = [s \in Streams |-> IF s \in blocked[w]
                                    THEN missed[s] \union changed[w]
                                    ELSE missed[s]]
    /\ blocked' = [blocked EXCEPT ![w] = {}]
    /\ EndNotify(w)
    /\ UNCHANGED <<resources, version, sessions, draining, todo, unsent, spc,
                   clientVars, pushes, sent, sentVersion>>

NotifyReturn(w) ==
    /\ wpc[w] = "send" /\ unsent[w] = {} /\ blocked[w] = {}
    /\ EndNotify(w)
    /\ UNCHANGED <<resources, version, sessions, draining, todo, unsent,
                   blocked, spc, clientVars, pushVars>>

-----------------------------------------------------------------------------
(***************************************************************************)
(* Streams: one call of Stream per client connection.                      *)
(***************************************************************************)

GoTo(s, point) == spc' = [spc EXCEPT ![s] = point]

\* The client connects; Stream waits for sessionsMu to register itself.
Open(s) ==
    /\ spc[s] = "off"
    /\ GoTo(s, "opening")
    /\ UNCHANGED <<managerVars, writerVars, clientVars, pushVars>>

Register(s) ==
    /\ spc[s] = "opening"
    /\ MayLock
    /\ sessions' = sessions \union {s}
    /\ GoTo(s, "loop")
    /\ UNCHANGED <<resources, version, sessionsMu, draining, writerVars,
                   clientVars, pushVars>>

\* The server begins to shut down: the Draining channel is closed.
Drain ==
    /\ ~draining
    /\ draining' = TRUE
    /\ UNCHANGED <<resources, version, sessionsMu, sessions, writerVars, spc,
                   clientVars, pushVars>>

\* A defect: the channel is only looked at before the first response.
LeaveDrainedEarly(s) ==
    /\ spc[s] = "loop"
    /\ draining /\ pushes[s] = 0
    /\ GoTo(s, "exit")
    /\ UNCHANGED <<managerVars, writerVars, clientVars, pushVars>>

\* The loop sees that the Draining channel is closed.
LeaveDrained(s) ==
    /\ spc[s] = "loop"
    /\ draining
    /\ GoTo(s, "exit")
    /\ UNCHANGED <<managerVars, writerVars, clientVars, pushVars>>

\* The client goes away: the context is done or the request channel closed.
Hangup(s) ==
    /\ spc[s] = "loop"
    /\ GoTo(s, "exit")
    /\ UNCHANGED <<managerVars, writerVars, clientVars, pushVars>>

\* The cleanup ticker forgets the transactions that began over a minute
\* ago: nonce k and the older ones.
CleanupTick(s, k) ==
    /\ spc[s] = "loop"
    /\ k \in txs[s]
    /\ txs' = [txs EXCEPT ![s] = {i \in txs[s] : i > k}]
    /\ UNCHANGED <<managerVars, writerVars, spc, named, sub, pushVars>>

\* A defect: every request sets the subscription.
LatestNames(s, names) == names

\* While the node id is unknown, a request sets it and the subscription.
SubAfter(s, names) == IF named[s] THEN sub[s] ELSE names

Learn(s, names, hasNode) ==
    /\ named' = [named EXCEPT ![s] = @ \/ hasNode]
    /\ sub' = [sub EXCEPT ![s] = SubAfter(s, names)]

\* A changed subscription (the order of the names counts) or a wrong
\* resource type ends the stream with an error.
RejectRequest(s, names, hasNode, rightType) ==
    /\ spc[s] = "loop"
    /\ names # SubAfter(s, names) \/ ~rightType
    /\ Learn(s, names, hasNode)
    /\ GoTo(s, "exit")
    /\ UNCHANGED <<managerVars, writerVars, txs, pushVars>>

\* An ACK or a NACK of a response in flight ends its transaction; both are
\* only reported (OnAck, metrics) and nothing is sent again.
Acknowledge(s, names, hasNode, nonce) ==
    /\ spc[s] = "loop"
    /\ names = SubAfter(s, names)
    /\ nonce \in txs[s]
    /\ Learn(s, names, hasNode)
    /\ txs' = [txs EXCEPT ![s] = @ \ {nonce}]
    /\ UNCHANGED <<managerVars, writerVars, spc, pushVars>>

\* An initial request (nonce 0), or one with an unrecognized nonce, is
\* answered with the configuration.
AskConfig(s, names, hasNode, nonce) ==
    /\ spc[s] = "loop"
    /\ pushes[s] < MaxPushes
    /\ names = SubAfter(s, names)
    /\ nonce \notin txs[s]
    /\ Learn(s, names, hasNode)
    /\ GoTo(s, "build")
    /\ UNCHANGED <<managerVars, writerVars, txs, pushVars>>

\* Nonces a client may send: none, one of this stream, or a foreign one.
Nonces(s) == 0 .. (pushes[s] + 1)

Poisoned(s) == \E n \in Wanted(sub[s]) : resources[n] \in Unmarshalable

\* BuildDiscoveryResponse: what is present of the wanted names, and the
\* version, are read under one lock.
Build(s) ==
    /\ spc[s] = "build"
    /\ ~Poisoned(s)
    /\ sent' = [sent EXCEPT ![s] =
                  [n \in Names |-> IF n \in Wanted(sub[s]) THEN resources[n]
                                   ELSE Absent]]
    /\ sentVersion' = [sentVersion EXCEPT ![s] = version]
    /\ pushes' = [pushes EXCEPT ![s] = @ + 1]
    /\ missed' = [missed EXCEPT ![s] = {}]
    /\ GoTo(s, "push")
    /\ UNCHANGED <<managerVars, writerVars, clientVars>>

\* There is no response with a resource that cannot be marshalled.  One whose
\* own fields do not validate would end the stream likewise; what is built
\* here always has them.
BuildError(s) ==
    /\ spc[s] = "build"
    /\ Poisoned(s)
    /\ GoTo(s, "exit")
    /\ UNCHANGED <<managerVars, writerVars, clientVars, pushVars>>

\* A defect: the transaction of the response is not recorded.
PushUnrecorded(s) ==
    /\ spc[s] = "push"
    /\ GoTo(s, "loop")
    /\ UNCHANGED <<managerVars, writerVars, clientVars, pushVars>>

\* The response is taken from resCh, and its transaction begins.
PushAccepted(s) ==
    /\ spc[s] = "push"
    /\ txs' = [txs EXCEPT ![s] = @ \union {pushes[s]}]
    /\ GoTo(s, "loop")
    /\ UNCHANGED <<managerVars, writerVars, named, sub, pushVars>>

\* Nobody takes it for five seconds, or the client is gone.
PushTimeout(s) ==
    /\ spc[s] = "push"
    /\ GoTo(s, "exit")
    /\ UNCHANGED <<managerVars, writerVars, clientVars, pushVars>>

\* The deferred cleanup: the channel leaves the set of sessions and is
\* closed under sessionsMu.  The locals of Stream are gone with it.
Unregister(s) ==
    /\ spc[s] = "exit"
    /\ MayLock
    /\ sessions' = sessions \ {s}
    /\ GoTo(s, "done")
    /\ named' = [named EXCEPT ![s] = FALSE]
    /\ sub' = [sub EXCEPT ![s] = <<>>]
    /\ txs' = [txs EXCEPT ![s] = {}]
    /\ pushes' = [pushes EXCEPT ![s] = 0]
    /\ sent' = [sent EXCEPT ![s] = Nothing]
    /\ sentVersion' = [sentVersion EXCEPT ![s] = 0]
    /\ missed' = [missed EXCEPT ![s] = {}]
    /\ UNCHANGED <<resources, version, sessionsMu, draining, writerVars>>

-----------------------------------------------------------------------------
AddStep(w) ==
    \/ \E n \in Names : AddStore(w, n) \/ AddInvalid(w, n)
    \/ AddStored(w)

SendStep(w) ==
    \/ \E s \in Streams : Deliver(w, s) \/ SkipBusy(w, s)
    \/ NotifyTimeout(w)
    \/ NotifyReturn(w)

WriterNext(w) ==
    \/ \E batch \in Batches : AddCall(w, batch) \/ Replace(w, batch)
    \/ \E n \in Names : Delete(w, n)
    \/ AddStep(w)
    \/ NotifyStart(w)
    \/ NotifyLock(w)
    \/ SendStep(w)

RequestNext(s) ==
    \E names \in Subscriptions, hasNode \in RequestNodes :
        \/ \E rightType \in BOOLEAN : RejectRequest(s, names, hasNode, rightType)
        \/ \E nonce \in Nonces(s) : \/ Acknowledge(s, names, hasNode, nonce)
                                    \/ AskConfig(s, names, hasNode, nonce)

StreamNext(s) ==
    \/ Open(s) \/ Register(s)
    \/ LeaveDrained(s) \/ Hangup(s)
    \/ \E k \in txs[s] : CleanupTick(s, k)
    \/ RequestNext(s)
    \/ Build(s) \/ BuildError(s)
    \/ PushAccepted(s) \/ PushTimeout(s)
    \/ Unregister(s)

Next ==
    \/ \E w \in Writers : WriterNext(w)
    \/ \E s \in Streams : StreamNext(s)
    \/ Drain

Spec == Init /\ [][Next]_vars

(***************************************************************************)
(* Fairness: a goroutine that can run, runs.  Strong where several         *)
(* goroutines compete: sync.Mutex hands over to a waiter in starvation     *)
(* mode, and select picks at random among the cases that are ready.        *)
(* Nothing is assumed of clients and of callers.                           *)
(***************************************************************************)
Fairness ==
    /\ \A w \in Writers : /\ WF_vars(AddStep(w))
                          /\ WF_vars(NotifyStart(w))
                          /\ SF_vars(NotifyLock(w))
                          /\ WF_vars(SendStep(w))
    /\ \A s \in Streams : /\ SF_vars(Register(s))
                          /\ SF_vars(LeaveDrained(s))
                          /\ WF_vars(Build(s) \/ BuildError(s))
                          /\ WF_vars(PushAccepted(s) \/ PushTimeout(s))
                          /\ SF_vars(Unregister(s))

FairSpec == Spec /\ Fairness

-----------------------------------------------------------------------------
(***************************************************************************)
(* Properties.                                                             *)
(***************************************************************************)

\* w has an announcement of name n for stream s under way.
Owes(w, s, n) ==
    /\ n \in changed[w]
    /\ \/ wpc[w] \in {"add", "notify", "lock"}
       \/ wpc[w] = "send" /\ s \in unsent[w] \union blocked[w]

\* s has the current content of name n, or is still owed it, or was given up
\* on when it was announced.
Accounted(s, n) ==
    \/ sent[s][n] = resources[n]
    \/ n \in missed[s]
    \/ \E w \in Writers : Owes(w, s, n)

\* The stream has a response out, and has not set out to replace it.
Serving(s) == spc[s] \in {"loop", "push"} /\ pushes[s] > 0

\* No lost update: what the client of a live stream was sent last differs
\* from the manager's resources only in names that some writer is still
\* about to announce to that stream, or whose announcement timed out.  This
\* is what Add, Replace and notify owe to the streams that come and go while
\* they run.
NoLostUpdate ==
    \A s \in Streams : Serving(s) =>
        \A n \in Wanted(sub[s]) : Accounted(s, n)

\* A client that holds the current version holds the current content, except
\* for names a writer has stored and not yet given a version (notify
\* increments it in a second critical section, after the store).
CurrentVersionIsCurrent ==
    \A s \in Streams : Serving(s) /\ sentVersion[s] = version =>
        \A n \in Wanted(sub[s]) :
            \/ sent[s][n] = resources[n]
            \/ \E w \in Writers : n \in changed[w] /\ wpc[w] \in {"add", "notify"}

\* notify never sends on a closed channel, which would panic: the streams it
\* still has to reach are registered and have not closed theirs.
NoSendOnClosed ==
    \A w \in Writers : wpc[w] = "send" =>
        \A s \in unsent[w] \union blocked[w] :
            s \in sessions /\ spc[s] # "done"

\* A resource that does not validate never reaches a client, although Add
\* stores the resources of a call one by one, and a response that cannot be
\* marshalled is not sent in part.
OnlyValidServed ==
    \A s \in Streams : Serving(s) =>
        \A n \in Names : sent[s][n] \notin Invalid \union Unmarshalable

\* Two responses that carry the same version carry the same configuration
\* (the version "that we use to identify the generated configuration").
VersionIdentifiesConfig ==
    \A s, t \in Streams :
        /\ Serving(s) /\ Serving(t)
        /\ sub[s] = <<>> /\ sub[t] = <<>>
        /\ sentVersion[s] = sentVersion[t]
        => sent[s] = sent[t]

\* The subscription of a stream does not change: a request for other names
\* ends the stream, and the client has to open a new one.
SubscriptionFixed ==
    [][\A s \in Streams : sub[s] # <<>> /\ spc[s] = "loop" /\ spc'[s] # "exit"
          => sub'[s] = sub[s]]_vars

\* A client that connects is registered, however long a slow stream keeps
\* notify waiting with sessionsMu held.
StreamsRegister ==
    \A s \in Streams : spc[s] = "opening" ~> spc[s] # "opening"

\* A call of Add, Replace or Delete returns: the reflector that makes it is
\* never stopped by the streams.
WritersReturn == \A w \in Writers : wpc[w] # "idle" ~> wpc[w] = "idle"

\* Once the server drains, every stream that was opened ends.
DrainEnds ==
    \A s \in Streams : draining /\ spc[s] # "off" ~> spc[s] = "done"

\* When the writers have stopped, every live stream that was answered ends
\* up with the current resources, but for notifications that timed out.
Converges ==
    \A s \in Streams :
        <>[](Serving(s) => \A n \in Wanted(sub[s]) :
                              sent[s][n] = resources[n] \/ n \in missed[s])
=============================================================================
