# A TLA+ model of ekglue

ekglue reads services, endpoint slices and nodes from the Kubernetes API and
serves them to Envoy as clusters (CDS) and load assignments (EDS). This
directory holds TLA+ modules that model it, TLC configurations that check
them, and proofs that TLAPS checks. Paths like `xds.go:182` are
`src/pkg/xds/xds.go` line 182; `glue.go`, `cds.go`, `k8s.go` and `main.go` are
`src/pkg/glue/glue.go`, `src/pkg/cds/cds.go`, `src/pkg/k8s/k8s.go` and
`src/cmd/ekglue/main.go`. `PROJECT.json` names the runs, the source lines of
each definition, the hazards, the findings and the theorems.

## The system

```
 Kubernetes API --list, watch--> three reflectors (k8s.go, client-go)
     nodes  --> a plain cache.Store          (read by EndpointStore)
     services --> glue.ClusterStore  --AddClusters, Replace, Delete--+
     slices   --> glue.EndpointStore --AddEndpoints, Replace, ... --+|
                                                                    vv
                     cds.Server = two xds.Managers (Clusters, Endpoints)
                                        |  one Stream per client and type
                                        v
                                     Envoys (gRPC)
```

| Component | State | Operations | Hard behaviour | What makes it correct |
|---|---|---|---|---|
| `xds.Manager` (xds.go) | resources by name, version, set of sessions; per stream: node id, subscription, transactions in flight | `Add`, `Replace`, `Delete`, `notify`; `Stream`; `BuildDiscoveryResponse` | two mutexes, of which one is held while `notify` waits for busy streams; resources, version and notification change in three critical sections; unbuffered channels; streams that leave while they are notified; timeouts; draining | no update is lost; no send on a closed channel; a version stands for a configuration; a subscription stays what it was; nothing invalid is sent; nobody waits for ever |
| `StreamGRPC` (xds.go:603) | request and response channels | three goroutines around `Stream` | three parties that wait for each other over unbuffered channels; a goroutine that stays behind; a response that is dropped; answers that come after their transaction is forgotten; a new process with old clients | no answer is waited for in vain; no storm of pushes; a version means one configuration across processes; goroutines end; the client converges |
| `cds.Server` (cds.go) | two managers | wrappers | the managers share only the drain channel | nothing of its own |
| translation (glue.go) | none | `ClustersFromService`, `LoadAssignmentsFromEndpointSlices`, overrides, localities | cases | clusters and load assignments agree on names |
| `glue.ClusterStore` | none | `Add`, `Update`, `Delete`, `Replace` | must undo what it did for earlier states of a service, without keeping them | the served clusters are those of the services |
| `glue.EndpointStore` | slices by service | `Add`, `Update`, `Delete`, `Replace` | several slices share a cluster; one call looks up nodes several times while they change, and changes the manager several times | the served load assignments are those of the slices; none is withdrawn that is still wanted |
| `k8s.ClusterWatcher` and client-go | lists, event queues | `WatchServices`, `WatchEndpointSlices`, `WatchNodes`, `ListNodes` | broken watches lose events, then everything is listed again; three watches are not ordered among each other | (environment) |
| `cmd/ekglue` (main.go) | drain channel | start-up order, drain handler | a new process serves at once and with nothing | (environment) |
| configuration (glue.go) | none | `LoadConfig` | accepts overrides without seeing what they make of the base | what it accepts is an assumption of the translation |
| `ekglue-dump-config` | none | lists nodes, slices and services, adds them one by one | the order of lists and of additions | it prints what a server would serve |

## Modules

| Module | What it is |
|---|---|
| `XdsManager` | the manager: writers and streams, one action per critical section or channel operation |
| `MCXdsManager` | its instances for TLC |
| `ManagerService` | what a manager promises, without goroutines, locks and channels |
| `XdsManagerRefinement` | the refinement mapping from `XdsManager` to `ManagerService` |
| `XdsManagerProofs` | type correctness and safety of sending, for all constants |
| `XdsManagerUpdateProofs` | no lost update, for all constants |
| `XdsManagerContentProofs` | valid content, subscriptions and versions, for all constants |
| `StreamGRPCProofs` | theorems about the composition, across restarts, for all constants |
| `XdsManagerServiceProofs` | `XdsManager` implements `ManagerService`, for all constants |
| `StreamGRPC`, `MCStreamGRPC` | `XdsManager` composed with the goroutines of `StreamGRPC`, a network, an Envoy and restarts |
| `GlueTranslation` | the pure functions of glue.go as operators |
| `Reflector` | environment: API server and client-go's reflector |
| `EndpointSlices` | `EndpointStore` between a reflector and a manager |
| `EndpointAssignments` | what an endpoint store promises to those who look at the load assignments |
| `EndpointSlicesRefinement` | the refinement mapping from `EndpointSlices` to `EndpointAssignments` |
| `ServiceClusters` | `ClusterStore` between a reflector and a manager |
| `DumpEndpoints`, `DumpClusters` | `ekglue-dump-config` next to a server, on the same API server |
| `MCEndpointSlices`, `MCServiceClusters` | their instances for TLC |
| `ReflectorProofs` | what a store can rely on: list and events lead to the API server's state; induction over the numbers |
| `EndpointSlicesProofs`, `ServiceClustersProofs` | theorems about the stores, the translation and the dump, for all constants |

No module declares a RECURSIVE operator.

### XdsManager and the code

*Writers* are goroutines that call `Add`, `Replace` or `Delete`: the reflectors. In this
program each manager has one, so that two writers are more than the program
needs; a manager is written for any number of callers, and is checked for them.
A critical section of `resourcesMu` contains nothing that blocks and is one
step: `AddStore` for each resource of an `Add` (the lock is taken for each,
xds.go:234), `Replace`, `Delete`, and `NotifyStart`, which takes the lock
again for `version++`. `sessionsMu` is a variable, because `notify` holds it
while it waits. A writer is at `idle`, in the loop of `Add` (`add`), before
`notify` (`notify`), waiting for `sessionsMu` (`lock`) or at the channels
(`send`). `unsent` are the sessions that the first, non-blocking pass has not
come to; `blocked` is the map of that name.

A notification is a joint step `Deliver` of the writer and the stream, since
the channels are unbuffered. It needs a receiver: a stream in its `select`
(`loop`) or the goroutine that the deferred cleanup starts (`exit`). The
non-blocking send may fail even for a stream in its loop, which may not have
reached its `select` (`SkipBusy`). The rotation by 100 ms slices among the
blocked sessions is any order. `NotifyTimeout` is the end of the caller's
context; its error is dropped by all three callers (xds.go:245, 277, 288).

*Streams* are calls of `Manager.Stream`: `opening` (waiting to register),
`loop`, `build` (before `BuildDiscoveryResponse`), `push` (before `resCh <-
res`), `exit` (before the cleanup's `sessionsMu.Lock()`), `done`. A request is
answered, ends a transaction, or ends the stream. The three ways depend on the
node id known so far, the names in it, its type and its nonce, in the order of
xds.go:534-573.

Abstractions, each of which keeps the control:
- A resource is a name and a value; `Invalid` and `Unmarshalable` are the values
  for which `Validate` and `anypb.New` fail. The list given to `Add` or
  `Replace` is a map, so that a call names a resource once, and `Add` may
  store its resources in any order.
- A nonce is the number of the response on its stream. Nonces that collide (26^8
  suffixes per version) are left out; a nonce of another stream or process is one
  that is not in flight.
- `sent` and `sentVersion` are the latest response's content and version;
  `missed` is auxiliary: the names whose notification timed out for this stream.
  None of the three is read by an action's guard.
- Invalid arguments make `Replace` return at once: that is no step.
- ACK and NACK differ only in what is reported.
- A stream is opened once in a behaviour; a client that reconnects is another
  stream.

### ManagerService and its refinement

`ManagerService` says what clients can rely on: who has been answered holds a snapshot of
one moment (`view`); every later change of a name it wants is *owed* to it from the moment
of the change; a debt ends only with a new answer or is `dropped` openly. The mapping
takes as served the streams that have recorded a response and do not build another one;
`want` is the subscription, `view` the latest response, `owed` what some writer has stored
and not yet announced to that stream, `dropped` the announcements that timed out. So
`AddStore`, `Replace` and `Delete` are `Change`, `Build` is `Answer`, a request that wants
an answer, a notification that is delivered or an end is `Release`, `NotifyTimeout` is
`GiveUp`, an acknowledgement that names what a stream wants, which had been sent all, is
`Narrow`; taking the mutex, skipping a busy stream and the like are stuttering. A response
that goes out after the change it contains, before it is announced, is an `Answer` with
names owed *again*: the client hears of those twice.

`EveryProcessServes` is the same mapping for the composition with gRPC: `StreamGRPC` extends
`XdsManagerRefinement`, a restart leads to an initial state of `ManagerService`, and every
other step is one of it or a stutter.

### StreamGRPC and the code

The receiver, the sender and the goroutine that runs `Stream` (xds.go:603-650) share two
unbuffered channels, so a send is a joint step: `HandOver` (receiver to `Stream`'s
`select`) joins an action of `XdsManager` with the receiver's, `Take` joins
`PushAccepted` with the sender's. `rx` and `tx` say whether the goroutines run, `inHand`
and `outHand` what they hold between two channel operations. `Recv` fails when the
gRPC stream has ended, whatever was still under way (`RecvError`); `Send` blocks while
the client's flow control window is full and fails after the end (`SendError`), which
the sender only logs (xds.go:628). `Return` closes `resCh` and ends the gRPC stream.
The receiver has no way out of `reqCh <- req` when `Stream` has returned (xds.go:618): a
goroutine stays behind for each stream that ends like that, which is the exception in
`GoroutinesEnd`.

Envoy and gRPC are external. An Envoy opens one stream after the other, sends a first
request with its node, and answers each response with an ACK or a NACK (`Receive`), as
the code expects it (xds.go:544-563). `Refused` are the values it does not accept.
`process` counts processes: `Restart` stops one anywhere, and the next starts with
nothing, `filled` being false until a reflector has called `Replace`. The code serves
before that (main.go), so that a client which had a configuration can be given an empty
one until the reflectors have listed. A version is the process's `VersionPrefix` and a
number. The prefix is the name of the pod (src/deploy/base/deployment.yaml), which is
another one for every pod; for a container that restarts *in* its pod it is the same, and
then `HeldVersionIsCurrent` does not hold (its mutant `UnprefixedVersion` is that case).

### EndpointSlices, ServiceClusters, Reflector and the code

`Reflector` is not code of this repository: it is what client-go's reflector does,
as `k8s.go` uses it. It lists, calls `Replace`, and then calls `Add`, `Update` and
`Delete` with the changes since the list, in order, one at a time. When the watch
breaks, undelivered events are lost and it lists again; also when `Replace`
returns an error. Errors of the other calls are only logged by client-go. A
restart of the process is a break that also empties the stores. Only the reflector
of slices and the one of services are modelled this way; nodes change at any time
(`ChangeNode`), since the store of nodes is a plain one, and it is filled before the
others start (main.go:91-97).

`EndpointSlices` has a step for everything that another goroutine can tell apart. A call
begins (`Begin`), and translates: for each cluster and each node that has endpoints of it, it
asks the store of nodes (glue.go:488-495, 387), which the reflector of nodes changes
meanwhile without a lock that the two share. From `Begin` on, `recent` collects what each node has been.
When the translation ends, each lookup may have found any of that (`Sightings`); so the
load assignments of one call can disagree about a node, and be right together for no
state of the nodes. That is a little more than the code can do: it finishes a cluster
before it begins another, while the model lets any two lookups happen in either order.
Then `update` has computed everything (`Update`), deletes each load assignment that is not
wanted any more (`DeleteEndpoints`), and adds the new ones (`AddEndpoints`, one
critical section each). `Replace` has translated all slices and is one critical section
of the manager. In `ServiceClusters` a call is one step: its properties look at
the clusters when the reflector has nothing left to deliver, so that the steps
inside one call make no difference to them. Where a cluster does not validate,
`AddClusters` stores those before it.

Both modules have an auxiliary variable that no guard reads: `lost`, the names of the
ports that services lost since the last list, and `unseen`, for each service the nodes
that changed since the last translation of its slices began. They make the exceptions
of two properties exact.

`EndpointAssignments` is what `EndpointSlices` looks like to those who read the load
assignments, without its store and its calls into the manager: there are the slices that were translated, by
service, what each node is and has been since a call began (`recent`), the load assignments that are to be served (`target`) and those that are (`served`).
`Begin` begins a call, when all is served. `Translate` changes the slices of one service and with them the targets of its clusters and of
no others, to one of the `Translations`: what the slices say, with each node, in each load assignment, as it was
at some moment of the call. A node that did not change during the call is the same in all.
`Serve` brings one cluster to its target, adding, changing or removing it in one
step; nothing else is translated before all have got there. `Replace` is `TranslateAll`, with
both at once. In the mapping the target is what the call under way will leave: what is served
without what is still to be deleted, with what is still to be added. An `update` is a
`Begin` and a `Translate`, each `DeleteEndpoints` and `AddEndpoints` a `Serve`; lists and events stutter.

`DumpEndpoints` and `DumpClusters` add to each store what `ekglue-dump-config` computes
from the same API server: nodes first, then slices or services one by one, in any
order of the list (`k8s.go:76-116`). They have no steps of their own: the dump is an
operator, and `DumpShowsServed` compares it with what is served. A service with a
cluster that does not validate ends the command (`Fails`).

`GlueTranslation` keeps the rules: which ports have a cluster and under which name
(a port without protocol is a TCP port),
overrides in order up to one that suppresses, EDS clusters without target, endpoints
grouped by node, readiness, localities by literal, host name or label. A cluster is a
record of four fields; a name is a tuple and no string, so that names that agree only as
strings (a service `a` with port `b:c`, which Kubernetes does not allow) are different.
Endpoints of a group are a set, while the code has a sorted list. What `LoadConfig`
accepts is the assumption `LoadedConfig` (an override has rules, and either suppresses or
changes; the base has no name); that the base validates is `ValidBase` in
`ServiceClusters`. Overrides that rename the cluster are possible in the operators and not
in the instances. When they give two clusters of one list the same name, the manager keeps the last
(xds.go:242, 270) and `ByName` any; the theorems that depend on it assume `UniqueNames`. What the API server accepts as the ports of a service is the assumption
`PortsAssumption` of `ServiceClusters`: when there is more than one, each has a name of its
own.

## What the runs check

All passing runs switch off the deadlock check: every one of these systems rests
legitimately when no client calls, nothing changes any more or a bound is reached.
That nobody gets stuck half-way is what the liveness properties say.

| Run | Question | Bounds |
|---|---|---|
| `xds_streams` | Two clients come, ask, acknowledge, hang up or are drained at any point of a writer's calls: are updates lost, is a closed channel sent to? | 1 writer whose lists hold all names (deletions single ones), 2 streams, 2 names, up to 2 versions, 1 answered request per stream (notifications add responses) |
| `xds_writers` | Two writers interleave: lost updates, a current version with old content, a subscription that changes? | 2 writers with a call at once, 1 stream that is answered twice, 2 names, subscriptions in two orders |
| `xds_fair_streams` | Does every client get registered, does draining end every stream? | 1 writer, 2 streams, 1 name |
| `xds_fair_writers` | Is anything invalid or unmarshalable ever sent? Does every call return, do streams converge? Requests come with and without a node id. | 2 writers with a call at once, 1 stream, 1 name, 3 values (one invalid, one unmarshalable) |
| `sessions` | An Envoy acknowledges, also too late, refuses and reconnects; streams break; the process restarts: is an answer waited for in vain, is anything pushed without cause, does a version mean one configuration across processes, is a client with nothing on its way up to date, is each process a run of `ManagerService`? | 1 writer, 2 streams (one at a time), 2 values of which one is refused, 2 processes with one version each, 1 forgotten transaction per stream, window 1 |
| `sessions_fair` | With a fair scheduler: do the goroutines of a stream end, does the client converge? | 1 stream, 1 value, 1 process, 2 versions, no transaction is forgotten (so that `PushesAccounted`, which is about late answers too, is left to `sessions`) |
| `eds_mirror` | Are the load assignments those of the slices and those that the dump shows, is none withdrawn without need, do localities catch up, does each cluster go straight from what was right to what is right, and does that state come about and last? | 3 slices of 2 services, two of which share a port, up to 2 contents each, one node, which can be in two clusters of a service, 3 changes, 1 break or restart |
| `cds_mirror` | Does every port have its cluster with its current configuration, do only lost ports leave clusters behind, does an invalid cluster stay out, is what is served what the dump shows? | 2 services with 4 and 2 contents, four overrides of which one gives an invalid cluster, 4 changes, 2 breaks or restarts |

`xds_writers` also checks `ImplementsService`, that every step of the manager is one of
`ManagerService` or a stutter.

`NoLostUpdate` is the central property. For a stream that has been answered, each
name of its subscription has the current content in the latest response, or some
writer still *owes* the stream that name (it has stored the change and has not yet
got past this stream in `notify`), or the notification timed out. It
relates what a client holds, the manager's map, and the place of every writer in its
code. `CurrentVersionIsCurrent` is what the version does guarantee: a client with the
current version has the current content except for names between a store and the
following `version++`. `NoSendOnClosed`, a panic otherwise, rests on the order
of lock, delete and close.

The properties of `StreamGRPC` relate the manager's account of a client with what is
under way and what the client has. `InFlightAccounted`: whatever `Stream` takes for pushed is
with the sender, in the network, or its answer is on the way back, as long as the stream
lives; that fails if any of the three goroutines drops something. A stream whose link is down is
no matter any more, which leaves out a `Send` that failed. `PushesAccounted`: a
client that answers gets one response at first, one for each version and one for each
late answer; a NACK is not answered with another push. `HeldVersionIsCurrent` compares
the client's configuration with a process it may have got it from another time.
`QuietClientIsCurrent` is the end-to-end form of `NoLostUpdate`: it speaks of what the *client*
has and not of what `Stream` has recorded. When neither the sender nor the network holds a
response for a client that is connected, the client has each of the manager's resources, unless
a writer is about to announce that name to its stream, the announcement timed out, or the
client refused the last response.

For the stores, `EveryPortServed` goes as far as the code does (a service's ports up to
the first whose cluster does not validate), and `GhostsAreLostPorts` bounds what
`cds_ghosts` shows: nothing outlives its service or port but ports that a *living* service
lost since the last list. `LocalitiesCatchUp` allows an old locality only for a node that
changed after the last translation of the slices of the service began: a slice that arrives before its
node keeps an empty locality until then (glue.go:495). `DumpShowsServed` relates two paths
through the code that no test compares: a server that went through lists, events, breaks
and restarts, and one pass over a list. `ImplementsAssignments` is about the moments at which
`EndpointsMirrored` is silent, those in the middle of a call; that a node changes between
two lookups of one call is part of it.

The bounds: two streams are needed for one of them to be served while the other is
busy, comes or goes (and for the mutex to be held against it); two writers for stores
and increments to cross; two names for a change outside a subscription; two
versions for a store between the increments. `MaxVersion` bounds the calls that
start, and calls of two writers that started below the bound may take the version above
it, which is how the runs with two writers reach two versions with a bound of one; `MaxPushes` bounds answered requests and not notifications, so none is
dropped by the bound. Two or three changes and a break are enough to create,
change and delete an object around a list; with four changes a service can lose a port,
get another one and be deleted. Two breaks, in `cds_mirror`, are a break of a watch whose list
fails or is overtaken by a restart; in `eds_mirror`, where a list never fails, one is enough. One node in two clusters of one call is what
a mix of two states of the nodes takes: it is old in one and new in the other.

In `StreamGRPC`, `Window` is 1, so that a sender is blocked by a single response that the
client has not read. `MaxForgotten` bounds the late answers and `MaxOpen` how many streams
have running goroutines at once; a new stream needs the old one's to have ended, or to be
stuck for good. `MaxPushes` is above `1 + MaxVersion + MaxForgotten` and cuts nothing off.
Two streams and two processes are what a version from another process or stream needs; one
version for each process is enough for them to give out the same number. `xds_fair_writers` has one name: that a call or a response
with several is not stored or sent in part is left to the theorem `ServedIsValid`. `sessions_fair` has
one process (what a client gets after a restart is in `sessions`) and no
forgotten transactions, with a second version in their place, so that `Stream` waits for a
sender that waits for the client's window, until the push times out. That the receiver waits
for `Stream` at the same moment needs a third version, which is too large a run for liveness;
what is proved of the three goroutines has no such bound.

### Disagreements between the code and what it says

Each is a run that TLC refutes; `PROJECT.json` quotes the lines.

| Run | What happens |
|---|---|
| `xds_version` | A response built between a store and `version++` carries the old version with the new content: two clients hold different configurations under one version. |
| `xds_partial_add` | `Add` with an invalid resource has stored those before it and returns without notifying anybody. |
| `eds_relabel` | A slice whose service label changes stays in the map of the old service, whose cluster keeps its load assignment. |
| `cds_ghosts` | `Update` never deletes the cluster of a port that a service has lost; deleting the service does not either. |

Two more behaviours that the model has and no run singles out: a notification that
arrives before a client's first request pushes every resource to it, since it is
registered first and an empty subscription stands for all (xds.go:582); and without a
node id each request replaces the subscription, which the comparison at xds.go:542
then finds unchanged, so that `SubscriptionFixed` and `NoLostUpdate` need a client
that names itself.

Properties of the passing runs that these would break are checked where the cause
is absent: `NoLostUpdate` with valid arguments and a node id, `ClustersMirrored` with
slices that keep their label. In the place of `NoGhostClusters`, `cds_mirror` checks the
weaker `GhostsAreLostPorts`, with services whose ports come and go.

### Fairness

`XdsManager!Fairness` assumes only that a goroutine that can run does:
- weak fairness for the steps of a writer that do not compete, for building a response
  and for its end. `resCh <- res` is bounded by five seconds (xds.go:568, 583), and
  the callers of the manager pass a context with a timeout (`startOp` in glue.go), so
  that `PushTimeout` and `NotifyTimeout` come if nothing else does. `NotifyTimeout` also ends the
  wait for a stream that leaves, so that `WritersReturn` and `DrainEnds` do not depend on the
  goroutine that drains its channel (xds.go:411); it makes them come sooner;
- strong fairness for whoever waits for `sessionsMu`: a `sync.Mutex` hands over to the
  longest waiter once that has waited for a millisecond;
- strong fairness for `LeaveDrained`: `select` chooses at random among the ready
  cases, and a closed channel is always ready.

Nothing is assumed of clients (they may never send, or hang up) nor of callers (they may
never call). `StreamGRPC!SessionFairness` adds weak fairness for the receiver and the
sender and for a client that is connected (it reads, answers, and notices the end of its
stream), and strong fairness for the two channel operations that `Stream`'s `select`
chooses among, `HandOver` and `SeeEnd`, and for the steps of writers and of `Stream` that
compete for the mutex. It does not assume that a client comes back. `Converges` therefore
says that answers become and stay current *once* the writers stop, which the bound on
versions makes them do. The stores assume that the reflector lists and hands on what it
has, and that a call finishes. `EventuallyServed` has a premise: a service with an invalid
cluster makes `Replace` fail for all services, again and again, so it has to go first.

## What is proved

For every choice of the constants that satisfies `ConstantsAssumption` (the bounds
`MaxVersion` and `MaxPushes` are arbitrary naturals), TLAPS checks:

- `TypeCorrect`: `Spec => []TypeOK`. `TypeOK` is inductive.
- `SendSafe`: `Spec => []NoSendOnClosed`, from the inductive invariant
  `SendInv = TypeOK /\ Locking /\ Registered /\ Recipients`. `NoSendOnClosed` is not
  inductive: that an unreached stream stays registered depends on nobody else holding
  the mutex (`Locking`) and on `Unregister` needing it; that it has not closed its channel
  needs `Registered`. `OneSender`, mutual exclusion, follows as well.
- `UpdatesReachStreams`: if callers pass valid resources (`ValidCalls`) and requests
  carry a node id (`NodeKnown`), `Spec => []NoLostUpdate`. The inductive
  invariant is `SendInv /\ LocalInv /\ NoLostUpdate`; `LocalInv` adds that nothing
  invalid is left to store, that streams before their loop have answered
  nothing, and that a stream without a node id serves every name. `SendInv` is needed where
  a writer takes the set of streams: a stream that is served is registered, so it is
  among them. Both hypotheses are necessary: `xds_partial_add` refutes the property without
  the first; without the second a request under other names may count as an
  acknowledgement, and the stream then has names it was never sent.
- `ServedIsValid`: `Spec => []OnlyValidServed`, with no hypothesis about callers or
  clients. The invariant adds that the manager holds nothing invalid.
- `SubscriptionKept`: `Spec => SubscriptionFixed` under `NodeKnown`, from the invariant
  that a stream without a node id has no names yet.
- `VersionCurrent`: `Spec => []CurrentVersionIsCurrent` under `ValidCalls` and `NodeKnown`.
  The invariant adds `VersionsSent`, that no response is ahead of the manager's version: when
  `version++` happens, no client has the new version.

- `ManagerImplementsService`: `Spec => ImplementsService` under the same two hypotheses.
  The invariant is `ServiceInv = SendInv /\ LocalInv /\ Settled`; each action is a lemma
  of its own that names the step of `ManagerService` it maps to. `SendInv` is needed where
  a writer takes the list of streams: the names it has stored are still owed to every
  stream that is served, because all of these are on the list. The step lemma
  (`NextImplements`) is about any state and step that satisfy the invariant, so that the
  composition with gRPC can cite it.

About the stores (`ReflectorProofs`, `ServiceClustersProofs`, `EndpointSlicesProofs`), for any
objects, contents, configurations and bounds. `ReflectorInv` says what both rest on: the
*last* event about an object tells what it is now (`LastEvents`), and if there is none the
list does (`ListCurrent`).

- `NothingInvalid`: `Spec => []OnlyValidClusters`.
- `GhostsComeFromUpdate`: `Spec => []GhostsAreLostPorts`. The property speaks of moments at
  which everything is delivered; the inductive `GhostInv` says for all others that each name
  which is served, listed or about to be added is *explained*: by a port that the service has,
  by one that it lost, or by a deletion that comes later in the queue.
- `NoPortLostNoGhost`: `Spec => []NoGhostClusters`, which the run `cds_ghosts` refutes, if a
  service that exists keeps its ports (`KeepPorts`: any two contents that an object can have
  give clusters of the same names). It follows from `GhostInv`: nothing is ever `lost` then. So
  a lost port is the only way to a ghost: deletions, breaks, restarts and changes of
  everything else leave none.
- `PortsServed`: `Spec => []EveryPortServed` if clusters have names of their own (`UniqueNames`),
  from `ClustersCurrent`: every object about which the store has heard everything has its
  clusters. Without the hypothesis the deletion of one service could take the cluster of another.
- `NamesAreOwn`: `UniqueNames` holds if no override sets a name (`KeepNames`). A cluster keeps
  the name of its port through all overrides (`NameStays`, by induction over them), the
  clusters of a service are those of its ports (`ClustersOfPorts`, by induction over them),
  a name carries the service, and within a service it carries the name of the port, for which
  Kubernetes does the rest (`PortsAssumption`). An override that names one cluster breaks
  `KeepNames` and not `UniqueNames`, which is why the other theorems assume the latter.
- `TypeCorrect` of `ServiceClusters`: `Spec => []TypeOK` under `KeepNames`: a cluster is kept
  under its own name, which ends in a protocol that Envoy has. An override may set any name.
- `NoneWithdrawn`: `Spec => NeverWithdrawn`, from `StoreInv` (the store keeps slices under their
  own service) and `Accounted`: what is served, but for what is about to be deleted, with what
  is about to be added, is exactly what the stored slices have ports of. A cluster name
  carries its service, so that looking at one service is enough.
- `Mirrored`: `Spec => []ClustersMirrored` if slices keep their label (`KeepLabels`), from the same
  and `SlicesCurrent`. The run `eds_relabel` shows that the hypothesis is needed.
- `TypeCorrect` of `EndpointSlices`: `Spec => []TypeOK`, from `Accounted`, since what the manager
  serves is named after a stored slice. `NodesAssumption` (endpoints are on a node or none)
  and `PortsAssumption` (names are strings) are types of the constants.
- `LocalitiesFollow`: `Spec => []LocalitiesCatchUp`, with no hypothesis. The inductive
  `ContentInv` says of each load assignment, served or about to be added, that it is
  `Accurate`: its groups without their localities are what the stored slices of its *own*
  service give, and their localities are those of the nodes now, but for nodes in `unseen`.
  A translation establishes it from `recent`: a node that has not changed since `Begin` was found as it is.
- `EndpointsFollow`: `Spec => []EndpointsMirrored` under `KeepLabels`, from `ContentInv` and
  `SlicesCurrent`: translating one service's slices at a time gives what translating all at
  once would, since no slice of another service has a port of its clusters.
- `StoreImplementsAssignments`: `Spec => ImplementsAssignments`, with no hypothesis, not even
  `KeepLabels`: a slice that changes its label is translated with its new service, and the old
  one's clusters keep their targets. It rests on the invariants of the theorems above
  (`ReflectorInv`, `StoreInv`, `Accounted`, `TypeOK`). A call starts only when nothing is to be
  deleted or added (`ToldTarget`), which is the guard `served = target` of `Begin`, and stays so until it
  has translated, a part of `StoreInv`; the sightings of the code are the `Seen` of the abstract
  translation (`SameTranslations`); what an
  `update` deletes and adds are clusters of its own service and, by `Accounted`, all of
  them, which is why the targets of the service become exactly its new translation
  (`UpdateImplements`); for `Replace` the known slices together are the listed ones
  (`ListedSlices`).
- `DumpFollows`, of both: `Spec => []DumpShowsServed`, for finitely many objects (the order in
  which a list comes is a sequence), under `KeepLabels` for slices and `UniqueNames` for
  services. By induction over the order, what the command has after some objects is the
  translation of those (`DumpedIs`); after all of them that is what a server which has caught
  up serves, by the theorems above. `UniqueNames` is needed because the last of two clusters
  of one name wins, in the command as in the server, and their orders differ.

About the composition with gRPC, a client and restarts (`StreamGRPCProofs`), under
`SessionAssumption` (versions have prefixes, one for each process; a client that asks for
everything, with its node, is possible):

- `SessionTypeCorrect`: `SessionSpec => []SessionTypeOK`.
- `NothingInVain`: `SessionSpec => []InFlightAccounted`. The inductive `FlowInv` adds which
  nonces can be where: a goroutine holds at most one message (`OneInHand`), what is under way is
  in the order of its nonces (`Queued`), and only responses that were built and have left
  `Stream` are (`NoncesKnown`).
- `SafeBehindGRPC`: `SessionSpec => [](NoSendOnClosed /\ OnlyValidServed)`, and
  `CurrentBehindGRPC`: `SessionSpec => [](NoLostUpdate /\ CurrentVersionIsCurrent)` under
  `ValidCalls` and `NodeKnown`. Every step of the composition is one of `XdsManager`, leaves it
  alone, or is a restart (`ManagerStep`), so that the manager's own invariants carry over;
  a restart establishes them again (`RestartManager`).
- `ProcessesImplementService`: `SessionSpec => EveryProcessServes` under `ValidCalls` and
  `NodeKnown`, from `ManagerStep` and the step lemma of `ManagerImplementsService`; in a new
  process nobody is served and nothing is owed (`NobodyServed`).
- `UpdatesReachClients`: `SessionSpec => []QuietClientIsCurrent` under the same. `NoLostUpdate`
  is about what `Stream` has recorded as sent; the inductive `ArrivalInv` is about where that
  is. When `Stream` has handed over all that it has built (`Said`), the *last* response on its
  way, in the sender's hand or else in the network, is the recorded one; if there is none on its
  way, the client holds it or has refused it (`LastArrives`). That needs the order of the channels: a client that took
  the last response cannot get an older one after it.
- `NoStorm`: `SessionSpec => []PushesAccounted`, with no hypothesis. The inductive `PaidInv`
  says it for each moment, counting also what will lead to a push: the pushes of a stream, a
  response that it is about to build, the answers under way whose transaction is forgotten
  (`Strangers`), and the writers that have incremented the version and have not come to the
  stream yet (`Owing`), are no more than one, the version and the forgotten transactions together.
- `HeldIsCurrent`: `SessionSpec => []HeldVersionIsCurrent` under `ValidCalls` and
  `PrefixesDiffer`. The inductive `TruthInv` says that each response on its way, and what the
  client holds, is *truthful*: if it has the manager's version now, it has the manager's
  content, and it has no version that was not given out yet. With equal prefixes a new
  process reaches the version of an old one with other content; with an invalid resource in a
  call, `Add` stores some and increments nothing. `NodeKnown` is not needed: a subscription
  that changes does not make what was sent wrong.

`ValidCalls` and `NodeKnown` are assumptions about the environment: the stores are the
callers, and Envoy sends its node in the first request, from which the code reads it
(xds.go:535-537). The client of `StreamGRPC` does that; its theorems have the hypothesis where
they use the manager's invariants.

The library's induction theorems take an operator as a parameter, which the provers cannot
instantiate. `ReflectorProofs` has induction for *sets* of numbers instead (`Induction`: a set
that holds 0 and, with each number, the next holds all of them), from the least element of
a set of naturals, which the library states without such a parameter. The recursive functions
of the model are reasoned about with it: that one exists, then what it computes.

Only model-checked: liveness (`StreamsRegister`, `DrainEnds`, `WritersReturn`, `Converges`,
`GoroutinesEnd`, `ClientConverges`, `EventuallyMirrored`, `EventuallyServed`), which needs
fairness and ENABLED, out of this prover's reach. Every invariant and action property of the
passing runs is a theorem. Of the four properties that TLC refutes, three are theorems under
the hypothesis that excludes the cause (`NoLostUpdate`, `ClustersMirrored`, `NoGhostClusters`);
`VersionIdentifiesConfig` is not, and `VersionCurrent` is what remains of it.

## Not modelled

- Parsing of the configuration, of Kubernetes objects and of flags, YAML and JSON output, `/localities`,
  HTTP handlers, logs, metrics and traces: they read and format, and change no state that
  another part reads.
- `ListKeys`, `List`, `Get` and `Resync` of stores and manager: they only read, return an
  error, or do nothing.
- `try` and `fakexds`: a manual test program and a test double.
- Collisions of the random nonce suffixes.
- Streams that are open in two processes at once (a rolling update); an Envoy has one stream per type.

## Plan

Done: `XdsManager`, its proofs, its abstract specification and the refinement; `StreamGRPC`
with client, network and restarts, with proofs, of the same refinement, too; translation; both
stores against their environment and the dump command, with proofs; the abstract specification
of the endpoint store and its refinement.

What is left:

1. A composition of the two stores with two managers: what an Envoy that reads CDS and EDS
   can see between the steps of one call.
2. The translation against reference definitions over bounded inputs, with overrides that
   rename clusters.
