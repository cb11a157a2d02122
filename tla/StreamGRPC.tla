----------------------------- MODULE StreamGRPC -----------------------------
(***************************************************************************)
(* A manager behind gRPC: StreamGRPC of pkg/xds/xds.go runs three          *)
(* goroutines for each stream (a receiver, a sender, and Stream itself),   *)
(* between an Envoy and a manager whose process may restart.               *)
(*                                                                         *)
(* The steps of Stream and of the writers are those of XdsManager; here    *)
(* they meet the goroutine at the other end of their channel.  Envoy, as a *)
(* client of CDS, and gRPC are external: an Envoy opens one stream after   *)
(* the other, and answers each response with an ACK or a NACK.             *)
(***************************************************************************)
EXTENDS XdsManagerRefinement, FiniteSets

CONSTANTS
    NoStream,     \* the client has no stream
    NoVersion,    \* the client has not accepted a response yet
    Prefixes,     \* VersionPrefix of each process, the first one first
    Refused,      \* values that the client refuses
    Window,       \* responses that fit into the client's flow control window
    MaxForgotten, \* bound: transactions of a stream that are forgotten
    MaxOpen       \* bound: streams whose goroutines run at the same time

ASSUME SessionAssumption ==
    /\ NoStream \notin Streams
    /\ Len(Prefixes) \in Nat \ {0} /\ DOMAIN Prefixes = 1 .. Len(Prefixes)
    /\ NoVersion \notin {Prefixes[i] : i \in DOMAIN Prefixes} \X Nat
    /\ <<>> \in Subscriptions /\ TRUE \in RequestNodes  \* the client of CDS
    /\ Refused \subseteq Values
    /\ Window \in Nat \ {0} /\ MaxForgotten \in Nat /\ MaxOpen \in Nat

VARIABLES
    process,      \* number of the process that runs
    filled,       \* has a reflector called Replace in this process
    link,         \* is the gRPC stream "up" or "down"
    uplink,       \* nonces of the requests under way to the server
    downlink,     \* responses under way to the client
    rx,           \* receiver: "off", "run" or "gone"
    inHand,       \* the request it hands to Stream, if any
    tx,           \* sender: "off", "run" or "gone"
    outHand,      \* the response it sends, if any
    closed,       \* StreamGRPC has closed resCh and returned
    forgotten,    \* transactions the ticker has forgotten (auxiliary)
    current,      \* the client's stream
    held,         \* the configuration that the client uses
    heldVersion   \* and its version

linkVars == <<link, uplink, downlink>>
rxVars == <<rx, inHand>>
txVars == <<tx, outHand>>
envoyVars == <<current, held, heldVersion>>
sessionVars == <<process, filled, linkVars, rxVars, txVars, closed, forgotten,
                 envoyVars>>
allVars == <<vars, sessionVars>>

Versions == {Prefixes[i] : i \in DOMAIN Prefixes} \X Nat
Response == [nonce : Nat, version : Versions, content : Store]

SessionTypeOK ==
    /\ TypeOK
    /\ process \in DOMAIN Prefixes
    /\ filled \in BOOLEAN
    /\ link \in [Streams -> {"up", "down"}]
    /\ uplink \in [Streams -> Seq(Nat)]
    /\ downlink \in [Streams -> Seq(Response)]
    /\ rx \in [Streams -> {"off", "run", "gone"}]
    /\ inHand \in [Streams -> Seq(Nat)]
    /\ tx \in [Streams -> {"off", "run", "gone"}]
    /\ outHand \in [Streams -> Seq(Response)]
    /\ closed \in [Streams -> BOOLEAN]
    /\ forgotten \in [Streams -> 0 .. MaxForgotten]
    /\ current \in Streams \union {NoStream}
    /\ held \in Store
    /\ heldVersion \in Versions \union {NoVersion}

SessionInit ==
    /\ Init
    /\ process = 1
    /\ filled = FALSE
    /\ link = [s \in Streams |-> "down"]
    /\ uplink = [s \in Streams |-> <<>>]
    /\ downlink = [s \in Streams |-> <<>>]
    /\ rx = [s \in Streams |-> "off"]
    /\ inHand = [s \in Streams |-> <<>>]
    /\ tx = [s \in Streams |-> "off"]
    /\ outHand = [s \in Streams |-> <<>>]
    /\ closed = [s \in Streams |-> FALSE]
    /\ forgotten = [s \in Streams |-> 0]
    /\ current = NoStream
    /\ held = Nothing
    /\ heldVersion = NoVersion

-----------------------------------------------------------------------------
(***************************************************************************)
(* The writers: a reflector calls Replace first in every process.          *)
(***************************************************************************)

\* A reflector calls the manager.
Call(w) ==
    /\ \/ \E batch \in Batches : /\ Replace(w, batch)
                                 /\ filled' = TRUE
       \/ /\ filled
          /\ \/ \E batch \in Batches : AddCall(w, batch)
             \/ \E n \in Names : Delete(w, n)
          /\ UNCHANGED filled
    /\ UNCHANGED <<process, linkVars, rxVars, txVars, closed, forgotten, envoyVars>>

\* The call does its work, up to its return.
Work(w) ==
    /\ AddStep(w) \/ NotifyStart(w) \/ NotifyLock(w) \/ SendStep(w)
    /\ UNCHANGED sessionVars

-----------------------------------------------------------------------------
(***************************************************************************)
(* The receiver, the sender, and Stream.                                   *)
(***************************************************************************)

Recv(s) ==
    /\ rx[s] = "run" /\ inHand[s] = <<>>
    /\ uplink[s] # <<>>
    /\ inHand' = [inHand EXCEPT ![s] = <<Head(uplink[s])>>]
    /\ uplink' = [uplink EXCEPT ![s] = Tail(@)]
    /\ UNCHANGED <<vars, process, filled, link, downlink, rx, txVars, closed,
                   forgotten, envoyVars>>

\* Recv fails: the receiver closes reqCh and returns.
RecvError(s) ==
    /\ rx[s] = "run" /\ inHand[s] = <<>>
    /\ link[s] = "down"
    /\ rx' = [rx EXCEPT ![s] = "gone"]
    /\ uplink' = [uplink EXCEPT ![s] = <<>>]
    /\ UNCHANGED <<vars, process, filled, link, downlink, inHand, txVars,
                   closed, forgotten, envoyVars>>

\* reqCh is unbuffered: Stream takes the request in its select, or never.
\* The client of CDS names no resources and always sends its node.
HandOver(s) ==
    /\ inHand[s] # <<>>
    /\ \/ Acknowledge(s, <<>>, TRUE, Head(inHand[s]))
       \/ AskConfig(s, <<>>, TRUE, Head(inHand[s]))
    /\ inHand' = [inHand EXCEPT ![s] = <<>>]
    /\ UNCHANGED <<process, filled, linkVars, rx, txVars, closed, forgotten,
                   envoyVars>>

\* The context is done or reqCh closed, either because the stream has ended.
SeeEnd(s) ==
    /\ link[s] = "down"
    /\ Hangup(s)
    /\ UNCHANGED sessionVars

\* A defect: versions are the same in every process.
UnprefixedVersion(n) == <<Prefixes[1], n>>

\* versionString: the prefix tells the versions of two processes apart.
VersionString(n) == <<Prefixes[process], n>>

\* resCh is unbuffered, too: the sender takes the response.
Take(s) ==
    /\ tx[s] = "run" /\ outHand[s] = <<>> /\ ~closed[s]
    /\ PushAccepted(s)
    /\ outHand' = [outHand EXCEPT ![s] =
                     <<[nonce |-> pushes[s], content |-> sent[s],
                        version |-> VersionString(sentVersion[s])]>>]
    /\ UNCHANGED <<process, filled, linkVars, rxVars, tx, closed, forgotten,
                   envoyVars>>

\* A defect: a response is dropped when the client is slow to receive.
SendOrDrop(s) ==
    /\ outHand[s] # <<>>
    /\ downlink' = IF Len(downlink[s]) < Window
                   THEN [downlink EXCEPT ![s] = @ \o outHand[s]] ELSE downlink
    /\ outHand' = [outHand EXCEPT ![s] = <<>>]
    /\ UNCHANGED <<vars, process, filled, link, uplink, rxVars, tx, closed,
                   forgotten, envoyVars>>

\* Send blocks while the client's flow control window is full.
Send(s) ==
    /\ outHand[s] # <<>>
    /\ link[s] = "up"
    /\ Len(downlink[s]) < Window
    /\ downlink' = [downlink EXCEPT ![s] = @ \o outHand[s]]
    /\ outHand' = [outHand EXCEPT ![s] = <<>>]
    /\ UNCHANGED <<vars, process, filled, link, uplink, rxVars, tx, closed,
                   forgotten, envoyVars>>

\* Send fails when the stream has ended; the response is dropped, and the
\* sender goes on.
SendError(s) ==
    /\ outHand[s] # <<>>
    /\ link[s] = "down"
    /\ outHand' = [outHand EXCEPT ![s] = <<>>]
    /\ UNCHANGED <<vars, process, filled, linkVars, rxVars, tx, closed, forgotten,
                   envoyVars>>

\* The sender sees that resCh is closed.
SenderReturns(s) ==
    /\ tx[s] = "run" /\ outHand[s] = <<>>
    /\ closed[s]
    /\ tx' = [tx EXCEPT ![s] = "gone"]
    /\ UNCHANGED <<vars, process, filled, linkVars, rxVars, outHand, closed,
                   forgotten, envoyVars>>

\* A defect: resCh is not closed.
ReturnUnclosed(s) ==
    /\ spc[s] = "done" /\ link[s] = "up"
    /\ link' = [link EXCEPT ![s] = "down"]
    /\ UNCHANGED <<vars, process, filled, uplink, downlink, rxVars, txVars,
                   closed, forgotten, envoyVars>>

\* Stream has returned: StreamGRPC closes resCh and returns, which ends the
\* gRPC stream.
Return(s) ==
    /\ spc[s] = "done" /\ ~closed[s]
    /\ closed' = [closed EXCEPT ![s] = TRUE]
    /\ link' = [link EXCEPT ![s] = "down"]
    /\ forgotten' = [forgotten EXCEPT ![s] = 0]
    /\ UNCHANGED <<vars, process, filled, uplink, downlink, rxVars, txVars,
                   envoyVars>>

\* A transaction is forgotten after a minute, although its answer may still
\* come.
Tick(s, k) ==
    /\ CleanupTick(s, k)
    /\ forgotten' = [forgotten EXCEPT ![s] = @ + Cardinality(txs[s] \ txs'[s])]
    /\ forgotten'[s] <= MaxForgotten
    /\ UNCHANGED <<process, filled, linkVars, rxVars, txVars, closed, envoyVars>>

\* What Stream does on its own.
StreamStep(s) ==
    /\ \/ Register(s) \/ LeaveDrained(s)
       \/ Build(s) \/ BuildError(s) \/ PushTimeout(s)
       \/ Unregister(s)
    /\ UNCHANGED sessionVars

-----------------------------------------------------------------------------
(***************************************************************************)
(* Envoy, the network, and the process.                                    *)
(***************************************************************************)

\* Some goroutine of the stream still does something.
Busy(s) ==
    \/ spc[s] \notin {"off", "done"}
    \/ tx[s] = "run"
    \/ rx[s] = "run" /\ inHand[s] = <<>>

\* Without a stream, the client opens one and sends its first request.
Connect(s) ==
    /\ current = NoStream
    /\ Cardinality({t \in Streams : Busy(t)}) < MaxOpen
    /\ Open(s)
    /\ current' = s
    /\ link' = [link EXCEPT ![s] = "up"]
    /\ uplink' = [uplink EXCEPT ![s] = <<0>>]
    /\ rx' = [rx EXCEPT ![s] = "run"]
    /\ tx' = [tx EXCEPT ![s] = "run"]
    /\ UNCHANGED <<process, filled, downlink, inHand, outHand, closed, forgotten,
                   held, heldVersion>>

Acceptable(content) == \A n \in Names : content[n] \notin Refused

\* The client takes a response over or refuses it, and answers with its nonce;
\* the answer is lost when the stream has ended.
Receive(s) ==
    /\ current = s
    /\ downlink[s] # <<>>
    /\ LET r == Head(downlink[s])
       IN  /\ IF Acceptable(r.content)
              THEN held' = r.content /\ heldVersion' = r.version
              ELSE UNCHANGED <<held, heldVersion>>
           /\ uplink' = IF link[s] = "up"
                        THEN [uplink EXCEPT ![s] = Append(@, r.nonce)]
                        ELSE uplink
    /\ downlink' = [downlink EXCEPT ![s] = Tail(@)]
    /\ UNCHANGED <<vars, process, filled, link, rxVars, txVars, closed, forgotten,
                   current>>

\* The client notices that its stream has ended, and keeps what it has.
Disconnect(s) ==
    /\ current = s
    /\ link[s] = "down"
    /\ current' = NoStream
    /\ downlink' = [downlink EXCEPT ![s] = <<>>]
    /\ UNCHANGED <<vars, process, filled, link, uplink, rxVars, txVars, closed,
                   forgotten, held, heldVersion>>

NetworkFails(s) ==
    /\ link[s] = "up"
    /\ link' = [link EXCEPT ![s] = "down"]
    /\ UNCHANGED <<vars, process, filled, uplink, downlink, rxVars, txVars,
                   closed, forgotten, envoyVars>>

Shutdown == Drain /\ UNCHANGED sessionVars

\* The process stops, with all its streams, and another one starts.
Restart ==
    /\ process < Len(Prefixes)
    /\ process' = process + 1
    /\ filled' = FALSE
    /\ resources' = Nothing
    /\ version' = 0
    /\ sessionsMu' = Nobody
    /\ sessions' = {}
    /\ draining' = FALSE
    /\ wpc' = [w \in Writers |-> "idle"]
    /\ todo' = [w \in Writers |-> Nothing]
    /\ changed' = [w \in Writers |-> {}]
    /\ unsent' = [w \in Writers |-> {}]
    /\ blocked' = [w \in Writers |-> {}]
    /\ spc' = [s \in Streams |-> IF spc[s] = "off" THEN "off" ELSE "done"]
    /\ named' = [s \in Streams |-> FALSE]
    /\ sub' = [s \in Streams |-> <<>>]
    /\ txs' = [s \in Streams |-> {}]
    /\ pushes' = [s \in Streams |-> 0]
    /\ sent' = [s \in Streams |-> Nothing]
    /\ sentVersion' = [s \in Streams |-> 0]
    /\ missed' = [s \in Streams |-> {}]
    /\ link' = [s \in Streams |-> "down"]
    /\ uplink' = [s \in Streams |-> <<>>]
    /\ rx' = [s \in Streams |-> IF rx[s] = "off" THEN "off" ELSE "gone"]
    /\ tx' = [s \in Streams |-> IF tx[s] = "off" THEN "off" ELSE "gone"]
    /\ inHand' = [s \in Streams |-> <<>>]
    /\ outHand' = [s \in Streams |-> <<>>]
    /\ closed' = [s \in Streams |-> spc[s] # "off"]
    /\ forgotten' = [s \in Streams |-> 0]
    /\ UNCHANGED <<downlink, envoyVars>>

-----------------------------------------------------------------------------
ReceiverStep(s) == Recv(s) \/ RecvError(s)
SenderStep(s) == Send(s) \/ SendError(s) \/ SenderReturns(s)

SessionNext ==
    \/ \E w \in Writers : Call(w) \/ Work(w)
    \/ \E s \in Streams :
          \/ ReceiverStep(s) \/ SenderStep(s)
          \/ HandOver(s) \/ SeeEnd(s) \/ Take(s) \/ StreamStep(s) \/ Return(s)
          \/ \E k \in txs[s] : Tick(s, k)
          \/ Connect(s) \/ Receive(s) \/ Disconnect(s)
          \/ NetworkFails(s)
    \/ Shutdown
    \/ Restart

SessionSpec == SessionInit /\ [][SessionNext]_allVars

(***************************************************************************)
(* Fairness: that of XdsManager, a goroutine of StreamGRPC that can run    *)
(* runs, and a client that is connected reads, answers, and notices the    *)
(* end of its stream.                                                      *)
(***************************************************************************)
SessionFairness ==
    /\ \A w \in Writers : SF_allVars(Work(w))
    /\ \A s \in Streams :
          /\ WF_allVars(ReceiverStep(s)) /\ WF_allVars(SenderStep(s))
          /\ SF_allVars(HandOver(s)) /\ SF_allVars(SeeEnd(s))
          /\ WF_allVars(Take(s)) /\ SF_allVars(StreamStep(s))
          /\ WF_allVars(Return(s))
          /\ WF_allVars(Receive(s)) /\ WF_allVars(Disconnect(s))

FairSessionSpec == SessionSpec /\ SessionFairness

-----------------------------------------------------------------------------
(***************************************************************************)
(* Properties.                                                             *)
(***************************************************************************)

Elements(messages) == {messages[i] : i \in DOMAIN messages}

\* The nonces that are between Stream and Stream: in a response on its way to
\* the client, or in an answer on its way back.
UnderWay(s) ==
    UNION {{m.nonce : m \in Elements(outHand[s])},
           {m.nonce : m \in Elements(downlink[s])},
           Elements(uplink[s]), Elements(inHand[s])}

\* As long as the stream lives, Stream waits for no answer in vain: whatever
\* it takes for pushed is under way to the client, or the answer is under way
\* to it.  Only when the stream has ended may the sender drop a response.
InFlightAccounted ==
    \A s \in Streams :
        link[s] = "up" /\ spc[s] \in {"loop", "build", "push"}
            => txs[s] \subseteq UnderWay(s)

\* There is no storm of pushes: a client that answers what it gets is sent
\* its first configuration, one response for each version, and one for each
\* late answer to a transaction that was forgotten.
PushesAccounted ==
    \A s \in Streams : pushes[s] <= 1 + version + forgotten[s]

\* A client that has accepted the version that the manager is at uses the
\* manager's resources, whichever process and stream that version came from;
\* the exceptions are names that are stored and have no version yet.
HeldVersionIsCurrent ==
    heldVersion = VersionString(version) =>
        \A n \in Names :
            \/ held[n] = resources[n]
            \/ \E w \in Writers : n \in changed[w] /\ wpc[w] \in {"add", "notify"}

\* A client that is connected and has nothing on its way to it uses the
\* manager's resources, except for the names that a writer is about to
\* announce to its stream, those whose announcement timed out, and a response
\* that it refused: between the manager's map and Envoy nothing is lost or
\* overtaken, by any goroutine or channel.
QuietClientIsCurrent ==
    \A s \in Streams :
        /\ current = s /\ link[s] = "up"
        /\ spc[s] = "loop" /\ pushes[s] > 0
        /\ outHand[s] = <<>> /\ downlink[s] = <<>>
        /\ Acceptable(sent[s])
        => \A n \in Names : \/ held[n] = resources[n]
                            \/ n \in missed[s]
                            \/ \E w \in Writers : Owes(w, s, n)

\* Behind gRPC, with requests and answers as Envoy sends them, every process is
\* a run of ManagerService, from its initial state on.
EveryProcessServes ==
    Service!Init /\ [][Service!Next \/ (Restart /\ (Service!Init)')]_(Service!vars)

\* When a stream has ended, so do its goroutines; only the receiver may stay
\* behind for ever, with a request that nobody will take.
GoroutinesEnd ==
    \A s \in Streams :
        link[s] = "down" /\ tx[s] = "run" ~>
            /\ spc[s] = "done" /\ tx[s] = "gone"
            /\ rx[s] = "gone" \/ inHand[s] # <<>>

\* When the writers have stopped, a client that is connected ends up with the
\* resources of the process it is connected to, unless it refused them or a
\* notification timed out.
ClientConverges ==
    \A s \in Streams :
        <>[](current = s /\ link[s] = "up" =>
                \A n \in Names : \/ held[n] = resources[n]
                                 \/ n \in missed[s]
                                 \/ ~Acceptable(sent[s]))
=============================================================================
