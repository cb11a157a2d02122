----------------------- MODULE XdsManagerUpdateProofs -----------------------
(***************************************************************************)
(* No update is lost: what Add, Replace and Delete change reaches every    *)
(* stream that is registered, for any number of writers and streams.       *)
(***************************************************************************)
EXTENDS XdsManagerProofs

\* Callers pass resources that validate: when one does not, Add returns
\* without announcing those it has stored already.
ValidCalls == \A batch \in Batches, n \in Names : batch[n] \notin Invalid

\* Every request carries the id of its node, as Envoy's first request does.
NodeKnown == RequestNodes \subseteq {TRUE}

-----------------------------------------------------------------------------
\* Nothing invalid is waiting to be stored.
ValidTodo == \A w \in Writers, n \in Names : todo[w][n] \notin Invalid

\* A stream has answered nothing before its loop.
Unanswered ==
    \A s \in Streams : spc[s] \in {"off", "opening"} => pushes[s] = 0

\* Before the first request the stream serves every name.
Unsubscribed == \A s \in Streams : ~named[s] => sub[s] = <<>>

LocalInv == TypeOK /\ ValidTodo /\ Unanswered /\ Unsubscribed

\* Nothing is under way at first.
LEMMA InitLocalInv == Init => LocalInv
BY InitTypeOK, ConstantsAssumption
DEF Init, LocalInv, ValidTodo, Unanswered, Unsubscribed, Nothing

\* Under the two hypotheses, every step keeps what the goroutines know of
\* themselves.
LEMMA NextLocalInv ==
    ASSUME ValidCalls, NodeKnown
    PROVE  LocalInv /\ [Next]_vars => LocalInv'
<1> SUFFICES ASSUME LocalInv, [Next]_vars
             PROVE  ValidTodo' /\ Unanswered' /\ Unsubscribed'
    BY NextTypeOK DEF LocalInv
<1> DEFINE Goal == ValidTodo' /\ Unanswered' /\ Unsubscribed'
<1> USE ConstantsAssumption
    DEF LocalInv, TypeOK, ValidTodo, Unanswered, Unsubscribed
<1>1. ASSUME NEW w \in Writers, NEW batch \in Batches, AddCall(w, batch)
      PROVE  Goal
  <2>1. batch \in Store
      OBVIOUS
  <2> QED
      BY <1>1, <2>1 DEF AddCall, ValidCalls, clientVars, pushVars
<1>2. ASSUME NEW w \in Writers, NEW n \in Names,
             AddStore(w, n) \/ AddInvalid(w, n)
      PROVE  Goal
  <2>1. ~AddInvalid(w, n)
      BY DEF AddInvalid, Valid
  <2>2. todo' = [todo EXCEPT ![w] = [@ EXCEPT ![n] = Absent]]
      BY <1>2, <2>1 DEF AddStore
  <2>3. ValidTodo'
      BY <2>2 DEF Store
  <2> QED
      BY <1>2, <2>1, <2>3 DEF AddStore, clientVars, pushVars
<1>3. ASSUME NEW w \in Writers, NEW batch \in Batches, Replace(w, batch)
      PROVE  Goal
    BY <1>3 DEF Replace, clientVars, pushVars
<1>4. ASSUME NEW w \in Writers, NEW n \in Names, Delete(w, n)
      PROVE  Goal
    BY <1>4 DEF Delete, clientVars, pushVars
<1>5. ASSUME NEW w \in Writers,
             AddStored(w) \/ NotifyStart(w) \/ NotifyLock(w)
      PROVE  Goal
    BY <1>5 DEF AddStored, NotifyStart, NotifyLock, clientVars, pushVars
<1>6. ASSUME NEW w \in Writers, NEW s \in Streams,
             Deliver(w, s) \/ SkipBusy(w, s)
      PROVE  Goal
    BY <1>6 DEF Deliver, SkipBusy, clientVars, pushVars
<1>7. ASSUME NEW w \in Writers, NotifyTimeout(w) \/ NotifyReturn(w)
      PROVE  Goal
    BY <1>7 DEF NotifyTimeout, NotifyReturn, clientVars, pushVars
<1>8. ASSUME NEW s \in Streams, Open(s) \/ Register(s)
      PROVE  Goal
    BY <1>8 DEF Open, Register, GoTo, writerVars, clientVars, pushVars
<1>9. ASSUME NEW s \in Streams, LeaveDrained(s) \/ Hangup(s)
                \/ BuildError(s) \/ PushAccepted(s) \/ PushTimeout(s)
      PROVE  Goal
    BY <1>9 DEF LeaveDrained, Hangup, BuildError, PushAccepted, PushTimeout,
                GoTo, writerVars, clientVars, pushVars
<1>10. ASSUME NEW s \in Streams, NEW k \in txs[s], CleanupTick(s, k)
       PROVE  Goal
    BY <1>10 DEF CleanupTick, writerVars, pushVars
<1>11. ASSUME NEW s \in Streams, NEW names \in Subscriptions,
              NEW hasNode \in RequestNodes, Learn(s, names, hasNode)
       PROVE  Unsubscribed'
    BY <1>11 DEF Learn, SubAfter, NodeKnown
<1>12. ASSUME NEW s \in Streams, RequestNext(s)
       PROVE  Goal
  <2>1. PICK names \in Subscriptions, hasNode \in RequestNodes :
                Learn(s, names, hasNode)
      BY <1>12 DEF RequestNext, RejectRequest, Acknowledge, AskConfig
  <2>2. UNCHANGED <<writerVars, pushVars>> /\ spc[s] = "loop"
        /\ \E point \in {"loop", "build", "exit"} :
              spc' = [spc EXCEPT ![s] = point]
      BY <1>12 DEF RequestNext, RejectRequest, Acknowledge, AskConfig, GoTo
  <2> QED
      BY <1>11, <2>1, <2>2 DEF writerVars, pushVars
<1>13. ASSUME NEW s \in Streams, Build(s) \/ Unregister(s)
       PROVE  Goal
  <2>1. CASE Build(s)
      BY <2>1 DEF Build, GoTo, writerVars, clientVars
  <2>2. CASE Unregister(s)
      BY <2>2 DEF Unregister, GoTo, writerVars
  <2> QED
      BY <1>13, <2>1, <2>2
<1>14. CASE Drain
    BY <1>14 DEF Drain, writerVars, clientVars, pushVars
<1>15. CASE UNCHANGED vars
    BY <1>15 DEF vars, writerVars, clientVars, pushVars
<1> HIDE DEF LocalInv, TypeOK, ValidTodo, Unanswered, Unsubscribed, Goal
<1>16. ASSUME NEW w \in Writers, WriterNext(w)
       PROVE  Goal
    BY <1>1, <1>2, <1>3, <1>4, <1>5, <1>6, <1>7, <1>16
    DEF WriterNext, AddStep, SendStep
<1>17. ASSUME NEW s \in Streams, StreamNext(s)
       PROVE  Goal
    BY <1>8, <1>9, <1>10, <1>12, <1>13, <1>17 DEF StreamNext
<1> QED
    BY <1>14, <1>15, <1>16, <1>17 DEF Next, Goal

-----------------------------------------------------------------------------
UpdateInv == SendInv /\ LocalInv /\ NoLostUpdate

\* A step of a writer leaves every serving stream accounted for.
LEMMA WriterKeepsUpdates ==
    ASSUME LocalInv, SendInv, NoLostUpdate, LocalInv',
           NEW w \in Writers, WriterNext(w)
    PROVE  NoLostUpdate'
<1> SUFFICES ASSUME NEW s \in Streams, Serving(s)', NEW n \in Wanted(sub[s])'
             PROVE  Accounted(s, n)'
    BY DEF NoLostUpdate
<1> USE ConstantsAssumption
<1>1. sub' = sub /\ pushes' = pushes /\ sent' = sent
    BY DEF WriterNext, AddCall, Replace, Delete, AddStep, AddStore, AddInvalid,
           AddStored, NotifyStart, NotifyLock, SendStep, Deliver, SkipBusy,
           NotifyTimeout, NotifyReturn, clientVars, pushVars
<1>2. n \in Names
  <2>1. sub[s] \in Seq(Names)
      BY DEF LocalInv, TypeOK
  <2> QED
      BY <1>1, <2>1, WantedNames
<1>3. Serving(s)
  <2>1. spc' = spc \/ \E t \in Streams : spc' = [spc EXCEPT ![t] = "build"]
      BY DEF WriterNext, AddCall, Replace, Delete, AddStep, AddStore,
             AddInvalid, AddStored, NotifyStart, NotifyLock, SendStep, Deliver,
             SkipBusy, NotifyTimeout, NotifyReturn
  <2> QED
      BY <1>1, <2>1 DEF Serving, LocalInv, TypeOK
<1>4. Accounted(s, n)
    BY <1>1, <1>3 DEF NoLostUpdate
<1>5. s \in sessions
    BY <1>3 DEF Serving, SendInv, Registered
<1>6. ASSUME NEW batch \in Batches, AddCall(w, batch)
      PROVE  Accounted(s, n)'
    BY <1>4, <1>6
    DEF Accounted, Owes, AddCall, CanCall, managerVars, pushVars, LocalInv, TypeOK
<1>7. ASSUME NEW batch \in Batches, Replace(w, batch)
      PROVE  Accounted(s, n)'
  <2>1. CASE n \in changed'[w]
      BY <1>7, <2>1 DEF Accounted, Owes, Replace, LocalInv, TypeOK
  <2>2. CASE n \notin changed'[w]
    <3>1. resources'[n] = resources[n]
        BY <1>2, <1>7, <2>2 DEF Replace, Defined, LocalInv, TypeOK
    <3> QED
        BY <1>4, <1>7, <3>1 DEF Accounted, Owes, Replace, CanCall, pushVars,
                                LocalInv, TypeOK
  <2> QED
      BY <2>1, <2>2
<1>8. ASSUME NEW m \in Names, Delete(w, m)
      PROVE  Accounted(s, n)'
  <2>1. CASE n = m
      BY <1>8, <2>1 DEF Accounted, Owes, Delete, LocalInv, TypeOK
  <2>2. CASE n # m
    <3>1. resources'[n] = resources[n]
        BY <1>2, <1>8, <2>2 DEF Delete, LocalInv, TypeOK, Store
    <3> QED
        BY <1>4, <1>8, <3>1 DEF Accounted, Owes, Delete, CanCall, pushVars,
                                LocalInv, TypeOK
  <2> QED
      BY <2>1, <2>2
<1>9. ASSUME NEW m \in Names, AddStore(w, m)
       PROVE  Accounted(s, n)'
  <2>1. CASE n = m
      BY <1>9, <2>1 DEF Accounted, Owes, AddStore, LocalInv, TypeOK
  <2>2. CASE n # m
      BY <1>2, <1>4, <1>9, <2>2 DEF Accounted, Owes, AddStore, pushVars,
                                     LocalInv, TypeOK, Store
  <2> QED
      BY <2>1, <2>2
<1>10. ASSUME NEW m \in Names, AddInvalid(w, m)
       PROVE  Accounted(s, n)'
    BY <1>10 DEF AddInvalid, Valid, LocalInv, ValidTodo
<1>11. CASE AddStored(w)
    BY <1>4, <1>11 DEF Accounted, Owes, AddStored, managerVars, pushVars,
                       LocalInv, TypeOK
<1>12. CASE NotifyStart(w)
    BY <1>4, <1>12 DEF Accounted, Owes, NotifyStart, pushVars, LocalInv, TypeOK
\* s is registered, so it is among the streams that w has to reach.
<1>13. CASE NotifyLock(w)
    BY <1>4, <1>5, <1>13 DEF Accounted, Owes, NotifyLock, pushVars, LocalInv,
                             TypeOK
\* A stream that takes the update without setting out to answer is not
\* interested in it: n is not one of the names.
<1>14. ASSUME NEW t \in Streams, Deliver(w, t)
       PROVE  Accounted(s, n)'
  <2>1. CASE s = t /\ Owes(w, s, n)
    <3>1. Interested(s, changed[w])
        BY <1>1, <2>1 DEF Owes, Interested
    <3>2. spc[s] = "loop"
        BY <1>3, <1>14, <2>1 DEF Deliver, Receives, Serving
    <3>3. spc'[s] = "build"
        BY <1>14, <2>1, <3>1, <3>2 DEF Deliver, LocalInv, TypeOK
    <3> QED
        BY <3>3 DEF Serving
  <2>2. CASE s # t \/ ~Owes(w, s, n)
      BY <1>4, <1>14, <2>2 DEF Accounted, Owes, Deliver, managerVars, pushVars,
                               LocalInv, TypeOK
  <2> QED
      BY <2>1, <2>2
<1>15. ASSUME NEW t \in Streams, SkipBusy(w, t)
       PROVE  Accounted(s, n)'
    BY <1>4, <1>15 DEF Accounted, Owes, SkipBusy, managerVars, pushVars,
                       LocalInv, TypeOK
<1>16. CASE NotifyTimeout(w)
    BY <1>4, <1>16 DEF Accounted, Owes, NotifyTimeout, EndNotify, LocalInv, TypeOK
<1>17. CASE NotifyReturn(w)
    BY <1>4, <1>17 DEF Accounted, Owes, NotifyReturn, EndNotify, pushVars,
                       LocalInv, TypeOK
<1> QED
    BY <1>6, <1>7, <1>8, <1>9, <1>10, <1>11, <1>12, <1>13, <1>14, <1>15,
       <1>16, <1>17 DEF WriterNext, AddStep, SendStep

\* A request that is acknowledged without being answered adds no name to
\* those the client was served.
LEMMA AcknowledgedNames ==
    ASSUME LocalInv, NEW s \in Streams, NEW names \in Subscriptions,
           NEW hasNode \in RequestNodes, Learn(s, names, hasNode)
    PROVE  Wanted(sub'[s]) \subseteq Wanted(sub[s])
<1> USE ConstantsAssumption DEF LocalInv, TypeOK
<1>1. CASE named[s]
    BY <1>1 DEF Learn, SubAfter
<1>2. CASE ~named[s]
  <2>1. Wanted(sub[s]) = Names
      BY <1>2 DEF Unsubscribed, Wanted
  <2>2. sub'[s] = names /\ names \in Seq(Names)
      BY <1>2 DEF Learn, SubAfter
  <2> QED
      BY <2>1, <2>2, WantedNames
<1> QED
    BY <1>1, <1>2

\* So does a step of a stream: it registers without having served anything,
\* and a response is built from the resources in one critical section.
LEMMA StreamKeepsUpdates ==
    ASSUME LocalInv, NoLostUpdate, NEW t \in Streams, StreamNext(t)
    PROVE  NoLostUpdate'
<1> SUFFICES ASSUME NEW s \in Streams, Serving(s)', NEW n \in Wanted(sub[s])'
             PROVE  Accounted(s, n)'
    BY DEF NoLostUpdate
<1> USE ConstantsAssumption DEF LocalInv, TypeOK
<1>1. UNCHANGED <<resources, writerVars>>
    BY DEF StreamNext, RequestNext, Open, Register, LeaveDrained, Hangup,
           CleanupTick, RejectRequest, Acknowledge, AskConfig, Build,
           BuildError, PushAccepted, PushTimeout, Unregister, managerVars
<1>2. ASSUME Serving(s), n \in Wanted(sub[s]),
             sent'[s] = sent[s], missed'[s] = missed[s]
      PROVE  Accounted(s, n)'
  <2>1. Accounted(s, n)
      BY <1>2 DEF NoLostUpdate
  <2> QED
      BY <1>1, <1>2, <2>1 DEF Accounted, Owes, writerVars
<1>3. CASE Open(t)
    BY <1>2, <1>3 DEF Open, GoTo, Serving, clientVars, pushVars
<1>4. CASE Register(t)
    BY <1>2, <1>4 DEF Register, GoTo, Serving, Unanswered, clientVars, pushVars
<1>5. CASE LeaveDrained(t) \/ Hangup(t) \/ BuildError(t) \/ PushTimeout(t)
    BY <1>2, <1>5 DEF LeaveDrained, Hangup, BuildError, PushTimeout, GoTo,
                      Serving, clientVars, pushVars
<1>6. ASSUME NEW k \in txs[t], CleanupTick(t, k)
      PROVE  Accounted(s, n)'
    BY <1>2, <1>6 DEF CleanupTick, Serving, pushVars
<1>7. ASSUME NEW names \in Subscriptions, NEW hasNode \in RequestNodes,
             NEW rightType \in BOOLEAN,
             RejectRequest(t, names, hasNode, rightType)
      PROVE  Accounted(s, n)'
    BY <1>2, <1>7 DEF RejectRequest, Learn, GoTo, Serving, pushVars
<1>8. ASSUME NEW names \in Subscriptions, NEW hasNode \in RequestNodes,
             NEW nonce \in Nonces(t), Acknowledge(t, names, hasNode, nonce)
      PROVE  Accounted(s, n)'
  <2>1. Wanted(sub'[t]) \subseteq Wanted(sub[t])
      BY <1>8, AcknowledgedNames DEF Acknowledge
  <2>2. s # t => sub'[s] = sub[s]
      BY <1>8 DEF Acknowledge, Learn
  <2> QED
      BY <1>2, <1>8, <2>1, <2>2 DEF Acknowledge, Serving, pushVars
<1>9. ASSUME NEW names \in Subscriptions, NEW hasNode \in RequestNodes,
             NEW nonce \in Nonces(t), AskConfig(t, names, hasNode, nonce)
      PROVE  Accounted(s, n)'
    BY <1>2, <1>9 DEF AskConfig, Learn, GoTo, Serving, pushVars
<1>10. CASE Build(t)
  <2>1. CASE s = t
    <3>1. n \in Names
        BY <1>10, WantedNames DEF Build, clientVars
    <3> QED
        BY <1>1, <1>10, <2>1, <3>1 DEF Build, Accounted, clientVars
  <2>2. CASE s # t
      BY <1>2, <1>10, <2>2 DEF Build, GoTo, Serving, clientVars
  <2> QED
      BY <2>1, <2>2
<1>11. CASE PushAccepted(t)
    BY <1>2, <1>11 DEF PushAccepted, GoTo, Serving, pushVars
<1>12. CASE Unregister(t)
    BY <1>2, <1>12 DEF Unregister, GoTo, Serving
<1> QED
    BY <1>3, <1>4, <1>5, <1>6, <1>7, <1>8, <1>9, <1>10, <1>11, <1>12
    DEF StreamNext, RequestNext

\* Every step keeps the accounts of every stream.
LEMMA NextUpdateInv ==
    ASSUME ValidCalls, NodeKnown
    PROVE  UpdateInv /\ [Next]_vars => UpdateInv'
<1> SUFFICES ASSUME UpdateInv, [Next]_vars PROVE UpdateInv'
    OBVIOUS
<1>1. SendInv' /\ LocalInv'
    BY NextSendInv, NextLocalInv DEF UpdateInv
<1>2. ASSUME NEW w \in Writers, WriterNext(w) PROVE NoLostUpdate'
    BY <1>1, <1>2, WriterKeepsUpdates DEF UpdateInv
<1>3. ASSUME NEW s \in Streams, StreamNext(s) PROVE NoLostUpdate'
    BY <1>3, StreamKeepsUpdates DEF UpdateInv
<1>4. ASSUME Drain \/ UNCHANGED vars PROVE NoLostUpdate'
  <2>1. UNCHANGED <<resources, wpc, changed, unsent, blocked, spc, sub, pushes,
                    sent, missed>>
      BY <1>4 DEF Drain, vars, managerVars, writerVars, clientVars, pushVars
  <2> SUFFICES ASSUME NEW s \in Streams, Serving(s)',
                      NEW n \in Wanted(sub[s])'
               PROVE  Accounted(s, n)'
      BY DEF NoLostUpdate
  <2>2. Serving(s) /\ n \in Wanted(sub[s])
      BY <2>1 DEF Serving
  <2>3. Accounted(s, n)
      BY <2>2 DEF UpdateInv, NoLostUpdate
  <2> QED
      BY <2>1, <2>3 DEF Accounted, Owes
<1> QED
    BY <1>1, <1>2, <1>3, <1>4 DEF Next, UpdateInv

\* No update is lost, provided that callers of Add pass resources that
\* validate and that requests carry a node id.
THEOREM UpdatesReachStreams ==
    ASSUME ValidCalls, NodeKnown
    PROVE  Spec => []NoLostUpdate
<1>1. Init => UpdateInv
  <2>1. Init => NoLostUpdate
      BY DEF Init, NoLostUpdate, Serving
  <2> QED
      BY <2>1, InitSendInv, InitLocalInv DEF UpdateInv
<1>2. UpdateInv /\ [Next]_vars => UpdateInv'
    BY NextUpdateInv
<1>3. UpdateInv => NoLostUpdate
    BY DEF UpdateInv
<1>4. QED
    BY <1>1, <1>2, <1>3, PTL DEF Spec
=============================================================================
