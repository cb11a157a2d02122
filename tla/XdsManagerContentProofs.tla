----------------------- MODULE XdsManagerContentProofs -----------------------
(***************************************************************************)
(* What a stream sends: only resources that validate and can be            *)
(* marshalled, for the names of one subscription, and under the current    *)
(* version nothing but the current content.                                *)
(***************************************************************************)
EXTENDS XdsManagerUpdateProofs

-----------------------------------------------------------------------------
(***************************************************************************)
(* Only valid resources are served, whatever the callers pass.             *)
(***************************************************************************)

\* Add and Replace let nothing invalid in, and Build nothing out that cannot
\* be marshalled.
ContentValid ==
    /\ \A n \in Names : resources[n] \notin Invalid
    /\ \A s \in Streams, n \in Names :
          sent[s][n] \notin Invalid \union Unmarshalable

ContentInv == TypeOK /\ ContentValid

\* There is no content at first.
LEMMA InitContentInv == Init => ContentInv
BY InitTypeOK, ConstantsAssumption DEF Init, ContentInv, ContentValid, Nothing

\* Every step keeps the content valid.
LEMMA NextContentInv == ContentInv /\ [Next]_vars => ContentInv'
<1> SUFFICES ASSUME ContentInv, [Next]_vars
             PROVE  ContentValid'
    BY NextTypeOK DEF ContentInv
<1> USE ConstantsAssumption DEF ContentInv, TypeOK, ContentValid
<1>1. ASSUME UNCHANGED <<resources, sent>> PROVE ContentValid'
    BY <1>1
\* What changes the resources.
<1>2. ASSUME NEW w \in Writers, NEW n \in Names, AddStore(w, n)
      PROVE  ContentValid'
    BY <1>2 DEF AddStore, Valid, pushVars
<1>3. ASSUME NEW w \in Writers, NEW batch \in Batches, Replace(w, batch)
      PROVE  ContentValid'
  <2>1. \A n \in Names : batch[n] \notin Invalid
      BY <1>3 DEF Replace, Valid, Defined
  <2> QED
      BY <1>3, <2>1 DEF Replace, pushVars
<1>4. ASSUME NEW w \in Writers, NEW n \in Names, Delete(w, n)
      PROVE  ContentValid'
    BY <1>4 DEF Delete, pushVars
\* What changes the responses.
<1>5. ASSUME NEW s \in Streams, Build(s)
      PROVE  ContentValid'
  <2>1. \A n \in Names : sent'[s][n] \notin Invalid \union Unmarshalable
      BY <1>5 DEF Build, Poisoned
  <2> QED
      BY <1>5, <2>1 DEF Build, managerVars
<1>6. ASSUME NEW s \in Streams, Unregister(s)
      PROVE  ContentValid'
    BY <1>6 DEF Unregister, Nothing
<1> HIDE DEF ContentInv, TypeOK, ContentValid
<1>7. ASSUME NEW w \in Writers, WriterNext(w)
      PROVE  ContentValid'
  <2>1. \/ UNCHANGED <<resources, sent>>
        \/ \E n \in Names : AddStore(w, n) \/ Delete(w, n)
        \/ \E batch \in Batches : Replace(w, batch)
      BY <1>7 DEF WriterNext, AddCall, AddStep, AddInvalid, AddStored,
                  NotifyStart, NotifyLock, SendStep, Deliver, SkipBusy,
                  NotifyTimeout, NotifyReturn, managerVars, pushVars
  <2> QED
      BY <1>1, <1>2, <1>3, <1>4, <2>1
<1>8. ASSUME NEW s \in Streams, StreamNext(s)
      PROVE  ContentValid'
  <2>1. UNCHANGED <<resources, sent>> \/ Build(s) \/ Unregister(s)
      BY <1>8 DEF StreamNext, RequestNext, Open, Register, LeaveDrained,
                  Hangup, CleanupTick, RejectRequest, Acknowledge, AskConfig,
                  BuildError, PushAccepted, PushTimeout, managerVars, pushVars
  <2> QED
      BY <1>1, <1>5, <1>6, <2>1
<1>9. ASSUME Drain \/ UNCHANGED vars
      PROVE  ContentValid'
    BY <1>1, <1>9 DEF Drain, vars, managerVars, pushVars
<1> QED
    BY <1>7, <1>8, <1>9 DEF Next

\* No client is ever sent a resource that does not validate, nor a response
\* that could be marshalled only in part: whatever callers and clients do.
THEOREM ServedIsValid == Spec => []OnlyValidServed
<1>1. ContentInv => OnlyValidServed
    BY DEF ContentInv, ContentValid, OnlyValidServed
<1>2. QED
    BY <1>1, InitContentInv, NextContentInv, PTL DEF Spec

-----------------------------------------------------------------------------
(***************************************************************************)
(* The subscription of a stream.                                           *)
(***************************************************************************)

NamedInv == TypeOK /\ Unsubscribed

\* The names of a request are only taken from one that carries the node id.
LEMMA NextNamedInv ==
    ASSUME NodeKnown
    PROVE  NamedInv /\ [Next]_vars => NamedInv'
<1> SUFFICES ASSUME NamedInv, [Next]_vars PROVE Unsubscribed'
    BY NextTypeOK DEF NamedInv
<1> USE ConstantsAssumption DEF NamedInv, TypeOK, Unsubscribed
<1>1. ASSUME UNCHANGED <<named, sub>> PROVE Unsubscribed'
    BY <1>1
<1>2. ASSUME NEW t \in Streams, Unregister(t) PROVE Unsubscribed'
    BY <1>2 DEF Unregister
<1>3. ASSUME NEW t \in Streams, NEW names \in Subscriptions,
             NEW hasNode \in RequestNodes, Learn(t, names, hasNode)
      PROVE  Unsubscribed'
    BY <1>3 DEF Learn, SubAfter, NodeKnown
<1> HIDE DEF NamedInv, TypeOK, Unsubscribed
<1>4. ASSUME NEW w \in Writers, WriterNext(w) PROVE Unsubscribed'
  <2>1. UNCHANGED <<named, sub>>
      BY <1>4 DEF WriterNext, AddCall, Replace, Delete, AddStep, AddStore,
                  AddInvalid, AddStored, NotifyStart, NotifyLock, SendStep,
                  Deliver, SkipBusy, NotifyTimeout, NotifyReturn, clientVars
  <2> QED
      BY <1>1, <2>1
<1>5. ASSUME NEW t \in Streams, StreamNext(t) PROVE Unsubscribed'
  <2>1. \/ UNCHANGED <<named, sub>>
        \/ Unregister(t)
        \/ \E names \in Subscriptions, hasNode \in RequestNodes :
              Learn(t, names, hasNode)
      BY <1>5 DEF StreamNext, RequestNext, Open, Register, LeaveDrained,
                  Hangup, CleanupTick, RejectRequest, Acknowledge, AskConfig,
                  Build, BuildError, PushAccepted, PushTimeout, clientVars
  <2> QED
      BY <1>1, <1>2, <1>3, <2>1
<1>6. ASSUME Drain \/ UNCHANGED vars PROVE Unsubscribed'
    BY <1>1, <1>6 DEF Drain, vars, clientVars
<1> QED
    BY <1>4, <1>5, <1>6 DEF Next

\* A client that names itself in its requests keeps the names it asked for
\* until its stream ends.
THEOREM SubscriptionKept ==
    ASSUME NodeKnown
    PROVE  Spec => SubscriptionFixed
<1> DEFINE Fixed == \A s \in Streams :
              sub[s] # <<>> /\ spc[s] = "loop" /\ spc'[s] # "exit"
                => sub'[s] = sub[s]
<1>1. NamedInv /\ [Next]_vars => [Fixed]_vars
  <2> SUFFICES ASSUME NamedInv, [Next]_vars, NEW s \in Streams,
                      sub[s] # <<>>, spc[s] = "loop"
               PROVE  sub'[s] = sub[s]
      OBVIOUS
  <2> USE DEF NamedInv, TypeOK
  <2>1. named[s]
      BY DEF Unsubscribed
  <2>2. ASSUME NEW w \in Writers, WriterNext(w)
        PROVE  sub' = sub
      BY <2>2 DEF WriterNext, AddCall, Replace, Delete, AddStep, AddStore,
                  AddInvalid, AddStored, NotifyStart, NotifyLock, SendStep,
                  Deliver, SkipBusy, NotifyTimeout, NotifyReturn, clientVars
  <2>3. ASSUME NEW t \in Streams, StreamNext(t)
        PROVE  sub'[s] = sub[s]
    <3>1. \/ sub' = sub
          \/ Unregister(t)
          \/ \E names \in Subscriptions, hasNode \in RequestNodes :
                Learn(t, names, hasNode)
        BY <2>3 DEF StreamNext, RequestNext, Open, Register, LeaveDrained,
                    Hangup, CleanupTick, RejectRequest, Acknowledge, AskConfig,
                    Build, BuildError, PushAccepted, PushTimeout, clientVars
    <3>2. Unregister(t) => s # t
        BY DEF Unregister
    <3>3. Unregister(t) => sub'[s] = sub[s]
        BY <3>2 DEF Unregister
    <3>4. ASSUME NEW names \in Subscriptions, NEW hasNode \in RequestNodes,
                 Learn(t, names, hasNode)
          PROVE  sub'[s] = sub[s]
        BY <2>1, <3>4 DEF Learn, SubAfter
    <3> QED
        BY <3>1, <3>3, <3>4
  <2>4. ASSUME Drain \/ UNCHANGED vars
        PROVE  sub' = sub
      BY <2>4 DEF Drain, vars, clientVars
  <2> QED
      BY <2>2, <2>3, <2>4 DEF Next
<1>2. NamedInv /\ [Next]_vars => NamedInv'
    BY NextNamedInv
<1>3. Init => NamedInv
    BY InitTypeOK DEF Init, NamedInv, Unsubscribed
<1>4. QED
    BY <1>1, <1>2, <1>3, PTL DEF Spec, SubscriptionFixed

-----------------------------------------------------------------------------
(***************************************************************************)
(* What the version stands for.                                            *)
(***************************************************************************)

\* Versions only grow, and no response is ahead of the manager.
VersionsSent == \A s \in Streams : sentVersion[s] <= version

\* The name was stored by a writer that is to increment the version.
Unversioned(n) ==
    \E w \in Writers : n \in changed[w] /\ wpc[w] \in {"add", "notify"}

VersionInv == LocalInv /\ VersionsSent /\ CurrentVersionIsCurrent

\* A name that changes is unversioned until the version has been incremented:
\* whatever was the content of a name still is, up to unversioned names.
LEMMA WriterKeepsContent ==
    ASSUME ValidCalls, TypeOK, ValidTodo, NEW w \in Writers, WriterNext(w),
           version' = version, NEW n \in Names, NEW x,
           x = resources[n] \/ Unversioned(n)
    PROVE  x = resources'[n] \/ Unversioned(n)'
<1> USE ConstantsAssumption DEF TypeOK
<1>1. ASSUME NEW batch \in Batches, AddCall(w, batch)
      PROVE  x = resources'[n] \/ Unversioned(n)'
    BY <1>1 DEF AddCall, CanCall, Unversioned, managerVars
<1>2. ASSUME NEW batch \in Batches, Replace(w, batch)
      PROVE  x = resources'[n] \/ Unversioned(n)'
  <2>1. CASE n \in changed'[w]
      BY <1>2, <2>1 DEF Replace, Unversioned
  <2>2. CASE n \notin changed'[w]
    <3>1. resources'[n] = resources[n]
        BY <1>2, <2>2 DEF Replace, Defined
    <3> QED
        BY <1>2, <3>1 DEF Replace, CanCall, Unversioned
  <2> QED
      BY <2>1, <2>2
<1>3. ASSUME NEW m \in Names, Delete(w, m)
      PROVE  x = resources'[n] \/ Unversioned(n)'
  <2>1. CASE n = m
      BY <1>3, <2>1 DEF Delete, Unversioned
  <2>2. CASE n # m
      BY <1>3, <2>2 DEF Delete, CanCall, Unversioned
  <2> QED
      BY <2>1, <2>2
<1>4. ASSUME NEW m \in Names, AddStore(w, m)
      PROVE  x = resources'[n] \/ Unversioned(n)'
  <2>1. CASE n = m
      BY <1>4, <2>1 DEF AddStore, Unversioned
  <2>2. CASE n # m
      BY <1>4, <2>2 DEF AddStore, Unversioned
  <2> QED
      BY <2>1, <2>2
<1>5. ASSUME NEW m \in Names, AddInvalid(w, m)
      PROVE  FALSE
    BY <1>5 DEF AddInvalid, Valid, ValidTodo
<1>6. CASE AddStored(w)
    BY <1>6 DEF AddStored, Unversioned, managerVars
<1>7. CASE NotifyStart(w)
    BY <1>7 DEF NotifyStart, NextVersion, Unversioned
<1>8. CASE NotifyLock(w)
    BY <1>8 DEF NotifyLock, Unversioned
<1>9. ASSUME NEW t \in Streams, Deliver(w, t) \/ SkipBusy(w, t)
      PROVE  x = resources'[n] \/ Unversioned(n)'
    BY <1>9 DEF Deliver, SkipBusy, Unversioned, managerVars
<1>10. CASE NotifyTimeout(w) \/ NotifyReturn(w)
    BY <1>10 DEF NotifyTimeout, NotifyReturn, EndNotify, Unversioned
<1> QED
    BY <1>1, <1>2, <1>3, <1>4, <1>5, <1>6, <1>7, <1>8, <1>9, <1>10
    DEF WriterNext, AddStep, SendStep

\* A writer gives out one version at a time.
LEMMA WriterVersion ==
    ASSUME NEW w \in Writers, WriterNext(w)
    PROVE  version' \in {version, version + 1}
BY DEF WriterNext, AddCall, Replace, Delete, AddStep, AddStore, AddInvalid,
       AddStored, NotifyStart, NextVersion, NotifyLock, SendStep, Deliver,
       SkipBusy, NotifyTimeout, NotifyReturn, managerVars

\* What was sent under the current version stays current.
LEMMA WriterKeepsVersions ==
    ASSUME ValidCalls, VersionInv, LocalInv', NEW w \in Writers, WriterNext(w)
    PROVE  VersionsSent' /\ CurrentVersionIsCurrent'
<1> USE DEF VersionInv, LocalInv, TypeOK
<1>1. sub' = sub /\ pushes' = pushes /\ sent' = sent
      /\ sentVersion' = sentVersion
    BY DEF WriterNext, AddCall, Replace, Delete, AddStep, AddStore, AddInvalid,
           AddStored, NotifyStart, NotifyLock, SendStep, Deliver, SkipBusy,
           NotifyTimeout, NotifyReturn, clientVars, pushVars
<1>2. version' \in {version, version + 1}
    BY WriterVersion
<1>3. VersionsSent'
  <2>1. version <= version'
      BY <1>2
  <2> QED
      BY <1>1, <2>1 DEF VersionsSent
<1>4. SUFFICES ASSUME NEW s \in Streams, Serving(s)',
                      sentVersion'[s] = version', NEW n \in Wanted(sub[s])'
               PROVE  (sent[s][n] = resources[n])' \/ Unversioned(n)'
    BY <1>3 DEF CurrentVersionIsCurrent, Unversioned
<1>5. version' = version
  <2>1. sentVersion[s] <= version
      BY DEF VersionsSent
  <2> QED
      BY <1>1, <1>2, <1>4, <2>1
<1>6. n \in Names
    BY <1>1, <1>4, WantedNames
<1>7. sent[s][n] = resources[n] \/ Unversioned(n)
  <2>1. spc' = spc \/ \E t \in Streams : spc' = [spc EXCEPT ![t] = "build"]
      BY DEF WriterNext, AddCall, Replace, Delete, AddStep, AddStore,
             AddInvalid, AddStored, NotifyStart, NotifyLock, SendStep, Deliver,
             SkipBusy, NotifyTimeout, NotifyReturn
  <2>2. Serving(s)
      BY <1>1, <1>4, <2>1 DEF Serving
  <2> QED
      BY <1>1, <1>4, <1>5, <2>2 DEF CurrentVersionIsCurrent, Unversioned
<1> QED
    BY <1>1, <1>5, <1>6, <1>7, WriterKeepsContent

\* A stream reads the content and the version under one lock.
LEMMA StreamKeepsVersions ==
    ASSUME VersionInv, NEW t \in Streams, StreamNext(t)
    PROVE  VersionsSent' /\ CurrentVersionIsCurrent'
<1> USE ConstantsAssumption DEF VersionInv, LocalInv, TypeOK
<1>1. UNCHANGED <<resources, version, wpc, changed>>
    BY DEF StreamNext, RequestNext, Open, Register, LeaveDrained, Hangup,
           CleanupTick, RejectRequest, Acknowledge, AskConfig, Build,
           BuildError, PushAccepted, PushTimeout, Unregister, managerVars,
           writerVars
<1>2. \/ UNCHANGED <<sent, sentVersion>>
      \/ Build(t)
      \/ Unregister(t)
    BY DEF StreamNext, RequestNext, Open, Register, LeaveDrained, Hangup,
           CleanupTick, RejectRequest, Acknowledge, AskConfig, BuildError,
           PushAccepted, PushTimeout, pushVars
<1>3. VersionsSent'
    BY <1>1, <1>2 DEF VersionsSent, Build, Unregister
<1>4. SUFFICES ASSUME NEW s \in Streams, Serving(s)',
                      sentVersion'[s] = version', NEW n \in Wanted(sub[s])'
               PROVE  (sent[s][n] = resources[n])' \/ Unversioned(n)'
    BY <1>3 DEF CurrentVersionIsCurrent, Unversioned
<1>5. ASSUME Serving(s), n \in Wanted(sub[s]),
             sent'[s] = sent[s], sentVersion'[s] = sentVersion[s]
      PROVE  (sent[s][n] = resources[n])' \/ Unversioned(n)'
    BY <1>1, <1>4, <1>5 DEF CurrentVersionIsCurrent, Unversioned
<1>6. CASE Build(t)
  <2>1. CASE s = t
    <3>1. n \in Names
        BY <1>4, <1>6, WantedNames DEF Build, clientVars
    <3> QED
        BY <1>1, <1>4, <1>6, <2>1, <3>1 DEF Build, clientVars
  <2>2. CASE s # t
      BY <1>4, <1>5, <1>6, <2>2 DEF Build, GoTo, Serving, clientVars
  <2> QED
      BY <2>1, <2>2
<1>7. CASE Unregister(t)
    BY <1>4, <1>5, <1>7 DEF Unregister, GoTo, Serving
<1>8. ASSUME NEW names \in Subscriptions, NEW hasNode \in RequestNodes,
             NEW nonce \in Nonces(t), Acknowledge(t, names, hasNode, nonce)
      PROVE  (sent[s][n] = resources[n])' \/ Unversioned(n)'
  <2>1. Wanted(sub'[t]) \subseteq Wanted(sub[t])
      BY <1>8, AcknowledgedNames DEF Acknowledge
  <2>2. s # t => sub'[s] = sub[s]
      BY <1>8 DEF Acknowledge, Learn
  <2> QED
      BY <1>4, <1>5, <1>8, <2>1, <2>2 DEF Acknowledge, Serving, pushVars
<1>9. CASE Open(t) \/ Register(t)
    BY <1>4, <1>5, <1>9
    DEF Open, Register, GoTo, Serving, Unanswered, clientVars, pushVars
<1>10. CASE LeaveDrained(t) \/ Hangup(t) \/ BuildError(t) \/ PushTimeout(t)
    BY <1>4, <1>5, <1>10 DEF LeaveDrained, Hangup, BuildError, PushTimeout,
                             GoTo, Serving, clientVars, pushVars
<1>11. ASSUME NEW names \in Subscriptions, NEW hasNode \in RequestNodes,
              \/ \E rightType \in BOOLEAN :
                    RejectRequest(t, names, hasNode, rightType)
              \/ \E nonce \in Nonces(t) : AskConfig(t, names, hasNode, nonce)
       PROVE  (sent[s][n] = resources[n])' \/ Unversioned(n)'
    BY <1>4, <1>5, <1>11
    DEF RejectRequest, AskConfig, Learn, GoTo, Serving, pushVars
<1>12. CASE PushAccepted(t) \/ \E k \in txs[t] : CleanupTick(t, k)
    BY <1>4, <1>5, <1>12 DEF PushAccepted, CleanupTick, GoTo, Serving, pushVars
<1> QED
    BY <1>6, <1>7, <1>8, <1>9, <1>10, <1>11, <1>12 DEF StreamNext, RequestNext

\* Every step keeps what the versions stand for.
LEMMA NextVersionInv ==
    ASSUME ValidCalls, NodeKnown
    PROVE  VersionInv /\ [Next]_vars => VersionInv'
<1> SUFFICES ASSUME VersionInv, [Next]_vars PROVE VersionInv'
    OBVIOUS
<1>1. LocalInv'
    BY NextLocalInv DEF VersionInv
<1>2. ASSUME Drain \/ UNCHANGED vars
      PROVE  VersionsSent' /\ CurrentVersionIsCurrent'
  <2>1. UNCHANGED <<resources, version, wpc, changed, spc, sub, pushes, sent,
                    sentVersion>>
      BY <1>2 DEF Drain, vars, managerVars, writerVars, clientVars, pushVars
  <2> QED
      BY <2>1 DEF VersionInv, VersionsSent, CurrentVersionIsCurrent, Serving,
                  Wanted
<1> QED
    BY <1>1, <1>2, WriterKeepsVersions, StreamKeepsVersions
    DEF Next, VersionInv

\* A client that holds the current version holds the current content, except
\* for names whose change has not been given a version yet: the most that an
\* increment in a critical section of its own can promise.
THEOREM VersionCurrent ==
    ASSUME ValidCalls, NodeKnown
    PROVE  Spec => []CurrentVersionIsCurrent
<1>1. Init => VersionInv
  <2>1. Init => VersionsSent /\ CurrentVersionIsCurrent
      BY DEF Init, VersionsSent, CurrentVersionIsCurrent, Serving
  <2> QED
      BY <2>1, InitLocalInv DEF VersionInv
<1>2. VersionInv /\ [Next]_vars => VersionInv'
    BY NextVersionInv
<1>3. QED
    BY <1>1, <1>2, PTL DEF Spec, VersionInv
=============================================================================
