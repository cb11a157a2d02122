---------------------- MODULE XdsManagerServiceProofs ----------------------
(***************************************************************************)
(* The manager implements ManagerService: every step of the detailed       *)
(* specification is a step of the service, or none, for any number of      *)
(* writers, streams and names.                                             *)
(***************************************************************************)
EXTENDS XdsManagerUpdateProofs, XdsManagerRefinement

\* A writer that is not in a call has nothing left to announce.
Settled == \A w \in Writers : wpc[w] = "idle" => changed[w] = {}

ServiceInv == SendInv /\ LocalInv /\ Settled

\* A call of a writer ends with nothing left to announce.
LEMMA NextSettled == LocalInv /\ Settled /\ [Next]_vars => Settled'
<1> SUFFICES ASSUME LocalInv, Settled, [Next]_vars PROVE Settled'
    OBVIOUS
<1> USE DEF LocalInv, TypeOK, Settled
<1>1. ASSUME NEW w \in Writers, WriterNext(w) PROVE Settled'
  <2>1. \A v \in Writers \ {w} : wpc'[v] = wpc[v] /\ changed'[v] = changed[v]
      BY <1>1 DEF WriterNext, AddCall, Replace, Delete, AddStep, AddStore,
                  AddInvalid, AddStored, NotifyStart, NotifyLock, SendStep,
                  Deliver, SkipBusy, NotifyTimeout, NotifyReturn, EndNotify
  <2>2. wpc'[w] = "idle" => changed'[w] = {}
      BY <1>1 DEF WriterNext, AddCall, Replace, Delete, AddStep, AddStore,
                  AddInvalid, AddStored, NotifyStart, NotifyLock, SendStep,
                  Deliver, SkipBusy, NotifyTimeout, NotifyReturn, EndNotify
  <2> QED
      BY <2>1, <2>2
<1>2. ASSUME NEW s \in Streams, StreamNext(s) PROVE UNCHANGED writerVars
    BY <1>2 DEF StreamNext, RequestNext, Open, Register, LeaveDrained, Hangup,
                CleanupTick, RejectRequest, Acknowledge, AskConfig, Build,
                BuildError, PushAccepted, PushTimeout, Unregister
<1>3. CASE Drain \/ UNCHANGED vars
    BY <1>3 DEF Drain, vars, writerVars
<1> QED
    BY <1>1, <1>2, <1>3 DEF Next, writerVars

\* The invariant that the refinement rests on.
LEMMA InitServiceInv == Init => ServiceInv
<1>1. Init => Settled
    BY DEF Init, Settled
<1> QED
    BY <1>1, InitSendInv, InitLocalInv DEF ServiceInv

\* Every step keeps it.
LEMMA NextServiceInv ==
    ASSUME ValidCalls, NodeKnown
    PROVE  ServiceInv /\ [Next]_vars => ServiceInv'
BY NextSendInv, NextLocalInv, NextSettled DEF ServiceInv

\* It holds in every state.
LEMMA ServiceInvariant ==
    ASSUME ValidCalls, NodeKnown
    PROVE  Spec => []ServiceInv
BY InitServiceInv, NextServiceInv, PTL DEF Spec

\* With nothing stored and nobody served, the service is in its initial state.
LEMMA NobodyServed ==
    ASSUME resources = Nothing, \A s \in Streams : ~Serving(s)
    PROVE  Service!Init
BY DEF Service!Init, Service!NoStore, Nothing, Served, ServedNames, Views, Owed,
       Dropped

-----------------------------------------------------------------------------
\* A writer still has to announce n to s.
Announced(s, n) == \E w \in Writers : Owes(w, s, n)

\* The step leaves the account of stream s alone.
KeepsAccount(s) ==
    /\ Serving(s)' <=> Serving(s)
    /\ Serving(s) => /\ sub'[s] = sub[s]
                     /\ sent'[s] = sent[s]
                     /\ missed'[s] = missed[s]
                     /\ \A n \in Wanted(sub[s]) :
                           Announced(s, n)' <=> Announced(s, n)

\* A step that leaves every account alone is none of the service.
LEMMA Unnoticed ==
    ASSUME LocalInv, resources' = resources, \A s \in Streams : KeepsAccount(s)
    PROVE  UNCHANGED Service!vars
<1> USE DEF LocalInv, TypeOK, KeepsAccount, Announced
<1>1. \A s \in Streams : Wanted(sub[s]) \subseteq Names
    BY WantedNames
<1>2. Served' = Served
    BY DEF Served
<1>3. ServedNames' = ServedNames
    BY DEF ServedNames
<1>4. Views' = Views
    BY DEF Views
<1>5. Owed' = Owed
    BY <1>1, <1>3 DEF Owed, ServedNames
<1>6. Dropped' = Dropped
    BY <1>3 DEF Dropped, ServedNames
<1> QED
    BY <1>2, <1>3, <1>4, <1>5, <1>6 DEF Service!vars, Service!answerVars

\* A step that ends the service of one stream is Release.
LEMMA EndsService ==
    ASSUME LocalInv, resources' = resources, NEW t \in Streams, ~Serving(t)',
           \A s \in Streams \ {t} : KeepsAccount(s)
    PROVE  [Service!Next]_(Service!vars)
<1> USE DEF LocalInv, TypeOK, KeepsAccount, Announced
<1>1. CASE ~Serving(t)
  <2>1. \A s \in Streams : KeepsAccount(s)
      BY <1>1
  <2> QED
      BY <2>1, Unnoticed
<1>2. CASE Serving(t)
  <2>1. \A s \in Streams : Wanted(sub[s]) \subseteq Names
      BY WantedNames
  <2>2. t \in Served /\ Served' = Served \ {t}
      BY <1>2 DEF Served
  <2>3. ServedNames' = [ServedNames EXCEPT ![t] = {}]
      BY DEF ServedNames
  <2>4. Views' = [Views EXCEPT ![t] = Nothing]
      BY DEF Views
  <2>5. Owed' = [Owed EXCEPT ![t] = {}]
      BY <2>1, <2>3 DEF Owed, ServedNames
  <2>6. Dropped' = [Dropped EXCEPT ![t] = {}]
      BY <2>3 DEF Dropped, ServedNames
  <2>7. Service!Release(t)
      BY <2>2, <2>3, <2>4, <2>5, <2>6
      DEF Service!Release, Service!NoStore, Nothing
  <2> QED
      BY <2>7 DEF Service!Next
<1> QED
    BY <1>1, <1>2

\* A step that stores names, and owes them to every stream, is Change.
LEMMA StoresNames ==
    ASSUME LocalInv, LocalInv', NEW names \in SUBSET Names,
           UNCHANGED <<spc, sub, pushVars>>,
           \A n \in Names \ names : resources'[n] = resources[n],
           \A s \in Streams, n \in Names :
               Serving(s) => (Announced(s, n)' <=> Announced(s, n) \/ n \in names)
    PROVE  [Service!Next]_(Service!vars)
<1> USE DEF LocalInv, TypeOK, pushVars, Announced
<1>1. \A s \in Streams : Serving(s)' <=> Serving(s)
    BY DEF Serving
<1>2. \A s \in Streams : Wanted(sub[s]) \subseteq Names
    BY WantedNames
<1>3. UNCHANGED <<Served, ServedNames, Views>>
    BY <1>1 DEF Served, ServedNames, Views
<1>4. Owed' = [s \in Streams |-> Owed[s] \union (names \intersect ServedNames[s])]
    BY <1>2, <1>3 DEF Owed, ServedNames
<1>5. Dropped' = Dropped
    BY <1>3 DEF Dropped
<1>6. Service!Change(names)
    BY <1>3, <1>4, <1>5 DEF Service!Change, Service!Store, Store
<1> QED
    BY <1>6 DEF Service!Next

\* A step of a writer stores names, announces them, or gives up.
LEMMA WriterImplements ==
    ASSUME ServiceInv, ServiceInv', NEW w \in Writers, WriterNext(w)
    PROVE  [Service!Next]_(Service!vars)
<1> DEFINE Goal == [Service!Next]_(Service!vars)
<1> USE ConstantsAssumption DEF ServiceInv, LocalInv, TypeOK, KeepsAccount
<1>1. ASSUME UNCHANGED <<resources, spc, sub, pushVars>>,
             \A s \in Streams, n \in Names :
                 Serving(s) => (Announced(s, n)' <=> Announced(s, n))
      PROVE  Goal
  <2>1. \A s \in Streams : Wanted(sub[s]) \subseteq Names
      BY WantedNames
  <2>2. \A s \in Streams : KeepsAccount(s)
      BY <1>1, <2>1 DEF Serving, pushVars
  <2> QED
      BY <1>1, <2>2, Unnoticed
<1>2. ASSUME NEW batch \in Batches, AddCall(w, batch)
      PROVE  Goal
  <2>1. changed[w] = {}
      BY <1>2 DEF AddCall, CanCall, Settled
  <2>2. \A s \in Streams, n \in Names : Announced(s, n)' <=> Announced(s, n)
      BY <1>2, <2>1 DEF AddCall, CanCall, Announced, Owes
  <2> QED
      BY <1>1, <1>2, <2>2 DEF AddCall, managerVars, clientVars
<1>3. ASSUME NEW batch \in Batches, Replace(w, batch)
      PROVE  Goal
  <2>1. \A s \in Streams, n \in Names :
            Announced(s, n)' <=> Announced(s, n) \/ n \in changed'[w]
      BY <1>3 DEF Replace, CanCall, Announced, Owes
  <2>2. \A n \in Names \ changed'[w] : resources'[n] = resources[n]
      BY <1>3 DEF Replace, Defined
  <2> QED
      BY <1>3, <2>1, <2>2, StoresNames DEF Replace, clientVars
<1>4. ASSUME NEW m \in Names, Delete(w, m)
      PROVE  Goal
  <2>1. \A s \in Streams, n \in Names :
            Announced(s, n)' <=> Announced(s, n) \/ n \in changed'[w]
      BY <1>4 DEF Delete, CanCall, Announced, Owes
  <2>2. \A n \in Names \ changed'[w] : resources'[n] = resources[n]
      BY <1>4 DEF Delete, Store
  <2> QED
      BY <1>4, <2>1, <2>2, StoresNames DEF Delete, clientVars
<1>5. ASSUME NEW m \in Names, AddStore(w, m)
      PROVE  Goal
  <2>1. \A s \in Streams, n \in Names :
            Announced(s, n)' <=> Announced(s, n) \/ n \in {m}
      BY <1>5 DEF AddStore, Announced, Owes
  <2>2. \A n \in Names \ {m} : resources'[n] = resources[n]
      BY <1>5 DEF AddStore, Store
  <2>3. {m} \in SUBSET Names
      OBVIOUS
  <2> QED
      BY <1>5, <2>1, <2>2, <2>3, StoresNames DEF AddStore, clientVars
<1>6. ASSUME NEW m \in Names, AddInvalid(w, m)
      PROVE  Goal
    BY <1>6 DEF AddInvalid, Valid, ValidTodo
<1>7. CASE AddStored(w)
  <2>1. \A s \in Streams, n \in Names : Announced(s, n)' <=> Announced(s, n)
      BY <1>7 DEF AddStored, Announced, Owes
  <2> QED
      BY <1>1, <1>7, <2>1 DEF AddStored, managerVars, clientVars
<1>8. CASE NotifyStart(w)
  <2>1. \A s \in Streams, n \in Names : Announced(s, n)' <=> Announced(s, n)
      BY <1>8 DEF NotifyStart, Announced, Owes
  <2> QED
      BY <1>1, <1>8, <2>1 DEF NotifyStart, clientVars
<1>9. CASE NotifyReturn(w)
  <2>1. \A s \in Streams, n \in Names : Announced(s, n)' <=> Announced(s, n)
      BY <1>9 DEF NotifyReturn, EndNotify, Announced, Owes
  <2> QED
      BY <1>1, <1>9, <2>1 DEF NotifyReturn, clientVars
\* Every stream that is served is registered, so it is still owed the names.
<1>10. CASE NotifyLock(w)
  <2>1. \A s \in Streams, n \in Names :
            Serving(s) => (Announced(s, n)' <=> Announced(s, n))
    <3>1. \A s \in Streams : Serving(s) => s \in sessions
        BY DEF Serving, SendInv, Registered
    <3> QED
        BY <1>10, <3>1 DEF NotifyLock, Announced, Owes
  <2> QED
      BY <1>1, <1>10, <2>1 DEF NotifyLock, clientVars
<1>11. ASSUME NEW t \in Streams, SkipBusy(w, t)
      PROVE  Goal
  <2>1. \A s \in Streams, n \in Names : Announced(s, n)' <=> Announced(s, n)
      BY <1>11 DEF SkipBusy, Announced, Owes
  <2> QED
      BY <1>1, <1>11, <2>1 DEF SkipBusy, managerVars, clientVars
\* A stream that is interested sets out to answer anew; one that is not was
\* not owed any of these names.
<1>12. ASSUME NEW t \in Streams, Deliver(w, t)
       PROVE  Goal
  <2>1. UNCHANGED <<resources, sub, pushVars>>
      BY <1>12 DEF Deliver, managerVars, clientVars
  <2>2. \A s \in Streams \ {t} : spc'[s] = spc[s]
      BY <1>12 DEF Deliver
  <2>3. \A s \in Streams \ {t}, n \in Names : Announced(s, n)' <=> Announced(s, n)
      BY <1>12 DEF Deliver, Announced, Owes
  <2>4. \A s \in Streams \ {t} : KeepsAccount(s)
    <3>1. \A s \in Streams : Wanted(sub[s]) \subseteq Names
        BY WantedNames
    <3> QED
        BY <2>1, <2>2, <2>3, <3>1 DEF Serving, pushVars
  <2>5. CASE ~Serving(t)'
      BY <2>1, <2>4, <2>5, EndsService
  <2>6. CASE Serving(t)'
    <3>1. Serving(t) /\ spc[t] = "loop" /\ ~Interested(t, changed[w])
        BY <1>12, <2>1, <2>6 DEF Deliver, Receives, Serving, pushVars
    <3>2. \A n \in Wanted(sub[t]) : Announced(t, n)' <=> Announced(t, n)
        BY <1>12, <3>1 DEF Deliver, Interested, Announced, Owes
    <3>3. KeepsAccount(t)
        BY <2>1, <2>6, <3>1, <3>2 DEF pushVars
    <3> QED
        BY <2>1, <2>4, <3>3, Unnoticed
  <2> QED
      BY <2>5, <2>6
\* What is still owed to the streams that stay blocked is dropped openly.
<1>13. CASE NotifyTimeout(w)
  <2>1. UNCHANGED <<resources, spc, sub, pushes, sent>>
      BY <1>13 DEF NotifyTimeout, clientVars
  <2>2. \A s \in Streams : Serving(s)' <=> Serving(s)
      BY <2>1 DEF Serving
  <2>3. UNCHANGED <<Served, ServedNames, Views>>
      BY <2>1, <2>2 DEF Served, ServedNames, Views
  <2>4. Dropped' = [s \in Streams |->
                      IF s \in blocked[w]
                      THEN Dropped[s] \union (changed[w] \intersect ServedNames[s])
                      ELSE Dropped[s]]
      BY <1>13, <2>3 DEF NotifyTimeout, Dropped
  <2>5. \A s \in Streams : ServedNames[s] \subseteq Names
      BY WantedNames DEF ServedNames
  <2>6. Owed' \in [Streams -> SUBSET Names]
      BY <2>3, <2>5 DEF Owed
  <2>7. \A s \in Streams, n \in Names :
            /\ Announced(s, n)' => Announced(s, n)
            /\ Announced(s, n) /\ ~Announced(s, n)' =>
                  s \in blocked[w] /\ n \in changed[w]
      BY <1>13 DEF NotifyTimeout, EndNotify, Announced, Owes
  <2>8. \A s \in Streams : /\ Owed'[s] \subseteq Owed[s]
                           /\ Owed[s] \ Owed'[s] \subseteq Dropped'[s]
      BY <2>3, <2>4, <2>5, <2>7 DEF Owed, Announced
  <2>9. Service!GiveUp(blocked[w], changed[w])
      BY <2>1, <2>3, <2>4, <2>6, <2>8 DEF Service!GiveUp
  <2>10. blocked[w] \in SUBSET Streams /\ changed[w] \in SUBSET Names
      OBVIOUS
  <2> QED
      BY <2>9, <2>10 DEF Service!Next
<1> QED
    BY <1>2, <1>3, <1>4, <1>5, <1>6, <1>7, <1>8, <1>9, <1>10, <1>11, <1>12,
       <1>13 DEF WriterNext, AddStep, SendStep

\* A step of a stream answers, narrows, ends its service, or is not noticed.
LEMMA StreamImplements ==
    ASSUME ServiceInv, ServiceInv', NEW t \in Streams, StreamNext(t)
    PROVE  [Service!Next]_(Service!vars)
<1> DEFINE Goal == [Service!Next]_(Service!vars)
<1> USE ConstantsAssumption DEF ServiceInv, LocalInv, TypeOK
<1>1. UNCHANGED <<resources, writerVars>>
    BY DEF StreamNext, RequestNext, Open, Register, LeaveDrained, Hangup,
           CleanupTick, RejectRequest, Acknowledge, AskConfig, Build,
           BuildError, PushAccepted, PushTimeout, Unregister, managerVars
<1>2. \A s \in Streams, n \in Names : Announced(s, n)' <=> Announced(s, n)
    BY <1>1 DEF Announced, Owes, writerVars
<1>3. \A s \in Streams : Wanted(sub[s]) \subseteq Names
    BY WantedNames
<1>4. \A s \in Streams \ {t} :
          /\ spc'[s] = spc[s] /\ sub'[s] = sub[s] /\ pushes'[s] = pushes[s]
          /\ sent'[s] = sent[s] /\ missed'[s] = missed[s]
  <2>1. CASE Open(t) \/ Register(t) \/ LeaveDrained(t) \/ Hangup(t)
             \/ BuildError(t) \/ PushAccepted(t) \/ PushTimeout(t)
      BY <2>1 DEF Open, Register, LeaveDrained, Hangup, BuildError,
                  PushAccepted, PushTimeout, GoTo, clientVars, pushVars
  <2>2. CASE Build(t)
      BY <2>2 DEF Build, GoTo, clientVars
  <2>3. CASE Unregister(t)
      BY <2>3 DEF Unregister, GoTo
  <2>4. CASE \E k \in txs[t] : CleanupTick(t, k)
      BY <2>4 DEF CleanupTick, pushVars
  <2>5. CASE RequestNext(t)
      BY <2>5 DEF RequestNext, RejectRequest, Acknowledge, AskConfig, Learn,
                  GoTo, pushVars
  <2> QED
      BY <2>1, <2>2, <2>3, <2>4, <2>5 DEF StreamNext
<1>5. \A s \in Streams \ {t} : KeepsAccount(s)
    BY <1>2, <1>3, <1>4 DEF KeepsAccount, Serving
<1>6. ASSUME ~Serving(t)' PROVE Goal
    BY <1>1, <1>5, <1>6, EndsService
<1>7. ASSUME Serving(t), Serving(t)', UNCHANGED <<sub, pushVars>> PROVE Goal
  <2>1. KeepsAccount(t)
      BY <1>2, <1>3, <1>7 DEF KeepsAccount, pushVars
  <2> QED
      BY <1>1, <1>5, <2>1, Unnoticed
\* Nothing has been sent before the loop, and nobody is served there.
<1>8. CASE Open(t) \/ Register(t) \/ LeaveDrained(t) \/ Hangup(t)
           \/ BuildError(t) \/ PushTimeout(t) \/ Unregister(t)
  <2>1. ~Serving(t)'
      BY <1>8 DEF Open, Register, LeaveDrained, Hangup, BuildError, PushTimeout,
                  Unregister, GoTo, Serving, Unanswered, clientVars, pushVars
  <2> QED
      BY <1>6, <2>1
<1>9. ASSUME NEW k \in txs[t], CleanupTick(t, k)
      PROVE  Goal
    BY <1>6, <1>7, <1>9 DEF CleanupTick, Serving, pushVars
<1>10. ASSUME NEW names \in Subscriptions, NEW hasNode \in RequestNodes,
              NEW rightType \in BOOLEAN,
              RejectRequest(t, names, hasNode, rightType)
       PROVE  Goal
    BY <1>6, <1>10 DEF RejectRequest, GoTo, Serving
<1>11. ASSUME NEW names \in Subscriptions, NEW hasNode \in RequestNodes,
              NEW nonce \in Nonces(t), AskConfig(t, names, hasNode, nonce)
       PROVE  Goal
    BY <1>6, <1>11 DEF AskConfig, GoTo, Serving
<1>12. ASSUME NEW names \in Subscriptions, NEW hasNode \in RequestNodes,
              NEW nonce \in Nonces(t), Acknowledge(t, names, hasNode, nonce),
              Serving(t)
       PROVE  Goal
  <2>1. Wanted(sub'[t]) \subseteq Wanted(sub[t])
      BY <1>12, AcknowledgedNames DEF Acknowledge
  <2>2. \A s \in Streams : Serving(s)' <=> Serving(s)
      BY <1>12 DEF Acknowledge, Serving, pushVars
  <2>3. UNCHANGED <<Served, Views>>
      BY <1>12, <2>2 DEF Served, Views, Acknowledge, pushVars
  <2>4. ServedNames' = [ServedNames EXCEPT ![t] = Wanted(sub'[t])]
      BY <1>4, <1>12, <2>2 DEF ServedNames
  <2>5. Wanted(sub'[t]) \subseteq ServedNames[t]
      BY <1>12, <2>1 DEF ServedNames
  <2>6. Owed' = [Owed EXCEPT ![t] = @ \intersect Wanted(sub'[t])]
    <3>1. \A s \in Streams \ {t} : Owed'[s] = Owed[s]
      <4> SUFFICES ASSUME NEW s \in Streams \ {t} PROVE Owed'[s] = Owed[s]
          OBVIOUS
      <4>1. ServedNames'[s] = ServedNames[s] /\ ServedNames[s] \subseteq Names
          BY <1>3, <2>4 DEF ServedNames
      <4> QED
          BY <1>2, <4>1 DEF Owed, Announced
    <3>2. Owed'[t] = {n \in Wanted(sub'[t]) : Announced(t, n)'}
        BY <2>4 DEF Owed, ServedNames, Announced
    <3>3. Owed[t] = {n \in ServedNames[t] : Announced(t, n)}
        BY DEF Owed, Announced
    <3>4. \A n \in ServedNames[t] : n \in Names
        BY <1>3 DEF ServedNames
    <3>5. \A n \in Wanted(sub'[t]) : Announced(t, n)' <=> Announced(t, n)
        BY <1>2, <2>5, <3>4
    <3>6. Owed'[t] = Owed[t] \intersect Wanted(sub'[t])
        BY <2>5, <3>2, <3>3, <3>5
    <3> QED
        BY <3>1, <3>6 DEF Owed
  <2>7. Dropped' = [Dropped EXCEPT ![t] = @ \intersect Wanted(sub'[t])]
    <3>1. missed' = missed
        BY <1>12 DEF Acknowledge, pushVars
    <3>2. \A s \in Streams \ {t} : Dropped'[s] = Dropped[s]
        BY <2>4, <3>1 DEF Dropped, ServedNames
    <3>3. Dropped'[t] = missed[t] \intersect Wanted(sub'[t])
        BY <2>4, <3>1 DEF Dropped, ServedNames
    <3>4. Dropped[t] = missed[t] \intersect ServedNames[t]
        BY DEF Dropped
    <3>5. Dropped'[t] = Dropped[t] \intersect Wanted(sub'[t])
        BY <2>5, <3>3, <3>4
    <3> QED
        BY <3>2, <3>5 DEF Dropped
  <2>8. Service!Narrow(t, Wanted(sub'[t]))
      BY <1>1, <2>3, <2>4, <2>5, <2>6, <2>7 DEF Service!Narrow
  <2>9. Wanted(sub'[t]) \in SUBSET Names
      BY <1>3, <2>1
  <2> QED
      BY <2>8, <2>9 DEF Service!Next
\* The response is a snapshot: one critical section reads all of it.
<1>13. CASE Build(t)
  <2> DEFINE w == Wanted(sub[t])
  <2>1. UNCHANGED sub /\ Serving(t)' /\ ~Serving(t)
      BY <1>13 DEF Build, GoTo, Serving, clientVars
  <2>2. Served' = Served \union {t} /\ t \notin Served
      BY <1>4, <2>1 DEF Served, Serving
  <2>3. ServedNames' = [ServedNames EXCEPT ![t] = w]
      BY <1>4, <2>1 DEF ServedNames, Serving
  <2>4. Views' = [Views EXCEPT ![t] = Service!Snapshot(w)]
    <3>1. sent'[t] = Service!Snapshot(w)
        BY <1>13 DEF Build, Service!Snapshot
    <3> QED
        BY <1>4, <2>1, <3>1 DEF Views, Serving
  <2>5. Owed' = [Owed EXCEPT ![t] = Owed'[t]] /\ Owed'[t] \in SUBSET w
    <3>1. \A s \in Streams \ {t} : Owed'[s] = Owed[s]
      <4> SUFFICES ASSUME NEW s \in Streams \ {t} PROVE Owed'[s] = Owed[s]
          OBVIOUS
      <4>1. ServedNames'[s] = ServedNames[s] /\ ServedNames[s] \subseteq Names
          BY <1>3, <2>3 DEF ServedNames
      <4> QED
          BY <1>2, <4>1 DEF Owed, Announced
    <3>2. Owed'[t] \in SUBSET w
        BY <2>3 DEF Owed, ServedNames
    <3>3. DOMAIN Owed = Streams /\ DOMAIN Owed' = Streams
        BY DEF Owed
    <3>4. Owed' = [s \in Streams |-> Owed'[s]] /\ Owed = [s \in Streams |-> Owed[s]]
        BY DEF Owed
    <3> QED
        BY <3>1, <3>2, <3>3, <3>4
  <2>6. Dropped' = Dropped
    <3>1. Dropped[t] = {} /\ Dropped'[t] = {}
        BY <1>13, <2>1 DEF Dropped, ServedNames, Build
    <3> QED
        BY <1>4, <2>3, <3>1 DEF Dropped
  <2>7. Service!Answer(t, w)
      BY <1>1, <2>2, <2>3, <2>4, <2>5, <2>6 DEF Service!Answer
  <2>8. w \in SUBSET Names
      BY <1>3
  <2> QED
      BY <2>7, <2>8 DEF Service!Next
<1>14. CASE PushAccepted(t)
  <2>1. UNCHANGED <<sub, pushVars>> /\ (Serving(t)' <=> Serving(t))
      BY <1>14 DEF PushAccepted, GoTo, Serving, pushVars
  <2> QED
      BY <1>6, <1>7, <2>1
<1>15. ASSUME NEW names \in Subscriptions, NEW hasNode \in RequestNodes,
              NEW nonce \in Nonces(t), Acknowledge(t, names, hasNode, nonce)
       PROVE  Goal
  <2>1. CASE Serving(t)
      BY <1>12, <1>15, <2>1
  <2>2. CASE ~Serving(t)
      BY <1>6, <1>15, <2>2 DEF Acknowledge, Serving, pushVars
  <2> QED
      BY <2>1, <2>2
<1> QED
    BY <1>8, <1>9, <1>10, <1>11, <1>13, <1>14, <1>15 DEF StreamNext, RequestNext

\* So does every step.
LEMMA NextImplements ==
    ASSUME ServiceInv, ServiceInv', [Next]_vars
    PROVE  [Service!Next]_(Service!vars)
<1>1. ASSUME NEW w \in Writers, WriterNext(w)
      PROVE  [Service!Next]_(Service!vars)
    BY <1>1, WriterImplements
<1>2. ASSUME NEW s \in Streams, StreamNext(s)
      PROVE  [Service!Next]_(Service!vars)
    BY <1>2, StreamImplements
<1>3. ASSUME Drain \/ UNCHANGED vars
      PROVE  [Service!Next]_(Service!vars)
  <2>1. UNCHANGED <<resources, wpc, changed, unsent, blocked, spc, sub,
                    pushes, sent, missed>>
      BY <1>3 DEF Drain, vars, managerVars, writerVars, clientVars, pushVars
  <2>2. \A s \in Streams : KeepsAccount(s)
      BY <2>1 DEF KeepsAccount, Serving, Announced, Owes
  <2> QED
      BY <2>1, <2>2, Unnoticed DEF ServiceInv
<1> QED
    BY <1>1, <1>2, <1>3 DEF Next

\* The manager, with its goroutines, mutexes, channels and timeouts, is an
\* implementation of the service, provided that callers pass resources that
\* validate and that requests carry a node id.
THEOREM ManagerImplementsService ==
    ASSUME ValidCalls, NodeKnown
    PROVE  Spec => ImplementsService
<1>1. Init => Service!Init
    BY NobodyServed DEF Init, Serving
<1>2. ServiceInv /\ ServiceInv' /\ [Next]_vars
          => [Service!Next]_(Service!vars)
    BY NextImplements
<1>3. QED
    BY <1>1, <1>2, ServiceInvariant, PTL DEF Spec, ImplementsService, Service!Spec
=============================================================================
