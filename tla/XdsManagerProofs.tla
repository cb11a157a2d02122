-------------------------- MODULE XdsManagerProofs --------------------------
(***************************************************************************)
(* Theorems about XdsManager, for any sets of names, values, writers and   *)
(* streams.                                                                *)
(***************************************************************************)
EXTENDS XdsManager, TLAPS

\* What snapshot looks up are names of resources.
LEMMA WantedNames == ASSUME NEW q \in Seq(Names) PROVE Wanted(q) \subseteq Names
BY DEF Wanted

\* A manager without resources is one of its stores.
LEMMA NothingInStore == Nothing \in Store
BY DEF Nothing, Store

\* NewManager makes a manager of the right type.
LEMMA InitTypeOK == Init => TypeOK
<1> SUFFICES ASSUME Init PROVE TypeOK
    OBVIOUS
<1>1. <<>> \in Seq(Names)
    OBVIOUS
<1> QED
    BY <1>1, NothingInStore DEF Init, TypeOK

\* Every step keeps the types; one case for each action.
LEMMA NextTypeOK == TypeOK /\ [Next]_vars => TypeOK'
<1> SUFFICES ASSUME TypeOK, [Next]_vars PROVE TypeOK'
    OBVIOUS
<1> USE ConstantsAssumption DEF TypeOK
<1>1. ASSUME NEW w \in Writers, NEW batch \in Batches, AddCall(w, batch)
      PROVE  TypeOK'
    BY <1>1 DEF AddCall, managerVars, clientVars, pushVars
<1>2. ASSUME NEW w \in Writers, NEW batch \in Batches, Replace(w, batch)
      PROVE  TypeOK'
    BY <1>2 DEF Replace, Defined, clientVars, pushVars
<1>3. ASSUME NEW w \in Writers, NEW n \in Names, Delete(w, n)
      PROVE  TypeOK'
    BY <1>3 DEF Delete, Store, clientVars, pushVars
<1>4. ASSUME NEW w \in Writers, NEW n \in Names, AddStore(w, n)
      PROVE  TypeOK'
    BY <1>4 DEF AddStore, Store, clientVars, pushVars
<1>5. ASSUME NEW w \in Writers, NEW n \in Names, AddInvalid(w, n)
      PROVE  TypeOK'
    BY <1>5, NothingInStore DEF AddInvalid, managerVars, clientVars, pushVars
<1>6. ASSUME NEW w \in Writers, AddStored(w)
      PROVE  TypeOK'
    BY <1>6 DEF AddStored, managerVars, clientVars, pushVars
<1>7. ASSUME NEW w \in Writers, NotifyStart(w)
      PROVE  TypeOK'
  <2>1. version' \in Nat
      BY <1>7 DEF NotifyStart, NextVersion
  <2>2. wpc' \in [Writers -> {"idle", "add", "notify", "lock", "send"}]
      BY <1>7 DEF NotifyStart
  <2> QED
      BY <1>7, <2>1, <2>2 DEF NotifyStart, clientVars, pushVars
<1>8. ASSUME NEW w \in Writers, NotifyLock(w)
      PROVE  TypeOK'
    BY <1>8 DEF NotifyLock, clientVars, pushVars
<1>9. ASSUME NEW w \in Writers, NEW s \in Streams, Deliver(w, s)
      PROVE  TypeOK'
    BY <1>9 DEF Deliver, managerVars, clientVars, pushVars
<1>10. ASSUME NEW w \in Writers, NEW s \in Streams, SkipBusy(w, s)
       PROVE  TypeOK'
    BY <1>10 DEF SkipBusy, managerVars, clientVars, pushVars
<1>11. ASSUME NEW w \in Writers, NotifyTimeout(w)
       PROVE  TypeOK'
    BY <1>11 DEF NotifyTimeout, EndNotify, clientVars
<1>12. ASSUME NEW w \in Writers, NotifyReturn(w)
       PROVE  TypeOK'
    BY <1>12 DEF NotifyReturn, EndNotify, clientVars, pushVars
<1>13. ASSUME NEW s \in Streams, Open(s)
       PROVE  TypeOK'
    BY <1>13 DEF Open, GoTo, managerVars, writerVars, clientVars, pushVars
<1>14. ASSUME NEW s \in Streams, Register(s)
       PROVE  TypeOK'
    BY <1>14 DEF Register, GoTo, writerVars, clientVars, pushVars
<1>15. ASSUME NEW s \in Streams, LeaveDrained(s) \/ Hangup(s)
       PROVE  TypeOK'
    BY <1>15 DEF LeaveDrained, Hangup, GoTo, managerVars, writerVars,
                 clientVars, pushVars
<1>16. ASSUME NEW s \in Streams, NEW k \in txs[s], CleanupTick(s, k)
       PROVE  TypeOK'
    BY <1>16 DEF CleanupTick, managerVars, writerVars, pushVars
<1>17. ASSUME NEW s \in Streams, NEW names \in Subscriptions,
              NEW hasNode \in RequestNodes, Learn(s, names, hasNode)
       PROVE  /\ named' \in [Streams -> BOOLEAN]
              /\ sub' \in [Streams -> Seq(Names)]
    BY <1>17 DEF Learn, SubAfter
<1>18. ASSUME NEW s \in Streams, NEW names \in Subscriptions,
              NEW hasNode \in RequestNodes, NEW rightType \in BOOLEAN,
              RejectRequest(s, names, hasNode, rightType)
       PROVE  TypeOK'
    BY <1>17, <1>18 DEF RejectRequest, GoTo, managerVars, writerVars, pushVars
<1>19. ASSUME NEW s \in Streams, NEW names \in Subscriptions,
              NEW hasNode \in RequestNodes, NEW nonce \in Nonces(s),
              Acknowledge(s, names, hasNode, nonce)
       PROVE  TypeOK'
    BY <1>17, <1>19 DEF Acknowledge, managerVars, writerVars, pushVars
<1>20. ASSUME NEW s \in Streams, NEW names \in Subscriptions,
              NEW hasNode \in RequestNodes, NEW nonce \in Nonces(s),
              AskConfig(s, names, hasNode, nonce)
       PROVE  TypeOK'
    BY <1>17, <1>20 DEF AskConfig, GoTo, managerVars, writerVars, pushVars
<1>21. ASSUME NEW s \in Streams, Build(s)
       PROVE  TypeOK'
    BY <1>21 DEF Build, GoTo, Store, managerVars, writerVars, clientVars
<1>22. ASSUME NEW s \in Streams, BuildError(s) \/ PushTimeout(s)
       PROVE  TypeOK'
    BY <1>22 DEF BuildError, PushTimeout, GoTo, managerVars, writerVars,
                 clientVars, pushVars
<1>23. ASSUME NEW s \in Streams, PushAccepted(s)
       PROVE  TypeOK'
    BY <1>23 DEF PushAccepted, GoTo, managerVars, writerVars, pushVars
<1>24. ASSUME NEW s \in Streams, Unregister(s)
       PROVE  TypeOK'
  <2>1. <<>> \in Seq(Names)
      OBVIOUS
  <2> QED
      BY <1>24, <2>1, NothingInStore DEF Unregister, GoTo, writerVars
<1>25. CASE Drain
    BY <1>25 DEF Drain, writerVars, clientVars, pushVars
<1>26. CASE UNCHANGED vars
    BY <1>26 DEF vars, managerVars, writerVars, clientVars, pushVars
<1> HIDE DEF TypeOK
<1>27. ASSUME NEW w \in Writers, WriterNext(w)
       PROVE  TypeOK'
    BY <1>1, <1>2, <1>3, <1>4, <1>5, <1>6, <1>7, <1>8, <1>9, <1>10, <1>11,
       <1>12, <1>27 DEF WriterNext, AddStep, SendStep
<1>28. ASSUME NEW s \in Streams, StreamNext(s)
       PROVE  TypeOK'
    BY <1>13, <1>14, <1>15, <1>16, <1>18, <1>19, <1>20, <1>21, <1>22, <1>23,
       <1>24, <1>28 DEF StreamNext, RequestNext
<1> QED
    BY <1>25, <1>26, <1>27, <1>28 DEF Next

\* Type correctness: in particular a snapshot only ever holds managed names,
\* and the version is a natural number, whatever the clients send.
THEOREM TypeCorrect == Spec => []TypeOK
<1>1. QED
    BY InitTypeOK, NextTypeOK, PTL DEF Spec

-----------------------------------------------------------------------------
(***************************************************************************)
(* The discipline of sessionsMu, and what it gives: notify never sends on  *)
(* a closed channel.                                                       *)
(***************************************************************************)

\* The writer that sends is the one that holds the mutex.
Locking == \A w \in Writers : wpc[w] = "send" <=> sessionsMu = w

\* A stream's channel is in Manager.sessions from Register to Unregister.
Registered ==
    \A s \in Streams :
        s \in sessions <=> spc[s] \in {"loop", "build", "push", "exit"}

\* Only a writer in its critical section has streams to reach, all of them
\* registered.
Recipients ==
    \A w \in Writers :
        unsent[w] \union blocked[w] \subseteq
            IF wpc[w] = "send" THEN sessions ELSE {}

\* Together they are inductive, none of them is alone.
SendInv == TypeOK /\ Locking /\ Registered /\ Recipients

\* Nobody holds the mutex and no stream is registered at first.
LEMMA InitSendInv == Init => SendInv
BY InitTypeOK, ConstantsAssumption
DEF Init, SendInv, Locking, Registered, Recipients

\* Every step keeps the discipline: streams come and go only while no writer
\* sends, and a writer takes the streams it has to reach under the mutex.
LEMMA NextSendInv == SendInv /\ [Next]_vars => SendInv'
<1> SUFFICES ASSUME SendInv, [Next]_vars
             PROVE  Locking' /\ Registered' /\ Recipients'
    BY NextTypeOK DEF SendInv
<1> DEFINE Goal == Locking' /\ Registered' /\ Recipients'
<1> USE ConstantsAssumption DEF SendInv, TypeOK, Locking, Registered, Recipients
\* A call, up to the point where it asks for the mutex.
<1>1. ASSUME NEW w \in Writers, NEW batch \in Batches,
             AddCall(w, batch) \/ Replace(w, batch)
      PROVE  Goal
    BY <1>1 DEF AddCall, Replace, CanCall, managerVars
<1>2. ASSUME NEW w \in Writers, NEW n \in Names,
             Delete(w, n) \/ AddStore(w, n) \/ AddInvalid(w, n)
      PROVE  Goal
    BY <1>2 DEF Delete, AddStore, AddInvalid, CanCall, managerVars
<1>3. ASSUME NEW w \in Writers, AddStored(w)
      PROVE  Goal
    BY <1>3 DEF AddStored, managerVars
<1>4. ASSUME NEW w \in Writers, NotifyStart(w)
      PROVE  Goal
    BY <1>4 DEF NotifyStart
\* The critical section of notify.
<1>5. ASSUME NEW w \in Writers, NotifyLock(w)
      PROVE  Goal
    BY <1>5 DEF NotifyLock, MayLock
<1>6. ASSUME NEW w \in Writers, NEW s \in Streams, Deliver(w, s)
      PROVE  Goal
    BY <1>6 DEF Deliver, Receives, managerVars
<1>7. ASSUME NEW w \in Writers, NEW s \in Streams, SkipBusy(w, s)
      PROVE  Goal
    BY <1>7 DEF SkipBusy, managerVars
<1>8. ASSUME NEW w \in Writers, NotifyTimeout(w) \/ NotifyReturn(w)
      PROVE  Goal
  <2>1. /\ wpc[w] = "send" /\ sessionsMu' = Nobody
        /\ wpc' = [wpc EXCEPT ![w] = "idle"]
        /\ UNCHANGED <<sessions, spc>>
      BY <1>8 DEF NotifyTimeout, NotifyReturn, EndNotify
  <2>2. Locking'
      BY <2>1
  <2>3. Registered'
      BY <2>1
  <2>4. Recipients'
    <3>1. unsent' = unsent /\ unsent[w] = {}
        BY <1>8 DEF NotifyTimeout, NotifyReturn
    <3>2. blocked' = [blocked EXCEPT ![w] = {}]
        BY <1>8 DEF NotifyTimeout, NotifyReturn
    <3> QED
        BY <2>1, <3>1, <3>2
  <2> QED
      BY <2>2, <2>3, <2>4
\* A stream comes and goes while nobody holds the mutex.
<1>9. ASSUME NEW s \in Streams, Open(s)
      PROVE  Goal
    BY <1>9 DEF Open, GoTo, managerVars, writerVars
<1>10. ASSUME NEW s \in Streams, Register(s) \/ Unregister(s)
       PROVE  Goal
  <2>1. sessionsMu = Nobody /\ UNCHANGED <<sessionsMu, writerVars>>
      BY <1>10 DEF Register, Unregister, MayLock
  <2>2. Registered'
    <3>1. CASE Register(s)
        BY <3>1 DEF Register, GoTo
    <3>2. CASE Unregister(s)
        BY <3>2 DEF Unregister, GoTo
    <3> QED
        BY <1>10, <3>1, <3>2
  <2>3. Locking'
      BY <2>1 DEF writerVars
  <2>4. \A w \in Writers : wpc[w] # "send"
      BY <2>1
  <2>5. Recipients'
      BY <2>1, <2>4 DEF writerVars
  <2> QED
      BY <2>2, <2>3, <2>5
<1>11. ASSUME NEW s \in Streams, LeaveDrained(s) \/ Hangup(s) \/ Build(s)
                \/ BuildError(s) \/ PushAccepted(s) \/ PushTimeout(s)
       PROVE  Goal
  <2>1. /\ UNCHANGED <<sessionsMu, sessions, writerVars>>
        /\ spc[s] \in {"loop", "build", "push"}
        /\ spc' = [spc EXCEPT ![s] = spc'[s]]
        /\ spc'[s] \in {"loop", "push", "exit"}
      BY <1>11 DEF LeaveDrained, Hangup, Build, BuildError, PushAccepted,
                   PushTimeout, GoTo, managerVars
  <2> QED
      BY <2>1 DEF writerVars
<1>12. ASSUME NEW s \in Streams, RequestNext(s)
       PROVE  Goal
  <2>1. /\ UNCHANGED <<sessionsMu, sessions, writerVars>>
        /\ spc[s] = "loop"
        /\ \/ spc' = spc
           \/ spc' = [spc EXCEPT ![s] = "build"]
           \/ spc' = [spc EXCEPT ![s] = "exit"]
      BY <1>12 DEF RequestNext, RejectRequest, Acknowledge, AskConfig, GoTo,
                   managerVars
  <2> QED
      BY <2>1 DEF writerVars
<1>13. ASSUME NEW s \in Streams, NEW k \in txs[s], CleanupTick(s, k)
       PROVE  Goal
    BY <1>13 DEF CleanupTick, managerVars, writerVars
<1>14. CASE Drain
    BY <1>14 DEF Drain, writerVars
<1>15. CASE UNCHANGED vars
    BY <1>15 DEF vars, managerVars, writerVars
<1> HIDE DEF SendInv, TypeOK, Locking, Registered, Recipients, Goal
<1>16. ASSUME NEW w \in Writers, WriterNext(w)
       PROVE  Goal
    BY <1>1, <1>2, <1>3, <1>4, <1>5, <1>6, <1>7, <1>8, <1>16
    DEF WriterNext, AddStep, SendStep
<1>17. ASSUME NEW s \in Streams, StreamNext(s)
       PROVE  Goal
    BY <1>9, <1>10, <1>11, <1>12, <1>13, <1>17 DEF StreamNext
<1> QED
    BY <1>14, <1>15, <1>16, <1>17 DEF Next, Goal

\* sessionsMu is held by exactly the writer that sends, its recipients are
\* registered, and a stream is registered while it runs.
THEOREM SendInvariant == Spec => []SendInv
<1>1. QED
    BY InitSendInv, NextSendInv, PTL DEF Spec

\* notify only sends to channels that are open: the panic of a send on a
\* closed channel cannot happen, for any number of writers and streams.
THEOREM SendSafe == Spec => []NoSendOnClosed
<1>1. SendInv => NoSendOnClosed
    BY DEF SendInv, TypeOK, Registered, Recipients, NoSendOnClosed
<1>2. QED
    BY <1>1, SendInvariant, PTL

\* Two writers are never both inside the critical section of notify.
THEOREM OneSender ==
    Spec => [](\A v, w \in Writers :
                 wpc[v] = "send" /\ wpc[w] = "send" => v = w)
<1>1. SendInv => \A v, w \in Writers :
                   wpc[v] = "send" /\ wpc[w] = "send" => v = w
    BY DEF SendInv, Locking
<1>2. QED
    BY <1>1, SendInvariant, PTL
=============================================================================
