-------------------------- MODULE StreamGRPCProofs --------------------------
(***************************************************************************)
(* Theorems about StreamGRPC: what was proved of the manager holds in      *)
(* every process behind gRPC, every response that Stream takes for pushed  *)
(* is under way, pushes are paid for by causes, and a version that the     *)
(* client has accepted stands for what it says, across restarts.           *)
(***************************************************************************)
EXTENDS StreamGRPC, XdsManagerContentProofs, XdsManagerServiceProofs,
        FiniteSetTheorems

-----------------------------------------------------------------------------
(***************************************************************************)
(* Nonces under way, as four queues: the request in the receiver's hand,   *)
(* the requests before it, the responses that wait for the client, and the *)
(* response in the sender's hand.                                          *)
(***************************************************************************)

NoncesOf(responses) == {m.nonce : m \in Elements(responses)}

Below(A, B) == \A a \in A, b \in B : a < b

Ascending(q) == \A i, j \in DOMAIN q : i < j => q[i] < q[j]

AscendingNonces(q) == \A i, j \in DOMAIN q : i < j => q[i].nonce < q[j].nonce

\* Answers come back in the order of the responses: no nonce is twice under
\* way, and the oldest is the next to arrive.
InOrder(asked, asking, told, telling) ==
    /\ Ascending(asking) /\ AscendingNonces(told)
    /\ Below(Elements(asked), Elements(asking))
    /\ Below(Elements(asked), NoncesOf(told))
    /\ Below(Elements(asked), NoncesOf(telling))
    /\ Below(Elements(asking), NoncesOf(told))
    /\ Below(Elements(asking), NoncesOf(telling))
    /\ Below(NoncesOf(told), NoncesOf(telling))

\* A goroutine has one message in its hand at most.
OneInHand(s) == Len(inHand[s]) <= 1 /\ Len(outHand[s]) <= 1

Queued(s) == InOrder(inHand[s], uplink[s], downlink[s], outHand[s])

\* A nonce under way is that of a response that has been built, and not that
\* of the response that waits for the sender.
NoncesKnown(s) ==
    \A n \in UnderWay(s) :
        /\ spc[s] \notin {"off", "done"} => n <= pushes[s]
        /\ spc[s] = "push" => n < pushes[s]

\* Nothing is under way before the stream is opened, and nothing is in
\* flight before its loop.
NotBegun(s) ==
    /\ spc[s] = "off" => /\ inHand[s] = <<>> /\ uplink[s] = <<>>
                         /\ downlink[s] = <<>> /\ outHand[s] = <<>>
    /\ spc[s] \in {"off", "opening"} => txs[s] = {} /\ pushes[s] = 0

\* What InFlightAccounted says of one stream.
InFlight(s) ==
    link[s] = "up" /\ spc[s] \in {"loop", "build", "push"}
        => txs[s] \subseteq UnderWay(s)

\* The client of CDS names no resources.
Wildcard(s) == sub[s] = <<>>

Flow(s) ==
    /\ OneInHand(s) /\ Queued(s) /\ NoncesKnown(s) /\ NotBegun(s)
    /\ InFlight(s) /\ Wildcard(s) /\ IsFiniteSet(txs[s])

FlowInv == SessionTypeOK /\ \A s \in Streams : Flow(s)

-----------------------------------------------------------------------------
(***************************************************************************)
(* Sequences: what a message moves from one queue to another changes.      *)
(***************************************************************************)

\* A queue with one message holds that message.
LEMMA ElementsOne ==
    /\ Elements(<<>>) = {}
    /\ \A x : Elements(<<x>>) = {x}
BY DEF Elements

\* The head leaves the elements of the tail.
LEMMA ElementsHead ==
    ASSUME NEW S, NEW q \in Seq(S), q # <<>>
    PROVE  /\ Head(q) \in S /\ Tail(q) \in Seq(S)
           /\ Elements(q) = {Head(q)} \union Elements(Tail(q))
<1>1. Len(q) \in Nat \ {0} /\ DOMAIN q = 1 .. Len(q)
    OBVIOUS
<1>2. /\ DOMAIN Tail(q) = 1 .. Len(q) - 1
      /\ \A i \in 1 .. Len(q) - 1 : Tail(q)[i] = q[i + 1]
    BY <1>1
<1>3. Head(q) = q[1]
    OBVIOUS
<1>4. ASSUME NEW i \in DOMAIN q
      PROVE  i = 1 \/ (i - 1 \in DOMAIN Tail(q) /\ q[i] = Tail(q)[i - 1])
    BY <1>1, <1>2
<1>5. Elements(q) \subseteq {Head(q)} \union Elements(Tail(q))
    BY <1>3, <1>4 DEF Elements
<1>6. {Head(q)} \union Elements(Tail(q)) \subseteq Elements(q)
  <2>1. Head(q) \in Elements(q)
      BY <1>1, <1>3 DEF Elements
  <2>2. ASSUME NEW i \in DOMAIN Tail(q) PROVE Tail(q)[i] \in Elements(q)
      BY <1>1, <1>2 DEF Elements
  <2> QED
      BY <2>1, <2>2 DEF Elements
<1> QED
    BY <1>1, <1>3, <1>5, <1>6

\* The last element of a queue is that of its tail, or its only one.
LEMMA LastOfTail ==
    ASSUME NEW S, NEW q \in Seq(S), q # <<>>
    PROVE  \/ Tail(q) = <<>> /\ q[Len(q)] = Head(q)
           \/ Tail(q) # <<>> /\ Tail(q)[Len(Tail(q))] = q[Len(q)]
<1>1. Len(q) \in Nat \ {0} /\ Tail(q) \in Seq(S) /\ Len(Tail(q)) = Len(q) - 1
    OBVIOUS
<1>2. \A x \in Seq(S) : x = <<>> <=> Len(x) = 0
    OBVIOUS
<1>3. CASE Len(q) = 1
  <2>1. Len(Tail(q)) = 0
      BY <1>1, <1>3
  <2>2. Tail(q) = <<>>
      BY <1>1, <1>2, <2>1
  <2> QED
      BY <1>3, <2>2
<1>4. CASE Len(q) # 1
  <2>1. Len(q) - 1 \in 1 .. Len(q) - 1
      BY <1>1, <1>4
  <2>2. Tail(q)[Len(q) - 1] = q[Len(q) - 1 + 1]
      BY <2>1
  <2>3. Tail(q) # <<>>
    <3>1. Len(Tail(q)) # 0
        BY <1>1, <1>4
    <3> QED
        BY <1>1, <1>2, <3>1
  <2>4. Len(q) - 1 + 1 = Len(q)
      BY <1>1
  <2> QED
      BY <1>1, <2>2, <2>3, <2>4
<1> QED
    BY <1>3, <1>4

\* A message that is appended joins the elements.
LEMMA ElementsAppend ==
    ASSUME NEW S, NEW q \in Seq(S), NEW x \in S
    PROVE  /\ Append(q, x) \in Seq(S)
           /\ q \o <<x>> = Append(q, x)
           /\ Elements(Append(q, x)) = Elements(q) \union {x}
<1>1. /\ Len(q) \in Nat /\ DOMAIN q = 1 .. Len(q)
      /\ DOMAIN Append(q, x) = 1 .. Len(q) + 1
      /\ Append(q, x)[Len(q) + 1] = x
      /\ \A i \in 1 .. Len(q) : Append(q, x)[i] = q[i]
    OBVIOUS
<1>2. Elements(Append(q, x)) \subseteq Elements(q) \union {x}
    BY <1>1 DEF Elements
<1>3. Elements(q) \union {x} \subseteq Elements(Append(q, x))
    BY <1>1 DEF Elements
<1>4. q \o <<x>> = Append(q, x)
    OBVIOUS
<1> QED
    BY <1>2, <1>3, <1>4

\* A hand that is not empty holds one message.
LEMMA HandHoldsOne ==
    ASSUME NEW S, NEW q \in Seq(S), q # <<>>, Len(q) <= 1
    PROVE  q = <<Head(q)>> /\ Head(q) \in S
<1>1. Len(q) \in Nat /\ DOMAIN q = 1 .. Len(q)
    OBVIOUS
<1>2. Len(q) # 0
    OBVIOUS
<1>3. Len(q) = 1 /\ Head(q) = q[1] /\ q[1] \in S
    BY <1>1, <1>2
<1> QED
    BY <1>3

\* The elements of a queue are of its type, and finitely many.
LEMMA ElementsType ==
    ASSUME NEW S, NEW q \in Seq(S)
    PROVE  Elements(q) \subseteq S /\ IsFiniteSet(Elements(q))
<1>1. DOMAIN q = 1 .. Len(q) /\ Len(q) \in Nat
    OBVIOUS
<1>2. IsFiniteSet(DOMAIN q)
    BY <1>1, FS_Interval
<1> DEFINE f == [i \in DOMAIN q |-> q[i]]
<1>3. Elements(q) \subseteq S
    BY <1>1 DEF Elements
<1>4. f \in Surjection(DOMAIN q, Elements(q))
    BY DEF Elements, Surjection
<1> HIDE DEF f
<1> QED
    BY <1>2, <1>3, <1>4, FS_Surjection

\* The nonces of a queue of responses are numbers, and finitely many.
LEMMA NoncesType ==
    ASSUME NEW q \in Seq(Response)
    PROVE  NoncesOf(q) \subseteq Nat /\ IsFiniteSet(NoncesOf(q))
<1>1. Elements(q) \subseteq Response /\ IsFiniteSet(Elements(q))
    BY ElementsType
<1> DEFINE f == [m \in Elements(q) |-> m.nonce]
<1>2. f \in Surjection(Elements(q), NoncesOf(q))
    BY DEF NoncesOf, Surjection
<1>3. NoncesOf(q) \subseteq Nat
    BY <1>1 DEF NoncesOf, Response
<1> HIDE DEF f
<1> QED
    BY <1>1, <1>2, <1>3, FS_Surjection

-----------------------------------------------------------------------------
(***************************************************************************)
(* The order of the nonces under way, as messages move on.                 *)
(***************************************************************************)

\* A sequence in ascending order: its head is below its tail.
LEMMA AscendingHead ==
    ASSUME NEW q \in Seq(Nat), q # <<>>, Ascending(q)
    PROVE  Ascending(Tail(q)) /\ Below({Head(q)}, Elements(Tail(q)))
<1>1. /\ Len(q) \in Nat \ {0} /\ DOMAIN q = 1 .. Len(q) /\ Head(q) = q[1]
      /\ DOMAIN Tail(q) = 1 .. Len(q) - 1
      /\ \A i \in 1 .. Len(q) - 1 : Tail(q)[i] = q[i + 1]
      /\ \A i \in 1 .. Len(q) : q[i] \in Nat
    OBVIOUS
<1>2. Ascending(Tail(q))
    BY <1>1 DEF Ascending
<1>3. Below({Head(q)}, Elements(Tail(q)))
    BY <1>1 DEF Ascending, Below, Elements
<1> QED
    BY <1>2, <1>3

\* The same of responses, by their nonces.
LEMMA AscendingNoncesHead ==
    ASSUME NEW q \in Seq(Response), q # <<>>, AscendingNonces(q)
    PROVE  AscendingNonces(Tail(q)) /\ Below({Head(q).nonce}, NoncesOf(Tail(q)))
<1>1. /\ Len(q) \in Nat \ {0} /\ DOMAIN q = 1 .. Len(q) /\ Head(q) = q[1]
      /\ DOMAIN Tail(q) = 1 .. Len(q) - 1
      /\ \A i \in 1 .. Len(q) - 1 : Tail(q)[i] = q[i + 1]
    OBVIOUS
<1>2. AscendingNonces(Tail(q))
    BY <1>1 DEF AscendingNonces
<1>3. Below({Head(q).nonce}, NoncesOf(Tail(q)))
    BY <1>1 DEF AscendingNonces, Below, NoncesOf, Elements
<1> QED
    BY <1>2, <1>3

\* The receiver takes the oldest request.
LEMMA RecvInOrder ==
    ASSUME NEW asking \in Seq(Nat), asking # <<>>, NEW told, NEW telling,
           InOrder(<<>>, asking, told, telling)
    PROVE  InOrder(<<Head(asking)>>, Tail(asking), told, telling)
<1>1. /\ Elements(<<Head(asking)>>) = {Head(asking)}
      /\ Elements(asking) = {Head(asking)} \union Elements(Tail(asking))
    BY ElementsOne, ElementsHead
<1>2. Ascending(Tail(asking)) /\ Below({Head(asking)}, Elements(Tail(asking)))
    BY AscendingHead DEF InOrder
<1> QED
    BY <1>1, <1>2 DEF InOrder, Below

\* The client answers the oldest response, or loses its answer.
LEMMA ReceiveInOrder ==
    ASSUME NEW asked, NEW asking \in Seq(Nat), NEW told \in Seq(Response),
           told # <<>>, NEW telling, InOrder(asked, asking, told, telling)
    PROVE  /\ InOrder(asked, Append(asking, Head(told).nonce), Tail(told),
                      telling)
           /\ InOrder(asked, asking, Tail(told), telling)
<1> DEFINE n == Head(told).nonce
<1>1. /\ Elements(told) = {Head(told)} \union Elements(Tail(told))
      /\ Head(told) \in Response
    BY ElementsHead
<1>2. n \in Nat /\ NoncesOf(told) = {n} \union NoncesOf(Tail(told))
    BY <1>1 DEF NoncesOf, Response
<1>3. Elements(Append(asking, n)) = Elements(asking) \union {n}
    BY <1>2, ElementsAppend
<1>4. AscendingNonces(Tail(told)) /\ Below({n}, NoncesOf(Tail(told)))
    BY AscendingNoncesHead DEF InOrder
<1>5. Ascending(Append(asking, n))
  <2>1. \A i \in DOMAIN asking : asking[i] < n
      BY <1>2 DEF InOrder, Below, Elements
  <2>2. /\ Len(asking) \in Nat /\ DOMAIN asking = 1 .. Len(asking)
        /\ DOMAIN Append(asking, n) = 1 .. Len(asking) + 1
        /\ Append(asking, n)[Len(asking) + 1] = n
        /\ \A i \in 1 .. Len(asking) : Append(asking, n)[i] = asking[i]
      BY <1>2
  <2> QED
      BY <2>1, <2>2 DEF InOrder, Ascending
<1> HIDE DEF n
<1>6. InOrder(asked, Append(asking, n), Tail(told), telling)
    BY <1>2, <1>3, <1>4, <1>5 DEF InOrder, Below
<1>7. InOrder(asked, asking, Tail(told), telling)
    BY <1>2, <1>4 DEF InOrder, Below
<1> QED
    BY <1>6, <1>7 DEF n

\* The sender hands its response to gRPC.
LEMMA SendInOrder ==
    ASSUME NEW asked, NEW asking, NEW told \in Seq(Response),
           NEW r \in Response, InOrder(asked, asking, told, <<r>>)
    PROVE  InOrder(asked, asking, Append(told, r), <<>>)
<1>1. Elements(Append(told, r)) = Elements(told) \union {r}
    BY ElementsAppend
<1>2. NoncesOf(<<r>>) = {r.nonce} /\ NoncesOf(<<>>) = {}
    BY ElementsOne DEF NoncesOf
<1>3. NoncesOf(Append(told, r)) = NoncesOf(told) \union NoncesOf(<<r>>)
    BY <1>1, <1>2 DEF NoncesOf
<1>4. AscendingNonces(Append(told, r))
  <2>1. \A i \in DOMAIN told : told[i].nonce < r.nonce
      BY <1>2 DEF InOrder, Below, Elements, NoncesOf
  <2>2. /\ Len(told) \in Nat /\ DOMAIN told = 1 .. Len(told)
        /\ DOMAIN Append(told, r) = 1 .. Len(told) + 1
        /\ Append(told, r)[Len(told) + 1] = r
        /\ \A i \in 1 .. Len(told) : Append(told, r)[i] = told[i]
      OBVIOUS
  <2> QED
      BY <2>1, <2>2 DEF InOrder, AscendingNonces
<1> QED
    BY <1>2, <1>3, <1>4 DEF InOrder, Below

\* The sender takes a response with a new nonce.
LEMMA TakeInOrder ==
    ASSUME NEW asked, NEW asking, NEW told, NEW r,
           InOrder(asked, asking, told, <<>>),
           Below(Elements(asked) \union Elements(asking) \union NoncesOf(told),
                 {r.nonce})
    PROVE  InOrder(asked, asking, told, <<r>>)
<1>1. NoncesOf(<<r>>) = {r.nonce}
    BY ElementsOne DEF NoncesOf
<1> QED
    BY <1>1 DEF InOrder, Below

\* Whatever is dropped, the rest stays in order.
LEMMA DropInOrder ==
    ASSUME NEW asked, NEW asking, NEW told, NEW telling,
           InOrder(asked, asking, told, telling)
    PROVE  /\ InOrder(<<>>, asking, told, telling)
           /\ InOrder(asked, <<>>, told, telling)
           /\ InOrder(asked, asking, <<>>, telling)
           /\ InOrder(asked, asking, told, <<>>)
<1>1. Elements(<<>>) = {} /\ NoncesOf(<<>>) = {}
    BY ElementsOne DEF NoncesOf
<1>2. Ascending(<<>>) /\ AscendingNonces(<<>>)
    BY DEF Ascending, AscendingNonces
<1> QED
    BY <1>1, <1>2 DEF InOrder, Below

-----------------------------------------------------------------------------
(***************************************************************************)
(* Types, and the manager inside.                                          *)
(***************************************************************************)

\* The nonces under way, queue by queue.
LEMMA UnderWayIs ==
    \A s \in Streams :
        UnderWay(s) = Elements(inHand[s]) \union Elements(uplink[s])
                      \union NoncesOf(downlink[s]) \union NoncesOf(outHand[s])
BY DEF UnderWay, NoncesOf

\* They are numbers, and finitely many.
LEMMA UnderWayType ==
    ASSUME SessionTypeOK, NEW s \in Streams
    PROVE  UnderWay(s) \subseteq Nat /\ IsFiniteSet(UnderWay(s))
<1>1. /\ inHand[s] \in Seq(Nat) /\ uplink[s] \in Seq(Nat)
      /\ downlink[s] \in Seq(Response) /\ outHand[s] \in Seq(Response)
    BY DEF SessionTypeOK
<1>2. /\ Elements(inHand[s]) \subseteq Nat /\ IsFiniteSet(Elements(inHand[s]))
      /\ Elements(uplink[s]) \subseteq Nat /\ IsFiniteSet(Elements(uplink[s]))
    BY <1>1, ElementsType
<1>3. /\ NoncesOf(downlink[s]) \subseteq Nat
      /\ IsFiniteSet(NoncesOf(downlink[s]))
      /\ NoncesOf(outHand[s]) \subseteq Nat /\ IsFiniteSet(NoncesOf(outHand[s]))
    BY <1>1, NoncesType
<1> QED
    BY <1>2, <1>3, FS_Union, UnderWayIs

\* Between two restarts, every step is a step of a manager with the clients
\* that XdsManager allows, or none: what holds of every step of the manager
\* holds behind gRPC.
LEMMA ManagerStep ==
    ASSUME FlowInv, [SessionNext]_allVars, ~Restart
    PROVE  [Next]_vars
<1> USE DEF FlowInv
<1>1. ASSUME NEW w \in Writers, Call(w) \/ Work(w)
      PROVE  WriterNext(w)
    BY <1>1 DEF Call, Work, WriterNext
<1>2. ASSUME NEW s \in Streams, HandOver(s)
      PROVE  StreamNext(s)
  <2>1. inHand[s] # <<>> /\ spc[s] = "loop"
      BY <1>2 DEF HandOver, Acknowledge, AskConfig
  <2>2. inHand[s] \in Seq(Nat)
      BY DEF SessionTypeOK
  <2>3. Head(inHand[s]) \in Nat /\ Head(inHand[s]) \in Elements(inHand[s])
      BY <2>1, <2>2, ElementsHead
  <2>4. Head(inHand[s]) <= pushes[s]
      BY <2>1, <2>3, UnderWayIs DEF Flow, NoncesKnown
  <2>5. pushes[s] \in Nat
      BY DEF SessionTypeOK, TypeOK
  <2>6. Head(inHand[s]) \in Nonces(s)
      BY <2>3, <2>4, <2>5 DEF Nonces
  <2> QED
      BY <1>2, <2>6, SessionAssumption DEF HandOver, StreamNext, RequestNext
<1>3. ASSUME NEW s \in Streams,
             SeeEnd(s) \/ Take(s) \/ StreamStep(s) \/ Connect(s)
                \/ \E k \in txs[s] : Tick(s, k)
      PROVE  StreamNext(s)
    BY <1>3 DEF SeeEnd, Take, StreamStep, Connect, Tick, StreamNext
<1>4. ASSUME NEW s \in Streams,
             ReceiverStep(s) \/ SenderStep(s) \/ Return(s) \/ Receive(s)
                \/ Disconnect(s) \/ NetworkFails(s)
      PROVE  UNCHANGED vars
    BY <1>4 DEF ReceiverStep, Recv, RecvError, SenderStep, Send, SendError,
                SenderReturns, Return, Receive, Disconnect, NetworkFails
<1>5. Shutdown => Drain
    BY DEF Shutdown
<1>6. UNCHANGED allVars => UNCHANGED vars
    BY DEF allVars
<1> QED
    BY <1>1, <1>2, <1>3, <1>4, <1>5, <1>6 DEF SessionNext, Next

\* A version string is a version.
LEMMA VersionStringType ==
    ASSUME process \in DOMAIN Prefixes, NEW n \in Nat
    PROVE  VersionString(n) \in Versions
BY DEF VersionString, Versions

\* The first process starts with the right types.
LEMMA SessionInitTypeOK == SessionInit => SessionTypeOK
<1> SUFFICES ASSUME SessionInit PROVE SessionTypeOK
    OBVIOUS
<1>1. <<>> \in Seq(Nat) /\ <<>> \in Seq(Response)
    OBVIOUS
<1>2. TypeOK
    BY InitTypeOK DEF SessionInit
<1>3. 1 \in DOMAIN Prefixes /\ 0 \in 0 .. MaxForgotten
    BY SessionAssumption
<1> QED
    BY <1>1, <1>2, <1>3, NothingInStore DEF SessionInit, SessionTypeOK

\* So does every process after it.
LEMMA RestartTypeOK == SessionTypeOK /\ Restart => SessionTypeOK'
<1> SUFFICES ASSUME SessionTypeOK, Restart PROVE SessionTypeOK'
    OBVIOUS
<1>1. <<>> \in Seq(Nat) /\ <<>> \in Seq(Response) /\ <<>> \in Seq(Names)
    OBVIOUS
<1>2. TypeOK'
    BY <1>1, NothingInStore, ConstantsAssumption
    DEF Restart, SessionTypeOK, TypeOK
<1>3. process' \in DOMAIN Prefixes /\ 0 \in 0 .. MaxForgotten
    BY SessionAssumption DEF Restart, SessionTypeOK
<1> QED
    BY <1>1, <1>2, <1>3 DEF Restart, SessionTypeOK, envoyVars

\* Every step keeps the types; one case for each action.
LEMMA NextSessionTypeOK ==
    ASSUME FlowInv, [SessionNext]_allVars
    PROVE  SessionTypeOK'
<1>1. CASE Restart
    BY <1>1, RestartTypeOK DEF FlowInv
<1>2. SUFFICES ASSUME ~Restart, TypeOK' PROVE SessionTypeOK'
  <2>1. ~Restart => TypeOK'
      BY ManagerStep, NextTypeOK DEF FlowInv, SessionTypeOK
  <2> QED
      BY <1>1, <2>1
<1> USE DEF FlowInv, SessionTypeOK
<1>3. ASSUME NEW w \in Writers, Call(w) \/ Work(w)
      PROVE  SessionTypeOK'
    BY <1>2, <1>3 DEF Call, Work, sessionVars, linkVars, rxVars, txVars,
                      envoyVars
<1>4. ASSUME NEW s \in Streams, ReceiverStep(s)
      PROVE  SessionTypeOK'
  <2>1. CASE Recv(s)
    <3>1. uplink[s] \in Seq(Nat) /\ uplink[s] # <<>>
        BY <2>1 DEF Recv
    <3>2. Head(uplink[s]) \in Nat /\ Tail(uplink[s]) \in Seq(Nat)
        BY <3>1
    <3>3. inHand' \in [Streams -> Seq(Nat)]
        BY <2>1, <3>2 DEF Recv
    <3>4. uplink' \in [Streams -> Seq(Nat)]
        BY <2>1, <3>2 DEF Recv
    <3> QED
        BY <1>2, <2>1, <3>3, <3>4 DEF Recv, txVars, envoyVars
  <2>2. CASE RecvError(s)
      BY <1>2, <2>2 DEF RecvError, txVars, envoyVars
  <2> QED
      BY <1>4, <2>1, <2>2 DEF ReceiverStep
<1>5. ASSUME NEW s \in Streams, SenderStep(s)
      PROVE  SessionTypeOK'
  <2>1. CASE Send(s)
      BY <1>2, <2>1 DEF Send, rxVars, envoyVars
  <2>2. CASE SendError(s)
    <3>1. outHand' \in [Streams -> Seq(Response)]
        BY <2>2 DEF SendError
    <3> QED
        BY <1>2, <2>2, <3>1 DEF SendError, linkVars, rxVars, envoyVars
  <2>3. CASE SenderReturns(s)
      BY <1>2, <2>3 DEF SenderReturns, linkVars, rxVars, envoyVars
  <2> QED
      BY <1>5, <2>1, <2>2, <2>3 DEF SenderStep
<1>6. ASSUME NEW s \in Streams, HandOver(s)
      PROVE  SessionTypeOK'
    BY <1>2, <1>6 DEF HandOver, linkVars, txVars, envoyVars
<1>7. ASSUME NEW s \in Streams, SeeEnd(s) \/ StreamStep(s)
      PROVE  SessionTypeOK'
    BY <1>2, <1>7 DEF SeeEnd, StreamStep, sessionVars, linkVars, rxVars, txVars,
                      envoyVars
<1>8. ASSUME NEW s \in Streams, Take(s)
      PROVE  SessionTypeOK'
  <2> DEFINE r == [nonce |-> pushes[s], content |-> sent[s],
                   version |-> VersionString(sentVersion[s])]
  <2>1. r \in Response
      BY VersionStringType DEF Response, TypeOK
  <2>2. outHand' = [outHand EXCEPT ![s] = <<r>>]
      BY <1>8 DEF Take
  <2>3. outHand' \in [Streams -> Seq(Response)]
    <3> HIDE DEF r
    <3> QED
      BY <2>1, <2>2
  <2> QED
      BY <1>2, <1>8, <2>3 DEF Take, linkVars, rxVars, envoyVars
<1>9. ASSUME NEW s \in Streams, Return(s) \/ NetworkFails(s)
      PROVE  SessionTypeOK'
  <2>1. CASE Return(s)
    <3>1. 0 \in 0 .. MaxForgotten
        BY SessionAssumption
    <3> QED
        BY <1>2, <2>1, <3>1 DEF Return, rxVars, txVars, envoyVars
  <2>2. CASE NetworkFails(s)
      BY <1>2, <2>2 DEF NetworkFails, rxVars, txVars, envoyVars
  <2> QED
      BY <1>9, <2>1, <2>2
<1>10. ASSUME NEW s \in Streams, NEW k \in txs[s], Tick(s, k)
       PROVE  SessionTypeOK'
  <2>1. Cardinality(txs[s] \ txs'[s]) \in Nat
      BY FS_Subset, FS_CardinalityType DEF Flow
  <2>2. /\ forgotten' = [forgotten EXCEPT ![s] =
                            @ + Cardinality(txs[s] \ txs'[s])]
        /\ forgotten'[s] <= MaxForgotten
      BY <1>10 DEF Tick
  <2>3. forgotten' \in [Streams -> 0 .. MaxForgotten]
      BY <2>1, <2>2, SessionAssumption
  <2> QED
      BY <1>2, <1>10, <2>3 DEF Tick, linkVars, rxVars, txVars, envoyVars
<1>11. ASSUME NEW s \in Streams, Connect(s)
       PROVE  SessionTypeOK'
    BY <1>2, <1>11 DEF Connect
<1>12. ASSUME NEW s \in Streams, Receive(s)
       PROVE  SessionTypeOK'
  <2> DEFINE r == Head(downlink[s])
  <2>1. r \in Response /\ Tail(downlink[s]) \in Seq(Response)
      BY <1>12, ElementsHead DEF Receive
  <2>2. r.nonce \in Nat /\ r.version \in Versions /\ r.content \in Store
      BY <2>1 DEF Response
  <2>3. held' \in Store /\ heldVersion' \in Versions \union {NoVersion}
      BY <1>12, <2>2 DEF Receive
  <2>4. uplink' \in [Streams -> Seq(Nat)]
      BY <1>12, <2>2 DEF Receive
  <2> QED
      BY <1>2, <1>12, <2>1, <2>3, <2>4 DEF Receive, rxVars, txVars
<1>13. ASSUME NEW s \in Streams, Disconnect(s)
       PROVE  SessionTypeOK'
    BY <1>2, <1>13 DEF Disconnect, rxVars, txVars
<1>14. CASE Shutdown
    BY <1>2, <1>14 DEF Shutdown, sessionVars, linkVars, rxVars, txVars, envoyVars
<1>15. CASE UNCHANGED allVars
    BY <1>2, <1>15 DEF allVars, sessionVars, linkVars, rxVars, txVars, envoyVars
<1> HIDE DEF FlowInv, SessionTypeOK
<1> QED
    BY <1>2, <1>3, <1>4, <1>5, <1>6, <1>7, <1>8, <1>9, <1>10, <1>11, <1>12,
       <1>13, <1>14, <1>15 DEF SessionNext

-----------------------------------------------------------------------------
(***************************************************************************)
(* The flow of nonces.                                                     *)
(***************************************************************************)

\* No message of the stream moves.
Still(s) ==
    /\ inHand'[s] = inHand[s] /\ uplink'[s] = uplink[s]
    /\ downlink'[s] = downlink[s] /\ outHand'[s] = outHand[s]

\* Nothing of the stream that the manager keeps changes.
Left(s) ==
    /\ spc'[s] = spc[s] /\ sub'[s] = sub[s]
    /\ txs'[s] = txs[s] /\ pushes'[s] = pushes[s]

\* No nonce sets out.
Shrinks(s) == UnderWay(s)' \subseteq UnderWay(s)

\* What a step of another stream, or of the client's link, leaves alone.
LEMMA StillFlow ==
    ASSUME NEW s \in Streams, Flow(s), Still(s), Left(s),
           link'[s] \in {link[s], "down"}
    PROVE  Flow(s)' /\ Shrinks(s)
BY DEF Still, Shrinks, Left, Flow, OneInHand, Queued, NoncesKnown, NotBegun, InFlight,
       Wildcard, UnderWay

\* Stream goes on to another control point, with nothing new in flight.
LEMMA MovedFlow ==
    ASSUME NEW s \in Streams, Flow(s), Still(s), link'[s] = link[s],
           sub'[s] = sub[s], txs'[s] = txs[s], pushes'[s] = pushes[s],
           \/ spc'[s] = spc[s]
           \/ /\ spc[s] \in {"opening", "loop", "build", "push"}
              /\ spc'[s] \in {"loop", "build", "exit"}
    PROVE  Flow(s)' /\ Shrinks(s)
BY DEF Still, Shrinks, Flow, OneInHand, Queued, NoncesKnown, NotBegun, InFlight,
       Wildcard, UnderWay

\* Messages move or are lost on a link that has ended, or move on a link that
\* lives without one being lost.
LEMMA CarriedFlow ==
    ASSUME NEW s \in Streams, Flow(s), Left(s), link'[s] = link[s],
           OneInHand(s)', Queued(s)', Shrinks(s),
           link[s] = "up" => UnderWay(s)' = UnderWay(s),
           spc[s] # "off"
    PROVE  Flow(s)'
BY DEF Shrinks, Left, Flow, NoncesKnown, NotBegun, InFlight, Wildcard

\* Writers only set Stream to work.
LEMMA WriterFlow ==
    ASSUME FlowInv, NEW w \in Writers, Call(w) \/ Work(w), NEW t \in Streams
    PROVE  Flow(t)' /\ Shrinks(t)
<1>1. WriterNext(w) /\ UNCHANGED <<linkVars, rxVars, txVars>>
    BY DEF Call, Work, WriterNext, sessionVars
<1>2. UNCHANGED <<clientVars, pushes>>
    BY <1>1 DEF WriterNext, AddCall, Replace, Delete, AddStep, AddStore,
                AddInvalid, AddStored, NotifyStart, NotifyLock, SendStep,
                Deliver, SkipBusy, NotifyTimeout, NotifyReturn, pushVars
<1>3. \/ spc' = spc
      \/ \E s \in Streams : spc[s] = "loop" /\ spc' = [spc EXCEPT ![s] = "build"]
    BY <1>1 DEF WriterNext, AddCall, Replace, Delete, AddStep, AddStore,
                AddInvalid, AddStored, NotifyStart, NotifyLock, SendStep,
                Deliver, SkipBusy, NotifyTimeout, NotifyReturn
<1>4. spc'[t] = spc[t] \/ (spc[t] = "loop" /\ spc'[t] = "build")
    BY <1>3 DEF FlowInv, SessionTypeOK, TypeOK
<1> QED
    BY <1>1, <1>2, <1>4, MovedFlow
    DEF FlowInv, Still, linkVars, rxVars, txVars, clientVars

\* The receiver takes a request, or drops those of a link that has ended.
LEMMA ReceiverFlow ==
    ASSUME FlowInv, NEW s \in Streams, ReceiverStep(s), NEW t \in Streams
    PROVE  Flow(t)' /\ Shrinks(t)
<1> USE DEF FlowInv, SessionTypeOK
<1>1. UNCHANGED <<link, downlink, outHand, spc, sub, txs, pushes>>
    BY DEF ReceiverStep, Recv, RecvError, vars, clientVars, pushVars, txVars
<1>2. CASE t # s
  <2>1. Still(t) /\ Left(t)
      BY <1>1, <1>2 DEF ReceiverStep, Recv, RecvError, Still, Left
  <2> QED
      BY <1>1, <2>1, StillFlow
<1>3. CASE t = s
  <2>1. /\ uplink[s] \in Seq(Nat) /\ inHand[s] = <<>>
        /\ downlink[s] \in Seq(Response) /\ outHand[s] \in Seq(Response)
      BY DEF ReceiverStep, Recv, RecvError
  <2>2. CASE Recv(s)
    <3>1. /\ uplink[s] # <<>>
          /\ uplink'[s] = Tail(uplink[s]) /\ inHand'[s] = <<Head(uplink[s])>>
        BY <2>2 DEF Recv
    <3>2. Queued(s)'
        BY <1>1, <2>1, <3>1, RecvInOrder DEF Queued, Flow
    <3>3. UnderWay(s)' = UnderWay(s)
      <4>1. /\ Elements(inHand[s]) = {}
            /\ Elements(inHand'[s]) = {Head(uplink[s])}
            /\ Elements(uplink[s]) = {Head(uplink[s])} \union Elements(uplink'[s])
          BY <2>1, <3>1, ElementsOne, ElementsHead
      <4> QED
          BY <1>1, <4>1 DEF UnderWay
    <3>4. OneInHand(s)' /\ spc[s] # "off"
      <4> HIDE DEF SessionTypeOK
      <4>1. OneInHand(s) /\ NotBegun(s)
          BY DEF Flow
      <4> QED
          BY <1>1, <3>1, <4>1 DEF OneInHand, NotBegun
    <3>5. Left(s)
        BY <1>1 DEF Left
    <3> QED
        BY <1>1, <1>3, <3>2, <3>3, <3>4, <3>5, CarriedFlow DEF Shrinks
  <2>3. CASE RecvError(s)
    <3>1. uplink'[s] = <<>> /\ inHand'[s] = inHand[s] /\ link[s] = "down"
        BY <2>3 DEF RecvError
    <3>2. Queued(s)'
        BY <1>1, <3>1, DropInOrder DEF Queued, Flow
    <3>3. UnderWay(s)' \subseteq UnderWay(s)
        BY <1>1, <3>1, ElementsOne DEF UnderWay
    <3>4. Flow(s)'
        BY <1>1, <3>1, <3>2, <3>3
        DEF Flow, OneInHand, NoncesKnown, NotBegun, InFlight, Wildcard
    <3> QED
        BY <1>3, <3>3, <3>4 DEF Shrinks
  <2> QED
      BY <1>3, <2>2, <2>3 DEF ReceiverStep
<1> QED
    BY <1>2, <1>3

\* The sender sends its response, or drops it when the link has ended.
LEMMA SenderFlow ==
    ASSUME FlowInv, NEW s \in Streams, SenderStep(s), NEW t \in Streams
    PROVE  Flow(t)' /\ Shrinks(t)
<1> USE DEF FlowInv, SessionTypeOK
<1>1. UNCHANGED <<link, uplink, inHand, spc, sub, txs, pushes>>
    BY DEF SenderStep, Send, SendError, SenderReturns, vars, clientVars,
           pushVars, rxVars, linkVars
<1>2. CASE t # s
  <2>1. Still(t) /\ Left(t)
      BY <1>1, <1>2
      DEF SenderStep, Send, SendError, SenderReturns, linkVars, Still, Left
  <2> QED
      BY <1>1, <2>1, StillFlow
<1>3. CASE t = s
  <2>1. downlink[s] \in Seq(Response) /\ outHand[s] \in Seq(Response)
      OBVIOUS
  <2>2. CASE Send(s)
    <3>1. /\ outHand[s] # <<>> /\ outHand'[s] = <<>>
          /\ downlink'[s] = downlink[s] \o outHand[s]
        BY <2>2 DEF Send
    <3>2. outHand[s] = <<Head(outHand[s])>> /\ Head(outHand[s]) \in Response
        BY <2>1, <3>1, HandHoldsOne DEF Flow, OneInHand
    <3>3. PICK r \in Response : outHand[s] = <<r>>
        BY <3>2
    <3>4. downlink'[s] = Append(downlink[s], r)
        BY <2>1, <3>1, <3>3, ElementsAppend
    <3>5. Queued(s)'
        BY <1>1, <2>1, <3>1, <3>3, <3>4, SendInOrder DEF Queued, Flow
    <3>6. UnderWay(s)' = UnderWay(s)
      <4>1. Elements(outHand[s]) = {r} /\ Elements(outHand'[s]) = {}
          BY <3>1, <3>3, ElementsOne
      <4>2. Elements(downlink'[s]) = Elements(downlink[s]) \union {r}
          BY <2>1, <3>4, ElementsAppend
      <4> QED
          BY <1>1, <4>1, <4>2 DEF UnderWay
    <3>7. OneInHand(s)' /\ spc[s] # "off" /\ Left(s)
      <4> HIDE DEF SessionTypeOK
      <4>1. OneInHand(s) /\ NotBegun(s)
          BY DEF Flow
      <4> QED
          BY <1>1, <3>1, <4>1 DEF OneInHand, NotBegun, Left
    <3> QED
        BY <1>1, <1>3, <3>5, <3>6, <3>7, CarriedFlow DEF Shrinks
  <2>3. CASE SendError(s)
    <3>1. /\ outHand[s] # <<>> /\ outHand'[s] = <<>> /\ link[s] = "down"
          /\ downlink' = downlink
        BY <2>3 DEF SendError, linkVars
    <3>2. Queued(s)'
        BY <1>1, <3>1, DropInOrder DEF Queued, Flow
    <3>3. UnderWay(s)' \subseteq UnderWay(s)
        BY <1>1, <3>1, ElementsOne DEF UnderWay
    <3>4. OneInHand(s)' /\ spc[s] # "off" /\ Left(s)
        BY <1>1, <3>1 DEF OneInHand, Flow, NotBegun, Left
    <3> QED
        BY <1>1, <1>3, <3>1, <3>2, <3>3, <3>4, CarriedFlow DEF Shrinks
  <2>4. CASE SenderReturns(s)
      BY <1>1, <1>3, <2>4, StillFlow DEF SenderReturns, linkVars, Still, Left
  <2> QED
      BY <2>2, <2>3, <2>4 DEF SenderStep
<1> QED
    BY <1>2, <1>3

\* Stream takes a request over from the receiver.
LEMMA HandOverFlow ==
    ASSUME FlowInv, NEW s \in Streams, HandOver(s), NEW t \in Streams
    PROVE  Flow(t)' /\ Shrinks(t)
<1> USE DEF FlowInv, SessionTypeOK
<1>1. UNCHANGED <<link, uplink, downlink, outHand, pushes>>
    BY DEF HandOver, Acknowledge, AskConfig, linkVars, txVars, pushVars
<1>2. CASE t # s
  <2>1. Still(t) /\ Left(t)
    <3>1. CASE Acknowledge(s, <<>>, TRUE, Head(inHand[s]))
        BY <1>1, <1>2, <3>1 DEF HandOver, Acknowledge, Learn, TypeOK, Still, Left
    <3>2. CASE AskConfig(s, <<>>, TRUE, Head(inHand[s]))
        BY <1>1, <1>2, <3>2 DEF HandOver, AskConfig, Learn, GoTo, TypeOK, Still, Left
    <3> QED
        BY <3>1, <3>2 DEF HandOver
  <2> QED
      BY <1>1, <2>1, StillFlow
<1>3. CASE t = s
  <2> DEFINE n == Head(inHand[s])
  <2>1. inHand[s] = <<n>>
      BY HandHoldsOne DEF HandOver, Flow, OneInHand
  <2>2. inHand'[s] = <<>> /\ Elements(inHand[s]) = {n} /\ Elements(inHand'[s]) = {}
      BY <2>1, ElementsOne DEF HandOver
  <2>3. Queued(s)'
      BY <1>1, <2>2, DropInOrder DEF Queued, Flow
  <2>4. UnderWay(s) = {n} \union UnderWay(s)'
    <3> HIDE DEF n, FlowInv, SessionTypeOK
    <3> QED
        BY <1>1, <2>2 DEF UnderWay
  <2>5. /\ spc[s] = "loop" /\ spc'[s] \in {"loop", "build"}
        /\ txs'[s] = txs[s] \ {n}
    <3>1. CASE Acknowledge(s, <<>>, TRUE, n)
        BY <3>1 DEF Acknowledge, TypeOK
    <3>2. CASE AskConfig(s, <<>>, TRUE, n)
        BY <3>2 DEF AskConfig, GoTo, TypeOK
    <3> QED
        BY <3>1, <3>2 DEF HandOver
  <2>6. sub'[s] = <<>>
      BY DEF HandOver, Acknowledge, AskConfig, Learn, SubAfter, TypeOK, Flow,
             Wildcard
  <2>7. IsFiniteSet(txs'[s])
    <3>1. IsFiniteSet(txs[s])
        BY DEF Flow
    <3>2. IsFiniteSet(txs[s] \ {n})
        BY <3>1, FS_RemoveElement
    <3> QED
        BY <2>5, <3>2
  <2> HIDE DEF n
  <2> QED
      BY <1>1, <1>3, <2>2, <2>3, <2>4, <2>5, <2>6, <2>7
      DEF Shrinks, Flow, OneInHand, NoncesKnown, NotBegun, InFlight, Wildcard
<1> QED
    BY <1>2, <1>3

\* Nonces set out when the sender takes a response ...
LEMMA TakenNonce ==
    ASSUME FlowInv, NEW s \in Streams, Take(s)
    PROVE  UnderWay(s)' = UnderWay(s) \union {pushes[s]}
<1>1. PICK r \in [nonce : {pushes[s]}, content : {sent[s]},
                  version : {VersionString(sentVersion[s])}] :
            outHand'[s] = <<r>>
    BY DEF Take, FlowInv, SessionTypeOK
<1>2. Elements(outHand[s]) = {} /\ Elements(outHand'[s]) = {r}
    BY <1>1, ElementsOne DEF Take
<1>3. UNCHANGED <<uplink, downlink, inHand>>
    BY DEF Take, linkVars, rxVars
<1> QED
    BY <1>1, <1>2, <1>3 DEF UnderWay

\* ... and when the client opens a stream.
LEMMA ConnectNonce ==
    ASSUME FlowInv, NEW s \in Streams, Connect(s)
    PROVE  UnderWay(s)' = {0}
<1>1. /\ uplink'[s] = <<0>> /\ inHand'[s] = <<>>
      /\ downlink'[s] = <<>> /\ outHand'[s] = <<>>
    BY DEF Connect, Open, FlowInv, SessionTypeOK, Flow, NotBegun
<1> QED
    BY <1>1, ElementsOne DEF UnderWay

\* The sender takes a response, whose transaction begins.
LEMMA TakeFlow ==
    ASSUME FlowInv, NEW s \in Streams, Take(s), NEW t \in Streams
    PROVE  Flow(t)' /\ (t # s => Shrinks(t))
<1>0. /\ UnderWay(s) \subseteq Nat
      /\ UnderWay(s)' = UnderWay(s) \union {pushes[s]}
    BY UnderWayType, TakenNonce DEF FlowInv
<1> USE DEF FlowInv, SessionTypeOK
<1>1. UNCHANGED <<link, uplink, downlink, inHand, pushes, sub>>
    BY DEF Take, PushAccepted, linkVars, rxVars, pushVars
<1>2. CASE t # s
  <2>1. Still(t) /\ Left(t)
      BY <1>1, <1>2 DEF Take, PushAccepted, GoTo, TypeOK, Still, Left
  <2> QED
      BY <1>1, <2>1, StillFlow
<1>3. CASE t = s
  <2>1. PICK r \in [nonce : {pushes[s]}, content : {sent[s]},
                    version : {VersionString(sentVersion[s])}] :
              outHand'[s] = <<r>>
      BY DEF Take
  <2>2. /\ outHand[s] = <<>> /\ spc[s] = "push" /\ spc'[s] = "loop"
        /\ txs'[s] = txs[s] \union {pushes[s]} /\ r.nonce = pushes[s]
      BY <2>1 DEF Take, PushAccepted, GoTo, TypeOK
  <2>4. UnderWay(s)' = UnderWay(s) \union {pushes[s]}
      BY <1>0
  <2>5. \A n \in UnderWay(s) : n < pushes[s]
      BY <2>2 DEF Flow, NoncesKnown
  <2>6. Below(Elements(inHand[s]) \union Elements(uplink[s])
                \union NoncesOf(downlink[s]), {r.nonce})
      BY <2>2, <2>5, UnderWayIs DEF Below
  <2>7. Queued(s)'
    <3>1. InOrder(inHand[s], uplink[s], downlink[s], <<>>)
        BY <2>2 DEF Flow, Queued
    <3>2. InOrder(inHand[s], uplink[s], downlink[s], <<r>>)
        BY <2>6, <3>1, TakeInOrder
    <3> QED
        BY <1>1, <2>1, <3>2 DEF Queued
  <2>8. IsFiniteSet(txs'[s])
    <3>1. IsFiniteSet(txs[s])
        BY DEF Flow
    <3>2. IsFiniteSet(txs[s] \union {pushes[s]})
        BY <3>1, FS_AddElement
    <3> QED
        BY <2>2, <3>2
  <2>9. OneInHand(s)'
      BY <1>1, <2>1 DEF OneInHand, Flow
  <2>10. \A n \in UnderWay(s)' : n <= pushes[s]
      BY <1>0, <2>4, <2>5 DEF TypeOK
  <2>11. link[s] = "up" => txs'[s] \subseteq UnderWay(s)'
      BY <2>2, <2>4 DEF Flow, InFlight
  <2> QED
      BY <1>1, <1>3, <2>2, <2>7, <2>8, <2>9, <2>10, <2>11
      DEF Flow, NoncesKnown, NotBegun, InFlight, Wildcard
<1> QED
    BY <1>2, <1>3

\* Stream works on its own, is opened, or forgets transactions.
LEMMA StreamFlow ==
    ASSUME FlowInv, NEW s \in Streams, NEW t \in Streams,
           \/ StreamStep(s) \/ SeeEnd(s)
           \/ \E k \in txs[s] : Tick(s, k)
    PROVE  Flow(t)' /\ Shrinks(t)
<1>0. UnderWay(s) \subseteq Nat
    BY UnderWayType DEF FlowInv
<1> USE DEF FlowInv, SessionTypeOK, TypeOK
<1>1. UNCHANGED <<link, uplink, downlink, inHand, outHand>>
    BY DEF StreamStep, SeeEnd, Tick, sessionVars, linkVars, rxVars, txVars
<1>2. Still(t)
    BY <1>1 DEF Still
<1>3. ASSUME SeeEnd(s) \/ Register(s) \/ LeaveDrained(s) \/ BuildError(s)
                \/ PushTimeout(s)
      PROVE  Flow(t)' /\ Shrinks(t)
  <2>1. /\ UNCHANGED <<sub, txs, pushes>>
        /\ spc[s] \in {"opening", "loop", "build", "push"}
        /\ \E point \in {"loop", "exit"} : spc' = [spc EXCEPT ![s] = point]
      BY <1>3 DEF SeeEnd, Hangup, Register, LeaveDrained, BuildError,
                  PushTimeout, GoTo, clientVars, pushVars
  <2>2. \/ spc'[t] = spc[t]
        \/ /\ spc[t] \in {"opening", "loop", "build", "push"}
           /\ spc'[t] \in {"loop", "build", "exit"}
      BY <2>1
  <2> QED
      BY <1>1, <1>2, <2>1, <2>2, MovedFlow
<1>4. ASSUME t # s, Build(s) \/ Unregister(s) \/ \E k \in txs[s] : Tick(s, k)
      PROVE  Flow(t)' /\ Shrinks(t)
  <2>1. Left(t)
    <3>1. CASE Build(s)
        BY <1>4, <3>1 DEF Build, GoTo, clientVars, Left
    <3>2. CASE Unregister(s)
        BY <1>4, <3>2 DEF Unregister, GoTo, Left
    <3>3. CASE \E k \in txs[s] : Tick(s, k)
        BY <1>4, <3>3 DEF Tick, CleanupTick, pushVars, Left
    <3> QED
        BY <1>4, <3>1, <3>2, <3>3
  <2> QED
      BY <1>1, <1>2, <2>1, StillFlow
<1>5. /\ UnderWay(s)' = UnderWay(s) /\ Shrinks(s)
      /\ OneInHand(s)' /\ Queued(s)'
    BY <1>1 DEF UnderWay, Shrinks, Flow, OneInHand, Queued
<1>6. CASE t = s /\ Build(s)
  <2>1. /\ UNCHANGED <<sub, txs>> /\ spc[s] = "build" /\ spc'[s] = "push"
        /\ pushes'[s] = pushes[s] + 1 /\ pushes[s] \in Nat
      BY <1>6 DEF Build, GoTo, clientVars
  <2>2. \A n \in UnderWay(s) : n < pushes'[s] /\ n <= pushes'[s]
    <3>1. \A n \in UnderWay(s) : n \in Nat /\ n <= pushes[s]
        BY <1>0, <2>1 DEF Flow, NoncesKnown
    <3>2. \A n, p \in Nat : n <= p => n < p + 1 /\ n <= p + 1
        OBVIOUS
    <3> QED
        BY <2>1, <3>1, <3>2
  <2> QED
      BY <1>1, <1>5, <1>6, <2>1, <2>2
      DEF Flow, NoncesKnown, NotBegun, InFlight, Wildcard
<1>7. CASE t = s /\ Unregister(s)
  <2>1. spc'[s] = "done" /\ txs'[s] = {} /\ sub'[s] = <<>>
      BY <1>7 DEF Unregister, GoTo
  <2> QED
      BY <1>5, <1>7, <2>1, FS_EmptySet
      DEF Flow, NoncesKnown, NotBegun, InFlight, Wildcard
<1>8. ASSUME t = s, NEW k \in txs[s], Tick(s, k)
      PROVE  Flow(t)' /\ Shrinks(t)
  <2>1. /\ UNCHANGED <<sub, pushes, spc>> /\ spc[s] = "loop"
        /\ txs'[s] \subseteq txs[s]
      BY <1>8 DEF Tick, CleanupTick, pushVars
  <2>2. IsFiniteSet(txs'[s])
    <3>1. IsFiniteSet(txs[s])
        BY DEF Flow
    <3>2. txs'[s] \in SUBSET txs[s]
        BY <2>1
    <3> HIDE DEF FlowInv, SessionTypeOK
    <3> QED
        BY <3>1, <3>2, FS_Subset
  <2> QED
      BY <1>1, <1>5, <1>8, <2>1, <2>2
      DEF Flow, NoncesKnown, NotBegun, InFlight, Wildcard
<1> QED
    BY <1>3, <1>4, <1>6, <1>7, <1>8 DEF StreamStep

\* The client opens a stream with a request for its configuration.
LEMMA ConnectFlow ==
    ASSUME FlowInv, NEW s \in Streams, Connect(s), NEW t \in Streams
    PROVE  Flow(t)' /\ (t # s => Shrinks(t))
<1>0. UnderWay(s)' = {0}
    BY ConnectNonce
<1> USE DEF FlowInv, SessionTypeOK
<1>1. UNCHANGED <<downlink, inHand, outHand, pushes, txs, sub>>
    BY DEF Connect, Open, clientVars, pushVars
<1>2. CASE t # s
  <2>1. Still(t) /\ Left(t) /\ link'[t] = link[t]
      BY <1>1, <1>2 DEF Connect, Open, GoTo, TypeOK, Still, Left
  <2> QED
      BY <2>1, StillFlow
<1>3. CASE t = s
  <2>1. /\ spc[s] = "off" /\ spc'[s] = "opening" /\ uplink'[s] = <<0>>
        /\ txs[s] = {} /\ pushes[s] = 0
        /\ downlink[s] = <<>> /\ inHand[s] = <<>> /\ outHand[s] = <<>>
      BY DEF Connect, Open, GoTo, TypeOK, Flow, NotBegun
  <2>2. UnderWay(s)' = {0}
      BY <1>0
  <2>3. Queued(s)'
    <3>1. Elements(<<>>) = {} /\ NoncesOf(<<>>) = {}
        BY ElementsOne DEF NoncesOf
    <3>2. Ascending(<<0>>) /\ AscendingNonces(<<>>)
        BY DEF Ascending, AscendingNonces
    <3>3. InOrder(<<>>, <<0>>, <<>>, <<>>)
        BY <3>1, <3>2 DEF InOrder, Below
    <3> QED
        BY <1>1, <2>1, <3>3 DEF Queued
  <2>4. NoncesKnown(s)' /\ OneInHand(s)'
      BY <1>1, <2>1, <2>2 DEF NoncesKnown, OneInHand
  <2>5. NotBegun(s)' /\ InFlight(s)' /\ Wildcard(s)' /\ IsFiniteSet(txs'[s])
      BY <1>1, <2>1 DEF Flow, NotBegun, InFlight, Wildcard
  <2> QED
      BY <1>3, <2>3, <2>4, <2>5 DEF Flow
<1> QED
    BY <1>2, <1>3

\* The client takes a response and answers it, or forgets what is left when
\* its stream has ended.
LEMMA ClientFlow ==
    ASSUME FlowInv, NEW s \in Streams, Receive(s) \/ Disconnect(s),
           NEW t \in Streams
    PROVE  Flow(t)' /\ Shrinks(t)
<1> USE DEF FlowInv, SessionTypeOK
<1>1. UNCHANGED <<link, inHand, outHand, spc, sub, txs, pushes>>
    BY DEF Receive, Disconnect, vars, clientVars, pushVars, rxVars, txVars
<1>2. CASE t # s
  <2>1. Still(t) /\ Left(t)
      BY <1>1, <1>2 DEF Receive, Disconnect, Still, Left
  <2> QED
      BY <1>1, <2>1, StillFlow
<1>3. CASE t = s /\ Receive(s)
  <2> DEFINE r == Head(downlink[s])
  <2>1. /\ downlink[s] \in Seq(Response) /\ downlink[s] # <<>>
        /\ downlink'[s] = Tail(downlink[s]) /\ uplink[s] \in Seq(Nat)
        /\ uplink'[s] = IF link[s] = "up" THEN Append(uplink[s], r.nonce)
                        ELSE uplink[s]
      BY <1>3 DEF Receive
  <2>2. /\ r \in Response
        /\ Elements(downlink[s]) = {r} \union Elements(downlink'[s])
      BY <2>1, ElementsHead
  <2>3. r.nonce \in Nat
      BY <2>2 DEF Response
  <2>4. Elements(Append(uplink[s], r.nonce)) = Elements(uplink[s]) \union {r.nonce}
    <3> HIDE DEF r, FlowInv, SessionTypeOK
    <3>1. uplink[s] \in Seq(Nat)
        BY <2>1
    <3>2. \A n \in Nat : Elements(Append(uplink[s], n))
                              = Elements(uplink[s]) \union {n}
        BY <3>1, ElementsAppend
    <3> QED
        BY <2>3, <3>2
  <2>5. InOrder(inHand[s], uplink[s], downlink[s], outHand[s])
      BY DEF Flow, Queued
  <2>6. Queued(s)'
      BY <1>1, <2>1, <2>5, ReceiveInOrder DEF Queued
  <2> HIDE DEF r
  <2>7. Shrinks(s)
    <3> HIDE DEF FlowInv, SessionTypeOK
    <3> QED
        BY <1>1, <2>1, <2>2, <2>4 DEF UnderWay, Shrinks
  <2>8. link[s] = "up" => UnderWay(s)' = UnderWay(s)
    <3> HIDE DEF FlowInv, SessionTypeOK
    <3> QED
        BY <1>1, <2>1, <2>2, <2>4 DEF UnderWay
  <2>9. OneInHand(s)' /\ spc[s] # "off" /\ Left(s)
      BY <1>1, <2>1 DEF OneInHand, Flow, NotBegun, Left
  <2> QED
      BY <1>1, <1>3, <2>6, <2>7, <2>8, <2>9, CarriedFlow
<1>4. CASE t = s /\ Disconnect(s)
  <2>1. link[s] = "down" /\ downlink'[s] = <<>> /\ uplink' = uplink
      BY <1>4 DEF Disconnect
  <2>2. Queued(s)'
      BY <1>1, <2>1, DropInOrder DEF Queued, Flow
  <2>3. UnderWay(s)' \subseteq UnderWay(s)
      BY <1>1, <2>1, ElementsOne DEF UnderWay
  <2>4. OneInHand(s)' /\ NotBegun(s)'
      BY <1>1, <2>1 DEF Flow, OneInHand, NotBegun
  <2> QED
      BY <1>1, <1>4, <2>1, <2>2, <2>3, <2>4
      DEF Shrinks, Flow, NoncesKnown, InFlight, Wildcard
<1> QED
    BY <1>2, <1>3, <1>4

\* Streams that ran are done in a new process, and nothing of them is left
\* but responses that the client has not received.
LEMMA RestartFlow ==
    ASSUME FlowInv, Restart, NEW t \in Streams
    PROVE  Flow(t)'
<1> USE DEF FlowInv, SessionTypeOK
<1>1. /\ spc'[t] \in {"off", "done"}
      /\ spc'[t] = "off" => spc[t] = "off"
      /\ sub'[t] = <<>> /\ txs'[t] = {} /\ pushes'[t] = 0
      /\ uplink'[t] = <<>> /\ inHand'[t] = <<>> /\ outHand'[t] = <<>>
      /\ downlink'[t] = downlink[t]
    BY DEF Restart
<1>2. InOrder(<<>>, <<>>, downlink[t], <<>>)
    BY DropInOrder DEF Flow, Queued
<1>3. Queued(t)'
    BY <1>1, <1>2 DEF Queued
<1>4. IsFiniteSet(txs'[t])
    BY <1>1, FS_EmptySet
<1>5. NoncesKnown(t)'
    BY <1>1 DEF NoncesKnown
<1>6. OneInHand(t)' /\ NotBegun(t)' /\ InFlight(t)' /\ Wildcard(t)'
    BY <1>1 DEF Flow, OneInHand, NotBegun, InFlight, Wildcard
<1> QED
    BY <1>3, <1>4, <1>5, <1>6 DEF Flow

\* At first nothing is under way.
LEMMA InitFlowInv == SessionInit => FlowInv
<1> SUFFICES ASSUME SessionInit PROVE FlowInv
    OBVIOUS
<1>1. SessionTypeOK
    BY SessionInitTypeOK
<1>2. ASSUME NEW s \in Streams PROVE Flow(s)
  <2>1. /\ spc[s] = "off" /\ sub[s] = <<>> /\ txs[s] = {} /\ pushes[s] = 0
        /\ inHand[s] = <<>> /\ uplink[s] = <<>>
        /\ downlink[s] = <<>> /\ outHand[s] = <<>> /\ link[s] = "down"
      BY DEF SessionInit, Init
  <2>2. Elements(<<>>) = {} /\ NoncesOf(<<>>) = {}
      BY ElementsOne DEF NoncesOf
  <2>3. InOrder(<<>>, <<>>, <<>>, <<>>)
      BY <2>2 DEF InOrder, Below, Ascending, AscendingNonces
  <2>4. UnderWay(s) = {} /\ IsFiniteSet(txs[s])
      BY <2>1, <2>2, UnderWayIs, FS_EmptySet
  <2> QED
      BY <2>1, <2>3, <2>4 DEF Flow, OneInHand, Queued, NoncesKnown, NotBegun,
                              InFlight, Wildcard
<1> QED
    BY <1>1, <1>2 DEF FlowInv

\* Every step keeps the flow.
LEMMA NextFlowInv == FlowInv /\ [SessionNext]_allVars => FlowInv'
<1> SUFFICES ASSUME FlowInv, [SessionNext]_allVars, NEW t \in Streams
             PROVE  Flow(t)'
    BY NextSessionTypeOK DEF FlowInv
<1>1. ASSUME NEW s \in Streams, Return(s) \/ NetworkFails(s)
      PROVE  Flow(t)'
  <2>1. Still(t) /\ Left(t)
      BY <1>1 DEF Return, NetworkFails, Still, Left, vars, clientVars, pushVars,
                  rxVars, txVars
  <2>2. link'[t] \in {link[t], "down"}
      BY <1>1 DEF Return, NetworkFails, FlowInv, SessionTypeOK
  <2> QED
      BY <2>1, <2>2, StillFlow DEF FlowInv
<1>2. ASSUME Shutdown \/ UNCHANGED allVars
      PROVE  Flow(t)'
  <2>1. Still(t) /\ Left(t) /\ link'[t] = link[t]
      BY <1>2 DEF Shutdown, Drain, allVars, vars, sessionVars, clientVars,
                  pushVars, linkVars, rxVars, txVars, Still, Left
  <2> QED
      BY <2>1, StillFlow DEF FlowInv
<1> QED
    BY <1>1, <1>2, WriterFlow, ReceiverFlow, SenderFlow, HandOverFlow, TakeFlow,
       StreamFlow, ConnectFlow, ClientFlow, RestartFlow DEF SessionNext

\* Types, across restarts and whatever is lost on the way.
THEOREM SessionTypeCorrect == SessionSpec => []SessionTypeOK
<1>1. FlowInv => SessionTypeOK
    BY DEF FlowInv
<1> QED
    BY <1>1, InitFlowInv, NextFlowInv, PTL DEF SessionSpec

\* Stream waits for no answer in vain: as long as the link lives, whatever it
\* takes for pushed is on its way to the client, or the answer on its way
\* back, for any number of streams, pushes, late answers and restarts.
THEOREM NothingInVain == SessionSpec => []InFlightAccounted
<1>1. FlowInv => InFlightAccounted
    BY DEF FlowInv, Flow, InFlight, InFlightAccounted
<1> QED
    BY <1>1, InitFlowInv, NextFlowInv, PTL DEF SessionSpec

-----------------------------------------------------------------------------
(***************************************************************************)
(* The manager behind gRPC: what was proved of it, in every process.       *)
(***************************************************************************)

\* In a new process nobody holds the mutex, nothing is stored or sent, and no
\* stream runs.
LEMMA RestartManager ==
    ASSUME FlowInv, Restart
    PROVE  /\ SendInv' /\ ContentInv' /\ LocalInv'
           /\ NoLostUpdate' /\ VersionsSent' /\ CurrentVersionIsCurrent'
<1>1. TypeOK'
    BY RestartTypeOK DEF FlowInv, SessionTypeOK
<1>2. /\ resources' = Nothing /\ version' = 0 /\ sessionsMu' = Nobody
      /\ sessions' = {}
      /\ \A w \in Writers : /\ wpc'[w] = "idle" /\ todo'[w] = Nothing
                            /\ unsent'[w] = {} /\ blocked'[w] = {}
      /\ \A s \in Streams : /\ spc'[s] \in {"off", "done"} /\ pushes'[s] = 0
                            /\ sub'[s] = <<>> /\ sent'[s] = Nothing
                            /\ sentVersion'[s] = 0
    BY DEF Restart
<1>3. SendInv'
    BY <1>1, <1>2, ConstantsAssumption
    DEF SendInv, Locking, Registered, Recipients
<1>4. ContentInv'
    BY <1>1, <1>2, ConstantsAssumption DEF ContentInv, ContentValid, Nothing
<1>5. LocalInv'
    BY <1>1, <1>2, ConstantsAssumption
    DEF LocalInv, ValidTodo, Unanswered, Unsubscribed, Nothing
<1>6. \A s \in Streams : ~Serving(s)'
    BY <1>2 DEF Serving
<1>7. VersionsSent'
    BY <1>2 DEF VersionsSent
<1> QED
    BY <1>3, <1>4, <1>5, <1>6, <1>7 DEF NoLostUpdate, CurrentVersionIsCurrent

\* Behind gRPC, and across restarts, notify never sends on a closed channel,
\* and nothing invalid or unmarshalable is sent to a client.
THEOREM SafeBehindGRPC == SessionSpec => [](NoSendOnClosed /\ OnlyValidServed)
<1> DEFINE Inv == FlowInv /\ SendInv /\ ContentInv
<1>1. SessionInit => Inv
    BY InitFlowInv, InitSendInv, InitContentInv DEF SessionInit
<1>2. Inv /\ [SessionNext]_allVars => Inv'
    BY NextFlowInv, ManagerStep, RestartManager, NextSendInv, NextContentInv
<1>3. Inv => NoSendOnClosed /\ OnlyValidServed
    BY DEF SendInv, TypeOK, Registered, Recipients, NoSendOnClosed, ContentInv,
           ContentValid, OnlyValidServed
<1> QED
    BY <1>1, <1>2, <1>3, PTL DEF SessionSpec

\* Behind gRPC, and across restarts, no update is lost and the version stands
\* for the content, under the hypotheses of the manager's own theorems.
THEOREM CurrentBehindGRPC ==
    ASSUME ValidCalls, NodeKnown
    PROVE  SessionSpec => [](NoLostUpdate /\ CurrentVersionIsCurrent)
<1> DEFINE Inv == /\ FlowInv /\ SendInv /\ LocalInv
                  /\ NoLostUpdate /\ VersionsSent /\ CurrentVersionIsCurrent
<1>1. SessionInit => Inv
  <2>1. Init => /\ NoLostUpdate /\ VersionsSent /\ CurrentVersionIsCurrent
      BY DEF Init, NoLostUpdate, VersionsSent, CurrentVersionIsCurrent, Serving
  <2> QED
      BY <2>1, InitFlowInv, InitSendInv, InitLocalInv DEF SessionInit
<1>2. Inv /\ [SessionNext]_allVars => Inv'
  <2> SUFFICES ASSUME Inv, [SessionNext]_allVars PROVE Inv'
      OBVIOUS
  <2>1. CASE Restart
      BY <2>1, NextFlowInv, RestartManager
  <2>2. CASE ~Restart
    <3>1. [Next]_vars
        BY <2>2, ManagerStep
    <3>2. SendInv' /\ LocalInv' /\ NoLostUpdate'
        BY <3>1, NextUpdateInv DEF UpdateInv
    <3>3. VersionsSent' /\ CurrentVersionIsCurrent'
        BY <3>1, NextVersionInv DEF VersionInv
    <3> QED
        BY <3>2, <3>3, NextFlowInv
  <2> QED
      BY <2>1, <2>2
<1>3. QED
    BY <1>1, <1>2, PTL DEF SessionSpec

\* Behind gRPC, every process implements the service from its start to its
\* end: what Envoy sends and when, late and repeated answers, broken links and
\* restarts do not make it step out of what ManagerService allows.
THEOREM ProcessesImplementService ==
    ASSUME ValidCalls, NodeKnown
    PROVE  SessionSpec => EveryProcessServes
<1> DEFINE Inv == FlowInv /\ ServiceInv
<1>1. SessionInit => Inv /\ Service!Init
  <2>1. Init => Service!Init
      BY NobodyServed DEF Init, Serving
  <2> QED
      BY <2>1, InitFlowInv, InitServiceInv DEF SessionInit
<1>2. Inv /\ [SessionNext]_allVars => Inv'
  <2> SUFFICES ASSUME Inv, [SessionNext]_allVars PROVE ServiceInv'
      BY NextFlowInv
  <2>1. CASE Restart
    <3>1. Settled'
        BY <2>1 DEF Restart, Settled
    <3> QED
        BY <2>1, <3>1, RestartManager DEF ServiceInv
  <2>2. CASE ~Restart
      BY <2>2, ManagerStep, NextServiceInv
  <2> QED
      BY <2>1, <2>2
<1>3. Restart => (Service!Init)'
  <2> SUFFICES ASSUME Restart PROVE (Service!Init)'
      OBVIOUS
  <2>1. resources' = Nothing /\ \A s \in Streams : ~Serving(s)'
      BY DEF Restart, Serving
  <2> QED
      BY <2>1 DEF Service!Init, Service!NoStore, Nothing, Served, ServedNames,
                  Views, Owed, Dropped
<1>4. Inv /\ Inv' /\ [SessionNext]_allVars
          => [Service!Next \/ (Restart /\ (Service!Init)')]_(Service!vars)
  <2> SUFFICES ASSUME Inv, Inv', [SessionNext]_allVars, ~Restart
               PROVE  [Service!Next]_(Service!vars)
      BY <1>3
  <2> QED
      BY ManagerStep, NextImplements
<1>5. QED
    BY <1>1, <1>2, <1>4, PTL DEF SessionSpec, EveryProcessServes

-----------------------------------------------------------------------------
(***************************************************************************)
(* What a version says to the client, whichever process it comes from.     *)
(***************************************************************************)

\* No two processes have the same VersionPrefix.
PrefixesDiffer ==
    \A i, j \in DOMAIN Prefixes : Prefixes[i] = Prefixes[j] => i = j

\* A version that some process has given out by now.
Given(v) ==
    \E i \in 1 .. process :
        v[1] = Prefixes[i] /\ (i = process => v[2] <= version)

\* Under the version that the manager is at, the content is the manager's.
Faithful(v, content) ==
    v = VersionString(version) =>
        \A n \in Names : content[n] = resources[n] \/ Unversioned(n)

Vouched(v, content) == Given(v) /\ Faithful(v, content)

\* The responses between Stream and the client.
Messages(s) == Elements(outHand[s]) \union Elements(downlink[s])

\* So is what waits for the sender, what is under way, and what the client
\* uses.
Truthful ==
    /\ \A s \in Streams :
          /\ \A m \in Messages(s) : Vouched(m.version, m.content)
          /\ spc[s] = "push" => Vouched(VersionString(sentVersion[s]), sent[s])
    /\ heldVersion # NoVersion => Vouched(heldVersion, held)

TruthInv == FlowInv /\ ValidTodo /\ Truthful

\* What a step does to the responses under way: it takes away, or it adds the
\* response that has waited for the sender.
LEMMA ResponsesMove ==
    ASSUME FlowInv, [SessionNext]_allVars, NEW t \in Streams
    PROVE  \A m \in Messages(t)' :
              \/ m \in Messages(t)
              \/ /\ spc[t] = "push"
                 /\ m.version = VersionString(sentVersion[t])
                 /\ m.content = sent[t]
<1> DEFINE New(m) == /\ spc[t] = "push"
                     /\ m.version = VersionString(sentVersion[t])
                     /\ m.content = sent[t]
           Goal == \A m \in Messages(t)' : m \in Messages(t) \/ New(m)
<1> USE DEF FlowInv, SessionTypeOK
<1>1. ASSUME outHand'[t] = outHand[t], downlink'[t] = downlink[t]
      PROVE  Goal
    BY <1>1 DEF Messages
<1>2. ASSUME NEW s \in Streams, Send(s)
      PROVE  Goal
  <2>1. /\ outHand[s] \in Seq(Response) /\ downlink[s] \in Seq(Response)
        /\ outHand[s] # <<>>
      BY <1>2 DEF Send
  <2>2. outHand[s] = <<Head(outHand[s])>> /\ Head(outHand[s]) \in Response
      BY <2>1, HandHoldsOne DEF Flow, OneInHand
  <2>3. PICK r \in Response : outHand[s] = <<r>>
      BY <2>2
  <2>4. downlink[s] \o outHand[s] = Append(downlink[s], r)
      BY <2>1, <2>3, ElementsAppend
  <2>5. Elements(Append(downlink[s], r)) = Elements(downlink[s]) \union {r}
      BY <2>1, ElementsAppend
  <2>6. Elements(outHand[s]) = {r} /\ Elements(<<>>) = {}
      BY <2>3, ElementsOne
  <2>7. CASE t = s
    <3>1. outHand'[s] = <<>> /\ downlink'[s] = Append(downlink[s], r)
        BY <1>2, <2>4 DEF Send
    <3>2. Messages(s)' = Messages(s)
        BY <2>5, <2>6, <3>1 DEF Messages
    <3> QED
        BY <2>7, <3>2
  <2>8. CASE t # s
      BY <1>1, <1>2, <2>8 DEF Send
  <2> QED
      BY <2>7, <2>8
<1>3. ASSUME NEW s \in Streams, SendError(s) \/ Disconnect(s)
      PROVE  Goal
    BY <1>3, ElementsOne DEF SendError, Disconnect, linkVars, txVars, Messages
<1>4. ASSUME NEW s \in Streams, Take(s)
      PROVE  Goal
  <2>1. PICK r \in [nonce : {pushes[s]}, content : {sent[s]},
                    version : {VersionString(sentVersion[s])}] :
              outHand' = [outHand EXCEPT ![s] = <<r>>]
      BY <1>4 DEF Take
  <2>2. spc[s] = "push" /\ downlink' = downlink
      BY <1>4 DEF Take, PushAccepted, linkVars
  <2>3. Elements(<<r>>) = {r}
      BY ElementsOne
  <2>4. CASE t = s
    <3>1. New(r)
        BY <2>1, <2>2, <2>4
    <3>2. Messages(t)' \subseteq Messages(t) \union {r}
        BY <2>1, <2>2, <2>3, <2>4 DEF Messages
    <3> QED
        BY <3>1, <3>2
  <2>5. CASE t # s
      BY <1>1, <2>1, <2>2, <2>5
  <2> QED
      BY <2>4, <2>5
<1>5. ASSUME NEW s \in Streams, Receive(s)
      PROVE  Goal
  <2>1. /\ downlink[s] \in Seq(Response) /\ downlink[s] # <<>>
        /\ downlink' = [downlink EXCEPT ![s] = Tail(@)] /\ outHand' = outHand
      BY <1>5 DEF Receive, txVars
  <2>2. Elements(Tail(downlink[s])) \subseteq Elements(downlink[s])
      BY <2>1, ElementsHead
  <2> QED
      BY <2>1, <2>2 DEF Messages
<1>6. CASE Restart
    BY <1>6, ElementsOne DEF Restart, Messages
<1> HIDE DEF Goal, FlowInv, SessionTypeOK
<1>7. ASSUME NEW w \in Writers, Call(w) \/ Work(w)
      PROVE  Goal
    BY <1>1, <1>7 DEF Call, Work, sessionVars, linkVars, txVars
<1>8. ASSUME NEW s \in Streams,
             \/ ReceiverStep(s) \/ SenderReturns(s) \/ HandOver(s) \/ SeeEnd(s)
             \/ StreamStep(s) \/ Return(s) \/ Connect(s) \/ NetworkFails(s)
             \/ \E k \in txs[s] : Tick(s, k)
      PROVE  Goal
    BY <1>1, <1>8 DEF ReceiverStep, Recv, RecvError, SenderReturns, HandOver,
                      SeeEnd, StreamStep, Return, Connect, NetworkFails, Tick,
                      sessionVars, linkVars, txVars
<1>9. ASSUME Shutdown \/ UNCHANGED allVars
      PROVE  Goal
    BY <1>1, <1>9 DEF Shutdown, allVars, sessionVars, linkVars, txVars
<1> QED
    BY <1>2, <1>3, <1>4, <1>5, <1>6, <1>7, <1>8, <1>9
    DEF SessionNext, SenderStep, Goal

\* What the client uses, it has received.
LEMMA HeldMoves ==
    ASSUME FlowInv, [SessionNext]_allVars
    PROVE  \/ held' = held /\ heldVersion' = heldVersion
           \/ \E t \in Streams : \E m \in Messages(t) :
                 held' = m.content /\ heldVersion' = m.version
<1>1. ASSUME NEW s \in Streams, Receive(s)
      PROVE  \/ held' = held /\ heldVersion' = heldVersion
             \/ \E t \in Streams : \E m \in Messages(t) :
                   held' = m.content /\ heldVersion' = m.version
  <2>1. downlink[s] \in Seq(Response) /\ downlink[s] # <<>>
      BY <1>1 DEF Receive, FlowInv, SessionTypeOK
  <2>2. Head(downlink[s]) \in Messages(s)
      BY <2>1, ElementsHead DEF Messages
  <2> QED
      BY <1>1, <2>2 DEF Receive
<1>2. (\A s \in Streams : ~Receive(s)) => UNCHANGED <<held, heldVersion>>
    BY DEF SessionNext, Call, Work, ReceiverStep, Recv, RecvError, SenderStep,
           Send, SendError, SenderReturns, HandOver, SeeEnd, Take, StreamStep,
           Return, Tick, Connect, Disconnect, NetworkFails, Shutdown, Restart,
           sessionVars, envoyVars, allVars
<1> QED
    BY <1>1, <1>2

\* A response that waits for the sender has waited before, or was just built.
LEMMA PushMoves ==
    ASSUME FlowInv, [SessionNext]_allVars, NEW t \in Streams, spc'[t] = "push"
    PROVE  \/ /\ spc[t] = "push" /\ sent'[t] = sent[t]
              /\ sentVersion'[t] = sentVersion[t]
           \/ Build(t) /\ UNCHANGED sessionVars
<1>1. ~Restart
    BY DEF Restart
<1> USE DEF FlowInv, SessionTypeOK, TypeOK
<1>2. ASSUME NEW s \in Streams, Build(s), UNCHANGED sessionVars
      PROVE  \/ /\ spc[t] = "push" /\ sent'[t] = sent[t]
                /\ sentVersion'[t] = sentVersion[t]
             \/ Build(t) /\ UNCHANGED sessionVars
  <2>1. t # s => /\ spc'[t] = spc[t] /\ sent'[t] = sent[t]
                 /\ sentVersion'[t] = sentVersion[t]
      BY <1>2 DEF Build, GoTo
  <2> QED
      BY <1>2, <2>1
<1>3. ASSUME NEW s \in Streams, Unregister(s)
      PROVE  /\ spc[t] = "push" /\ sent'[t] = sent[t]
             /\ sentVersion'[t] = sentVersion[t]
    BY <1>3 DEF Unregister, GoTo
<1>4. ASSUME UNCHANGED <<sent, sentVersion>>,
             \/ spc' = spc
             \/ \E s \in Streams,
                   point \in {"opening", "loop", "build", "exit"} :
                   spc' = [spc EXCEPT ![s] = point]
      PROVE  /\ spc[t] = "push" /\ sent'[t] = sent[t]
             /\ sentVersion'[t] = sentVersion[t]
    BY <1>4
<1> HIDE DEF FlowInv, SessionTypeOK, TypeOK
<1> DEFINE Quiet == /\ UNCHANGED <<sent, sentVersion>>
                    /\ \/ spc' = spc
                       \/ \E s \in Streams,
                             point \in {"opening", "loop", "build", "exit"} :
                             spc' = [spc EXCEPT ![s] = point]
<1>5. ASSUME NEW w \in Writers, Call(w) \/ Work(w)
      PROVE  Quiet
  <2>1. WriterNext(w)
      BY <1>5 DEF Call, Work, WriterNext
  <2> QED
      BY <2>1 DEF WriterNext, AddCall, Replace, Delete, AddStep, AddStore,
                  AddInvalid, AddStored, NotifyStart, NotifyLock, SendStep,
                  Deliver, SkipBusy, NotifyTimeout, NotifyReturn, pushVars
<1>6. ASSUME NEW s \in Streams,
             ReceiverStep(s) \/ SenderStep(s) \/ Return(s) \/ Receive(s)
                \/ Disconnect(s) \/ NetworkFails(s)
      PROVE  Quiet
    BY <1>6 DEF ReceiverStep, Recv, RecvError, SenderStep, Send, SendError,
                SenderReturns, Return, Receive, Disconnect, NetworkFails, vars,
                pushVars
<1>7. ASSUME NEW s \in Streams,
             \/ HandOver(s) \/ SeeEnd(s) \/ Take(s) \/ Connect(s)
             \/ Register(s) \/ LeaveDrained(s) \/ BuildError(s) \/ PushTimeout(s)
             \/ \E k \in txs[s] : Tick(s, k)
      PROVE  Quiet
    BY <1>7 DEF HandOver, Acknowledge, AskConfig, SeeEnd, Hangup, Take,
                PushAccepted, Connect, Open, Register, LeaveDrained, BuildError,
                PushTimeout, Tick, CleanupTick, GoTo, pushVars
<1>8. ASSUME Shutdown \/ UNCHANGED allVars
      PROVE  Quiet
    BY <1>8 DEF Shutdown, Drain, allVars, vars, pushVars
<1> QED
    BY <1>1, <1>2, <1>3, <1>4, <1>5, <1>6, <1>7, <1>8 DEF SessionNext, StreamStep

\* What concerns the manager's resources, in a session.
LEMMA ContentMoves ==
    ASSUME FlowInv, [SessionNext]_allVars, ~Restart
    PROVE  /\ process' = process
           /\ \/ UNCHANGED <<resources, version, wpc, changed, todo>>
              \/ \E w \in Writers : WriterNext(w)
<1>1. ASSUME NEW w \in Writers, Call(w) \/ Work(w)
      PROVE  WriterNext(w) /\ process' = process
    BY <1>1 DEF Call, Work, WriterNext, sessionVars
<1>2. ASSUME NEW s \in Streams,
             \/ ReceiverStep(s) \/ SenderStep(s) \/ HandOver(s) \/ SeeEnd(s)
             \/ Take(s) \/ StreamStep(s) \/ Return(s) \/ Connect(s)
             \/ Receive(s) \/ Disconnect(s) \/ NetworkFails(s)
             \/ \E k \in txs[s] : Tick(s, k)
      PROVE  UNCHANGED <<process, resources, version, wpc, changed, todo>>
    BY <1>2 DEF ReceiverStep, Recv, RecvError, SenderStep, Send, SendError,
                SenderReturns, HandOver, Acknowledge, AskConfig, SeeEnd, Hangup,
                Take, PushAccepted, StreamStep, Register, LeaveDrained, Build,
                BuildError, PushTimeout, Unregister, Return, Tick, CleanupTick,
                Connect, Open, Receive, Disconnect, NetworkFails, sessionVars,
                vars, managerVars, writerVars
<1>3. ASSUME Shutdown \/ UNCHANGED allVars
      PROVE  UNCHANGED <<process, resources, version, wpc, changed, todo>>
    BY <1>3 DEF Shutdown, Drain, allVars, vars, sessionVars, managerVars,
                writerVars
<1> QED
    BY <1>1, <1>2, <1>3 DEF SessionNext

\* Callers that pass valid resources leave nothing invalid to store.
LEMMA ValidTodoStays ==
    ASSUME ValidCalls, FlowInv, ValidTodo, [SessionNext]_allVars
    PROVE  ValidTodo'
<1> USE ConstantsAssumption DEF ValidTodo
<1>1. TypeOK
    BY DEF FlowInv, SessionTypeOK
<1>2. CASE Restart
    BY <1>2 DEF Restart, Nothing
<1>3. CASE UNCHANGED todo
    BY <1>3
<1>4. ASSUME NEW w \in Writers, WriterNext(w), todo' # todo
      PROVE  ValidTodo'
  <2>1. CASE \E batch \in Batches : AddCall(w, batch)
      BY <1>1, <2>1 DEF AddCall, ValidCalls, TypeOK
  <2>2. ASSUME NEW n \in Names, AddStore(w, n)
        PROVE  ValidTodo'
    <3>1. todo' = [todo EXCEPT ![w] = [@ EXCEPT ![n] = Absent]]
        BY <2>2 DEF AddStore
    <3> QED
        BY <1>1, <3>1 DEF TypeOK, Store
  <2>3. ASSUME NEW n \in Names, AddInvalid(w, n)
        PROVE  FALSE
      BY <2>3 DEF AddInvalid, Valid
  <2> QED
      BY <1>4, <2>1, <2>2, <2>3
      DEF WriterNext, Replace, Delete, AddStep, AddStored, NotifyStart,
          NotifyLock, SendStep, Deliver, SkipBusy, NotifyTimeout, NotifyReturn
<1> QED
    BY <1>2, <1>3, <1>4, ContentMoves

\* A version that stood for some content stands for it after any step, up to
\* names that have no version yet: a new version is one that nobody has, and
\* so is the first one of a new process.
LEMMA VouchedStays ==
    ASSUME ValidCalls, PrefixesDiffer, FlowInv, ValidTodo,
           [SessionNext]_allVars,
           NEW v \in Versions, NEW content \in Store, Vouched(v, content)
    PROVE  Vouched(v, content)'
<1>1. /\ TypeOK /\ version \in Nat /\ process \in 1 .. Len(Prefixes)
      /\ DOMAIN Prefixes = 1 .. Len(Prefixes) /\ Len(Prefixes) \in Nat
    BY SessionAssumption DEF FlowInv, SessionTypeOK, TypeOK
<1>2. PICK i \in 1 .. process :
              v[1] = Prefixes[i] /\ (i = process => v[2] <= version)
    BY DEF Vouched, Given
<1>3. v[2] \in Nat
    BY DEF Versions
<1>4. CASE Restart
  <2>1. process' = process + 1 /\ process' \in 1 .. Len(Prefixes)
      BY <1>1, <1>4 DEF Restart
  <2>2. i \in 1 .. process' /\ i # process' /\ i \in DOMAIN Prefixes
      BY <1>1, <1>2, <2>1
  <2>3. Given(v)'
      BY <1>2, <2>2 DEF Given
  <2>4. v # VersionString(version)'
      BY <1>1, <1>2, <2>1, <2>2 DEF VersionString, PrefixesDiffer
  <2> QED
      BY <2>3, <2>4 DEF Vouched, Faithful
<1>5. ASSUME process' = process,
             UNCHANGED <<resources, version, wpc, changed, todo>>
      PROVE  Vouched(v, content)'
    BY <1>5 DEF Vouched, Given, Faithful, VersionString, Unversioned
<1>6. ASSUME process' = process, NEW w \in Writers, WriterNext(w)
      PROVE  Vouched(v, content)'
  <2>1. version' \in {version, version + 1}
      BY <1>6, WriterVersion
  <2>2. Given(v)'
    <3>1. i = process' => v[2] <= version'
        BY <1>1, <1>2, <1>3, <1>6, <2>1
    <3> QED
        BY <1>2, <1>6, <3>1 DEF Given
  <2>3. Faithful(v, content)'
    <3>1. SUFFICES ASSUME v = VersionString(version)', NEW n \in Names
                   PROVE  content[n] = resources'[n] \/ Unversioned(n)'
        BY DEF Faithful
    <3>2. v[1] = Prefixes[process] /\ v[2] = version'
        BY <1>6, <3>1 DEF VersionString
    <3>3. i = process
      <4>1. i \in DOMAIN Prefixes /\ process \in DOMAIN Prefixes
          BY <1>1, <1>2
      <4>2. Prefixes[i] = Prefixes[process]
          BY <1>2, <3>2
      <4> QED
          BY <4>1, <4>2 DEF PrefixesDiffer
    <3>4. version' = version
        BY <1>1, <1>2, <2>1, <3>2, <3>3
    <3>5. content[n] = resources[n] \/ Unversioned(n)
        BY <1>6, <3>1, <3>4 DEF Vouched, Faithful, VersionString
    <3> QED
        BY <1>1, <1>6, <3>4, <3>5, WriterKeepsContent
  <2> QED
      BY <2>2, <2>3 DEF Vouched
<1> QED
    BY <1>4, <1>5, <1>6, ContentMoves

\* The manager reads its resources and its version under one lock, and the
\* prefix is that of its process.
LEMMA BuiltVouched ==
    ASSUME FlowInv, NEW t \in Streams, Build(t), UNCHANGED sessionVars
    PROVE  Vouched(VersionString(sentVersion[t]), sent[t])'
<1>1. /\ sentVersion'[t] = version /\ version' = version
      /\ process' = process /\ resources' = resources
    BY DEF Build, managerVars, sessionVars, FlowInv, SessionTypeOK, TypeOK
<1>2. \A n \in Names : sent'[t][n] = resources[n]
  <2>1. Wanted(sub[t]) = Names
      BY DEF FlowInv, Flow, Wildcard, Wanted
  <2> QED
      BY <2>1 DEF Build, FlowInv, SessionTypeOK, TypeOK
<1>3. process \in 1 .. process /\ version <= version
    BY SessionAssumption DEF FlowInv, SessionTypeOK, TypeOK
<1>4. Given(VersionString(sentVersion[t]))'
    BY <1>1, <1>3 DEF Given, VersionString
<1> QED
    BY <1>1, <1>2, <1>4 DEF Vouched, Faithful

\* Every step keeps the word of the versions.
LEMMA NextTruthInv ==
    ASSUME ValidCalls, PrefixesDiffer
    PROVE  TruthInv /\ [SessionNext]_allVars => TruthInv'
<1> SUFFICES ASSUME TruthInv, [SessionNext]_allVars PROVE Truthful'
    BY NextFlowInv, ValidTodoStays DEF TruthInv
<1>1. ASSUME NEW t \in Streams, NEW m \in Messages(t)
      PROVE  Vouched(m.version, m.content)'
  <2>1. m \in Response
      BY ElementsType DEF Messages, TruthInv, FlowInv, SessionTypeOK
  <2>2. m.version \in Versions /\ m.content \in Store
      BY <2>1 DEF Response
  <2>3. Vouched(m.version, m.content)
      BY DEF TruthInv, Truthful
  <2> QED
      BY <2>2, <2>3, VouchedStays DEF TruthInv
<1>2. ASSUME NEW t \in Streams, spc[t] = "push"
      PROVE  /\ VersionString(sentVersion[t]) \in Versions
             /\ \A v \in Versions, content \in Store :
                   v = VersionString(sentVersion[t]) /\ content = sent[t]
                      => Vouched(v, content)'
  <2>1. VersionString(sentVersion[t]) \in Versions /\ sent[t] \in Store
      BY VersionStringType DEF TruthInv, FlowInv, SessionTypeOK, TypeOK
  <2>2. Vouched(VersionString(sentVersion[t]), sent[t])
      BY <1>2 DEF TruthInv, Truthful
  <2> QED
      BY <2>1, <2>2, VouchedStays DEF TruthInv
<1>3. ASSUME NEW t \in Streams, NEW m \in Messages(t)'
      PROVE  Vouched(m.version, m.content)'
  <2>1. CASE m \in Messages(t)
      BY <1>1, <2>1
  <2>2. CASE /\ spc[t] = "push" /\ m.version = VersionString(sentVersion[t])
             /\ m.content = sent[t]
    <3>1. m.content \in Store
        BY <2>2 DEF TruthInv, FlowInv, SessionTypeOK, TypeOK
    <3> QED
        BY <1>2, <2>2, <3>1
  <2> QED
      BY <2>1, <2>2, ResponsesMove DEF TruthInv
<1>4. ASSUME NEW t \in Streams, spc'[t] = "push"
      PROVE  Vouched(VersionString(sentVersion[t]), sent[t])'
  <2>1. CASE Build(t) /\ UNCHANGED sessionVars
      BY <2>1, BuiltVouched DEF TruthInv
  <2>2. CASE /\ spc[t] = "push" /\ sent'[t] = sent[t]
             /\ sentVersion'[t] = sentVersion[t]
    <3>1. process' = process
      <4>1. ~Restart
          BY <1>4 DEF Restart
      <4> QED
          BY <4>1, ContentMoves DEF TruthInv
    <3>2. VersionString(sentVersion[t])' = VersionString(sentVersion[t])
        BY <2>2, <3>1 DEF VersionString
    <3>3. sent[t] \in Store
        BY DEF TruthInv, FlowInv, SessionTypeOK, TypeOK
    <3> QED
        BY <1>2, <2>2, <3>2, <3>3 DEF Vouched, Given, Faithful
  <2> QED
      BY <1>4, <2>1, <2>2, PushMoves DEF TruthInv
<1>5. heldVersion' # NoVersion => Vouched(heldVersion, held)'
  <2>1. CASE held' = held /\ heldVersion' = heldVersion
    <3>1. SUFFICES ASSUME heldVersion # NoVersion
                   PROVE  Vouched(heldVersion, held)'
        BY <2>1
    <3>2. /\ heldVersion \in Versions /\ held \in Store
          /\ Vouched(heldVersion, held)
        BY <3>1 DEF TruthInv, FlowInv, SessionTypeOK, Truthful
    <3>3. \A v \in Versions, content \in Store :
              v = heldVersion /\ content = held => Vouched(v, content)'
        BY <3>2, VouchedStays DEF TruthInv
    <3> QED
        BY <2>1, <3>2, <3>3 DEF Vouched, Given, Faithful
  <2>2. ASSUME NEW t \in Streams, NEW m \in Messages(t),
               held' = m.content, heldVersion' = m.version
        PROVE  Vouched(heldVersion, held)'
      BY <1>1, <2>2 DEF Vouched, Given, Faithful
  <2> QED
      BY <2>1, <2>2, HeldMoves DEF TruthInv
<1> QED
    BY <1>3, <1>4, <1>5 DEF Truthful

\* A client that has accepted the version the manager is at uses the manager's
\* resources, up to names that are stored and have no version yet, for any
\* number of streams and processes: what has a version of another process, or
\* an older one, cannot be mistaken for it.
THEOREM HeldIsCurrent ==
    ASSUME ValidCalls, PrefixesDiffer
    PROVE  SessionSpec => []HeldVersionIsCurrent
<1>1. SessionInit => TruthInv
  <2> SUFFICES ASSUME SessionInit PROVE ValidTodo /\ Truthful
      BY InitFlowInv DEF TruthInv
  <2>1. ValidTodo
      BY ConstantsAssumption DEF SessionInit, Init, ValidTodo, Nothing
  <2>2. \A s \in Streams : Messages(s) = {} /\ spc[s] = "off"
      BY ElementsOne DEF SessionInit, Init, Messages
  <2> QED
      BY <2>1, <2>2 DEF SessionInit, Truthful
<1>2. TruthInv /\ [SessionNext]_allVars => TruthInv'
    BY NextTruthInv
<1>3. TruthInv => HeldVersionIsCurrent
  <2> SUFFICES ASSUME TruthInv, heldVersion = VersionString(version),
                      NEW n \in Names
               PROVE  held[n] = resources[n] \/ Unversioned(n)
      BY DEF HeldVersionIsCurrent, Unversioned
  <2>1. heldVersion \in Versions
      BY VersionStringType DEF TruthInv, FlowInv, SessionTypeOK, TypeOK
  <2>2. heldVersion # NoVersion
      BY <2>1, SessionAssumption DEF Versions
  <2> QED
      BY <2>2 DEF TruthInv, Truthful, Vouched, Faithful
<1> QED
    BY <1>1, <1>2, <1>3, PTL DEF SessionSpec

-----------------------------------------------------------------------------
(***************************************************************************)
(* What is said last to a connected client: its way from Stream to Envoy.  *)
(***************************************************************************)

\* Stream has handed over all that it has built.
Said(s) == spc[s] \in {"loop", "build"} /\ pushes[s] > 0

\* The last response on its way to the client has the content that Stream
\* built last; when nothing is on its way, the client uses that content.
LastArrives(s) ==
    current = s /\ link[s] = "up" /\ Said(s) =>
        /\ \A m \in Elements(outHand[s]) : m.content = sent[s]
        /\ outHand[s] = <<>> /\ downlink[s] # <<>>
              => downlink[s][Len(downlink[s])].content = sent[s]
        /\ outHand[s] = <<>> /\ downlink[s] = <<>> /\ Acceptable(sent[s])
              => held = sent[s]

ArrivalInv == FlowInv /\ \A s \in Streams : LastArrives(s)

\* Steps that leave the stream and its messages alone, or end it.
LEMMA SameArrives ==
    ASSUME NEW t \in Streams, LastArrives(t),
           \/ current' # t
           \/ link'[t] # "up"
           \/ ~Said(t)'
           \/ /\ current' = current /\ held' = held /\ link'[t] = link[t]
              /\ Said(t)' => Said(t)
              /\ sent'[t] = sent[t] /\ outHand'[t] = outHand[t]
              /\ downlink'[t] = downlink[t]
    PROVE  LastArrives(t)'
BY DEF LastArrives, Acceptable

\* The sender puts its response behind all others, or drops it when the link
\* has ended.
LEMMA SenderArrives ==
    ASSUME FlowInv, NEW s \in Streams, SenderStep(s),
           NEW t \in Streams, LastArrives(t)
    PROVE  LastArrives(t)'
<1> USE DEF FlowInv, SessionTypeOK
<1>1. UNCHANGED <<current, held, link, spc, pushes, sent>>
    BY DEF SenderStep, Send, SendError, SenderReturns, vars, pushVars, linkVars,
           envoyVars
<1>2. Said(t)' <=> Said(t)
    BY <1>1 DEF Said
<1>3. CASE t = s /\ Send(s)
  <2>1. /\ outHand[s] # <<>> /\ outHand'[s] = <<>>
        /\ downlink'[s] = downlink[s] \o outHand[s]
        /\ downlink[s] \in Seq(Response) /\ outHand[s] \in Seq(Response)
      BY <1>3 DEF Send
  <2>2. outHand[s] = <<Head(outHand[s])>> /\ Head(outHand[s]) \in Response
      BY <2>1, HandHoldsOne DEF Flow, OneInHand
  <2>3. PICK r \in Response : outHand[s] = <<r>>
      BY <2>2
  <2>4. /\ downlink'[s] = Append(downlink[s], r) /\ downlink'[s] # <<>>
        /\ downlink'[s][Len(downlink'[s])] = r
      BY <2>1, <2>3
  <2>5. Elements(outHand[s]) = {r} /\ Elements(outHand'[s]) = {}
      BY <2>1, <2>3, ElementsOne
  <2> QED
      BY <1>1, <1>2, <1>3, <2>1, <2>4, <2>5 DEF LastArrives
<1>4. CASE SendError(s)
  <2>1. link[s] = "down"
      BY <1>4 DEF SendError
  <2>2. t # s => outHand'[t] = outHand[t] /\ downlink'[t] = downlink[t]
      BY <1>4 DEF SendError, linkVars
  <2> QED
      BY <1>1, <1>2, <2>1, <2>2, SameArrives
<1>5. CASE SenderReturns(s) \/ (t # s /\ Send(s))
  <2>1. outHand'[t] = outHand[t] /\ downlink'[t] = downlink[t]
      BY <1>5 DEF SenderReturns, Send, linkVars
  <2> QED
      BY <1>1, <1>2, <2>1, SameArrives
<1> QED
    BY <1>3, <1>4, <1>5 DEF SenderStep

\* What Stream built last is what the sender takes.
LEMMA TakeArrives ==
    ASSUME FlowInv, NEW s \in Streams, Take(s),
           NEW t \in Streams, LastArrives(t)
    PROVE  LastArrives(t)'
<1>1. PICK r \in [nonce : {pushes[s]}, content : {sent[s]},
                  version : {VersionString(sentVersion[s])}] :
            outHand' = [outHand EXCEPT ![s] = <<r>>]
    BY DEF Take
<1>2. UNCHANGED <<current, held, link, downlink, pushes, sent>>
    BY DEF Take, PushAccepted, pushVars, linkVars, envoyVars
<1>3. CASE t = s
  <2>1. outHand'[t] = <<r>> /\ Elements(<<r>>) = {r}
      BY <1>1, <1>3, ElementsOne DEF FlowInv, SessionTypeOK
  <2>2. r.content = sent'[t] /\ outHand'[t] # <<>>
      BY <1>1, <1>2, <1>3, <2>1
  <2> QED
      BY <2>1, <2>2 DEF LastArrives
<1>4. CASE t # s
  <2>1. outHand'[t] = outHand[t] /\ spc'[t] = spc[t]
      BY <1>1, <1>4 DEF Take, PushAccepted, GoTo, FlowInv, SessionTypeOK, TypeOK
  <2> QED
      BY <1>2, <2>1, SameArrives DEF Said
<1> QED
    BY <1>3, <1>4

\* The client takes the oldest response; the last one it takes is what it
\* uses, unless it refuses it.
LEMMA ReceiveArrives ==
    ASSUME FlowInv, NEW s \in Streams, Receive(s),
           NEW t \in Streams, LastArrives(t)
    PROVE  LastArrives(t)'
<1> DEFINE r == Head(downlink[s])
<1>1. /\ current = s /\ current' = s
      /\ UNCHANGED <<link, outHand, spc, pushes, sent>>
    BY DEF Receive, vars, pushVars, txVars
<1>2. CASE t # s
    BY <1>1, <1>2, SameArrives
<1>3. CASE t = s /\ link[s] = "up" /\ Said(s)
  <2>1. /\ downlink[s] \in Seq(Response) /\ downlink[s] # <<>>
        /\ downlink'[s] = Tail(downlink[s])
      BY DEF Receive, FlowInv, SessionTypeOK
  <2>2. CASE downlink'[s] = <<>> /\ downlink[s][Len(downlink[s])] = r
    <3>1. outHand[s] = <<>> => r.content = sent[s]
        BY <1>1, <1>3, <2>1, <2>2 DEF LastArrives
    <3>2. Acceptable(r.content) => held' = r.content
        BY DEF Receive
    <3> QED
        BY <1>1, <1>3, <2>2, <3>1, <3>2 DEF LastArrives, Acceptable
  <2>3. CASE /\ downlink'[s] # <<>>
             /\ downlink'[s][Len(downlink'[s])] = downlink[s][Len(downlink[s])]
      BY <1>1, <1>3, <2>1, <2>3 DEF LastArrives
  <2> QED
      BY <2>1, <2>2, <2>3, LastOfTail
<1>4. CASE t = s /\ ~(link[s] = "up" /\ Said(s))
    BY <1>1, <1>4, SameArrives DEF Said
<1> QED
    BY <1>2, <1>3, <1>4

\* Stream goes on; only Build changes what it has sent, and then it has not
\* handed it over.
LEMMA StreamArrives ==
    ASSUME FlowInv, NEW s \in Streams,
           \/ HandOver(s) \/ SeeEnd(s) \/ StreamStep(s)
           \/ \E k \in txs[s] : Tick(s, k),
           NEW t \in Streams, LastArrives(t)
    PROVE  LastArrives(t)'
<1> USE DEF FlowInv, SessionTypeOK, TypeOK
<1>1. UNCHANGED <<current, held, link, outHand, downlink>>
    BY DEF HandOver, SeeEnd, StreamStep, Tick, sessionVars, linkVars, txVars,
           envoyVars
<1>2. CASE Build(s) \/ Unregister(s)
  <2>1. CASE t = s
    <3>1. spc'[s] \in {"push", "done"}
        BY <1>2 DEF Build, Unregister, GoTo
    <3> QED
        BY <2>1, <3>1, SameArrives DEF Said
  <2>2. CASE t # s
    <3>1. sent'[t] = sent[t] /\ spc'[t] = spc[t] /\ pushes'[t] = pushes[t]
      <4>1. CASE Build(s)
          BY <2>2, <4>1 DEF Build, GoTo
      <4>2. CASE Unregister(s)
          BY <2>2, <4>2 DEF Unregister, GoTo
      <4> QED
          BY <1>2, <4>1, <4>2
    <3> QED
        BY <1>1, <3>1, SameArrives DEF Said
  <2> QED
      BY <2>1, <2>2
<1>3. CASE ~Build(s) /\ ~Unregister(s)
  <2>1. /\ UNCHANGED <<sent, pushes>>
        /\ \/ spc' = spc
           \/ spc[s] = "loop" /\ spc' = [spc EXCEPT ![s] = "build"]
           \/ spc[s] = "opening" /\ spc' = [spc EXCEPT ![s] = "loop"]
           \/ spc' = [spc EXCEPT ![s] = "exit"]
    <3>1. CASE HandOver(s)
        BY <3>1 DEF HandOver, Acknowledge, AskConfig, GoTo, pushVars
    <3>2. CASE SeeEnd(s)
        BY <3>2 DEF SeeEnd, Hangup, GoTo, pushVars
    <3>3. CASE StreamStep(s)
        BY <1>3, <3>3 DEF StreamStep, Register, LeaveDrained, BuildError,
                          PushTimeout, GoTo, pushVars
    <3>4. CASE \E k \in txs[s] : Tick(s, k)
        BY <3>4 DEF Tick, CleanupTick, pushVars
    <3> QED
        BY <3>1, <3>2, <3>3, <3>4
  <2>2. Said(t)' => Said(t)
    <3>1. \/ spc'[t] = spc[t]
          \/ spc[t] = "loop" /\ spc'[t] = "build"
          \/ spc[t] = "opening" \/ spc'[t] = "exit"
        BY <2>1
    <3>2. spc[t] = "opening" => pushes[t] = 0
        BY DEF Flow, NotBegun
    <3> HIDE DEF FlowInv, SessionTypeOK, TypeOK
    <3> QED
        BY <2>1, <3>1, <3>2 DEF Said
  <2> QED
      BY <1>1, <2>1, <2>2, SameArrives
<1> QED
    BY <1>2, <1>3

\* Every step keeps the last response on its way.
LEMMA NextArrivalInv == ArrivalInv /\ [SessionNext]_allVars => ArrivalInv'
<1> SUFFICES ASSUME ArrivalInv, [SessionNext]_allVars, NEW t \in Streams
             PROVE  LastArrives(t)'
    BY NextFlowInv DEF ArrivalInv
<1>1. LastArrives(t) /\ FlowInv
    BY DEF ArrivalInv
<1>2. ASSUME NEW w \in Writers, Call(w) \/ Work(w)
      PROVE  LastArrives(t)'
  <2>1. WriterNext(w) /\ UNCHANGED <<linkVars, txVars, envoyVars>>
      BY <1>2 DEF Call, Work, WriterNext, sessionVars
  <2>2. UNCHANGED <<pushes, sent>>
      BY <2>1 DEF WriterNext, AddCall, Replace, Delete, AddStep, AddStore,
                  AddInvalid, AddStored, NotifyStart, NotifyLock, SendStep,
                  Deliver, SkipBusy, NotifyTimeout, NotifyReturn, pushVars
  <2>3. \/ spc' = spc
        \/ \E s \in Streams : spc[s] = "loop" /\ spc' = [spc EXCEPT ![s] = "build"]
      BY <2>1 DEF WriterNext, AddCall, Replace, Delete, AddStep, AddStore,
                  AddInvalid, AddStored, NotifyStart, NotifyLock, SendStep,
                  Deliver, SkipBusy, NotifyTimeout, NotifyReturn
  <2>4. Said(t)' => Said(t)
      BY <1>1, <2>2, <2>3 DEF Said, FlowInv, SessionTypeOK, TypeOK
  <2> QED
      BY <1>1, <2>1, <2>2, <2>4, SameArrives DEF linkVars, txVars, envoyVars
<1>3. ASSUME NEW s \in Streams, ReceiverStep(s)
      PROVE  LastArrives(t)'
    BY <1>1, <1>3, SameArrives
    DEF ReceiverStep, Recv, RecvError, Said, vars, pushVars, txVars, envoyVars
<1>4. ASSUME NEW s \in Streams, Return(s) \/ NetworkFails(s)
      PROVE  LastArrives(t)'
    BY <1>1, <1>4, SameArrives
    DEF Return, NetworkFails, Said, vars, pushVars, txVars, envoyVars, FlowInv,
        SessionTypeOK
<1>5. ASSUME NEW s \in Streams, Connect(s)
      PROVE  LastArrives(t)'
  <2>1. current' = s /\ spc'[s] = "opening"
      BY <1>1, <1>5 DEF Connect, Open, GoTo, FlowInv, SessionTypeOK, TypeOK
  <2> QED
      BY <1>1, <2>1, SameArrives DEF Said
<1>6. ASSUME NEW s \in Streams, Disconnect(s)
      PROVE  LastArrives(t)'
  <2>1. current' # t
      BY <1>6, SessionAssumption DEF Disconnect
  <2> QED
      BY <1>1, <2>1, SameArrives
<1>7. CASE Shutdown \/ UNCHANGED allVars
    BY <1>1, <1>7, SameArrives
    DEF Shutdown, Drain, Said, allVars, vars, sessionVars, pushVars, linkVars,
        txVars, envoyVars
<1>8. CASE Restart
    BY <1>1, <1>8, SameArrives DEF Restart
<1> QED
    BY <1>1, <1>2, <1>3, <1>4, <1>5, <1>6, <1>7, <1>8, SenderArrives, TakeArrives,
       ReceiveArrives, StreamArrives DEF SessionNext

\* From the manager's map to Envoy no update is lost or overtaken: a connected
\* client with nothing on its way to it uses the manager's resources, except
\* for names that are about to be announced to it or whose announcement timed
\* out, and for a response that it refused; for any number of writers, streams
\* and processes, under the hypotheses of the manager's own theorem.
THEOREM UpdatesReachClients ==
    ASSUME ValidCalls, NodeKnown
    PROVE  SessionSpec => []QuietClientIsCurrent
<1>1. SessionInit => ArrivalInv
    BY InitFlowInv DEF SessionInit, Init, ArrivalInv, LastArrives, Said
<1>2. ArrivalInv /\ NoLostUpdate => QuietClientIsCurrent
  <2> SUFFICES ASSUME ArrivalInv, NoLostUpdate, NEW s \in Streams,
                      current = s, link[s] = "up", spc[s] = "loop", pushes[s] > 0,
                      outHand[s] = <<>>, downlink[s] = <<>>, Acceptable(sent[s]),
                      NEW n \in Names
               PROVE  \/ held[n] = resources[n]
                      \/ n \in missed[s]
                      \/ \E w \in Writers : Owes(w, s, n)
      BY DEF QuietClientIsCurrent
  <2>1. held = sent[s]
      BY DEF ArrivalInv, LastArrives, Said
  <2>2. n \in Wanted(sub[s])
      BY DEF ArrivalInv, FlowInv, Flow, Wildcard, Wanted
  <2>3. Accounted(s, n)
      BY <2>2 DEF NoLostUpdate, Serving
  <2> QED
      BY <2>1, <2>3 DEF Accounted
<1>3. SessionSpec => []NoLostUpdate
  <2>1. SessionSpec => [](NoLostUpdate /\ CurrentVersionIsCurrent)
      BY CurrentBehindGRPC
  <2> QED
      BY <2>1, PTL
<1> QED
    BY <1>1, <1>2, <1>3, NextArrivalInv, PTL DEF SessionSpec

-----------------------------------------------------------------------------
(***************************************************************************)
(* What is paid for by what: the number of pushes.                         *)
(***************************************************************************)

\* Requests under way that Stream will answer with the configuration.
Strangers(s) == UnderWay(s) \ txs[s]

\* Writers that have incremented the version and may still send to s.
Owing(s) ==
    {w \in Writers : \/ wpc[w] = "lock"
                     \/ wpc[w] = "send" /\ s \in unsent[w] \union blocked[w]}

\* A response that s is about to build, or its first one.
Due(s) == IF spc[s] \in {"off", "build"} THEN 1 ELSE 0

\* Pushes, and what will cause one, are covered by the first request, the
\* versions, and the transactions that were forgotten.
Balanced(s) ==
    pushes[s] + Due(s) + Cardinality(Strangers(s)) + Cardinality(Owing(s))
        <= 1 + version + forgotten[s]

Paid(s) ==
    /\ IsFiniteSet(Owing(s))
    /\ IF spc[s] = "done" THEN pushes[s] = 0 ELSE Balanced(s)

PaidInv == FlowInv /\ \A s \in Streams : Paid(s)

\* Counting with one element more, or less.
LEMMA Count ==
    ASSUME NEW A, IsFiniteSet(A), NEW B
    PROVE  /\ Cardinality(A) \in Nat
           /\ B \subseteq A => /\ IsFiniteSet(B) /\ Cardinality(B) \in Nat
                               /\ Cardinality(B) <= Cardinality(A)
           /\ \A x : B \subseteq A \union {x} =>
                 /\ IsFiniteSet(B) /\ Cardinality(B) \in Nat
                 /\ Cardinality(B) <= Cardinality(A) + 1
           /\ \A x \in A : B \subseteq A \ {x} =>
                 /\ IsFiniteSet(B) /\ Cardinality(B) \in Nat
                 /\ Cardinality(B) + 1 <= Cardinality(A)
<1>1. Cardinality(A) \in Nat
    BY FS_CardinalityType
<1>2. ASSUME B \subseteq A
      PROVE  /\ IsFiniteSet(B) /\ Cardinality(B) \in Nat
             /\ Cardinality(B) <= Cardinality(A)
    BY <1>2, FS_Subset, FS_CardinalityType
<1>3. ASSUME NEW x, B \subseteq A \union {x}
      PROVE  /\ IsFiniteSet(B) /\ Cardinality(B) \in Nat
             /\ Cardinality(B) <= Cardinality(A) + 1
  <2>1. /\ IsFiniteSet(A \union {x})
        /\ Cardinality(A \union {x}) \in {Cardinality(A), Cardinality(A) + 1}
      BY FS_AddElement
  <2>2. /\ IsFiniteSet(B) /\ Cardinality(B) \in Nat
        /\ Cardinality(B) <= Cardinality(A \union {x})
      BY <1>3, <2>1, FS_Subset, FS_CardinalityType
  <2> QED
      BY <1>1, <2>1, <2>2
<1>4. ASSUME NEW x \in A, B \subseteq A \ {x}
      PROVE  /\ IsFiniteSet(B) /\ Cardinality(B) \in Nat
             /\ Cardinality(B) + 1 <= Cardinality(A)
  <2>1. /\ IsFiniteSet(A \ {x})
        /\ Cardinality(A \ {x}) = Cardinality(A) - 1
      BY FS_RemoveElement
  <2>2. /\ IsFiniteSet(B) /\ Cardinality(B) \in Nat
        /\ Cardinality(B) <= Cardinality(A \ {x})
      BY <1>4, <2>1, FS_Subset, FS_CardinalityType
  <2> QED
      BY <1>1, <2>1, <2>2
<1> QED
    BY <1>1, <1>2, <1>3, <1>4

\* The numbers in a balance.
LEMMA BalanceType ==
    ASSUME PaidInv, NEW s \in Streams
    PROVE  /\ pushes[s] \in Nat /\ version \in Nat /\ forgotten[s] \in Nat
           /\ Due(s) \in {0, 1}
           /\ IsFiniteSet(Strangers(s)) /\ Cardinality(Strangers(s)) \in Nat
           /\ IsFiniteSet(Owing(s)) /\ Cardinality(Owing(s)) \in Nat
<1>1. IsFiniteSet(UnderWay(s))
    BY UnderWayType DEF PaidInv, FlowInv
<1>2. IsFiniteSet(Strangers(s))
    BY <1>1, FS_Subset DEF Strangers
<1>3. IsFiniteSet(Owing(s))
    BY DEF PaidInv, Paid
<1>4. /\ Cardinality(Strangers(s)) \in Nat /\ Cardinality(Owing(s)) \in Nat
    BY <1>2, <1>3, FS_CardinalityType
<1> QED
    BY <1>2, <1>3, <1>4, SessionAssumption
    DEF PaidInv, FlowInv, SessionTypeOK, TypeOK, Due

\* Nothing that would cause a push is added, and nothing is pushed.
LEMMA NothingBought ==
    ASSUME PaidInv, NEW s \in Streams,
           Strangers(s)' \subseteq Strangers(s), Owing(s)' \subseteq Owing(s),
           pushes'[s] = pushes[s],
           \/ spc'[s] = spc[s]
           \/ spc[s] # "done" /\ spc'[s] \in {"loop", "push", "exit"},
           version' = version, forgotten'[s] = forgotten[s]
    PROVE  Paid(s)'
<1>1. /\ pushes[s] \in Nat /\ version \in Nat /\ forgotten[s] \in Nat
      /\ IsFiniteSet(Strangers(s)) /\ Cardinality(Strangers(s)) \in Nat
      /\ IsFiniteSet(Owing(s)) /\ Cardinality(Owing(s)) \in Nat
    BY BalanceType
<1>2. /\ Cardinality(Strangers(s)') \in Nat
      /\ Cardinality(Strangers(s)') <= Cardinality(Strangers(s))
    BY <1>1, Count
<1>3. /\ IsFiniteSet(Owing(s)') /\ Cardinality(Owing(s)') \in Nat
      /\ Cardinality(Owing(s)') <= Cardinality(Owing(s))
    BY <1>1, Count
<1>4. Due(s)' \in {0, 1} /\ Due(s) \in {0, 1} /\ Due(s)' <= Due(s)
    BY DEF Due
<1>5. CASE spc[s] = "done"
    BY <1>3, <1>5 DEF PaidInv, Paid
<1>6. CASE spc[s] # "done"
  <2>1. Balanced(s) /\ spc'[s] # "done"
      BY <1>6 DEF PaidInv, Paid
  <2>2. Balanced(s)'
      BY <1>1, <1>2, <1>3, <1>4, <2>1 DEF Balanced
  <2> QED
      BY <1>3, <2>1, <2>2 DEF Paid
<1> QED
    BY <1>5, <1>6

\* A writer owes each stream a push when it gives out a version, and owes it
\* nothing any more when the stream receives its update.
LEMMA OwingMoves ==
    ASSUME TypeOK, NEW w \in Writers, WriterNext(w), NEW s \in Streams
    PROVE  /\ pushes' = pushes
           /\ \/ /\ version' = version /\ spc'[s] = spc[s]
                 /\ Owing(s)' \subseteq Owing(s)
              \/ /\ version' = version + 1 /\ spc'[s] = spc[s]
                 /\ Owing(s)' \subseteq Owing(s) \union {w}
              \/ /\ version' = version /\ spc[s] = "loop" /\ spc'[s] = "build"
                 /\ w \in Owing(s) /\ Owing(s)' \subseteq Owing(s) \ {w}
<1> DEFINE Steady == /\ version' = version /\ spc'[s] = spc[s]
                     /\ Owing(s)' \subseteq Owing(s)
           Given1 == /\ version' = version + 1 /\ spc'[s] = spc[s]
                     /\ Owing(s)' \subseteq Owing(s) \union {w}
           Settles == /\ version' = version
                      /\ spc[s] = "loop" /\ spc'[s] = "build"
                      /\ w \in Owing(s) /\ Owing(s)' \subseteq Owing(s) \ {w}
<1> USE DEF TypeOK
<1>1. pushes' = pushes
    BY DEF WriterNext, AddCall, Replace, Delete, AddStep, AddStore, AddInvalid,
           AddStored, NotifyStart, NotifyLock, SendStep, Deliver, SkipBusy,
           NotifyTimeout, NotifyReturn, pushVars
<1>2. ASSUME NEW batch \in Batches, AddCall(w, batch) \/ Replace(w, batch)
      PROVE  Steady
    BY <1>2 DEF AddCall, Replace, Owing, managerVars
<1>3. ASSUME NEW n \in Names,
             Delete(w, n) \/ AddStore(w, n) \/ AddInvalid(w, n)
      PROVE  Steady
    BY <1>3 DEF Delete, AddStore, AddInvalid, Owing, managerVars
<1>4. ASSUME AddStored(w) \/ NotifyLock(w)
      PROVE  Steady
    BY <1>4 DEF AddStored, NotifyLock, Owing, managerVars
<1>5. ASSUME NotifyStart(w)
      PROVE  Steady \/ Given1
    BY <1>5 DEF NotifyStart, NextVersion, Owing
<1>6. ASSUME NEW t \in Streams, Deliver(w, t)
      PROVE  Steady \/ Settles
  <2>1. /\ version' = version /\ wpc' = wpc /\ wpc[w] = "send"
        /\ t \in unsent[w] \union blocked[w]
        /\ unsent' = [unsent EXCEPT ![w] = @ \ {t}]
        /\ blocked' = [blocked EXCEPT ![w] = @ \ {t}]
        /\ \/ spc' = spc
           \/ spc[t] = "loop" /\ spc' = [spc EXCEPT ![t] = "build"]
      BY <1>6 DEF Deliver, managerVars
  <2>2. Owing(s)' \subseteq Owing(s)
      BY <2>1 DEF Owing
  <2>3. s = t => w \in Owing(s) /\ w \notin Owing(s)'
      BY <2>1 DEF Owing
  <2> QED
      BY <2>1, <2>2, <2>3
<1>7. ASSUME NEW t \in Streams, SkipBusy(w, t)
      PROVE  Steady
    BY <1>7 DEF SkipBusy, Owing, managerVars
<1>8. ASSUME NotifyTimeout(w) \/ NotifyReturn(w)
      PROVE  Steady
    BY <1>8 DEF NotifyTimeout, NotifyReturn, EndNotify, Owing
<1> HIDE DEF TypeOK, Steady, Given1, Settles
<1>9. Steady \/ Given1 \/ Settles
    BY <1>2, <1>3, <1>4, <1>5, <1>6, <1>7, <1>8 DEF WriterNext, AddStep, SendStep
<1> QED
    BY <1>1, <1>9 DEF Steady, Given1, Settles

\* Writers pay for the pushes they cause with the versions they give out.
LEMMA WriterPays ==
    ASSUME PaidInv, NEW w \in Writers, WriterNext(w), NEW s \in Streams,
           Strangers(s)' = Strangers(s), forgotten'[s] = forgotten[s]
    PROVE  Paid(s)'
<1>1. /\ pushes[s] \in Nat /\ version \in Nat /\ forgotten[s] \in Nat
      /\ Due(s) \in {0, 1} /\ Cardinality(Strangers(s)) \in Nat
      /\ IsFiniteSet(Owing(s)) /\ Cardinality(Owing(s)) \in Nat
    BY BalanceType
<1>2. TypeOK /\ pushes' = pushes
    BY OwingMoves DEF PaidInv, FlowInv, SessionTypeOK
<1>3. CASE /\ version' = version /\ spc'[s] = spc[s]
           /\ Owing(s)' \subseteq Owing(s)
    BY <1>2, <1>3, NothingBought
<1>4. CASE /\ version' = version + 1 /\ spc'[s] = spc[s]
           /\ Owing(s)' \subseteq Owing(s) \union {w}
  <2>1. /\ IsFiniteSet(Owing(s)') /\ Cardinality(Owing(s)') \in Nat
        /\ Cardinality(Owing(s)') <= Cardinality(Owing(s)) + 1
      BY <1>1, <1>4, Count
  <2>2. Due(s)' = Due(s)
      BY <1>4 DEF Due
  <2>3. Balanced(s) => Balanced(s)'
      BY <1>1, <1>2, <1>4, <2>1, <2>2 DEF Balanced
  <2> QED
      BY <1>2, <1>4, <2>1, <2>3 DEF PaidInv, Paid
<1>5. CASE /\ version' = version /\ spc[s] = "loop" /\ spc'[s] = "build"
           /\ w \in Owing(s) /\ Owing(s)' \subseteq Owing(s) \ {w}
  <2>1. /\ IsFiniteSet(Owing(s)') /\ Cardinality(Owing(s)') \in Nat
        /\ Cardinality(Owing(s)') + 1 <= Cardinality(Owing(s))
      BY <1>1, <1>5, Count
  <2>2. Due(s) = 0 /\ Due(s)' = 1
      BY <1>5 DEF Due
  <2>3. Balanced(s)
      BY <1>5 DEF PaidInv, Paid
  <2>4. Balanced(s)'
      BY <1>1, <1>2, <1>5, <2>1, <2>2, <2>3 DEF Balanced
  <2> QED
      BY <1>5, <2>1, <2>4 DEF Paid
<1> QED
    BY <1>2, <1>3, <1>4, <1>5, OwingMoves

\* No stream changes what writers owe.
LEMMA StreamOwing ==
    ASSUME NEW s \in Streams,
           \/ ReceiverStep(s) \/ SenderStep(s) \/ HandOver(s) \/ SeeEnd(s)
           \/ Take(s) \/ StreamStep(s) \/ Return(s) \/ Connect(s)
           \/ Receive(s) \/ Disconnect(s) \/ NetworkFails(s)
           \/ \E k \in txs[s] : Tick(s, k),
           NEW t \in Streams
    PROVE  version' = version /\ Owing(t)' = Owing(t)
<1>1. UNCHANGED <<version, wpc, unsent, blocked>>
    BY DEF ReceiverStep, Recv, RecvError, SenderStep, Send, SendError,
           SenderReturns, HandOver, Acknowledge, AskConfig, SeeEnd, Hangup,
           Take, PushAccepted, StreamStep, Register, LeaveDrained, Build,
           BuildError, PushTimeout, Unregister, Return, Tick, CleanupTick,
           Connect, Open, Receive, Disconnect, NetworkFails,
           vars, managerVars, writerVars
<1> QED
    BY <1>1 DEF Owing

\* Messages that move on, are lost or end a transaction buy nothing.
LEMMA ShrinkingPays ==
    ASSUME PaidInv, NEW t \in Streams, Shrinks(t), txs'[t] = txs[t],
           version' = version, Owing(t)' = Owing(t), pushes'[t] = pushes[t],
           \/ spc'[t] = spc[t]
           \/ spc[t] # "done" /\ spc'[t] \in {"loop", "push", "exit"},
           forgotten'[t] = forgotten[t]
    PROVE  Paid(t)'
<1>1. Strangers(t)' \subseteq Strangers(t)
    BY DEF Strangers, Shrinks
<1> QED
    BY <1>1, NothingBought

\* The receiver, the sender, the client and the network.
LEMMA CarriersPay ==
    ASSUME PaidInv, NEW s \in Streams, NEW t \in Streams,
           \/ ReceiverStep(s) \/ SenderStep(s) \/ Receive(s) \/ Disconnect(s)
           \/ NetworkFails(s)
    PROVE  Paid(t)'
<1>1. UNCHANGED <<spc, txs, pushes, forgotten>>
    BY DEF ReceiverStep, Recv, RecvError, SenderStep, Send, SendError,
           SenderReturns, Receive, Disconnect, NetworkFails, vars, clientVars,
           pushVars
<1>2. Shrinks(t)
  <2>1. CASE NetworkFails(s)
    <3>1. UNCHANGED <<uplink, downlink, inHand, outHand>>
        BY <2>1 DEF NetworkFails, rxVars, txVars
    <3> QED
        BY <3>1 DEF Shrinks, UnderWay
  <2> QED
      BY <2>1, ReceiverFlow, SenderFlow, ClientFlow DEF PaidInv
<1> QED
    BY <1>1, <1>2, StreamOwing, ShrinkingPays

\* An answer ends its transaction; a request that Stream does not know is paid
\* for once, and answered once.
LEMMA HandOverPays ==
    ASSUME PaidInv, NEW s \in Streams, HandOver(s), NEW t \in Streams
    PROVE  Paid(t)'
<1> USE DEF PaidInv
<1>1. UNCHANGED <<pushes, forgotten>>
    BY DEF HandOver, Acknowledge, AskConfig, pushVars
<1>2. Shrinks(t)
    BY HandOverFlow
<1>3. CASE t # s
  <2>1. txs'[t] = txs[t] /\ spc'[t] = spc[t]
      BY <1>3 DEF HandOver, Acknowledge, AskConfig, GoTo, FlowInv,
                  SessionTypeOK, TypeOK
  <2> QED
      BY <1>1, <1>2, <2>1, StreamOwing, ShrinkingPays
<1>4. CASE t = s
  <2> DEFINE n == Head(inHand[s])
  <2>1. inHand[s] \in Seq(Nat) /\ inHand[s] # <<>> /\ Len(inHand[s]) <= 1
      BY DEF HandOver, FlowInv, SessionTypeOK, Flow, OneInHand
  <2>2. inHand[s] = <<n>> /\ n \in Nat
      BY <2>1, HandHoldsOne
  <2>3. Elements(inHand[s]) = {n} /\ Elements(<<>>) = {}
      BY <2>2, ElementsOne
  <2>4. /\ inHand'[s] = <<>> /\ uplink' = uplink /\ downlink' = downlink
        /\ outHand' = outHand
      BY DEF HandOver, linkVars, txVars, FlowInv, SessionTypeOK
  <2>5. /\ UnderWay(s)' = Elements(uplink[s]) \union NoncesOf(downlink[s])
                          \union NoncesOf(outHand[s])
        /\ UnderWay(s) = {n} \union UnderWay(s)'
      BY <2>3, <2>4 DEF UnderWay, NoncesOf
  <2>6. n \notin UnderWay(s)'
    <3>1. /\ Below({n}, Elements(uplink[s])) /\ Below({n}, NoncesOf(downlink[s]))
          /\ Below({n}, NoncesOf(outHand[s]))
        BY <2>3 DEF FlowInv, Flow, Queued, InOrder
    <3>2. \A m \in UnderWay(s)' : n < m
        BY <2>5, <3>1 DEF Below
    <3> QED
        BY <2>2, <3>2
  <2>7. CASE Acknowledge(s, <<>>, TRUE, n)
    <3>1. spc' = spc /\ txs'[s] = txs[s] \ {n}
        BY <2>7 DEF Acknowledge, FlowInv, SessionTypeOK, TypeOK
    <3>2. Strangers(s)' \subseteq Strangers(s)
        BY <2>5, <2>6, <3>1 DEF Strangers
    <3> QED
        BY <1>1, <1>4, <3>1, <3>2, StreamOwing, NothingBought
  <2>8. CASE AskConfig(s, <<>>, TRUE, n)
    <3>1. /\ spc[s] = "loop" /\ spc'[s] = "build" /\ txs'[s] = txs[s]
          /\ n \notin txs[s]
        BY <2>8 DEF AskConfig, GoTo, FlowInv, SessionTypeOK, TypeOK
    <3>2. n \in Strangers(s) /\ Strangers(s)' \subseteq Strangers(s) \ {n}
        BY <2>5, <2>6, <3>1 DEF Strangers
    <3>3. /\ pushes[s] \in Nat /\ version \in Nat /\ forgotten[s] \in Nat
          /\ IsFiniteSet(Strangers(s)) /\ Cardinality(Strangers(s)) \in Nat
          /\ IsFiniteSet(Owing(s)) /\ Cardinality(Owing(s)) \in Nat
        BY BalanceType
    <3>4. /\ Cardinality(Strangers(s)') \in Nat
          /\ Cardinality(Strangers(s)') + 1 <= Cardinality(Strangers(s))
        BY <3>2, <3>3, Count
    <3>5. Due(s) = 0 /\ Due(s)' = 1 /\ Balanced(s)
        BY <3>1 DEF Due, Paid
    <3>6. version' = version /\ Owing(s)' = Owing(s)
        BY StreamOwing
    <3>7. Balanced(s)'
        BY <1>1, <3>3, <3>4, <3>5, <3>6 DEF Balanced
    <3> QED
        BY <1>4, <3>1, <3>3, <3>6, <3>7 DEF Paid
  <2> QED
      BY <2>7, <2>8 DEF HandOver
<1> QED
    BY <1>3, <1>4

\* The nonce of the response that is taken is under way and in flight.
LEMMA TakePays ==
    ASSUME PaidInv, NEW s \in Streams, Take(s), NEW t \in Streams
    PROVE  Paid(t)'
<1> USE DEF PaidInv
<1>1. UNCHANGED <<pushes, forgotten>>
    BY DEF Take, PushAccepted, pushVars
<1>2. CASE t # s
  <2>1. txs'[t] = txs[t] /\ spc'[t] = spc[t]
      BY <1>2 DEF Take, PushAccepted, GoTo, FlowInv, SessionTypeOK, TypeOK
  <2>2. Shrinks(t)
      BY <1>2, TakeFlow
  <2> QED
      BY <1>1, <2>1, <2>2, StreamOwing, ShrinkingPays
<1>3. CASE t = s
  <2>1. /\ spc[s] = "push" /\ spc'[s] = "loop"
        /\ txs'[s] = txs[s] \union {pushes[s]}
      BY DEF Take, PushAccepted, GoTo, FlowInv, SessionTypeOK, TypeOK
  <2>2. Strangers(s)' \subseteq Strangers(s)
      BY <2>1, TakenNonce DEF Strangers
  <2> QED
      BY <1>1, <1>3, <2>1, <2>2, StreamOwing, NothingBought
<1> QED
    BY <1>2, <1>3

\* At most as many elements as two sets have together.
LEMMA CountBoth ==
    ASSUME NEW A, IsFiniteSet(A), NEW B, IsFiniteSet(B),
           NEW C, C \subseteq A \union B
    PROVE  /\ Cardinality(A) \in Nat /\ Cardinality(B) \in Nat
           /\ Cardinality(C) \in Nat
           /\ Cardinality(C) <= Cardinality(A) + Cardinality(B)
<1>1. /\ IsFiniteSet(A \union B)
      /\ Cardinality(A \union B)
           = Cardinality(A) + Cardinality(B) - Cardinality(A \cap B)
    BY FS_Union
<1>2. Cardinality(A) \in Nat /\ Cardinality(A \cap B) \in Nat
    BY Count
<1>3. Cardinality(B) \in Nat
    BY Count
<1>4. Cardinality(C) \in Nat /\ Cardinality(C) <= Cardinality(A \union B)
    BY <1>1, Count
<1> QED
    BY <1>1, <1>2, <1>3, <1>4

\* The transactions that a tick forgets may become strangers: each one is
\* counted.
LEMMA TickPays ==
    ASSUME PaidInv, NEW s \in Streams, NEW k \in txs[s], Tick(s, k)
    PROVE  Paid(s)'
<1> DEFINE Gone == txs[s] \ txs'[s]
<1>1. /\ pushes[s] \in Nat /\ version \in Nat /\ forgotten[s] \in Nat
      /\ Due(s) \in {0, 1}
      /\ IsFiniteSet(Strangers(s)) /\ Cardinality(Strangers(s)) \in Nat
      /\ IsFiniteSet(Owing(s)) /\ Cardinality(Owing(s)) \in Nat
    BY BalanceType
<1>2. spc' = spc /\ spc[s] = "loop" /\ pushes' = pushes
    BY DEF Tick, CleanupTick, pushVars
<1>3. forgotten'[s] = forgotten[s] + Cardinality(Gone)
    BY DEF Tick, PaidInv, FlowInv, SessionTypeOK
<1>4. IsFiniteSet(Gone)
  <2>1. IsFiniteSet(txs[s])
      BY DEF PaidInv, FlowInv, Flow
  <2> QED
      BY <2>1, FS_Subset
<1>5. Strangers(s)' \subseteq Strangers(s) \union Gone
  <2>1. Shrinks(s)
      BY StreamFlow DEF PaidInv
  <2> QED
      BY <2>1 DEF Strangers, Shrinks
<1> HIDE DEF Gone
<1>6. /\ Cardinality(Gone) \in Nat /\ Cardinality(Strangers(s)') \in Nat
      /\ Cardinality(Strangers(s)')
           <= Cardinality(Strangers(s)) + Cardinality(Gone)
    BY <1>1, <1>4, <1>5, CountBoth
<1>7. Due(s)' = Due(s) /\ Balanced(s)
    BY <1>2 DEF Due, Paid, PaidInv
<1>8. version' = version /\ Owing(s)' = Owing(s)
    BY StreamOwing
<1>9. Cardinality(Strangers(s)') = Cardinality(Strangers(s))' /\ pushes'[s] = pushes[s]
    BY <1>2
<1>10. Balanced(s)'
    BY <1>1, <1>3, <1>6, <1>7, <1>8, <1>9 DEF Balanced
<1> QED
    BY <1>1, <1>2, <1>8, <1>10 DEF Paid

\* Stream pushes what it owed, or gives up; a transaction that is forgotten
\* pays for its late answer.
LEMMA StreamPays ==
    ASSUME PaidInv, NEW s \in Streams, NEW t \in Streams,
           \/ StreamStep(s) \/ SeeEnd(s)
           \/ \E k \in txs[s] : Tick(s, k)
    PROVE  Paid(t)'
<1> USE DEF PaidInv, FlowInv, SessionTypeOK, TypeOK
<1>1. Shrinks(t)
    BY StreamFlow
<1>2. version' = version /\ Owing(t)' = Owing(t)
    BY StreamOwing
<1>3. /\ pushes[t] \in Nat /\ version \in Nat /\ forgotten[t] \in Nat
      /\ Due(t) \in {0, 1}
      /\ IsFiniteSet(Strangers(t)) /\ Cardinality(Strangers(t)) \in Nat
      /\ IsFiniteSet(Owing(t)) /\ Cardinality(Owing(t)) \in Nat
    BY BalanceType
<1>4. ASSUME SeeEnd(s) \/ Register(s) \/ LeaveDrained(s) \/ BuildError(s)
                \/ PushTimeout(s), UNCHANGED sessionVars
      PROVE  Paid(t)'
  <2>1. /\ UNCHANGED <<txs, pushes, forgotten>>
        /\ spc[s] \in {"opening", "loop", "build", "push"}
        /\ \E point \in {"loop", "exit"} : spc' = [spc EXCEPT ![s] = point]
      BY <1>4 DEF SeeEnd, Hangup, Register, LeaveDrained, BuildError,
                  PushTimeout, GoTo, clientVars, pushVars, sessionVars
  <2>2. spc'[t] = spc[t] \/ (spc[t] # "done" /\ spc'[t] \in {"loop", "push", "exit"})
      BY <2>1
  <2> QED
      BY <1>1, <1>2, <2>1, <2>2, ShrinkingPays
<1>5. ASSUME t # s, \/ (Build(s) \/ Unregister(s)) /\ UNCHANGED sessionVars
                    \/ \E k \in txs[s] : Tick(s, k)
      PROVE  Paid(t)'
  <2>1. /\ spc'[t] = spc[t] /\ txs'[t] = txs[t] /\ pushes'[t] = pushes[t]
        /\ forgotten'[t] = forgotten[t]
    <3>1. CASE Build(s) /\ UNCHANGED sessionVars
        BY <1>5, <3>1 DEF Build, GoTo, clientVars, sessionVars
    <3>2. CASE Unregister(s) /\ UNCHANGED sessionVars
        BY <1>5, <3>2 DEF Unregister, GoTo, sessionVars
    <3>3. CASE \E k \in txs[s] : Tick(s, k)
        BY <1>5, <3>3 DEF Tick, CleanupTick, pushVars
    <3> QED
        BY <1>5, <3>1, <3>2, <3>3
  <2> QED
      BY <1>1, <1>2, <2>1, ShrinkingPays
<1>6. ASSUME t = s, Build(s), UNCHANGED sessionVars
      PROVE  Paid(t)'
  <2>1. /\ spc[s] = "build" /\ spc'[s] = "push" /\ txs'[s] = txs[s]
        /\ pushes'[s] = pushes[s] + 1 /\ forgotten'[s] = forgotten[s]
      BY <1>6 DEF Build, GoTo, clientVars, sessionVars
  <2>2. Due(s) = 1 /\ Due(s)' = 0 /\ Balanced(s)
      BY <2>1 DEF Due, Paid
  <2>3. Strangers(s)' \subseteq Strangers(s)
      BY <1>1, <1>6, <2>1 DEF Strangers, Shrinks
  <2>4. /\ Cardinality(Strangers(s)') \in Nat
        /\ Cardinality(Strangers(s)') <= Cardinality(Strangers(s))
      BY <1>3, <1>6, <2>3, Count
  <2>5. Balanced(s)'
    <3>1. Cardinality(Owing(s)') = Cardinality(Owing(s))
        BY <1>2, <1>6
    <3>2. /\ pushes[s] \in Nat /\ version \in Nat /\ forgotten[s] \in Nat
          /\ Cardinality(Strangers(s)) \in Nat /\ Cardinality(Owing(s)) \in Nat
        BY <1>3, <1>6
    <3>3. pushes[s] + 1 + Cardinality(Strangers(s)) + Cardinality(Owing(s))
              <= 1 + version + forgotten[s]
        BY <2>2 DEF Balanced
    <3> HIDE DEF PaidInv, FlowInv, SessionTypeOK, TypeOK
    <3> QED
        BY <1>2, <2>1, <2>2, <2>4, <3>1, <3>2, <3>3 DEF Balanced
  <2> QED
      BY <1>2, <1>3, <1>6, <2>1, <2>5 DEF Paid
<1>7. ASSUME t = s, Unregister(s)
      PROVE  Paid(t)'
  <2>1. spc'[s] = "done" /\ pushes'[s] = 0
      BY <1>7 DEF Unregister, GoTo
  <2> QED
      BY <1>2, <1>3, <1>7, <2>1 DEF Paid
<1>8. ASSUME t = s, NEW k \in txs[s], Tick(s, k)
      PROVE  Paid(t)'
    BY <1>8, TickPays
<1> HIDE DEF PaidInv, FlowInv, SessionTypeOK, TypeOK
<1>9. SeeEnd(s) => UNCHANGED sessionVars
    BY DEF SeeEnd
<1> QED
    BY <1>4, <1>5, <1>6, <1>7, <1>8, <1>9 DEF StreamStep

\* A stream that is opened comes with one request, which is its first.
LEMMA ConnectPays ==
    ASSUME PaidInv, NEW s \in Streams, Connect(s), NEW t \in Streams
    PROVE  Paid(t)'
<1> USE DEF PaidInv
<1>1. UNCHANGED <<pushes, txs, forgotten>>
    BY DEF Connect, Open, clientVars, pushVars
<1>2. CASE t # s
  <2>1. spc'[t] = spc[t]
      BY <1>2 DEF Connect, Open, GoTo, FlowInv, SessionTypeOK, TypeOK
  <2>2. Shrinks(t)
      BY <1>2, ConnectFlow
  <2> QED
      BY <1>1, <2>1, <2>2, StreamOwing, ShrinkingPays
<1>3. CASE t = s
  <2>1. spc[s] = "off" /\ spc'[s] = "opening"
      BY DEF Connect, Open, GoTo, FlowInv, SessionTypeOK, TypeOK
  <2>2. /\ pushes[s] \in Nat /\ version \in Nat /\ forgotten[s] \in Nat
        /\ IsFiniteSet(Strangers(s)) /\ Cardinality(Strangers(s)) \in Nat
        /\ IsFiniteSet(Owing(s)) /\ Cardinality(Owing(s)) \in Nat
      BY BalanceType
  <2>3. Due(s) = 1 /\ Due(s)' = 0 /\ Balanced(s)
      BY <2>1 DEF Due, Paid
  <2>4. Strangers(s)' \subseteq {} \union {0}
      BY ConnectNonce DEF Strangers
  <2>5. Cardinality(Strangers(s)') \in Nat /\ Cardinality(Strangers(s)') <= 1
    <3>1. IsFiniteSet({}) /\ Cardinality({}) = 0
        BY FS_EmptySet
    <3>2. /\ Cardinality(Strangers(s)') \in Nat
          /\ Cardinality(Strangers(s)') <= Cardinality({}) + 1
        BY <2>4, <3>1, Count
    <3> QED
        BY <3>1, <3>2
  <2>6. version' = version /\ Owing(s)' = Owing(s)
      BY StreamOwing
  <2>7. Balanced(s)'
      BY <1>1, <2>2, <2>3, <2>5, <2>6 DEF Balanced
  <2> QED
      BY <1>3, <2>1, <2>2, <2>6, <2>7 DEF Paid
<1> QED
    BY <1>2, <1>3

\* A new process owes nothing, and has given out no version.
LEMMA RestartPays ==
    ASSUME PaidInv, Restart, NEW t \in Streams
    PROVE  Paid(t)'
<1>1. /\ spc'[t] \in {"off", "done"}
      /\ spc'[t] = "off" => spc[t] = "off"
      /\ txs'[t] = {} /\ pushes'[t] = 0 /\ version' = 0 /\ forgotten'[t] = 0
      /\ uplink'[t] = <<>> /\ inHand'[t] = <<>> /\ outHand'[t] = <<>>
      /\ downlink'[t] = downlink[t]
      /\ \A w \in Writers : wpc'[w] = "idle"
    BY DEF Restart
<1>2. Owing(t)' = {}
    BY <1>1 DEF Owing
<1>3. IsFiniteSet({}) /\ Cardinality({}) = 0
    BY FS_EmptySet
<1>4. CASE spc'[t] = "off"
  <2>1. downlink[t] = <<>>
      BY <1>1, <1>4 DEF PaidInv, FlowInv, Flow, NotBegun
  <2>2. Strangers(t)' = {}
      BY <1>1, <2>1, ElementsOne DEF Strangers, UnderWay
  <2>3. Due(t)' = 1
      BY <1>4 DEF Due
  <2>4. Balanced(t)'
      BY <1>1, <1>2, <1>3, <2>2, <2>3 DEF Balanced
  <2> QED
      BY <1>2, <1>3, <1>4, <2>4 DEF Paid
<1>5. CASE spc'[t] = "done"
    BY <1>1, <1>2, <1>3, <1>5 DEF Paid
<1> QED
    BY <1>1, <1>4, <1>5

\* Every step keeps the balance.
LEMMA NextPaidInv == PaidInv /\ [SessionNext]_allVars => PaidInv'
<1> SUFFICES ASSUME PaidInv, [SessionNext]_allVars, NEW t \in Streams
             PROVE  Paid(t)'
    BY NextFlowInv DEF PaidInv
<1>1. ASSUME NEW w \in Writers, Call(w) \/ Work(w)
      PROVE  Paid(t)'
  <2>1. /\ WriterNext(w)
        /\ UNCHANGED <<forgotten, txs, uplink, downlink, inHand, outHand>>
    <3>1. /\ WriterNext(w)
          /\ UNCHANGED <<forgotten, uplink, downlink, inHand, outHand>>
        BY <1>1 DEF Call, Work, WriterNext, sessionVars, linkVars, rxVars, txVars
    <3>2. txs' = txs
        BY <3>1 DEF WriterNext, AddCall, Replace, Delete, AddStep, AddStore,
                    AddInvalid, AddStored, NotifyStart, NotifyLock, SendStep,
                    Deliver, SkipBusy, NotifyTimeout, NotifyReturn, clientVars
    <3> QED
        BY <3>1, <3>2
  <2>2. Strangers(t)' = Strangers(t) /\ forgotten'[t] = forgotten[t]
      BY <2>1 DEF Strangers, UnderWay
  <2> QED
      BY <2>1, <2>2, WriterPays
<1>2. ASSUME NEW s \in Streams, Return(s)
      PROVE  Paid(t)'
  <2>1. UNCHANGED <<spc, txs, pushes>> /\ spc[s] = "done"
      BY <1>2 DEF Return, vars, clientVars, pushVars
  <2>2. version' = version /\ Owing(t)' = Owing(t)
      BY <1>2, StreamOwing
  <2>3. CASE t = s
      BY <2>1, <2>2, <2>3 DEF PaidInv, Paid
  <2>4. CASE t # s
    <3>1. Still(t) /\ Left(t) /\ link'[t] = link[t] /\ forgotten'[t] = forgotten[t]
        BY <1>2, <2>1, <2>4 DEF Return, Still, Left, vars, clientVars, pushVars,
                                rxVars, txVars, PaidInv, FlowInv, SessionTypeOK
    <3>2. Shrinks(t)
        BY <3>1, StillFlow DEF PaidInv, FlowInv
    <3> QED
        BY <2>1, <2>2, <3>1, <3>2, ShrinkingPays
  <2> QED
      BY <2>3, <2>4
<1>3. ASSUME Shutdown \/ UNCHANGED allVars
      PROVE  Paid(t)'
  <2>1. UNCHANGED <<spc, txs, pushes, forgotten, version, wpc, unsent, blocked,
                    uplink, downlink, inHand, outHand>>
      BY <1>3 DEF Shutdown, Drain, allVars, vars, sessionVars, managerVars,
                  writerVars, clientVars, pushVars, linkVars, rxVars, txVars
  <2>2. Shrinks(t) /\ Owing(t)' = Owing(t)
      BY <2>1 DEF Shrinks, UnderWay, Owing
  <2> QED
      BY <2>1, <2>2, ShrinkingPays
<1> QED
    BY <1>1, <1>2, <1>3, CarriersPay, HandOverPays, TakePays, StreamPays,
       ConnectPays, RestartPays DEF SessionNext

\* There is no storm of pushes, for any number of streams and writers: what a
\* stream pushes is paid for by its first request, by a version, or by a
\* transaction that was forgotten.
THEOREM NoStorm == SessionSpec => []PushesAccounted
<1>1. SessionInit => PaidInv
  <2> SUFFICES ASSUME SessionInit, NEW s \in Streams PROVE Paid(s)
      BY InitFlowInv DEF PaidInv
  <2>1. Owing(s) = {} /\ Due(s) = 1
      BY DEF SessionInit, Init, Owing, Due
  <2>2. Strangers(s) = {}
      BY ElementsOne DEF SessionInit, Strangers, UnderWay
  <2>3. IsFiniteSet({}) /\ Cardinality({}) = 0
      BY FS_EmptySet
  <2>4. Balanced(s)
      BY <2>1, <2>2, <2>3 DEF SessionInit, Init, Balanced
  <2> QED
      BY <2>1, <2>3, <2>4 DEF SessionInit, Init, Paid
<1>2. PaidInv => PushesAccounted
  <2> SUFFICES ASSUME PaidInv, NEW s \in Streams
               PROVE  pushes[s] <= 1 + version + forgotten[s]
      BY DEF PushesAccounted
  <2>1. /\ pushes[s] \in Nat /\ version \in Nat /\ forgotten[s] \in Nat
        /\ Due(s) \in {0, 1}
        /\ Cardinality(Strangers(s)) \in Nat /\ Cardinality(Owing(s)) \in Nat
      BY BalanceType
  <2>2. spc[s] = "done" => pushes[s] = 0
      BY DEF PaidInv, Paid
  <2>3. spc[s] # "done" => Balanced(s)
      BY DEF PaidInv, Paid
  <2> QED
      BY <2>1, <2>2, <2>3 DEF Balanced
<1> QED
    BY <1>1, <1>2, NextPaidInv, PTL DEF SessionSpec
=============================================================================
