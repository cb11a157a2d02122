-------------------------- MODULE ReflectorProofs --------------------------
(***************************************************************************)
(* What a store can rely on, whatever it does with what the reflector      *)
(* hands it: the list and the events lead to what is in the API server.    *)
(***************************************************************************)
EXTENDS Reflector, SequencesExt, TLAPS, FiniteSetTheorems, WellFoundedInduction

\* An object is only ever what it can be.
OwnContents ==
    /\ \A o \in Objects : api[o] \in ContentsOf[o] \union {Gone}
    /\ \A o \in Objects : listed[o] \in ContentsOf[o] \union {Gone}
    /\ \A i \in DOMAIN events : events[i].content \in ContentsOf[events[i].object]

\* Before a list there are no events.
NoEvents == mode = "list" => events = <<>>

\* The store has heard everything about an object.
Quiet(o) == \A i \in DOMAIN events : events[i].object # o

\* The last event about an object tells what it is now ...
LastEvents ==
    \A i \in DOMAIN events :
        (\A j \in DOMAIN events : j > i => events[j].object # events[i].object) =>
            api[events[i].object] = IF events[i].kind = "delete" THEN Gone
                                    ELSE events[i].content

\* ... and if there is none while a list is to be handed on, the list tells it.
ListCurrent ==
    mode = "sync" => \A o \in Objects : Quiet(o) => listed[o] = api[o]

ReflectorInv ==
    ReflectorTypeOK /\ OwnContents /\ NoEvents /\ LastEvents /\ ListCurrent

\* A state of an object is none that says that it is gone.
LEMMA ContentsExist == ASSUME NEW o \in Objects PROVE Gone \notin ContentsOf[o]
BY ReflectorAssumption DEF Contents

-----------------------------------------------------------------------------
\* A change of an object is an event about it, and about no other.
LEMMA ChangeEvent ==
    ASSUME ReflectorInv, mode # "list",
           NEW o \in Objects, NEW content \in Contents \union {Gone},
           Change(o, content)
    PROVE  \E e \in Event :
              /\ events' = Append(events, e)
              /\ e.object = o /\ e.content \in ContentsOf[o]
              /\ IF e.kind = "delete" THEN content = Gone /\ e.content = api[o]
                 ELSE content = e.content
              /\ Len(events) + 1 \in DOMAIN events' /\ events'[Len(events) + 1] = e
              /\ \A i \in DOMAIN events : /\ i \in DOMAIN events'
                                          /\ i < Len(events) + 1
                                          /\ events'[i] = events[i]
                                          /\ events[i] \in Event
              /\ \A i \in DOMAIN events' : i \in DOMAIN events \/ i = Len(events) + 1
<1>1. PICK e \in Event :
          /\ events' = Append(events, e)
          /\ e.object = o /\ e.content \in ContentsOf[o]
          /\ IF e.kind = "delete" THEN content = Gone /\ e.content = api[o]
             ELSE content = e.content
  <2> DEFINE e == IF content = Gone
                  THEN [kind |-> "delete", object |-> o, content |-> api[o]]
                  ELSE [kind |-> IF api[o] = Gone THEN "add" ELSE "update",
                        object |-> o, content |-> content]
  <2>1. events' = Append(events, e)
      BY DEF Change
  <2>2. content \in ContentsOf[o] \union {Gone} /\ content # api[o]
      BY DEF Change
  <2>3. api[o] \in ContentsOf[o] \union {Gone}
      BY DEF ReflectorInv, OwnContents
  <2>4. /\ e.object = o /\ e.content \in ContentsOf[o]
        /\ IF e.kind = "delete" THEN content = Gone /\ e.content = api[o]
           ELSE content = e.content
      BY <2>2, <2>3
  <2>5. e \in Event
      BY <2>2, <2>3 DEF Event, Contents
  <2> QED
      BY <2>1, <2>4, <2>5
<1>2. events \in Seq(Event)
    BY DEF ReflectorInv, ReflectorTypeOK
<1> QED
    BY <1>1, <1>2

LEMMA ChangeReflector ==
    ASSUME ReflectorInv,
           NEW o \in Objects, NEW content \in Contents \union {Gone},
           Change(o, content)
    PROVE  ReflectorInv'
<1> USE DEF ReflectorInv
<1>1. /\ api' \in [Objects -> Contents \union {Gone}]
      /\ \A p \in Objects : api'[p] \in ContentsOf[p] \union {Gone}
    BY DEF Change, ReflectorTypeOK, OwnContents
<1>2. changes' \in 0 .. MaxChanges
    BY ReflectorAssumption DEF Change, ReflectorTypeOK
<1>3. CASE mode = "list"
    BY <1>1, <1>2, <1>3
    DEF Change, ReflectorTypeOK, OwnContents, NoEvents, LastEvents, ListCurrent
<1>4. CASE mode # "list"
  <2>1. PICK e \in Event :
            /\ events' = Append(events, e)
            /\ e.object = o /\ e.content \in ContentsOf[o]
            /\ IF e.kind = "delete" THEN content = Gone /\ e.content = api[o]
               ELSE content = e.content
            /\ Len(events) + 1 \in DOMAIN events' /\ events'[Len(events) + 1] = e
            /\ \A i \in DOMAIN events : /\ i \in DOMAIN events'
                                        /\ i < Len(events) + 1
                                        /\ events'[i] = events[i]
                                        /\ events[i] \in Event
            /\ \A i \in DOMAIN events' : i \in DOMAIN events \/ i = Len(events) + 1
      BY <1>4, ChangeEvent
  <2>2. events' \in Seq(Event)
      BY <2>1 DEF ReflectorTypeOK
  <2>3. \A i \in DOMAIN events' : events'[i].content \in ContentsOf[events'[i].object]
      BY <2>1 DEF OwnContents
  <2>4. LastEvents'
    <3>1. ASSUME NEW i \in DOMAIN events,
                 \A j \in DOMAIN events' : j > i => events'[j].object # events'[i].object
          PROVE  api'[events'[i].object] = IF events'[i].kind = "delete" THEN Gone
                                           ELSE events'[i].content
      <4>1. events[i].object # o /\ events[i].object \in Objects
          BY <2>1, <3>1 DEF Event
      <4>2. \A j \in DOMAIN events : j > i => events[j].object # events[i].object
          BY <2>1, <3>1
      <4>3. api'[events[i].object] = api[events[i].object]
          BY <4>1 DEF Change, ReflectorTypeOK
      <4> QED
          BY <2>1, <4>2, <4>3 DEF LastEvents
    <3>2. api'[e.object] = IF e.kind = "delete" THEN Gone ELSE e.content
        BY <2>1 DEF Change, ReflectorTypeOK
    <3> QED
        BY <2>1, <3>1, <3>2 DEF LastEvents
  <2>5. ListCurrent'
      BY <2>1 DEF Change, ReflectorTypeOK, ListCurrent, Quiet
  <2> QED
      BY <1>1, <1>2, <1>4, <2>2, <2>3, <2>4, <2>5
      DEF Change, ReflectorTypeOK, OwnContents, NoEvents
<1> QED
    BY <1>3, <1>4

\* Only the object that changes stops being quiet.
LEMMA ChangeQuiet ==
    ASSUME ReflectorInv, mode # "list",
           NEW o \in Objects, NEW content \in Contents \union {Gone},
           Change(o, content), NEW p \in Objects, Quiet(p)'
    PROVE  p # o /\ Quiet(p) /\ api'[p] = api[p]
BY ChangeEvent DEF Change, ReflectorInv, ReflectorTypeOK, Quiet

-----------------------------------------------------------------------------
\* What is left of the events is what was there, one place further.
LEMMA ReceiveEvents ==
    ASSUME ReflectorInv, NEW kinds, Receive(kinds)
    PROVE  /\ events' \in Seq(Event)
           /\ 1 \in DOMAIN events /\ Head(events) = events[1]
           /\ events[1] \in Event /\ events[1].kind \in kinds
           /\ events[1].content \in ContentsOf[events[1].object]
           /\ \A i \in DOMAIN events' : i + 1 \in DOMAIN events /\ i \in Nat
                                        /\ events'[i] = events[i + 1]
           /\ \A i \in DOMAIN events : i # 1 => i - 1 \in DOMAIN events' /\ i \in Nat
                                        /\ events'[i - 1] = events[i]
BY DEF ReflectorInv, ReflectorTypeOK, OwnContents, Receive

LEMMA ReceiveReflector ==
    ASSUME ReflectorInv, NEW kinds, Receive(kinds) PROVE ReflectorInv'
<1> USE DEF ReflectorInv
<1>1. ReflectorTypeOK' /\ OwnContents' /\ NoEvents' /\ ListCurrent'
    BY ReceiveEvents
    DEF Receive, ReflectorTypeOK, OwnContents, NoEvents, ListCurrent
<1>2. LastEvents'
  <2> SUFFICES ASSUME NEW i \in DOMAIN events',
                      \A j \in DOMAIN events' : j > i =>
                          events'[j].object # events'[i].object
               PROVE  api'[events'[i].object] =
                          IF events'[i].kind = "delete" THEN Gone
                          ELSE events'[i].content
      BY DEF LastEvents
  <2>1. i + 1 \in DOMAIN events /\ events'[i] = events[i + 1] /\ i \in Nat
      BY ReceiveEvents
  <2>2. ASSUME NEW j \in DOMAIN events, j > i + 1
        PROVE  events[j].object # events[i + 1].object
    <3>1. j - 1 \in DOMAIN events' /\ j - 1 > i /\ events'[j - 1] = events[j]
        BY <2>1, <2>2, ReceiveEvents
    <3> QED
        BY <2>1, <3>1
  <2> QED
      BY <2>1, <2>2 DEF Receive, LastEvents
<1> QED
    BY <1>1, <1>2

\* The first event is the last about its object, or it is not.
LEMMA ReceiveQuiet ==
    ASSUME ReflectorInv, NEW kinds, Receive(kinds), NEW p \in Objects, Quiet(p)'
    PROVE  IF p = events[1].object
           THEN api[p] = IF events[1].kind = "delete" THEN Gone
                         ELSE events[1].content
           ELSE Quiet(p)
<1>1. \A j \in DOMAIN events : j # 1 => j \in Nat /\ events[j].object # p
  <2> SUFFICES ASSUME NEW j \in DOMAIN events, j # 1
               PROVE  j \in Nat /\ events[j].object # p
      OBVIOUS
  <2>1. j \in Nat /\ j - 1 \in DOMAIN events' /\ events'[j - 1] = events[j]
      BY ReceiveEvents
  <2> QED
      BY <2>1 DEF Quiet
<1>2. 1 \in DOMAIN events
    BY ReceiveEvents
<1>3. CASE p = events[1].object
  <2>1. \A j \in DOMAIN events : j > 1 => events[j].object # events[1].object
      BY <1>1, <1>3
  <2> QED
      BY <1>2, <1>3, <2>1 DEF ReflectorInv, LastEvents
<1>4. CASE p # events[1].object
    BY <1>1, <1>4 DEF Quiet
<1> QED
    BY <1>3, <1>4

-----------------------------------------------------------------------------
\* The reflector starts with nothing; its other steps take over a list or drop
\* what it has.
LEMMA InitReflector == ReflectorInit => ReflectorInv
<1>1. <<>> \in Seq(Event)
    OBVIOUS
<1> QED
    BY <1>1, ReflectorAssumption
    DEF ReflectorInit, ReflectorInv, ReflectorTypeOK, OwnContents, NoEvents,
        LastEvents, ListCurrent, NoObjects

LEMMA ListReflector == ASSUME ReflectorInv, List PROVE ReflectorInv'
BY DEF List, ReflectorInv, ReflectorTypeOK, OwnContents, NoEvents, LastEvents,
       ListCurrent

LEMMA SyncedReflector ==
    ASSUME ReflectorInv, NEW ok \in BOOLEAN, Synced(ok) PROVE ReflectorInv'
<1>1. <<>> \in Seq(Event)
    OBVIOUS
<1> QED
    BY <1>1
    DEF Synced, ReflectorInv, ReflectorTypeOK, OwnContents, NoEvents, LastEvents,
        ListCurrent, NoObjects

LEMMA StartOverReflector == ASSUME ReflectorInv, StartOver PROVE ReflectorInv'
<1>1. <<>> \in Seq(Event)
    OBVIOUS
<1> QED
    BY <1>1, ReflectorAssumption
    DEF StartOver, ReflectorInv, ReflectorTypeOK, OwnContents, NoEvents,
        LastEvents, ListCurrent, NoObjects

LEMMA RestReflector ==
    ASSUME ReflectorInv, UNCHANGED <<api, mode, listed, events, breaks>>,
           changes' \in 0 .. MaxChanges
    PROVE  ReflectorInv'
BY DEF ReflectorInv, ReflectorTypeOK, OwnContents, NoEvents, LastEvents,
       ListCurrent, Quiet


-----------------------------------------------------------------------------
(***************************************************************************)
(* Lists of all objects, in any order.                                     *)
(***************************************************************************)

\* Induction: a set of numbers that is not empty has a first one.
LEMMA LessIsWellFounded ==
    \E R : IsWellFoundedOn(R, Nat) /\ \A x, y \in Nat : y < x => <<y, x>> \in R
<1>1. IsWellFoundedOn(OpToRel(<, Nat), Nat)
    BY NatLessThanWellFounded
<1>2. \A x, y \in Nat : y < x => <<y, x>> \in OpToRel(<, Nat)
    BY DEF OpToRel
<1> QED
    BY <1>1, <1>2, Zenon

LEMMA First ==
    ASSUME NEW S, S \subseteq Nat, S # {}
    PROVE  \E n \in S : \A m \in S : ~ m < n
<1>1. PICK R : IsWellFoundedOn(R, Nat) /\ \A x, y \in Nat : y < x => <<y, x>> \in R
    BY LessIsWellFounded
<1>2. \E x \in S : \A y \in S : ~ <<y, x>> \in R
    BY <1>1, WFMin
<1> QED
    BY <1>1, <1>2

\* A set that holds 0, and each number after one that it holds.
Climbs(n, S) == 0 \in S /\ \A k \in 1 .. n : k - 1 \in S => k \in S

LEMMA Induction ==
    ASSUME NEW n \in Nat, NEW S, Climbs(n, S)
    PROVE  0 .. n \subseteq S
<1> DEFINE Missing == {k \in 0 .. n : k \notin S}
<1>1. ASSUME NEW k \in Missing, \A m \in Missing : ~ m < k PROVE FALSE
  <2>1. k \in 1 .. n /\ k - 1 \in 0 .. n /\ k - 1 < k
      BY DEF Climbs
  <2>2. k - 1 \in S
      BY <1>1, <2>1
  <2> QED
      BY <2>1, <2>2 DEF Climbs
<1>2. Missing \subseteq Nat
    OBVIOUS
<1> HIDE DEF Missing
<1>3. Missing = {}
    BY <1>1, <1>2, First
<1> QED
    BY <1>3 DEF Missing

\* Two functions that start alike and go on alike are alike.
GoOnAlike(n, f, g) == \A k \in 1 .. n : f[k - 1] = g[k - 1] => f[k] = g[k]

LEMMA Alike ==
    ASSUME NEW n \in Nat, NEW f, NEW g, f[0] = g[0], GoOnAlike(n, f, g)
    PROVE  f[n] = g[n]
<1> DEFINE Same == {k \in 0 .. n : f[k] = g[k]}
<1>1. Climbs(n, Same)
    BY DEF Climbs, GoOnAlike
<1>2. 0 .. n \subseteq Same
    BY <1>1, Induction
<1> QED
    BY <1>2

\* An order of a finite set has each of its elements once.
LEMMA OrderHasAll ==
    ASSUME NEW S, IsFiniteSet(S), NEW order \in SetToSeqs(S)
    PROVE  /\ order \in Seq(S)
           /\ \A i, j \in 1 .. Len(order) : i # j => order[i] # order[j]
           /\ \A o \in S : \E i \in 1 .. Len(order) : order[i] = o
<1> DEFINE n == Cardinality(S)
<1>1. n \in Nat
    BY FS_CardinalityType
<1>2. /\ order \in [1 .. n -> S]
      /\ \A i, j \in 1 .. n : i # j => order[i] # order[j]
    BY DEF SetToSeqs
<1> HIDE DEF n
<1>3. order \in Injection(1 .. n, S)
    BY <1>2 DEF Injection, IsInjective
<1>4. Cardinality(1 .. n) = n
    BY <1>1, FS_Interval
<1>5. order \in Surjection(1 .. n, S)
    BY <1>3, <1>4, FS_Injection DEF n
<1>6. \A o \in S : \E i \in 1 .. n : order[i] = o
    BY <1>5 DEF Surjection
<1>7. order \in Seq(S) /\ Len(order) = n
    BY <1>1, <1>2
<1> QED
    BY <1>2, <1>6, <1>7
=============================================================================
