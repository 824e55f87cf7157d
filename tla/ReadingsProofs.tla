---------------------------- MODULE ReadingsProofs ----------------------------
(***************************************************************************)
(* Proofs about Readings, for any messages, pages and length of queue.     *)
(***************************************************************************)
EXTENDS Readings, SequenceTheorems, FiniteSetTheorems, TLAPS

(***************************************************************************)
(* The strengthening says what holds between the statements of Process:    *)
(* there is a message under way, MQTT has been given it before it is       *)
(* remembered, and what is remembered when it is broadcast is that message *)
(* or, if a page connected meanwhile, nothing.                             *)
(***************************************************************************)
MessageUnderWay == step # "idle" => message \in Messages

HandedFirst == step = "remember" /\ ~early => handed = message

RememberedOrForgotten == step = "broadcast" => last \in {message, None}

IInv ==
    /\ TypeOK
    /\ MessageUnderWay
    /\ HandedFirst
    /\ RememberedOrForgotten
    /\ PagesWereSent
    /\ LastWasHanded

-----------------------------------------------------------------------------
(***************************************************************************)
(* What the last message sent to a page is, after the steps that change it *)
(***************************************************************************)
\* A message put into a queue is the last one sent.
LEMMA SentByAppend ==
    ASSUME NEW q \in Seq(Messages), NEW m \in Messages
    PROVE  /\ Append(q, m) \in Seq(Messages)
           /\ Len(Append(q, m)) = Len(q) + 1
           /\ Append(q, m) # <<>>
           /\ Append(q, m)[Len(Append(q, m))] = m
OBVIOUS

\* Taking a message from a queue leaves its last message where it was, or takes it.
LEMMA SentByTake ==
    ASSUME NEW q \in Seq(Messages), q # <<>>
    PROVE  /\ Head(q) \in Messages
           /\ Tail(q) \in Seq(Messages)
           /\ Len(Tail(q)) = Len(q) - 1
           /\ Tail(q) = <<>> => Head(q) = q[Len(q)]
           /\ Tail(q) # <<>> => Tail(q)[Len(Tail(q))] = q[Len(q)]
<1>1. Len(q) \in Nat \ {0}
    BY EmptySeq
<1>2. /\ Head(q) \in Messages
      /\ Tail(q) \in Seq(Messages)
      /\ Len(Tail(q)) = Len(q) - 1
      /\ \A i \in 1 .. Len(Tail(q)) : Tail(q)[i] = q[i + 1]
    BY HeadTailProperties
<1>3. CASE Tail(q) = <<>>
    <2>1. Len(q) = 1
        <3>1. Len(Tail(q)) = 0
            BY <1>3, EmptySeq
        <3>2. Len(q) - 1 = 0
            BY <1>2, <3>1
        <3>3. QED
            BY <1>1, <3>2
    <2>2. Head(q) = q[1]
        BY <1>1
    <2>3. QED
        BY <1>2, <1>3, <2>1, <2>2
<1>4. CASE Tail(q) # <<>>
    <2>1. Len(Tail(q)) \in 1 .. Len(Tail(q))
        BY <1>2, <1>4, EmptySeq
    <2>2. Tail(q)[Len(Tail(q))] = q[Len(Tail(q)) + 1]
        BY <1>2, <2>1
    <2>3. QED
        BY <1>1, <1>2, <1>4, <2>2
<1>5. QED
    BY <1>3, <1>4

-----------------------------------------------------------------------------
LEMMA Initially == Init => IInv
<1> SUFFICES ASSUME Init
             PROVE  IInv
    OBVIOUS
<1>1. <<>> \in Seq(Messages) /\ Len(<<>>) = 0
    BY EmptySeq
<1>2. \A p \in Pages : Len(queue[p]) <= QueueLength
    BY <1>1, QueueAssumption DEF Init
<1>3. TypeOK
    BY <1>1, <1>2 DEF Init, TypeOK, Steps, PageStates
<1>4. QED
    BY <1>3 DEF Init, IInv, MessageUnderWay, HandedFirst, RememberedOrForgotten,
                PagesWereSent, LastWasHanded

\* The statements of Process that leave the pages alone
LEMMA ProcessStep ==
    ASSUME IInv, Snapshot \/ Announce \/ Publish \/ Remember
    PROVE  IInv'
<1> USE DEF IInv, TypeOK, Steps, After, loopVars, mqttVars, pageVars
<1>1. TypeOK'
    BY DEF Snapshot, Announce, Publish, Remember, MessageUnderWay
<1>2. MessageUnderWay'
    BY DEF Snapshot, Announce, Publish, Remember, MessageUnderWay
<1>3. HandedFirst'
    BY DEF Snapshot, Announce, Publish, Remember, HandedFirst
<1>4. RememberedOrForgotten'
    BY DEF Snapshot, Announce, Publish, Remember, RememberedOrForgotten
<1>5. PagesWereSent'
    BY DEF Snapshot, Announce, Publish, Remember, PagesWereSent, Sent
<1>6. LastWasHanded'
    BY DEF Snapshot, Announce, Publish, Remember, LastWasHanded, HandedFirst
<1>7. QED
    BY <1>1, <1>2, <1>3, <1>4, <1>5, <1>6

\* The message goes to every page that is counted and has room for it.
LEMMA BroadcastStep ==
    ASSUME IInv, Broadcast
    PROVE  IInv'
<1> USE DEF IInv, TypeOK
<1>1. message \in Messages /\ step = "broadcast" /\ step' = "idle"
    BY DEF Broadcast, After, MessageUnderWay
<1>2. ASSUME NEW p \in Pages
      PROVE  /\ queue'[p] \in Seq(Messages)
             /\ Len(queue'[p]) <= QueueLength
             /\ page[p] = "open" /\ ~missed'[p] => Sent(p)' = message
    <2>1. CASE p \in Connected /\ ~Full(p)
        <3>1. queue'[p] = Append(queue[p], message)
            BY <2>1 DEF Broadcast
        <3>2. Len(queue[p]) \in Nat /\ Len(queue[p]) < QueueLength
            BY <2>1, QueueAssumption DEF Full
        <3>3. QED
            BY <1>1, <3>1, <3>2, SentByAppend, QueueAssumption DEF Sent
    <2>2. CASE ~(p \in Connected /\ ~Full(p))
        <3>1. queue'[p] = queue[p]
            BY <2>2 DEF Broadcast
        <3>2. page[p] = "open" => missed'[p]
            BY <2>2 DEF Broadcast, Connected
        <3>3. QED
            BY <3>1, <3>2
    <2>3. QED
        BY <2>1, <2>2
<1>3. TypeOK'
    <2>1. queue' \in [Pages -> Seq(Messages)] /\ missed' \in [Pages -> BOOLEAN]
        BY <1>2 DEF Broadcast
    <2>2. QED
        BY <1>1, <1>2, <2>1 DEF Broadcast, Steps, mqttVars
<1>4. PagesWereSent'
    BY <1>1, <1>2 DEF Broadcast, PagesWereSent, RememberedOrForgotten
<1>5. MessageUnderWay' /\ HandedFirst' /\ RememberedOrForgotten'
    BY <1>1 DEF MessageUnderWay, HandedFirst, RememberedOrForgotten
<1>6. LastWasHanded'
    BY <1>1 DEF Broadcast, LastWasHanded, mqttVars
<1>7. QED
    BY <1>3, <1>4, <1>5, <1>6

\* A page is admitted, counted, greeted, or closed.
LEMMA PageStep ==
    ASSUME IInv, NEW p \in Pages, Admit(p) \/ Count(p) \/ Greet(p) \/ Close(p)
    PROVE  IInv'
<1> USE DEF IInv, TypeOK, PageStates, loopVars, mqttVars
<1>1. TypeOK'
    <2>1. CASE Close(p)
        <3>1. queue' \in [Pages -> Seq(Messages)]
            BY <2>1, EmptySeq DEF Close
        <3>2. \A r \in Pages : Len(queue'[r]) <= QueueLength
            BY <2>1, EmptySeq, QueueAssumption DEF Close
        <3>3. QED
            BY <2>1, <3>1, <3>2 DEF Close
    <2>2. CASE Admit(p) \/ Count(p) \/ Greet(p)
        BY <2>2 DEF Admit, Count, Greet
    <2>3. QED
        BY <2>1, <2>2
<1>2. MessageUnderWay' /\ HandedFirst' /\ RememberedOrForgotten' /\ LastWasHanded'
    BY DEF Admit, Count, Greet, Close, MessageUnderWay, HandedFirst,
           RememberedOrForgotten, LastWasHanded
<1>3. PagesWereSent'
    BY DEF Admit, Count, Greet, Close, PagesWereSent, Sent
<1>4. QED
    BY <1>1, <1>2, <1>3

LEMMA TakeStep ==
    ASSUME IInv, NEW p \in Pages, Take(p)
    PROVE  IInv'
<1> USE DEF IInv, TypeOK, Take, loopVars, mqttVars
<1>1. queue[p] \in Seq(Messages) /\ queue[p] # <<>>
    OBVIOUS
<1>2. /\ queue'[p] = Tail(queue[p])
      /\ shown'[p] = Head(queue[p])
      /\ \A r \in Pages \ {p} : queue'[r] = queue[r] /\ shown'[r] = shown[r]
    OBVIOUS
<1>3. TypeOK'
    <2>1. shown' \in [Pages -> Messages \cup {None}]
        BY <1>1, SentByTake
    <2>2. queue' \in [Pages -> Seq(Messages)]
        BY <1>1, SentByTake
    <2>3. \A r \in Pages : Len(queue'[r]) <= QueueLength
        BY <1>1, <1>2, SentByTake, QueueAssumption
    <2>4. QED
        BY <2>1, <2>2, <2>3
<1>4. \A r \in Pages : Sent(r)' = Sent(r)
    BY <1>1, <1>2, SentByTake DEF Sent
<1>5. PagesWereSent'
    BY <1>4 DEF PagesWereSent
<1>6. MessageUnderWay' /\ HandedFirst' /\ RememberedOrForgotten' /\ LastWasHanded'
    BY DEF MessageUnderWay, HandedFirst, RememberedOrForgotten, LastWasHanded
<1>7. QED
    BY <1>3, <1>5, <1>6

\* The inputs, the network and the MQTT client, and steps of none of these
LEMMA OtherStep ==
    ASSUME IInv,
           \/ \E m \in Messages : ChangeLevel(m)
           \/ ChangeNetwork
           \/ ConnectToMQTTServer
           \/ UNCHANGED vars
    PROVE  IInv'
<1> USE DEF IInv, ChangeLevel, ChangeNetwork, ConnectToMQTTServer, vars, loopVars,
            mqttVars, pageVars
<1>1. TypeOK'
    BY DEF TypeOK
<1>2. MessageUnderWay' /\ HandedFirst' /\ RememberedOrForgotten' /\ LastWasHanded'
    BY DEF MessageUnderWay, HandedFirst, RememberedOrForgotten, LastWasHanded
<1>3. PagesWereSent'
    BY DEF PagesWereSent, Sent
<1>4. QED
    BY <1>1, <1>2, <1>3

\* IInv is inductive: what Process has done with the message under way, and what the
\* pages and MQTT have been given of the one it remembers.
THEOREM Invariance == Spec => []IInv
<1>1. IInv /\ [Next]_vars => IInv'
    <2> SUFFICES ASSUME IInv, [Next]_vars
                 PROVE  IInv'
        OBVIOUS
    <2>1. CASE Process
        BY <2>1, ProcessStep, BroadcastStep DEF Process
    <2>2. ASSUME NEW p \in Pages, Admit(p) \/ Count(p) \/ Greet(p) \/ Take(p) \/ Close(p)
          PROVE  IInv'
        BY <2>2, PageStep, TakeStep
    <2>3. CASE \/ \E m \in Messages : ChangeLevel(m)
               \/ ChangeNetwork
               \/ ConnectToMQTTServer
               \/ UNCHANGED vars
        BY <2>3, OtherStep
    <2>4. QED
        BY <2>1, <2>2, <2>3 DEF Next
<1>2. QED
    BY Initially, <1>1, PTL DEF Spec

-----------------------------------------------------------------------------
\* The variables of Process, the pages and their queues keep their types: a queue
\* never grows beyond its length.
THEOREM TypeCorrect == Spec => []TypeOK
<1>1. IInv => TypeOK
    BY DEF IInv
<1>2. QED
    BY Invariance, <1>1, PTL

\* While Process remembers a message, every open page was sent it or had a full queue,
\* for any number of pages that connect at any point of Process.
THEOREM EveryPageWasSent == Spec => []PagesWereSent
<1>1. IInv => PagesWereSent
    BY DEF IInv
<1>2. QED
    BY Invariance, <1>1, PTL

\* What Process remembers as published was handed to MQTT, if there was a client.
THEOREM LastMessageWasHanded == Spec => []LastWasHanded
<1>1. IInv => LastWasHanded
    BY DEF IInv
<1>2. QED
    BY Invariance, <1>1, PTL
-----------------------------------------------------------------------------
(***************************************************************************)
(* The number of pages.  The middleware counts the clients when it admits  *)
(* a request, not when the handshake makes it a client; with one handshake *)
(* at a time that comes to the same.                                       *)
(***************************************************************************)
Admitted == {p \in Pages : page[p] = "admitted"}

\* No page is admitted while the handshake of another is under way.
OneHandshake == \A p, r \in Admitted : p = r

\* A page that is still to be counted was admitted next to one client at most.
RoomForAdmitted ==
    /\ AtMostTwoPages
    /\ Admitted # {} => Cardinality(Connected) <= 1

\* What is connected is finite, and one page makes a difference of one at most.
LEMMA ConnectedAdd ==
    ASSUME IsFiniteSet(Pages), NEW p \in Pages, Connected' = Connected \cup {p}
    PROVE  /\ Cardinality(Connected') <= Cardinality(Connected) + 1
           /\ Cardinality(Connected) \in Nat /\ Cardinality(Connected') \in Nat
<1>1. IsFiniteSet(Connected)
    BY FS_Subset DEF Connected
<1>2. /\ IsFiniteSet(Connected \cup {p})
      /\ Cardinality(Connected \cup {p})
             = IF p \in Connected THEN Cardinality(Connected) ELSE Cardinality(Connected) + 1
    BY <1>1, FS_AddElement
<1>3. Cardinality(Connected) \in Nat /\ Cardinality(Connected \cup {p}) \in Nat
    BY <1>1, <1>2, FS_CardinalityType
<1> QED
    BY <1>2, <1>3

LEMMA ConnectedRemove ==
    ASSUME IsFiniteSet(Pages), Connected' \subseteq Connected
    PROVE  /\ Cardinality(Connected') <= Cardinality(Connected)
           /\ Cardinality(Connected) \in Nat /\ Cardinality(Connected') \in Nat
<1>1. IsFiniteSet(Connected)
    BY FS_Subset DEF Connected
<1>2. IsFiniteSet(Connected') /\ Cardinality(Connected') <= Cardinality(Connected)
    BY <1>1, FS_Subset
<1> QED
    BY <1>1, <1>2, FS_CardinalityType

\* A step that counts no page.
LEMMA NotCounted ==
    ASSUME IsFiniteSet(Pages), RoomForAdmitted, Connected' \subseteq Connected,
           Admitted' \subseteq Admitted \/ Cardinality(Connected) <= 1
    PROVE  RoomForAdmitted'
BY ConnectedRemove DEF RoomForAdmitted, AtMostTwoPages

LEMMA RoomStep ==
    ASSUME IsFiniteSet(Pages), TypeOK, OneHandshake, RoomForAdmitted, [Next]_vars
    PROVE  RoomForAdmitted'
<1> USE DEF TypeOK
<1>1. CASE UNCHANGED page
    BY <1>1, NotCounted DEF Connected, Admitted
<1>2. ASSUME NEW p \in Pages, Admit(p)
      PROVE  RoomForAdmitted'
    <2>1. Connected' \subseteq Connected /\ Cardinality(Connected) <= 1
        BY <1>2 DEF Admit, Connected
    <2> QED
        BY <2>1, NotCounted
<1>3. ASSUME NEW p \in Pages, Greet(p) \/ Close(p)
      PROVE  RoomForAdmitted'
    <2>1. Connected' \subseteq Connected /\ Admitted' \subseteq Admitted
        BY <1>3 DEF Greet, Close, Connected, Admitted
    <2> QED
        BY <2>1, NotCounted
<1>4. ASSUME NEW p \in Pages, Count(p)
      PROVE  RoomForAdmitted'
    <2>1. p \in Admitted /\ Connected' = Connected \cup {p} /\ Admitted' = Admitted \ {p}
        BY <1>4 DEF Count, Connected, Admitted
    <2>2. Admitted' = {}
        BY <2>1 DEF OneHandshake
    <2>3. Cardinality(Connected) <= 1
        BY <2>1 DEF RoomForAdmitted
    <2>4. /\ Cardinality(Connected') <= Cardinality(Connected) + 1
          /\ Cardinality(Connected) \in Nat /\ Cardinality(Connected') \in Nat
        <3>1. Connected' = Connected \cup {p}
            BY <2>1
        <3> HIDE DEF TypeOK
        <3> QED
            BY <3>1, ConnectedAdd
    <2>5. Cardinality(Connected') <= 2
        BY <2>3, <2>4
    <2> QED
        BY <2>2, <2>5 DEF RoomForAdmitted, AtMostTwoPages
<1>5. CASE Process \/ (\E m \in Messages : ChangeLevel(m)) \/ ChangeNetwork \/ ConnectToMQTTServer
    <2>1. UNCHANGED page
        BY <1>5 DEF Process, Snapshot, Announce, Publish, Remember, Broadcast, ChangeLevel,
                    ChangeNetwork, ConnectToMQTTServer, pageVars
    <2> QED
        BY <2>1, <1>1
<1>6. ASSUME NEW p \in Pages, Take(p)
      PROVE  RoomForAdmitted'
    BY <1>6, <1>1 DEF Take
<1>7. CASE UNCHANGED vars
    BY <1>7, <1>1 DEF vars, pageVars
<1> QED
    BY <1>2, <1>3, <1>4, <1>5, <1>6, <1>7 DEF Next

\* "if we have 2 clients or more, prevent the next one to connect" (PLC.cpp:166): for
\* any number of pages it holds as long as no page asks while the handshake of another
\* is under way.  (When two do, it does not: the run readings_limit.)
THEOREM LimitWithoutOverlap ==
    ASSUME IsFiniteSet(Pages)
    PROVE  Spec /\ []OneHandshake => []AtMostTwoPages
<1>1. Init => RoomForAdmitted
    <2> SUFFICES ASSUME Init
                 PROVE  RoomForAdmitted
        OBVIOUS
    <2>1. Connected = {} /\ Admitted = {}
        BY DEF Init, Connected, Admitted
    <2>2. Cardinality(Connected) = 0
        BY <2>1, FS_EmptySet
    <2> QED
        BY <2>1, <2>2 DEF RoomForAdmitted, AtMostTwoPages
<1>2. TypeOK /\ OneHandshake /\ RoomForAdmitted /\ [Next]_vars => RoomForAdmitted'
    BY RoomStep
<1>3. RoomForAdmitted => AtMostTwoPages
    BY DEF RoomForAdmitted
<1> QED
    BY <1>1, <1>2, <1>3, TypeCorrect, PTL DEF Spec
=============================================================================
